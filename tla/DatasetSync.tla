---------------------------- MODULE DatasetSync ----------------------------
(***************************************************************************)
(* The block cache of local datasets of the on-prem runtime:               *)
(* DatasetSyncCache of core/dataset_sync.py, the WebSocket handler of      *)
(* api/dataset_routes.py and IncrementalLocalDatasetProvider.load of       *)
(* core/datasets.py, for one (user_id, dataset_id) key.                    *)
(*                                                                         *)
(* The two sides and their columns are one sequence of block positions.    *)
(* A block is a model value and is its own SHA-256; a fingerprint is the   *)
(* record it digests.  Each call into the cache runs on the event loop     *)
(* without suspending; sessions interleave where they await the client.    *)
(***************************************************************************)
EXTENDS Naturals, Sequences, FiniteSets

CONSTANTS
    Session,      \* clients that synchronise this dataset, again and again
    Job,          \* training jobs whose bundle names a fingerprint of it
    Header,       \* dataset headers
    Content,      \* non-empty blocks
    Version,      \* the states the clients' dataset may be in
    NoHash,       \* the hash "" and the block b"" of a position never filled
    NoFp,         \* the fingerprint "" of an entry never synchronised
    NoHeader,     \* the header {} of an entry never prepared
    MaxRestarts   \* bound: how often the process may die and come back

\* "md5" stands for any algorithm but sha256: its hashes are never recomputed.
Algo == {"sha256", "md5"}

ASSUME VersionAssumption ==
    /\ Version # {}
    /\ Version \subseteq [header : Header, algo : Algo, blocks : Seq(Content)]
ASSUME NoHashAssumption == NoHash \notin Content
ASSUME MaxRestartsAssumption == MaxRestarts \in Nat

Slot  == Content \cup {NoHash}
Digest == [header : Header \cup {NoHeader}, algo : Algo \cup {"none"},
          hashes : Seq(Slot)]
ASSUME NoFpAssumption == NoFp \notin Digest

\* _DatasetEntry.  The algorithm "none" says that the key has no entry.
Entry == [header : Header \cup {NoHeader}, algo : Algo \cup {"none"},
          hashes : Seq(Slot), blocks : Seq(Slot), pending : Seq(Slot),
          fp : Digest \cup {NoFp}]

VARIABLES
    entry,     \* the cache's entry of the key
    disk,      \* the entry its JSON file would load as
    session,   \* the synchronisation sessions
    latest,    \* history: the fingerprint a client was told last
    loaded,    \* history: whether a job trained on the dataset it named
    restarts   \* how often the process has died

vars == <<entry, disk, session, latest, loaded, restarts>>

NewEntry(algo) == [header |-> NoHeader, algo |-> algo, hashes |-> <<>>,
                   blocks |-> <<>>, pending |-> <<>>, fp |-> NoFp]

\* _fingerprint
Fingerprint(e) == [header |-> e.header, algo |-> e.algo, hashes |-> e.hashes]

\* superseded: another session announced a version while this one was sending.
Syncing == [pc : {"idle", "sending", "ok", "failed"}, superseded : BOOLEAN,
            version : Version, need : SUBSET Nat, sent : SUBSET Nat,
            ack : Digest \cup {NoFp}]

\* A session that has not begun, or has ended with an error.
NoSync(pc) == [pc |-> pc, superseded |-> FALSE, version |-> CHOOSE v \in Version : TRUE,
               need |-> {}, sent |-> {}, ack |-> NoFp]

\* Every slot has its hash, its block and the hash the client announced.
Aligned(e) == Len(e.hashes) = Len(e.pending) /\ Len(e.blocks) = Len(e.pending)

TypeOK ==
    /\ entry \in Entry /\ Aligned(entry)
    /\ disk \in Entry /\ Aligned(disk)
    /\ session \in [Session -> Syncing]
    /\ latest \in Digest \cup {NoFp}
    /\ loaded \in [Job -> {"nothing", "named", "other"}]
    /\ restarts \in 0..MaxRestarts

Init ==
    /\ entry = NewEntry("none")
    /\ disk = NewEntry("none")
    /\ session = [s \in Session |-> NoSync("idle")]
    /\ latest = NoFp
    /\ loaded = [j \in Job |-> "nothing"]
    /\ restarts = 0

-----------------------------------------------------------------------------
(* prepare_sync *)

\* Fault: the cached column is padded but not cut.
ResizeUncut(slots, n) ==
    [p \in 1..(IF n < Len(slots) THEN Len(slots) ELSE n) |->
        IF p <= Len(slots) THEN slots[p] ELSE NoHash]
\* _resize_side: cut at the client's length, pad with empty slots.
Resize(slots, n) ==
    [p \in 1..n |-> IF p <= Len(slots) THEN slots[p] ELSE NoHash]

\* Fault: a change of the algorithm keeps the entry.
BaseAnyAlgo(algo) == IF entry.algo # "none" THEN entry ELSE NewEntry(algo)
\* The entry is replaced when there is none or the algorithm changes.
Base(algo) == IF entry.algo = algo THEN entry ELSE NewEntry(algo)

\* The fingerprint stays that of the previous synchronisation.
Prepared(v) ==
    [header |-> v.header, algo |-> v.algo,
     hashes |-> Resize(Base(v.algo).hashes, Len(v.blocks)),
     blocks |-> Resize(Base(v.algo).blocks, Len(v.blocks)),
     pending |-> v.blocks,
     fp |-> Base(v.algo).fp]

Missing(e) == {p \in 1..Len(e.pending) : e.hashes[p] # e.pending[p]}

Announced(v) == [pc |-> "sending", superseded |-> FALSE, version |-> v,
                 need |-> Missing(Prepared(v)), sent |-> {}, ack |-> NoFp]

\* A client announces version v; the server keeps it and answers the need map.
PrepareSync(s, v) ==
    /\ session[s].pc # "sending"
    /\ entry' = Prepared(v)
    /\ session' = [t \in Session |-> IF t = s THEN Announced(v) ELSE
           [session[t] EXCEPT !.superseded = @ \/ session[t].pc = "sending"]]
    /\ UNCHANGED <<disk, latest, loaded, restarts>>

-----------------------------------------------------------------------------
(* apply_frames *)

\* The client sends a needed block when its dataset, which may have been edited
\* since it was announced, still has one there.
Frames(s, now) == {p \in session[s].need : p <= Len(now.blocks)}

Refused(now, p) ==
    \/ p > Len(entry.pending)
    \/ entry.algo = "sha256" /\ now.blocks[p] # entry.pending[p]

\* Frames are applied in order up to the first refused one.
Applied(s, now) ==
    {p \in Frames(s, now) : \A q \in Frames(s, now) : q <= p => ~Refused(now, q)}

Filled(s, now) == [entry EXCEPT
    !.hashes = [p \in DOMAIN entry.hashes |->
                  IF p \in Applied(s, now) THEN entry.pending[p] ELSE entry.hashes[p]],
    !.blocks = [p \in DOMAIN entry.blocks |->
                  IF p \in Applied(s, now) THEN now.blocks[p] ELSE entry.blocks[p]]]

\* Fault: nothing sent, nothing digested.
SyncedIfSent(s, now) ==
    IF Frames(s, now) = {} THEN Filled(s, now)
    ELSE [Filled(s, now) EXCEPT !.fp = Fingerprint(Filled(s, now))]
Synced(s, now) ==
    [Filled(s, now) EXCEPT !.fp = Fingerprint(Filled(s, now))]

\* Faults: the announced hashes, or the header, are not restored.
RecordNotPending(e) == [e EXCEPT !.pending = <<>>]
RecordNoHeader(e) == [e EXCEPT !.pending = e.hashes, !.header = NoHeader]
\* What _entry_from_record makes of the file _persist_entry writes.
Record(e) == [e EXCEPT !.pending = e.hashes]

\* A refused frame raises: earlier frames stay, the fingerprint is not renewed.
RejectFrames(s, now) ==
    /\ session[s].pc = "sending"
    /\ Applied(s, now) # Frames(s, now)
    /\ entry' = Filled(s, now)
    /\ session' = [session EXCEPT ![s] = NoSync("failed")]
    /\ UNCHANGED <<disk, latest, loaded, restarts>>

ApplyFrames(s, now) ==
    /\ session[s].pc = "sending"
    /\ Applied(s, now) = Frames(s, now)
    /\ entry' = Synced(s, now)
    /\ disk' = Record(Synced(s, now))
    /\ session' = [session EXCEPT ![s].pc = "ok", ![s].sent = Frames(s, now),
                                  ![s].ack = Synced(s, now).fp]
    /\ latest' = Synced(s, now).fp
    /\ UNCHANGED <<loaded, restarts>>

\* _persist_entry raises (disk full, permissions): the memory keeps the result,
\* the file its old content, and the client is told of an error.
FailPersist(s, now) ==
    /\ session[s].pc = "sending"
    /\ Applied(s, now) = Frames(s, now)
    /\ entry' = Synced(s, now)
    /\ session' = [session EXCEPT ![s] = NoSync("failed")]
    /\ UNCHANGED <<disk, latest, loaded, restarts>>

\* The client leaves before __end__: receive raises, nothing is applied.
Disconnect(s) ==
    /\ session[s].pc = "sending"
    /\ session' = [session EXCEPT ![s] = NoSync("failed")]
    /\ UNCHANGED <<entry, disk, latest, loaded, restarts>>

-----------------------------------------------------------------------------
(* Training and restarts *)

\* IncrementalLocalDatasetProvider.load: a bundle naming another fingerprint, or
\* any while the entry has none, is refused.
LoadDataset(j) ==
    /\ loaded[j] = "nothing" /\ entry.fp # NoFp
    /\ loaded' = [loaded EXCEPT ![j] =
                     IF Fingerprint(entry) = entry.fp THEN "named" ELSE "other"]
    /\ UNCHANGED <<entry, disk, session, latest, restarts>>

\* The process dies and comes back with what _load_persisted_entries reads.
Restart ==
    /\ restarts < MaxRestarts
    /\ restarts' = restarts + 1
    /\ entry' = disk
    /\ session' = [s \in Session |->
                     IF session[s].pc = "sending" THEN NoSync("failed") ELSE session[s]]
    /\ UNCHANGED <<disk, latest, loaded>>

Serve(s) ==
    \/ \E v \in Version : PrepareSync(s, v)
    \/ \E now \in Version : \/ RejectFrames(s, now)
                            \/ ApplyFrames(s, now)
                            \/ FailPersist(s, now)
    \/ Disconnect(s)

Next ==
    \/ \E s \in Session : Serve(s)
    \/ \E j \in Job : LoadDataset(j)
    \/ Restart

Spec == Init /\ [][Next]_vars

-----------------------------------------------------------------------------
(* Properties *)

\* Under sha256 a stored block always hashes to the stored hash, in memory and
\* on disk, whatever the sessions announced, edited and interleaved before; a
\* slot without a hash is empty under any algorithm.
Verified(e) == \A p \in DOMAIN e.hashes :
    /\ e.hashes[p] = NoHash => e.blocks[p] = NoHash
    /\ e.algo = "sha256" => e.hashes[p] = e.blocks[p]
BlockIntegrity == Verified(entry) /\ Verified(disk)

\* The fingerprint a client was told last is the one the file carries, over the
\* very hashes and header it digests: a restart serves what was acknowledged.
AckedIsDurable ==
    /\ disk.fp = latest
    /\ disk.fp # NoFp => disk.fp = Fingerprint(disk)

\* Once every session has ended well, the fingerprint describes the entry.
CurrentWhenQuiet ==
    (\A s \in Session : session[s].pc \in {"idle", "ok"}) =>
        entry.fp \in {NoFp, Fingerprint(entry)}

\* "ok" to a client that sent all it was asked for means that the runtime holds
\* its version, header and hashes, unless another session announced one meanwhile.
AckMeansSynced == \A s \in Session :
    /\ session[s].pc = "ok" /\ session[s].need = session[s].sent
    /\ ~session[s].superseded
    => session[s].ack = [header |-> session[s].version.header,
                         algo |-> session[s].version.algo,
                         hashes |-> session[s].version.blocks]

\* Training that names a fingerprint gets the dataset with that fingerprint.
LoadedMatchesRef == \A j \in Job : loaded[j] # "other"
=============================================================================
