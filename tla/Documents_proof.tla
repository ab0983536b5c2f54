--------------------------- MODULE Documents_proof ---------------------------
(* The components that keep documents, for any of their constants: what each  *)
(* of them promises in MCDocuments, proved of its own specification.          *)
EXTENDS MCDocuments, FiniteSetTheorems, SequenceTheorems, TLAPS

-----------------------------------------------------------------------------
(* The dataset cache: it never stores a block that does not hash to its stored *)
(* hash, and has on disk what it acknowledged last.                            *)

\* While a session waits for frames the announced hashes are real ones: only an
\* entry read back from disk may list "" as announced, and no session outlives
\* the restart that read it.
AnnouncedInv ==
    (\E s \in Session : session[s].pc = "sending") => entry.pending \in Seq(Content)

\* What a waiting session that was not superseded relies on: the entry describes
\* its version, and every position it does not send is already filled.
Expects(s) ==
    /\ entry.header = session[s].version.header
    /\ entry.algo = session[s].version.algo
    /\ entry.pending = session[s].version.blocks
    /\ \A p \in (1..Len(entry.pending)) \ session[s].need : entry.hashes[p] = entry.pending[p]
ExpectInv == \A s \in Session :
    session[s].pc = "sending" /\ ~session[s].superseded => Expects(s)

SyncInv == ExpectInv /\ AckMeansSynced

IInv == TypeOK /\ BlockIntegrity /\ AckedIsDurable /\ AnnouncedInv

Good(e) == e \in Entry /\ Aligned(e) /\ Verified(e)

-----------------------------------------------------------------------------
\* A function on 1..n is a sequence of length n.
LEMMA FunctionIsSeq ==
    ASSUME NEW Elem, NEW n \in Nat, NEW f \in [1..n -> Elem]
    PROVE  f \in Seq(Elem) /\ Len(f) = n /\ DOMAIN f = 1..n
<1>1. f \in Seq(Elem)
  BY SeqDef
<1>2. Len(f) \in Nat /\ DOMAIN f = 1..Len(f)
  BY <1>1, LenProperties
<1>3. 1..Len(f) = 1..n
  BY <1>2
<1> QED BY <1>1, <1>2, <1>3

\* Resize gives exactly the wanted number of slots and invents no block.
LEMMA ResizeSlots ==
    ASSUME NEW slots \in Seq(Slot), NEW n \in Nat
    PROVE  /\ Resize(slots, n) \in Seq(Slot)
           /\ Len(Resize(slots, n)) = n
           /\ \A p \in 1..n : Resize(slots, n)[p] =
                                IF p <= Len(slots) THEN slots[p] ELSE NoHash
<1>1. Resize(slots, n) \in [1..n -> Slot]
  BY DEF Resize, Slot
<1> QED BY <1>1, FunctionIsSeq DEF Resize

\* A new entry holds nothing.
LEMMA NewEntryGood ==
    ASSUME NEW algo \in Algo \cup {"none"} PROVE Good(NewEntry(algo))
<1>1. <<>> \in Seq(Slot) /\ Len(<<>>) = 0
  BY EmptySeq
<1>2. NewEntry(algo) \in Entry
  BY <1>1 DEF NewEntry, Entry
<1>3. Aligned(NewEntry(algo))
  BY DEF NewEntry, Aligned
<1>4. Verified(NewEntry(algo))
  BY <1>1 DEF NewEntry, Verified
<1> QED BY <1>2, <1>3, <1>4 DEF Good

\* prepare_sync keeps the entry well formed and announces real hashes.
LEMMA PreparedGood ==
    ASSUME NEW v \in Version, Good(entry)
    PROVE  Good(Prepared(v)) /\ Prepared(v).pending \in Seq(Content)
<1> DEFINE base == Base(v.algo)
           n == Len(v.blocks)
           hs == Resize(base.hashes, n)
           bs == Resize(base.blocks, n)
<1>1. v.header \in Header /\ v.algo \in Algo /\ v.blocks \in Seq(Content)
  BY VersionAssumption
<1>2. v.blocks \in Seq(Slot) /\ n \in Nat
  BY <1>1, SeqMonotonic DEF Slot
<1>3. Good(base)
  BY <1>1, NewEntryGood DEF Base
<1>4. base.algo = v.algo
  BY DEF Base, NewEntry
<1>5. base.hashes \in Seq(Slot) /\ base.blocks \in Seq(Slot) /\ base.fp \in Digest \cup {NoFp}
  BY <1>3 DEF Good, Entry
<1>6. /\ hs \in Seq(Slot) /\ Len(hs) = n
      /\ bs \in Seq(Slot) /\ Len(bs) = n
  BY <1>2, <1>5, ResizeSlots
<1>7. Prepared(v) \in Entry
  BY <1>1, <1>2, <1>5, <1>6 DEF Prepared, Entry
<1>8. Aligned(Prepared(v))
  BY <1>6 DEF Prepared, Aligned
<1>9. Verified(Prepared(v))
  <2> SUFFICES ASSUME NEW p \in 1..n
               PROVE  /\ hs[p] = NoHash => bs[p] = NoHash
                      /\ v.algo = "sha256" => hs[p] = bs[p]
    BY <1>6, LenProperties DEF Prepared, Verified
  <2>1. Len(base.hashes) = Len(base.blocks) /\ Len(base.hashes) \in Nat
    BY <1>3, <1>5 DEF Good, Aligned
  <2>2. CASE p <= Len(base.hashes)
    <3>1. hs[p] = base.hashes[p] /\ bs[p] = base.blocks[p]
      BY <2>1, <2>2, <1>2, <1>5, ResizeSlots
    <3>2. p \in DOMAIN base.hashes
      BY <2>1, <2>2, <1>2, <1>5, LenProperties
    <3> QED BY <3>1, <3>2, <1>3, <1>4 DEF Good, Verified
  <2>3. CASE ~(p <= Len(base.hashes))
    <3>1. hs[p] = NoHash /\ bs[p] = NoHash
      BY <2>1, <2>3, <1>2, <1>5, ResizeSlots
    <3> QED BY <3>1
  <2> QED BY <2>2, <2>3
<1> QED BY <1>1, <1>7, <1>8, <1>9 DEF Good, Prepared

\* apply_frames, complete or cut short by a refused frame, keeps the entry well
\* formed: what it stores was announced and, under sha256, hashes to it.
LEMMA FilledGood ==
    ASSUME NEW s \in Session, NEW now \in Version, Good(entry),
           session[s].need \subseteq Nat, entry.pending \in Seq(Content)
    PROVE  Good(Filled(s, now))
<1> DEFINE n == Len(entry.pending)
           app == Applied(s, now)
           hs == [p \in DOMAIN entry.hashes |->
                    IF p \in app THEN entry.pending[p] ELSE entry.hashes[p]]
           bs == [p \in DOMAIN entry.blocks |->
                    IF p \in app THEN now.blocks[p] ELSE entry.blocks[p]]
<1>1. /\ entry.hashes \in Seq(Slot) /\ Len(entry.hashes) = n
      /\ entry.blocks \in Seq(Slot) /\ Len(entry.blocks) = n
      /\ n \in Nat /\ now.blocks \in Seq(Content)
  BY VersionAssumption DEF Good, Entry, Aligned
<1>2. DOMAIN entry.hashes = 1..n /\ DOMAIN entry.blocks = 1..n
  BY <1>1, LenProperties
<1>3. ASSUME NEW p \in 1..n
      PROVE  entry.hashes[p] \in Slot /\ entry.blocks[p] \in Slot
             /\ entry.pending[p] \in Content
  BY <1>1, ElementOfSeq
<1>4. ASSUME NEW p \in 1..n, p \in app
      PROVE  /\ now.blocks[p] \in Content
             /\ entry.algo = "sha256" => now.blocks[p] = entry.pending[p]
  <2>1. p \in 1..Len(now.blocks) /\ ~Refused(now, p)
    BY <1>1, <1>4 DEF Applied, Frames
  <2> QED BY <2>1, <1>1, ElementOfSeq DEF Refused
<1>5. hs \in [1..n -> Slot] /\ bs \in [1..n -> Slot]
  BY <1>2, <1>3, <1>4 DEF Slot
<1>6. /\ hs \in Seq(Slot) /\ Len(hs) = n /\ DOMAIN hs = 1..n
      /\ bs \in Seq(Slot) /\ Len(bs) = n
  <2> HIDE DEF hs, bs
  <2> QED BY <1>1, <1>5, FunctionIsSeq
<1>7. /\ Filled(s, now).hashes = hs /\ Filled(s, now).blocks = bs
      /\ Filled(s, now).algo = entry.algo /\ Filled(s, now).pending = entry.pending
  BY DEF Filled, Good, Entry
<1>8. Filled(s, now) \in Entry
  <2> HIDE DEF hs, bs
  <2>1. [entry EXCEPT !.hashes = hs, !.blocks = bs] \in Entry
    BY <1>6 DEF Good, Entry
  <2> QED BY <2>1 DEF Filled, hs, bs
<1>9. Aligned(Filled(s, now))
  BY <1>6, <1>7 DEF Aligned
<1>10. Verified(Filled(s, now))
  <2> SUFFICES ASSUME NEW p \in 1..n
               PROVE  /\ hs[p] = NoHash => bs[p] = NoHash
                      /\ entry.algo = "sha256" => hs[p] = bs[p]
    BY <1>6, <1>7 DEF Verified
  <2>1. CASE p \in app
    <3>1. hs[p] = entry.pending[p] /\ bs[p] = now.blocks[p]
      BY <2>1, <1>2
    <3> QED BY <3>1, <2>1, <1>3, <1>4, NoHashAssumption
  <2>2. CASE p \notin app
    <3>1. hs[p] = entry.hashes[p] /\ bs[p] = entry.blocks[p]
      BY <2>2, <1>2
    <3> QED BY <3>1, <1>2 DEF Good, Verified
  <2> QED BY <2>1, <2>2
<1> QED BY <1>8, <1>9, <1>10 DEF Good

\* Renewing the fingerprint, and writing and reading the file, change no block.
LEMMA SyncedGood ==
    ASSUME NEW s \in Session, NEW now \in Version, Good(Filled(s, now))
    PROVE  /\ Good(Synced(s, now)) /\ Good(Record(Synced(s, now)))
           /\ Synced(s, now).pending = Filled(s, now).pending
           /\ Synced(s, now).fp \in Digest
           /\ Record(Synced(s, now)).fp = Synced(s, now).fp
           /\ Fingerprint(Record(Synced(s, now))) = Synced(s, now).fp
<1> DEFINE e == Filled(s, now)
           f == [e EXCEPT !.fp = Fingerprint(e)]
           g == [f EXCEPT !.pending = f.hashes]
<1> HIDE DEF e
<1>1. Good(e) /\ Synced(s, now) = f /\ Record(Synced(s, now)) = g
  BY DEF e, Synced, Record
<1>2. e \in Entry
  BY <1>1 DEF Good
<1>3. Fingerprint(e) \in Digest
  BY <1>2 DEF Fingerprint, Entry, Digest
<1>4. /\ f \in Entry /\ f.hashes = e.hashes /\ f.blocks = e.blocks
      /\ f.pending = e.pending /\ f.algo = e.algo /\ f.header = e.header
      /\ f.fp = Fingerprint(e)
  BY <1>2, <1>3 DEF Entry
<1>5. /\ g \in Entry /\ g.hashes = e.hashes /\ g.blocks = e.blocks
      /\ g.pending = e.hashes /\ g.algo = e.algo /\ g.header = e.header
      /\ g.fp = Fingerprint(e)
  <2> HIDE DEF f
  <2> QED BY <1>4 DEF Entry
<1> HIDE DEF f, g
<1>6. Aligned(f) /\ Aligned(g) /\ Verified(f) /\ Verified(g)
  BY <1>1, <1>4, <1>5 DEF Good, Aligned, Verified
<1>7. Fingerprint(g) = f.fp
  BY <1>4, <1>5 DEF Fingerprint
<1> QED BY <1>1, <1>3, <1>4, <1>5, <1>6, <1>7 DEF Good, e

-----------------------------------------------------------------------------
\* A session that ended with an error is well typed and waits for nothing.
LEMMA NoSyncTyped ==
    NoSync("failed") \in Syncing /\ NoSync("failed").pc = "failed"
<1>1. (CHOOSE v \in Version : TRUE) \in Version
  BY VersionAssumption
<1> QED BY <1>1 DEF NoSync, Syncing

LEMMA InitIInv == Init => IInv
<1> SUFFICES ASSUME Init PROVE IInv
  OBVIOUS
<1>1. Good(entry) /\ Good(disk) /\ entry.fp = NoFp /\ disk.fp = NoFp
  BY NewEntryGood DEF Init, NewEntry
<1>2. (CHOOSE v \in Version : TRUE) \in Version
  BY VersionAssumption
<1>3. session \in [Session -> Syncing] /\ \A s \in Session : session[s].pc = "idle"
  BY <1>2 DEF Init, Syncing, NoSync
<1>4. loaded \in [Job -> {"nothing", "named", "other"}] /\ restarts \in 0..MaxRestarts /\ latest = NoFp
  BY MaxRestartsAssumption DEF Init
<1> QED BY <1>1, <1>3, <1>4
        DEF IInv, TypeOK, BlockIntegrity, AckedIsDurable, AnnouncedInv, Good

\* The invariant from its parts, for a step that leaves disk and latest alone.
LEMMA MemoryStep ==
    ASSUME IInv, Good(entry'), session' \in [Session -> Syncing],
           UNCHANGED <<disk, latest, loaded, restarts>>,
           (\E s \in Session : session'[s].pc = "sending") =>
               entry'.pending \in Seq(Content)
    PROVE  IInv'
BY DEF IInv, TypeOK, BlockIntegrity, AckedIsDurable, AnnouncedInv, Good, Aligned, Verified

LEMMA NextIInv == IInv /\ [Next]_vars => IInv'
<1> SUFFICES ASSUME IInv, [Next]_vars PROVE IInv'
  OBVIOUS
<1>1. Good(entry) /\ Good(disk)
  BY DEF IInv, TypeOK, BlockIntegrity, Good
<1>2. session \in [Session -> Syncing]
  BY DEF IInv, TypeOK
<1>3. ASSUME NEW s \in Session, NEW v \in Version, PrepareSync(s, v)
      PROVE  IInv'
  <2>1. Good(entry') /\ entry'.pending \in Seq(Content)
    BY <1>1, <1>3, PreparedGood DEF PrepareSync
  <2>2. Missing(Prepared(v)) \subseteq Nat
    BY DEF Missing
  <2>3. Announced(v) \in Syncing
    BY <2>2 DEF Announced, Syncing
  <2>4. session' \in [Session -> Syncing]
    <3>1. ASSUME NEW t \in Session
          PROVE  [session[t] EXCEPT !.superseded = @ \/ session[t].pc = "sending"] \in Syncing
      BY <1>2 DEF Syncing
    <3> QED BY <1>3, <2>3, <3>1 DEF PrepareSync
  <2> QED BY <1>3, <2>1, <2>4, MemoryStep DEF PrepareSync
<1>4. ASSUME NEW s \in Session, NEW now \in Version, session[s].pc = "sending"
      PROVE  /\ Good(Filled(s, now)) /\ Filled(s, now).pending \in Seq(Content)
             /\ Good(Synced(s, now)) /\ Synced(s, now).pending \in Seq(Content)
  <2>1. entry.pending \in Seq(Content) /\ session[s].need \subseteq Nat
    BY <1>2, <1>4 DEF IInv, AnnouncedInv, Syncing
  <2>2. Good(Filled(s, now))
    BY <1>1, <2>1, FilledGood
  <2>3. Filled(s, now).pending = entry.pending
    BY <1>1 DEF Filled, Good, Entry
  <2> QED BY <2>1, <2>2, <2>3, SyncedGood
<1>5. ASSUME NEW s \in Session
      PROVE  [session EXCEPT ![s] = NoSync("failed")] \in [Session -> Syncing]
  BY <1>2, NoSyncTyped
<1>6. ASSUME NEW s \in Session, NEW now \in Version, RejectFrames(s, now)
      PROVE  IInv'
  BY <1>4, <1>5, <1>6, MemoryStep DEF RejectFrames
<1>7. ASSUME NEW s \in Session, NEW now \in Version, FailPersist(s, now)
      PROVE  IInv'
  BY <1>4, <1>5, <1>7, MemoryStep DEF FailPersist
<1>8. ASSUME NEW s \in Session, Disconnect(s)
      PROVE  IInv'
  <2>1. (\E t \in Session : session'[t].pc = "sending") => entry'.pending \in Seq(Content)
    BY <1>8 DEF Disconnect, IInv, AnnouncedInv
  <2>2. session' \in [Session -> Syncing]
    BY <1>5, <1>8 DEF Disconnect
  <2>3. entry' = entry /\ UNCHANGED <<disk, latest, loaded, restarts>>
    BY <1>8 DEF Disconnect
  <2>4. Good(entry')
    BY <1>1, <2>3
  <2> QED BY <2>1, <2>2, <2>3, <2>4, MemoryStep
<1>9. ASSUME NEW s \in Session, NEW now \in Version, ApplyFrames(s, now)
      PROVE  IInv'
  <2> DEFINE e == Synced(s, now)
             ended == [session[s] EXCEPT !.pc = "ok", !.sent = Frames(s, now), !.ack = e.fp]
  <2>1. /\ session[s].pc = "sending" /\ entry' = e /\ disk' = Record(e)
        /\ latest' = e.fp /\ UNCHANGED <<loaded, restarts>>
        /\ session' = [session EXCEPT ![s] = ended]
    BY <1>9 DEF ApplyFrames
  <2> HIDE DEF ended
  <2>2. /\ Good(e) /\ Good(Record(e)) /\ e.pending \in Seq(Content) /\ e.fp \in Digest
        /\ Record(e).fp = e.fp /\ Fingerprint(Record(e)) = e.fp
    BY <1>4, <2>1, SyncedGood
  <2>3. ended \in Syncing
    <3>1. session[s] \in Syncing
      BY <1>2
    <3>2. Frames(s, now) \in SUBSET Nat
      BY <3>1 DEF Frames, Syncing
    <3> HIDE DEF e
    <3> QED BY <3>1, <3>2, <2>2 DEF ended, Syncing
  <2>4. session' \in [Session -> Syncing]
    BY <1>2, <2>1, <2>3
  <2> HIDE DEF e
  <2>5. TypeOK'
    BY <2>1, <2>2, <2>4 DEF IInv, TypeOK, Good, Aligned
  <2>6. BlockIntegrity'
    BY <2>1, <2>2 DEF BlockIntegrity, Good, Verified
  <2>7. AckedIsDurable'
    BY <2>1, <2>2 DEF AckedIsDurable, Fingerprint
  <2>8. AnnouncedInv'
    BY <2>1, <2>2 DEF AnnouncedInv
  <2> QED BY <2>5, <2>6, <2>7, <2>8 DEF IInv
<1>10. ASSUME NEW j \in Job, LoadDataset(j)
       PROVE  IInv'
  <2>1. loaded' \in [Job -> {"nothing", "named", "other"}]
    BY <1>10 DEF LoadDataset, IInv, TypeOK
  <2> QED BY <1>10, <2>1
          DEF LoadDataset, IInv, TypeOK, BlockIntegrity, AckedIsDurable, AnnouncedInv,
              Aligned, Verified
<1>11. CASE Restart
  <2>1. session' \in [Session -> Syncing] /\ \A s \in Session : session'[s].pc # "sending"
    BY <1>2, <1>11, NoSyncTyped DEF Restart
  <2>2. restarts' \in 0..MaxRestarts
    BY <1>11, MaxRestartsAssumption DEF Restart, IInv, TypeOK
  <2> QED BY <1>1, <1>11, <2>1, <2>2
          DEF Restart, IInv, TypeOK, BlockIntegrity, AckedIsDurable, AnnouncedInv,
              Good, Aligned, Verified
<1>12. CASE UNCHANGED vars
  BY <1>12 DEF vars, IInv, TypeOK, BlockIntegrity, AckedIsDurable, AnnouncedInv,
               Aligned, Verified
<1> QED BY <1>3, <1>6, <1>7, <1>8, <1>9, <1>10, <1>11, <1>12 DEF Next, Serve

-----------------------------------------------------------------------------
(* What an acknowledgement means *)

\* Storing frames changes neither what was announced nor what is filled already.
LEMMA FilledKeeps ==
    ASSUME NEW s \in Session, NEW now \in Version, entry \in Entry, Aligned(entry)
    PROVE  /\ Filled(s, now).header = entry.header /\ Filled(s, now).algo = entry.algo
           /\ Filled(s, now).pending = entry.pending
           /\ \A p \in 1..Len(entry.pending) :
                Filled(s, now).hashes[p] = IF p \in Applied(s, now) THEN entry.pending[p]
                                           ELSE entry.hashes[p]
<1>1. DOMAIN entry.hashes = 1..Len(entry.pending)
  BY LenProperties DEF Aligned, Entry
<1> QED BY <1>1 DEF Filled, Entry

\* So a step that stores s's frames, whatever else it does to s, disturbs no other
\* session's expectation.
LEMMA OthersExpect ==
    ASSUME SyncInv, entry \in Entry, Aligned(entry), session \in [Session -> Syncing],
           NEW s \in Session, NEW now \in Version, NEW ended,
           ended.pc # "sending", session' = [session EXCEPT ![s] = ended],
           entry'.header = Filled(s, now).header, entry'.algo = Filled(s, now).algo,
           entry'.pending = Filled(s, now).pending, entry'.hashes = Filled(s, now).hashes
    PROVE  ExpectInv'
<1> SUFFICES ASSUME NEW t \in Session, session'[t].pc = "sending", ~session'[t].superseded
             PROVE  Expects(t)'
  BY DEF ExpectInv
<1>1. t # s /\ session'[t] = session[t]
  OBVIOUS
<1>2. Expects(t)
  BY <1>1 DEF SyncInv, ExpectInv
<1> QED BY <1>1, <1>2, FilledKeeps DEF Expects

LEMMA InitSyncInv == Init => SyncInv
BY DEF Init, SyncInv, ExpectInv, AckMeansSynced, NoSync

LEMMA NextSyncInv == IInv /\ SyncInv /\ [Next]_vars => SyncInv'
<1> SUFFICES ASSUME IInv, SyncInv, [Next]_vars PROVE SyncInv'
  OBVIOUS
<1>1. /\ session \in [Session -> Syncing] /\ entry \in Entry /\ Aligned(entry)
      /\ Good(entry)
  BY DEF IInv, TypeOK, BlockIntegrity, Good
<1>2. ASSUME NEW s \in Session, NEW v \in Version, PrepareSync(s, v)
      PROVE  SyncInv'
  <2>1. /\ entry' = Prepared(v) /\ session'[s] = Announced(v)
        /\ \A t \in Session \ {s} : session'[t] =
              [session[t] EXCEPT !.superseded = @ \/ session[t].pc = "sending"]
    BY <1>2 DEF PrepareSync
  <2>2. ASSUME NEW t \in Session \ {s}
        PROVE  /\ session'[t].pc = session[t].pc /\ session'[t].need = session[t].need
               /\ session'[t].sent = session[t].sent /\ session'[t].ack = session[t].ack
               /\ session'[t].version = session[t].version
               /\ session'[t].superseded = (session[t].superseded \/ session[t].pc = "sending")
    <3>1. session[t] \in Syncing
      BY <1>1
    <3> QED BY <2>1, <3>1 DEF Syncing
  <2>3. Expects(s)'
    BY <2>1 DEF Announced, Prepared, Expects, Missing
  <2>4. ExpectInv'
    BY <2>2, <2>3 DEF ExpectInv
  <2>5. session'[s].pc = "sending"
    BY <2>1 DEF Announced
  <2>6. AckMeansSynced'
    <3> SUFFICES ASSUME NEW t \in Session, session'[t].pc = "ok",
                        session'[t].need = session'[t].sent, ~session'[t].superseded
                 PROVE  session'[t].ack = [header |-> session'[t].version.header,
                                           algo |-> session'[t].version.algo,
                                           hashes |-> session'[t].version.blocks]
      BY DEF AckMeansSynced
    <3>1. t \in Session \ {s}
      BY <2>5
    <3> QED BY <2>2, <3>1 DEF SyncInv, AckMeansSynced
  <2> QED BY <2>4, <2>6 DEF SyncInv
\* A session that ends with an error is told nothing.
<1>3. ASSUME NEW s \in Session, session' = [session EXCEPT ![s] = NoSync("failed")]
      PROVE  AckMeansSynced'
  BY <1>1, <1>3, NoSyncTyped DEF SyncInv, AckMeansSynced
<1>4. ASSUME NEW s \in Session, NEW now \in Version, RejectFrames(s, now)
      PROVE  SyncInv'
  <2>1. session' = [session EXCEPT ![s] = NoSync("failed")] /\ entry' = Filled(s, now)
    BY <1>4 DEF RejectFrames
  <2>2. ExpectInv'
    BY <1>1, <2>1, NoSyncTyped, OthersExpect
  <2> QED BY <1>3, <2>1, <2>2 DEF SyncInv
<1>5. ASSUME NEW s \in Session, NEW now \in Version
      PROVE  /\ Synced(s, now).header = Filled(s, now).header
             /\ Synced(s, now).algo = Filled(s, now).algo
             /\ Synced(s, now).pending = Filled(s, now).pending
             /\ Synced(s, now).hashes = Filled(s, now).hashes
             /\ Synced(s, now).fp = Fingerprint(Filled(s, now))
  <2>1. DOMAIN Filled(s, now) = {"header", "algo", "hashes", "blocks", "pending", "fp"}
    BY <1>1 DEF Filled, Entry
  <2> QED BY <2>1 DEF Synced
<1>6. ASSUME NEW s \in Session, NEW now \in Version, FailPersist(s, now)
      PROVE  SyncInv'
  <2>1. session' = [session EXCEPT ![s] = NoSync("failed")] /\ entry' = Synced(s, now)
    BY <1>6 DEF FailPersist
  <2>2. ExpectInv'
    BY <1>1, <1>5, <2>1, NoSyncTyped, OthersExpect
  <2> QED BY <1>3, <2>1, <2>2 DEF SyncInv
<1>7. ASSUME NEW s \in Session, NEW now \in Version, ApplyFrames(s, now)
      PROVE  SyncInv'
  <2> DEFINE ended == [session[s] EXCEPT !.pc = "ok", !.sent = Frames(s, now),
                                     !.ack = Synced(s, now).fp]
  <2>1. /\ session[s].pc = "sending" /\ Applied(s, now) = Frames(s, now)
        /\ entry' = Synced(s, now) /\ session' = [session EXCEPT ![s] = ended]
    BY <1>7 DEF ApplyFrames
  <2>2. /\ ended.pc = "ok" /\ ended.sent = Frames(s, now) /\ ended.ack = Synced(s, now).fp
        /\ ended.need = session[s].need /\ ended.version = session[s].version
        /\ ended.superseded = session[s].superseded
    <3>1. session[s] \in Syncing
      BY <1>1
    <3> QED BY <3>1 DEF Syncing
  <2> HIDE DEF ended
  <2>3. ExpectInv'
    BY <1>1, <1>5, <2>1, <2>2, OthersExpect
  <2>4. ASSUME session[s].need = Frames(s, now), ~session[s].superseded
        PROVE  Synced(s, now).fp = [header |-> session[s].version.header,
                                    algo |-> session[s].version.algo,
                                    hashes |-> session[s].version.blocks]
    <3> DEFINE e == Filled(s, now)
    <3>1. Expects(s)
      BY <2>1, <2>4 DEF SyncInv, ExpectInv
    <3>2. \A p \in 1..Len(entry.pending) : e.hashes[p] = entry.pending[p]
      BY <1>1, <2>1, <2>4, <3>1, FilledKeeps DEF Expects
    <3>3. Good(e)
      BY <1>1, <2>1, FilledGood DEF IInv, AnnouncedInv, Syncing
    <3>4. e.pending = entry.pending
      BY <1>1, FilledKeeps
    <3>5. /\ e.hashes \in Seq(Slot) /\ entry.pending \in Seq(Slot)
          /\ Len(e.hashes) = Len(entry.pending)
      BY <1>1, <3>3, <3>4 DEF Good, Entry, Aligned
    <3> HIDE DEF e
    <3>6. e.hashes = entry.pending
      BY <3>2, <3>5, SeqEqual
    <3> QED BY <1>1, <1>5, <3>1, <3>6, FilledKeeps DEF Fingerprint, Expects, e
  <2>5. AckMeansSynced'
    <3> SUFFICES ASSUME NEW t \in Session, session'[t].pc = "ok",
                        session'[t].need = session'[t].sent, ~session'[t].superseded
                 PROVE  session'[t].ack = [header |-> session'[t].version.header,
                                           algo |-> session'[t].version.algo,
                                           hashes |-> session'[t].version.blocks]
      BY DEF AckMeansSynced
    <3>1. CASE t = s
      <4>1. session'[t] = ended
        BY <1>1, <2>1, <3>1
      <4> QED BY <4>1, <2>2, <2>4
    <3>2. CASE t # s
      <4>1. session'[t] = session[t]
        BY <1>1, <2>1, <3>2
      <4> QED BY <4>1 DEF SyncInv, AckMeansSynced
    <3> QED BY <3>1, <3>2
  <2> QED BY <2>3, <2>5 DEF SyncInv
<1>8. ASSUME NEW s \in Session, Disconnect(s)
      PROVE  SyncInv'
  <2>1. session' = [session EXCEPT ![s] = NoSync("failed")] /\ entry' = entry
    BY <1>8 DEF Disconnect
  <2>2. ExpectInv'
    BY <1>1, <2>1, NoSyncTyped DEF SyncInv, ExpectInv, Expects
  <2> QED BY <1>3, <2>1, <2>2 DEF SyncInv
<1>9. ASSUME NEW j \in Job, LoadDataset(j)
      PROVE  SyncInv'
  BY <1>9 DEF LoadDataset, SyncInv, ExpectInv, Expects, AckMeansSynced
<1>10. CASE Restart
  <2>1. \A s \in Session : \/ session'[s].pc = "failed"
                           \/ session[s].pc # "sending" /\ session'[s] = session[s]
    BY <1>1, <1>10, NoSyncTyped DEF Restart
  <2> QED BY <2>1 DEF SyncInv, ExpectInv, AckMeansSynced
<1>11. CASE UNCHANGED vars
  BY <1>11 DEF vars, SyncInv, ExpectInv, Expects, AckMeansSynced
<1> QED BY <1>2, <1>4, <1>6, <1>7, <1>8, <1>9, <1>10, <1>11 DEF Next, Serve

-----------------------------------------------------------------------------
(* What holds once the sessions are quiet *)

\* A step leaves a session that is not quiet, renews the fingerprint, or leaves
\* entry and sessions alone; a restart reads a file whose fingerprint is right.
LEMMA NextQuiet == IInv /\ CurrentWhenQuiet /\ [Next]_vars => CurrentWhenQuiet'
<1> SUFFICES ASSUME IInv, CurrentWhenQuiet, [Next]_vars PROVE CurrentWhenQuiet'
  OBVIOUS
<1>1. entry \in Entry /\ session \in [Session -> Syncing]
  BY DEF IInv, TypeOK
<1>2. ASSUME NEW s \in Session, session'[s].pc \in {"sending", "failed"}
      PROVE  CurrentWhenQuiet'
  BY <1>2 DEF CurrentWhenQuiet
<1>3. ASSUME NEW s \in Session, NEW v \in Version, PrepareSync(s, v)
      PROVE  CurrentWhenQuiet'
  <2>1. session'[s].pc = "sending"
    BY <1>3 DEF PrepareSync, Announced
  <2> QED BY <1>2, <2>1
<1>4. ASSUME NEW s \in Session, session' = [session EXCEPT ![s] = NoSync("failed")]
      PROVE  CurrentWhenQuiet'
  <2>1. session'[s].pc = "failed"
    BY <1>1, <1>4 DEF NoSync
  <2> QED BY <1>2, <2>1
<1>5. ASSUME NEW s \in Session, NEW now \in Version, ApplyFrames(s, now)
      PROVE  CurrentWhenQuiet'
  <2>1. Filled(s, now).fp = entry.fp /\ DOMAIN Filled(s, now) = DOMAIN entry
    BY <1>1 DEF Filled, Entry
  <2>2. Fingerprint(Synced(s, now)) = Synced(s, now).fp
    BY <1>1, <2>1 DEF Synced, Fingerprint, Entry
  <2> QED BY <1>5, <2>2 DEF ApplyFrames, CurrentWhenQuiet
<1>6. CASE Restart
  BY <1>6 DEF Restart, IInv, AckedIsDurable, CurrentWhenQuiet
<1>7. CASE UNCHANGED <<entry, session>>
  BY <1>7 DEF CurrentWhenQuiet, Fingerprint
<1> QED BY <1>3, <1>4, <1>5, <1>6, <1>7
        DEF Next, Serve, RejectFrames, FailPersist, Disconnect, LoadDataset, vars

-----------------------------------------------------------------------------
\* The inductive invariant holds throughout.
THEOREM Invariant == Spec => [](IInv /\ SyncInv)
<1> QED BY InitIInv, NextIInv, InitSyncInv, NextSyncInv, PTL DEF Spec

\* Every reachable cache entry, file and session is well typed, and hashes,
\* blocks and announced hashes stay aligned.
THEOREM TypeCorrect == Spec => []TypeOK
<1>1. IInv => TypeOK
  BY DEF IInv
<1> QED BY <1>1, Invariant, PTL

\* No interleaving of sessions, edits, changes of algorithm, failures and
\* restarts stores a sha256 block that does not hash to its stored hash.
THEOREM Integrity == Spec => []BlockIntegrity
<1>1. IInv => BlockIntegrity
  BY DEF IInv
<1> QED BY <1>1, Invariant, PTL

\* The file always carries the fingerprint acknowledged last, and digests to it.
THEOREM Durability == Spec => []AckedIsDurable
<1>1. IInv => AckedIsDurable
  BY DEF IInv
<1> QED BY <1>1, Invariant, PTL

\* A client that sent all it was asked for, and during whose session no other one
\* announced a version, is told the fingerprint of exactly its own version.
THEOREM Acknowledged == Spec => []AckMeansSynced
<1>1. SyncInv => AckMeansSynced
  BY DEF SyncInv
<1> QED BY <1>1, Invariant, PTL

\* Once every session has ended well, the fingerprint describes the hashes and
\* header in memory, whatever failed, was superseded or restarted before.
THEOREM QuietIsCurrent == Spec => []CurrentWhenQuiet
<1>1. Init => CurrentWhenQuiet
  BY DEF Init, NewEntry, CurrentWhenQuiet
<1> QED BY <1>1, NextQuiet, Invariant, PTL DEF Spec


-----------------------------------------------------------------------------
(* Short sequences are joined element by element.                              *)
LEMMA JoinTwo ==
  ASSUME NEW x, NEW y, NEW z
  PROVE  <<x, y>> \o <<z>> = <<x, y, z>>
<1> DEFINE Elem == {x, y, z}
<1>1. <<x, y, z>> \in Seq(Elem) /\ <<x, y>> \in Seq(Elem) /\ <<z>> \in Seq(Elem)
      OBVIOUS
<1>2. \A i \in 1..3 : (<<x, y>> \o <<z>>)[i] = <<x, y, z>>[i]
      BY <1>1, ConcatProperties
<1>3. Len(<<x, y>> \o <<z>>) = 3 /\ Len(<<x, y, z>>) = 3
      BY <1>1, ConcatProperties
<1> QED BY <1>1, <1>2, <1>3, ConcatProperties, SeqEqual

LEMMA JoinThree ==
  ASSUME NEW x, NEW y, NEW z, NEW w
  PROVE  <<x, y, z>> \o <<w>> = <<x, y, z, w>>
<1> DEFINE Elem == {x, y, z, w}
<1>1. <<w>> \in Seq(Elem) /\ <<x, y, z>> \in Seq(Elem) /\ <<x, y, z, w>> \in Seq(Elem)
      OBVIOUS
<1>2. <<x, y, z>> \o <<w>> = <<x, y, z, w>>
  <2>1. \A i \in 1..4 : (<<x, y, z>> \o <<w>>)[i] = <<x, y, z, w>>[i]
        BY <1>1, ConcatProperties
  <2>2. Len(<<x, y, z>> \o <<w>>) = 4 /\ Len(<<x, y, z, w>>) = 4
        BY <1>1, ConcatProperties
  <2> QED BY <1>1, <2>1, <2>2, ConcatProperties, SeqEqual
<1> QED BY <1>2

LEMMA JoinPairs ==
  ASSUME NEW x, NEW y, NEW z, NEW w
  PROVE  <<x, y>> \o <<z, w>> = <<x, y, z, w>>
<1> DEFINE Elem == {x, y, z, w}
<1>1. <<x, y>> \in Seq(Elem) /\ <<z, w>> \in Seq(Elem) /\ <<x, y, z, w>> \in Seq(Elem)
      OBVIOUS
<1>2. <<x, y>> \o <<z, w>> = <<x, y, z, w>>
  <2>1. \A i \in 1..4 : (<<x, y>> \o <<z, w>>)[i] = <<x, y, z, w>>[i]
        BY <1>1, ConcatProperties
  <2>2. Len(<<x, y>> \o <<z, w>>) = 4 /\ Len(<<x, y, z, w>>) = 4
        BY <1>1, ConcatProperties
  <2> QED BY <1>1, <2>1, <2>2, ConcatProperties, SeqEqual
<1> QED BY <1>2

-----------------------------------------------------------------------------
(* Billing                                                                    *)

BillingDoc == [doc : {"license", "entitlement", "event", "answer"},
        of : User \cup Sale \cup {None}, is : B!BindingType]

BillingTypes ==
  /\ bSold \in [Sale -> {"unsold", "active", "inactive"}]
  /\ bPing \in [Sale -> Seq({"active", "inactive"})]
  /\ bLicense \in [Sale -> B!BindingType]
  /\ bEntitlement \in [User -> B!BindingType]
  /\ bEvent \subseteq Sale /\ bHonoured \subseteq Sale
  /\ bTodo \in Seq(BillingDoc)

(* A key that is bound names its own sale, and what says that a sale was       *)
(* withdrawn is right.                                                         *)
SaleInv ==
  /\ \A s \in Sale :
       \/ bLicense[s] = B!NoBinding
       \/ bLicense[s].account \in User /\ bLicense[s].sale = s
  /\ \A a \in User : bEntitlement[a] = B!NoBinding \/ bEntitlement[a].sale \in Sale
  /\ \A s \in Sale : \A i \in DOMAIN bPing[s] : bPing[s][i] = "inactive" => bSold[s] = "inactive"
  /\ \A s \in bHonoured : bSold[s] = "inactive"

(* What the handler has still to write binds a key to whom it is bound to,     *)
(* gives an entitlement after its license, makes nothing active that was       *)
(* withdrawn, and closes license and entitlement before a withdrawal is        *)
(* answered.                                                                   *)
LicenseDue(w) ==
  /\ w.of \in Sale /\ w.is.sale = w.of /\ w.is.account \in User
  /\ bLicense[w.of].account \in {None, w.is.account}
  /\ w.is.active => w.of \notin bHonoured

EntitlementDue(t, i) ==
  /\ t[i].of \in User /\ t[i].is.sale \in Sale
  /\ t[i].is.active => t[i].is.sale \notin bHonoured
  /\ \/ bLicense[t[i].is.sale].account = t[i].of
     \/ \E j \in 1..Len(t) : /\ j < i /\ t[j].doc = "license"
                             /\ t[j].of = t[i].is.sale /\ t[j].is.account = t[i].of

AnswerDue(t, i) ==
  /\ t[i].of \in Sale /\ bSold[t[i].of] = "inactive"
  /\ \A j \in 1..Len(t) : t[j].doc \in {"license", "entitlement"} => ~t[j].is.active
  /\ \/ ~bLicense[t[i].of].active
     \/ \E j \in 1..Len(t) : j < i /\ t[j].doc = "license" /\ t[j].of = t[i].of
  /\ \A a \in User :
       \/ bEntitlement[a].sale # t[i].of
       \/ ~bEntitlement[a].active
       \/ \E j \in 1..Len(t) : j < i /\ t[j].doc = "entitlement" /\ t[j].of = a

BillingTodo ==
  \A i \in 1..Len(bTodo) :
    /\ bTodo[i].doc = "event" => bTodo[i].of \in Sale
    /\ bTodo[i].doc = "license" =>
         /\ LicenseDue(bTodo[i])
         /\ \A j \in 1..Len(bTodo) : bTodo[j].doc = "license" /\ bTodo[j].of = bTodo[i].of
                                   => bTodo[j].is.account = bTodo[i].is.account
    /\ bTodo[i].doc = "entitlement" => EntitlementDue(bTodo, i)
    /\ bTodo[i].doc = "answer" => AnswerDue(bTodo, i)

BillingInv == BillingTypes /\ SaleInv /\ BillingTodo /\ B!EntitlementBacked /\ B!WithdrawalLasts

LEMMA JoinOne ==
  ASSUME NEW Elem, NEW x \in Elem, NEW y \in Elem, NEW z \in Elem, NEW w \in Elem
  PROVE  <<x>> \o <<y>> = <<x, y>> /\ <<x>> \o <<y, z, w>> = <<x, y, z, w>>
<1>1. /\ <<x>> \in Seq(Elem) /\ <<y>> \in Seq(Elem) /\ <<x, y>> \in Seq(Elem)
      /\ <<y, z, w>> \in Seq(Elem) /\ <<x, y, z, w>> \in Seq(Elem)
      OBVIOUS
<1>2. \A i \in 1..2 : (<<x>> \o <<y>>)[i] = <<x, y>>[i]
      BY <1>1, ConcatProperties
<1>3. Len(<<x>> \o <<y>>) = 2 /\ Len(<<x, y>>) = 2
      BY <1>1, ConcatProperties
<1>4. <<x>> \o <<y>> = <<x, y>>
      BY <1>1, <1>2, <1>3, ConcatProperties, SeqEqual
<1>5. \A i \in 1..4 : (<<x>> \o <<y, z, w>>)[i] = <<x, y, z, w>>[i]
      BY <1>1, ConcatProperties
<1>6. Len(<<x>> \o <<y, z, w>>) = 4 /\ Len(<<x, y, z, w>>) = 4
      BY <1>1, ConcatProperties
<1>7. <<x>> \o <<y, z, w>> = <<x, y, z, w>>
      BY <1>1, <1>5, <1>6, ConcatProperties, SeqEqual
<1> QED BY <1>4, <1>7

LEMMA BillingInit == B!Init => BillingInv
<1> SUFFICES ASSUME B!Init PROVE BillingInv
    OBVIOUS
<1>1. B!NoBinding \in B!BindingType /\ B!NoBinding.active = FALSE
      BY DEF B!NoBinding, B!BindingType
<1>2. BillingTypes
  <2>1. /\ bLicense \in [Sale -> B!BindingType] /\ bEntitlement \in [User -> B!BindingType]
        /\ bSold \in [Sale -> {"unsold", "active", "inactive"}]
        BY <1>1 DEF B!Init
  <2>2. bPing \in [Sale -> Seq({"active", "inactive"})]
    <3>1. <<>> \in Seq({"active", "inactive"})
          OBVIOUS
    <3>2. bPing = [s \in Sale |-> <<>>]
          BY DEF B!Init
    <3> QED BY <3>1, <3>2
  <2>3. bTodo \in Seq(BillingDoc)
        BY DEF B!Init
  <2> QED BY <2>1, <2>2, <2>3 DEF B!Init, BillingTypes
<1> QED BY <1>1, <1>2 DEF B!Init, BillingInv, SaleInv, BillingTodo, B!EntitlementBacked, B!WithdrawalLasts

(* A ping that was sent, or not, says what the sale was when it was.           *)
LEMMA PingsTrue ==
  ASSUME BillingTypes, SaleInv, NEW s \in Sale, NEW what \in {"active", "inactive"},
         NEW p \in {bPing, B!Pinged(s, what)}
  PROVE  /\ p \in [Sale -> Seq({"active", "inactive"})]
         /\ \A r \in Sale : \A i \in DOMAIN p[r] : p[r][i] = "inactive" =>
              bSold[r] = "inactive" \/ (r = s /\ what = "inactive")
<1>1. CASE p = bPing
      BY <1>1 DEF BillingTypes, SaleInv
<1>2. CASE p = [bPing EXCEPT ![s] = Append(@, what)]
  <2>1. /\ bPing[s] \in Seq({"active", "inactive"})
        /\ Append(bPing[s], what) \in Seq({"active", "inactive"})
        BY DEF BillingTypes
  <2>2. p \in [Sale -> Seq({"active", "inactive"})]
        BY <1>2, <2>1 DEF BillingTypes
  <2>3. ASSUME NEW r \in Sale, NEW i \in DOMAIN p[r], p[r][i] = "inactive"
        PROVE  bSold[r] = "inactive" \/ (r = s /\ what = "inactive")
    <3>1. CASE r # s
          BY <1>2, <2>3, <3>1 DEF BillingTypes, SaleInv
    <3>2. CASE r = s
      <4>1. p[r] = Append(bPing[s], what) /\ i \in 1..Len(bPing[s]) + 1
            BY <1>2, <2>1, <2>3, <3>2 DEF BillingTypes
      <4>2. CASE i = Len(bPing[s]) + 1
            BY <2>1, <2>3, <3>2, <4>1, <4>2
      <4>3. CASE i \in 1..Len(bPing[s])
            BY <2>1, <2>3, <3>2, <4>1, <4>3 DEF SaleInv
      <4> QED BY <2>1, <4>1, <4>2, <4>3
    <3> QED BY <3>1, <3>2
  <2> QED BY <2>2, <2>3
<1> QED BY <1>1, <1>2 DEF B!Pinged

LEMMA SaleStep ==
  ASSUME BillingInv, NEW s \in Sale, B!Sell(s) \/ B!Withdraw(s) \/ B!Repeat(s)
  PROVE  BillingInv'
<1> USE DEF BillingInv
<1>1. UNCHANGED <<bLicense, bEvent, bEntitlement, bTodo, bHonoured, bCrashes>>
      BY DEF B!Sell, B!Withdraw, B!Repeat
<1>2. /\ bSold' \in [Sale -> {"unsold", "active", "inactive"}]
      /\ \A r \in Sale : bSold[r] = "inactive" => bSold'[r] = "inactive"
      /\ bPing' \in [Sale -> Seq({"active", "inactive"})]
      /\ \A r \in Sale : \A i \in DOMAIN bPing'[r] : bPing'[r][i] = "inactive" => bSold'[r] = "inactive"
  <2>1. CASE B!Sell(s)
    <3>1. bPing' \in {bPing, B!Pinged(s, "active")}
          BY <2>1 DEF B!Sell
    <3>2. /\ bSold' \in [Sale -> {"unsold", "active", "inactive"}]
          /\ \A r \in Sale : bSold[r] = "inactive" => bSold'[r] = "inactive"
          BY <2>1 DEF B!Sell, BillingTypes
    <3>3. /\ bPing' \in [Sale -> Seq({"active", "inactive"})]
          /\ \A r \in Sale : \A i \in DOMAIN bPing'[r] : bPing'[r][i] = "inactive" =>
               bSold[r] = "inactive"
          BY <3>1, PingsTrue
    <3> QED BY <3>2, <3>3
  <2>2. CASE B!Withdraw(s)
    <3>1. bPing' \in {bPing, B!Pinged(s, "inactive")}
          BY <2>2 DEF B!Withdraw
    <3>2. /\ bSold' \in [Sale -> {"unsold", "active", "inactive"}]
          /\ \A r \in Sale : bSold[r] = "inactive" => bSold'[r] = "inactive"
          /\ bSold'[s] = "inactive"
          BY <2>2 DEF B!Withdraw, BillingTypes
    <3>3. /\ bPing' \in [Sale -> Seq({"active", "inactive"})]
          /\ \A r \in Sale : \A i \in DOMAIN bPing'[r] : bPing'[r][i] = "inactive" =>
               bSold[r] = "inactive" \/ r = s
          BY <3>1, PingsTrue
    <3> QED BY <3>2, <3>3
  <2>3. CASE B!Repeat(s)
    <3>1. bSold[s] \in {"active", "inactive"}
          BY <2>3 DEF B!Repeat, BillingTypes
    <3> QED BY <2>3, <3>1, PingsTrue DEF B!Repeat, BillingTypes
  <2> QED BY <2>1, <2>2, <2>3
<1>3. BillingTypes' /\ B!EntitlementBacked' /\ B!WithdrawalLasts'
      BY <1>1, <1>2 DEF BillingTypes, B!EntitlementBacked, B!WithdrawalLasts
<1>4. SaleInv'
      BY <1>1, <1>2 DEF SaleInv, BillingTypes, B!NoBinding
<1>5. BillingTodo'
  <2>1. ASSUME NEW i \in 1..Len(bTodo), bTodo[i].doc = "answer" PROVE AnswerDue(bTodo, i)'
    <3>1. AnswerDue(bTodo, i)
          BY <2>1 DEF BillingTodo
    <3>2. bTodo[i].of \in Sale /\ bSold'[bTodo[i].of] = "inactive"
          BY <1>2, <3>1 DEF AnswerDue
    <3> QED BY <1>1, <3>1, <3>2 DEF AnswerDue
  <2> QED BY <1>1, <2>1 DEF BillingTodo, LicenseDue, EntitlementDue
<1> QED BY <1>3, <1>4, <1>5

LEMMA VerifyStep ==
  ASSUME BillingInv, NEW a \in User, NEW s \in Sale, None \notin User, B!Verify(a, s)
  PROVE  BillingInv'
<1> USE DEF BillingInv
<1>1. /\ bSold[s] = "active" /\ bLicense[s].account \in {None, a} /\ s \notin bHonoured
      /\ UNCHANGED <<bSold, bPing, bLicense, bEvent, bEntitlement, bHonoured>>
      BY DEF B!Verify, B!Bindable, SaleInv
<1> DEFINE lic == B!Put("license", s, B!Bound(a, s))
           ent == B!Put("entitlement", a, B!Bound(a, s))
           V == B!Put("event", s, B!NoBinding)
<1>2. lic \in BillingDoc /\ ent \in BillingDoc /\ V \in BillingDoc
      BY DEF B!Put, B!Bound, B!NoBinding, BillingDoc, B!BindingType
<1>3. /\ lic.doc = "license" /\ lic.of = s /\ lic.is.account = a /\ lic.is.sale = s
      /\ ent.doc = "entitlement" /\ ent.of = a /\ ent.is.account = a /\ ent.is.sale = s
      /\ V.doc = "event" /\ V.of = s
      BY DEF B!Put, B!Bound
<1>4. bTodo' = <<lic, ent>> \/ bTodo' = <<lic, ent, V>>
  <2> HIDE DEF lic, ent, V
  <2>1. bTodo' = <<lic, ent>> \o (IF s \in bEvent THEN <<>> ELSE <<V>>)
        BY DEF B!Verify, B!Binding, B!Remembered, lic, ent, V
  <2>2. <<lic, ent>> \o <<>> = <<lic, ent>>
    <3>1. <<lic, ent>> \in Seq(BillingDoc)
          BY <1>2
    <3> QED BY <3>1, ConcatEmptySeq
  <2>3. <<lic, ent>> \o <<V>> = <<lic, ent, V>>
        BY <1>2, JoinTwo
  <2> QED BY <2>1, <2>2, <2>3
<1> HIDE DEF lic, ent, V
<1>5. BillingTypes'
  <2>1. <<lic, ent>> \in Seq(BillingDoc) /\ <<lic, ent, V>> \in Seq(BillingDoc)
        BY <1>2
  <2>2. bTodo' \in Seq(BillingDoc)
        BY <1>4, <2>1
  <2> QED BY <1>1, <2>2 DEF BillingTypes
<1>6. BillingTodo'
  <2>1. /\ bTodo'[1] = lic /\ bTodo'[2] = ent
        /\ \/ Len(bTodo') = 2
           \/ Len(bTodo') = 3 /\ bTodo'[3] = V
        BY <1>4
  <2>2. \A i \in 1..Len(bTodo') : i = 1 \/ i = 2 \/ (i = 3 /\ bTodo'[3] = V)
    <3>1. \A i \in 1..2 : i = 1 \/ i = 2
          OBVIOUS
    <3>2. \A i \in 1..3 : i = 1 \/ i = 2 \/ i = 3
          OBVIOUS
    <3> QED BY <2>1, <3>1, <3>2
  <2>5. 1 \in 1..Len(bTodo') /\ 2 \in 1..Len(bTodo')
        BY <2>1
  <2>3. EntitlementDue(bTodo, 2)'
        BY <1>1, <1>3, <2>1, <2>5 DEF EntitlementDue
  <2>4. LicenseDue(bTodo[1])'
        BY <1>1, <1>3, <2>1 DEF LicenseDue
  <2> QED BY <1>3, <2>1, <2>2, <2>3, <2>4 DEF BillingTodo
<1> QED BY <1>1, <1>5, <1>6 DEF SaleInv, B!EntitlementBacked, B!WithdrawalLasts

(* A withdrawal that is new closes the license of its sale and the entitlement *)
(* of the account that the key is bound to, which has the only one.            *)
LEMMA PingStep ==
  ASSUME BillingInv, NEW s \in Sale, None \notin User, B!Ping(s)
  PROVE  BillingInv'
<1> USE DEF BillingInv
<1>1. UNCHANGED <<bSold, bLicense, bEvent, bEntitlement, bHonoured>>
      BY DEF B!Ping
<1>2. PICK i \in DOMAIN bPing[s] :
        /\ bPing' = [bPing EXCEPT ![s] =
             [j \in 1..Len(bPing[s]) - 1 |-> bPing[s][IF j < i THEN j ELSE j + 1]]]
        /\ bTodo' = B!Remembered(s) \o
             IF s \notin bEvent /\ bPing[s][i] = "inactive"
             THEN B!Closed(s) \o <<B!Put("answer", s, B!NoBinding)>> ELSE <<>>
      BY DEF B!Ping
<1>3. /\ bPing' \in [Sale -> Seq({"active", "inactive"})]
      /\ \A r \in Sale : \A k \in DOMAIN bPing'[r] : bPing'[r][k] = "inactive" => bSold[r] = "inactive"
  <2> DEFINE rest == [j \in 1..Len(bPing[s]) - 1 |-> bPing[s][IF j < i THEN j ELSE j + 1]]
  <2>1. bPing[s] \in Seq({"active", "inactive"}) /\ Len(bPing[s]) \in Nat /\ i \in 1..Len(bPing[s])
        BY <1>2 DEF BillingTypes
  <2>2. \A j \in 1..Len(bPing[s]) - 1 : (IF j < i THEN j ELSE j + 1) \in 1..Len(bPing[s])
        BY <2>1
  <2>3. \A j \in 1..Len(bPing[s]) - 1 :
          /\ rest[j] \in {"active", "inactive"}
          /\ rest[j] = "inactive" => bSold[s] = "inactive"
        BY <2>1, <2>2 DEF SaleInv
  <2>4. Len(bPing[s]) - 1 \in Nat
        BY <2>1
  <2>5. rest \in Seq({"active", "inactive"}) /\ DOMAIN rest = 1..Len(bPing[s]) - 1
    <3>1. rest \in [1..Len(bPing[s]) - 1 -> {"active", "inactive"}]
          BY <2>3
    <3> HIDE DEF rest
    <3>2. DOMAIN rest = 1..Len(bPing[s]) - 1
          BY <3>1
    <3> QED BY <2>4, <3>1, <3>2
  <2> HIDE DEF rest
  <2>6. bPing' = [bPing EXCEPT ![s] = rest]
        BY <1>2 DEF rest
  <2> QED BY <2>3, <2>5, <2>6 DEF BillingTypes, SaleInv
<1> DEFINE off == [bLicense[s] EXCEPT !.active = FALSE]
           V == B!Put("event", s, B!NoBinding)
           lic == B!Put("license", s, off)
           ent == B!Put("entitlement", off.account, off)
           W == B!Put("answer", s, B!NoBinding)
<1>4. /\ V.doc = "event" /\ V.of = s
      /\ W.doc = "answer" /\ W.of = s
      /\ lic.doc = "license" /\ lic.of = s /\ lic.is = off
      /\ ent.doc = "entitlement" /\ ent.of = off.account /\ ent.is = off
      BY DEF B!Put
<1>5. bLicense[s] \in B!BindingType
      BY DEF BillingTypes
<1>6. /\ off \in B!BindingType /\ off.account = bLicense[s].account /\ off.sale = bLicense[s].sale
      /\ off.active = FALSE
      BY <1>5 DEF B!BindingType
<1>7. V \in BillingDoc /\ W \in BillingDoc /\ lic \in BillingDoc /\ ent \in BillingDoc
      BY <1>5, <1>6 DEF B!Put, BillingDoc, B!BindingType, B!NoBinding
<1>8. \/ bTodo' = <<>> \/ bTodo' = <<V>>
      \/ bSold[s] = "inactive" /\ bLicense[s] = B!NoBinding /\ bTodo' = <<V, W>>
      \/ bSold[s] = "inactive" /\ bLicense[s] # B!NoBinding /\ bTodo' = <<V, lic, ent, W>>
  <2>1. B!Remembered(s) = IF s \in bEvent THEN <<>> ELSE <<V>>
        BY DEF B!Remembered
  <2>2. B!Closed(s) = IF bLicense[s] = B!NoBinding THEN <<>> ELSE <<lic, ent>>
        BY DEF B!Closed
  <2> HIDE DEF V, lic, ent, W
  <2>3. bPing[s][i] = "inactive" => bSold[s] = "inactive"
        BY DEF SaleInv
  <2>4. bTodo' = B!Remembered(s) \o IF s \notin bEvent /\ bPing[s][i] = "inactive"
                                 THEN B!Closed(s) \o <<W>> ELSE <<>>
        BY <1>2 DEF W
  <2>5. /\ <<>> \o <<>> = <<>> /\ <<V>> \o <<>> = <<V>> /\ <<V>> \o (<<>> \o <<W>>) = <<V, W>>
        /\ <<V>> \o (<<lic, ent>> \o <<W>>) = <<V, lic, ent, W>>
    <3>1. <<>> \in Seq(BillingDoc) /\ <<V>> \in Seq(BillingDoc) /\ <<W>> \in Seq(BillingDoc)
          BY <1>7
    <3>2. <<>> \o <<>> = <<>> /\ <<V>> \o <<>> = <<V>> /\ <<>> \o <<W>> = <<W>>
          BY <3>1, ConcatEmptySeq
    <3>3. <<lic, ent>> \o <<W>> = <<lic, ent, W>>
          BY <1>7, JoinTwo
    <3>4. <<V>> \o <<W>> = <<V, W>>
          BY <1>7, JoinOne
    <3>5. <<V>> \o <<lic, ent, W>> = <<V, lic, ent, W>>
          BY ZenonT(60), <1>7, JoinOne
    <3> QED BY <3>2, <3>3, <3>4, <3>5
  <2>6. CASE s \in bEvent
        BY <2>1, <2>4, <2>5, <2>6
  <2>7. CASE s \notin bEvent /\ bPing[s][i] # "inactive"
        BY <2>1, <2>4, <2>5, <2>7
  <2>8. CASE s \notin bEvent /\ bPing[s][i] = "inactive"
        BY <2>1, <2>2, <2>3, <2>4, <2>5, <2>8
  <2> QED BY <2>6, <2>7, <2>8
<1> HIDE DEF V, lic, ent, W, off
<1>9. BillingTypes'
  <2>1. /\ <<>> \in Seq(BillingDoc) /\ <<V>> \in Seq(BillingDoc) /\ <<V, W>> \in Seq(BillingDoc)
        /\ <<V, lic, ent, W>> \in Seq(BillingDoc)
        BY <1>7
  <2>2. bTodo' \in Seq(BillingDoc)
        BY <1>8, <2>1
  <2> QED BY <1>1, <1>3, <2>2 DEF BillingTypes
<1>10. BillingTodo'
  <2>1. CASE bTodo' = <<>>
        BY <2>1 DEF BillingTodo
  <2>2. CASE bTodo' = <<V>>
        BY <1>4, <2>2 DEF BillingTodo
  <2>3. CASE bSold[s] = "inactive" /\ bLicense[s] = B!NoBinding /\ bTodo' = <<V, W>>
    <3>1. Len(bTodo') = 2 /\ bTodo'[1] = V /\ bTodo'[2] = W /\ \A k \in 1..2 : k = 1 \/ k = 2
          BY <2>3
    <3>2. \A a \in User : bEntitlement[a].sale # s \/ ~bEntitlement[a].active
          BY <2>3 DEF B!EntitlementBacked, B!NoBinding
    <3>3. AnswerDue(bTodo, 2)'
          BY <1>1, <1>4, <2>3, <3>1, <3>2 DEF AnswerDue, B!NoBinding
    <3> QED BY <1>4, <3>1, <3>3 DEF BillingTodo
  <2>4. CASE bSold[s] = "inactive" /\ bLicense[s] # B!NoBinding /\ bTodo' = <<V, lic, ent, W>>
    <3>1. /\ Len(bTodo') = 4 /\ bTodo'[1] = V /\ bTodo'[2] = lic /\ bTodo'[3] = ent /\ bTodo'[4] = W
          /\ \A k \in 1..4 : k = 1 \/ k = 2 \/ k = 3 \/ k = 4
          BY <2>4
    <3>2. off.account \in User /\ off.sale = s
          BY <1>6, <2>4 DEF SaleInv
    <3>3. LicenseDue(bTodo[2])'
          BY <1>1, <1>4, <1>6, <3>1, <3>2 DEF LicenseDue
    <3>4. EntitlementDue(bTodo, 3)'
          BY <1>1, <1>4, <1>6, <3>1, <3>2 DEF EntitlementDue
    <3>5. ASSUME NEW a \in User, bEntitlement[a].sale = s, bEntitlement[a].active
          PROVE  a = off.account
      <4>1. bEntitlement[a] # B!NoBinding
            BY <3>5 DEF B!NoBinding
      <4> QED BY <1>6, <3>5, <4>1 DEF B!EntitlementBacked
    <3>6. AnswerDue(bTodo, 4)'
      <4>1. \A k \in 1..4 : bTodo'[k].doc \in {"license", "entitlement"} => ~bTodo'[k].is.active
            BY <1>4, <1>6, <3>1
      <4>2. \A a \in User : \/ bEntitlement[a].sale # s \/ ~bEntitlement[a].active
                               \/ \E k \in 1..4 : k < 4 /\ bTodo'[k].doc = "entitlement"
                                                        /\ bTodo'[k].of = a
            BY <1>4, <3>1, <3>5
      <4>3. \E k \in 1..4 : k < 4 /\ bTodo'[k].doc = "license" /\ bTodo'[k].of = s
            BY <1>4, <3>1
      <4> QED BY <1>1, <1>4, <2>4, <3>1, <4>1, <4>2, <4>3 DEF AnswerDue
    <3> QED BY <1>4, <3>1, <3>3, <3>4, <3>6 DEF BillingTodo
  <2> QED BY <1>8, <2>1, <2>2, <2>3, <2>4
<1> QED BY <1>1, <1>3, <1>9, <1>10 DEF SaleInv, B!EntitlementBacked, B!WithdrawalLasts

(* A write that is due takes effect, and what is left is still due.            *)
LEMMA BillingWrite ==
  ASSUME BillingInv, None \notin User, B!Write
  PROVE  BillingInv'
<1> USE DEF BillingInv
<1> DEFINE w == bTodo[1]
<1>1. /\ bTodo \in Seq(BillingDoc) /\ bTodo # <<>> /\ Len(bTodo) \in Nat /\ Len(bTodo) > 0
      /\ 1 \in 1..Len(bTodo) /\ Head(bTodo) = w /\ w \in BillingDoc
      BY DEF B!Write, BillingTypes
<1>2. /\ bTodo' \in Seq(BillingDoc) /\ Len(bTodo') = Len(bTodo) - 1
      /\ \A i \in 1..Len(bTodo') : i + 1 \in 1..Len(bTodo) /\ bTodo'[i] = bTodo[i + 1]
  <2>1. bTodo' = Tail(bTodo)
        BY DEF B!Write
  <2> QED BY <1>1, <2>1, HeadTailProperties
<1>3. \A j \in 1..Len(bTodo) : j > 1 => j - 1 \in 1..Len(bTodo') /\ bTodo'[j - 1] = bTodo[j]
      BY <1>1, <1>2
<1>4. w.is \in B!BindingType
      BY <1>1 DEF BillingDoc
<1>5. bSold' = bSold /\ bPing' = bPing
      BY DEF B!Write
<1>6. /\ w.doc \in {"license", "entitlement", "event", "answer"}
      /\ bEvent' = IF w.doc = "event" THEN bEvent \cup {w.of} ELSE bEvent
      /\ bLicense' = IF w.doc = "license" THEN [bLicense EXCEPT ![w.of] = w.is] ELSE bLicense
      /\ bEntitlement' = IF w.doc = "entitlement"
                        THEN [bEntitlement EXCEPT ![w.of] = w.is] ELSE bEntitlement
      /\ bHonoured' = IF w.doc = "answer" THEN bHonoured \cup {w.of} ELSE bHonoured
      BY <1>1 DEF B!Write, BillingDoc
<1>7. /\ w.doc = "event" => w.of \in Sale
      /\ w.doc = "license" =>
           /\ LicenseDue(w)
           /\ \A j \in 1..Len(bTodo) : bTodo[j].doc = "license" /\ bTodo[j].of = w.of
                                     => bTodo[j].is.account = w.is.account
      /\ w.doc = "entitlement" => EntitlementDue(bTodo, 1)
      /\ w.doc = "answer" => AnswerDue(bTodo, 1)
      BY <1>1 DEF BillingTodo
<1>8. w.doc = "entitlement" => bLicense[w.is.sale].account = w.of
      BY <1>7 DEF EntitlementDue
<1>9. w.doc = "answer" =>
        /\ ~bLicense[w.of].active
        /\ \A a \in User : bEntitlement[a].sale # w.of \/ ~bEntitlement[a].active
      BY <1>7 DEF AnswerDue
<1> HIDE DEF w
<1>10. BillingTypes'
  <2>1. bLicense' \in [Sale -> B!BindingType] /\ bEntitlement' \in [User -> B!BindingType]
        BY <1>4, <1>6 DEF BillingTypes
  <2>2. w.doc = "answer" => w.of \in Sale
        BY <1>7 DEF AnswerDue, w
  <2>3. bEvent' \subseteq Sale /\ bHonoured' \subseteq Sale
        BY <1>6, <1>7, <2>2 DEF BillingTypes
  <2> QED BY <1>2, <1>5, <2>1, <2>3 DEF BillingTypes
<1>11. SaleInv' /\ B!EntitlementBacked' /\ B!WithdrawalLasts'
  <2>1. CASE w.doc = "license"
    <3>1. /\ bLicense' = [bLicense EXCEPT ![w.of] = w.is] /\ bEntitlement' = bEntitlement
          /\ bHonoured' = bHonoured
          BY <1>6, <2>1
    <3>2. LicenseDue(w)
          BY <1>7, <2>1
    <3>3. \A r \in Sale : bLicense'[r] = IF r = w.of THEN w.is ELSE bLicense[r]
          BY <3>1 DEF BillingTypes
    <3>4. SaleInv'
          BY <1>5, <3>1, <3>2, <3>3 DEF SaleInv, LicenseDue
    <3>5. B!WithdrawalLasts'
          BY <3>1, <3>2, <3>3 DEF B!WithdrawalLasts, LicenseDue, BillingTypes
    <3>6. ASSUME NEW a \in User, bEntitlement[a] # B!NoBinding
          PROVE  bLicense'[bEntitlement[a].sale].account = a
      <4>1. bEntitlement[a].sale \in Sale /\ bLicense[bEntitlement[a].sale].account = a
            BY <3>6 DEF SaleInv, B!EntitlementBacked
      <4> QED BY <3>2, <3>3, <4>1 DEF LicenseDue
    <3> QED BY <3>1, <3>4, <3>5, <3>6 DEF B!EntitlementBacked
  <2>2. CASE w.doc = "entitlement"
    <3>1. /\ bEntitlement' = [bEntitlement EXCEPT ![w.of] = w.is] /\ bLicense' = bLicense
          /\ bHonoured' = bHonoured
          BY <1>6, <2>2
    <3>2. w.of \in User /\ w.is.sale \in Sale /\ (w.is.active => w.is.sale \notin bHonoured)
          BY <1>7, <2>2 DEF EntitlementDue, w
    <3>3. \A a \in User : bEntitlement'[a] = IF a = w.of THEN w.is ELSE bEntitlement[a]
          BY <3>1 DEF BillingTypes
    <3>4. SaleInv'
          BY <1>5, <3>1, <3>2, <3>3 DEF SaleInv
    <3>5. B!WithdrawalLasts'
          BY <3>1, <3>2, <3>3 DEF B!WithdrawalLasts
    <3>6. B!EntitlementBacked'
          BY <1>8, <2>2, <3>1, <3>2, <3>3 DEF B!EntitlementBacked
    <3> QED BY <3>4, <3>5, <3>6
  <2>3. CASE w.doc = "event"
        BY <1>5, <1>6, <2>3 DEF SaleInv, B!EntitlementBacked, B!WithdrawalLasts
  <2>4. CASE w.doc = "answer"
    <3>1. bHonoured' = bHonoured \cup {w.of} /\ bLicense' = bLicense /\ bEntitlement' = bEntitlement
          BY <1>6, <2>4
    <3>2. bSold[w.of] = "inactive"
          BY <1>7, <2>4 DEF AnswerDue, w
    <3> QED BY <1>5, <1>9, <2>4, <3>1, <3>2 DEF SaleInv, B!EntitlementBacked, B!WithdrawalLasts
  <2> QED BY <1>6, <2>1, <2>2, <2>3, <2>4
<1>12. BillingTodo'
  <2> SUFFICES ASSUME NEW i \in 1..Len(bTodo')
               PROVE  /\ bTodo'[i].doc = "event" => bTodo'[i].of \in Sale
                      /\ bTodo'[i].doc = "license" =>
                           /\ LicenseDue(bTodo[i])'
                           /\ \A j \in 1..Len(bTodo') :
                                bTodo'[j].doc = "license" /\ bTodo'[j].of = bTodo'[i].of
                                => bTodo'[j].is.account = bTodo'[i].is.account
                      /\ bTodo'[i].doc = "entitlement" => EntitlementDue(bTodo, i)'
                      /\ bTodo'[i].doc = "answer" => AnswerDue(bTodo, i)'
      BY DEF BillingTodo
  <2> DEFINE v == bTodo[i + 1]
  <2>1. bTodo'[i] = v /\ i + 1 \in 1..Len(bTodo) /\ i \in Nat /\ i > 0
        BY <1>2
  <2>2. v.doc = "event" => v.of \in Sale
        BY <2>1 DEF BillingTodo
  <2>3. ASSUME v.doc = "license"
        PROVE  /\ LicenseDue(bTodo[i])'
               /\ \A j \in 1..Len(bTodo') : bTodo'[j].doc = "license" /\ bTodo'[j].of = v.of
                                          => bTodo'[j].is.account = v.is.account
    <3>1. /\ LicenseDue(v)
          /\ \A j \in 1..Len(bTodo) : bTodo[j].doc = "license" /\ bTodo[j].of = v.of
                                    => bTodo[j].is.account = v.is.account
          BY <2>1, <2>3 DEF BillingTodo
    <3>2. \A j \in 1..Len(bTodo') : bTodo'[j].doc = "license" /\ bTodo'[j].of = v.of
                                  => bTodo'[j].is.account = v.is.account
          BY <1>2, <3>1
    <3>3. bLicense'[v.of].account \in {None, v.is.account}
      <4>1. CASE w.doc = "license" /\ w.of = v.of
        <5>1. w.is.account = v.is.account
              BY <1>1, <3>1, <4>1 DEF w
        <5> QED BY <1>6, <3>1, <4>1, <5>1 DEF BillingTypes, LicenseDue
      <4>2. CASE ~(w.doc = "license" /\ w.of = v.of)
            BY <1>6, <3>1, <4>2 DEF BillingTypes, LicenseDue
      <4> QED BY <4>1, <4>2
    <3>4. v.is.active => v.of \notin bHonoured'
      <4>1. w.doc = "answer" => ~v.is.active
            BY <1>7, <2>1, <2>3 DEF AnswerDue
      <4> QED BY <1>6, <3>1, <4>1 DEF LicenseDue
    <3> HIDE DEF v
    <3> QED BY <2>1, <3>1, <3>2, <3>3, <3>4 DEF LicenseDue
  <2>4. ASSUME v.doc = "entitlement"
        PROVE  EntitlementDue(bTodo, i)'
    <3>1. EntitlementDue(bTodo, i + 1)
          BY <2>1, <2>4 DEF BillingTodo
    <3>2. v.is.active => v.is.sale \notin bHonoured'
      <4>1. w.doc = "answer" => ~v.is.active
            BY <1>7, <2>1, <2>4 DEF AnswerDue
      <4> QED BY <1>6, <3>1, <4>1 DEF EntitlementDue
    <3>3. \/ bLicense'[v.is.sale].account = v.of
          \/ \E j \in 1..Len(bTodo') : /\ j < i /\ bTodo'[j].doc = "license"
                                      /\ bTodo'[j].of = v.is.sale /\ bTodo'[j].is.account = v.of
      <4>1. CASE bLicense[v.is.sale].account = v.of
        <5>1. w.doc = "license" /\ w.of = v.is.sale => w.is.account = v.of
              BY <1>7, <3>1, <4>1 DEF LicenseDue, EntitlementDue
        <5> QED BY <1>6, <3>1, <4>1, <5>1 DEF BillingTypes, EntitlementDue
      <4>2. CASE w.doc = "license" /\ w.of = v.is.sale /\ w.is.account = v.of
            BY <1>6, <3>1, <4>2 DEF BillingTypes, EntitlementDue
      <4>3. ASSUME NEW j \in 1..Len(bTodo), j < i + 1, bTodo[j].doc = "license",
                   bTodo[j].of = v.is.sale, bTodo[j].is.account = v.of, j > 1
            PROVE  \E k \in 1..Len(bTodo') :
                     /\ k < i /\ bTodo'[k].doc = "license"
                     /\ bTodo'[k].of = v.is.sale /\ bTodo'[k].is.account = v.of
        <5>1. j - 1 \in 1..Len(bTodo') /\ bTodo'[j - 1] = bTodo[j] /\ j - 1 < i
              BY <1>3, <2>1, <4>3
        <5> HIDE DEF v
        <5> QED BY <4>3, <5>1
      <4> QED BY <2>1, <3>1, <4>1, <4>2, <4>3 DEF EntitlementDue, w
    <3>4. v.of \in User /\ v.is.sale \in Sale
          BY <3>1 DEF EntitlementDue
    <3> HIDE DEF v
    <3> QED BY <2>1, <3>2, <3>3, <3>4 DEF EntitlementDue
  <2>5. ASSUME v.doc = "answer"
        PROVE  AnswerDue(bTodo, i)'
    <3>1. AnswerDue(bTodo, i + 1)
          BY <2>1, <2>5 DEF BillingTodo
    <3>2. v.of \in Sale /\ bSold'[v.of] = "inactive"
          BY <1>5, <3>1 DEF AnswerDue
    <3>3. \A j \in 1..Len(bTodo') :
            bTodo'[j].doc \in {"license", "entitlement"} => ~bTodo'[j].is.active
          BY <1>2, <3>1 DEF AnswerDue
    <3>4. w.doc \in {"license", "entitlement"} => ~w.is.active
          BY <1>1, <3>1 DEF AnswerDue, w
    <3>5. \/ ~bLicense'[v.of].active
          \/ \E j \in 1..Len(bTodo') : j < i /\ bTodo'[j].doc = "license" /\ bTodo'[j].of = v.of
      <4>1. CASE ~bLicense[v.of].active
            BY <1>6, <3>2, <3>4, <4>1 DEF BillingTypes
      <4>2. CASE w.doc = "license" /\ w.of = v.of
            BY <1>6, <3>2, <3>4, <4>2 DEF BillingTypes
      <4>3. ASSUME NEW j \in 1..Len(bTodo), j < i + 1, bTodo[j].doc = "license",
                   bTodo[j].of = v.of, j > 1
            PROVE  \E k \in 1..Len(bTodo') : k < i /\ bTodo'[k].doc = "license" /\ bTodo'[k].of = v.of
        <5>1. j - 1 \in 1..Len(bTodo') /\ bTodo'[j - 1] = bTodo[j] /\ j - 1 < i
              BY <1>3, <2>1, <4>3
        <5> HIDE DEF v
        <5> QED BY <4>3, <5>1
      <4> QED BY <2>1, <3>1, <4>1, <4>2, <4>3 DEF AnswerDue, w
    <3>6. ASSUME NEW a \in User, bEntitlement'[a].sale = v.of, bEntitlement'[a].active
          PROVE  \E j \in 1..Len(bTodo') : j < i /\ bTodo'[j].doc = "entitlement" /\ bTodo'[j].of = a
      <4>1. ~(w.doc = "entitlement" /\ w.of = a)
            BY <1>6, <3>4, <3>6 DEF BillingTypes
      <4>2. bEntitlement'[a] = bEntitlement[a]
            BY <1>6, <4>1 DEF BillingTypes
      <4>3. PICK j \in 1..Len(bTodo) : j < i + 1 /\ bTodo[j].doc = "entitlement" /\ bTodo[j].of = a
            BY <3>1, <3>6, <4>2 DEF AnswerDue
      <4>4. j > 1
            BY <4>1, <4>3 DEF w
      <4>5. j - 1 \in 1..Len(bTodo') /\ bTodo'[j - 1] = bTodo[j] /\ j - 1 < i
            BY <1>3, <2>1, <4>3, <4>4
      <4> HIDE DEF v
      <4> QED BY <4>3, <4>5
    <3> HIDE DEF v
    <3> QED BY <2>1, <3>2, <3>3, <3>5, <3>6 DEF AnswerDue
  <2> HIDE DEF v
  <2> QED BY <2>1, <2>2, <2>3, <2>4, <2>5
<1> QED BY <1>10, <1>11, <1>12

(* A restart forgets what was still to be written, never what was.             *)
LEMMA BillingCrash ==
  ASSUME BillingInv, B!Crash \/ UNCHANGED B!vars
  PROVE  BillingInv'
<1> USE DEF BillingInv
<1>1. CASE B!Crash
  <2>1. bTodo' = <<>> /\ bTodo' \in Seq(BillingDoc)
        BY <1>1 DEF B!Crash
  <2> QED BY <1>1, <2>1 DEF B!Crash, BillingTypes, SaleInv, BillingTodo, B!EntitlementBacked, B!WithdrawalLasts
<1>2. CASE UNCHANGED B!vars
      BY <1>2 DEF B!vars, BillingTypes, SaleInv, BillingTodo, LicenseDue, EntitlementDue, AnswerDue,
                  B!EntitlementBacked, B!WithdrawalLasts
<1> QED BY <1>1, <1>2

(* A write is the only step that touches a license, and a license that is due  *)
(* keeps the account of its key.                                               *)
LEMMA KeyStays ==
  ASSUME BillingInv, [B!Next]_(B!vars)
  PROVE  B!LicenseStays
<1>1. CASE B!Write
  <2>1. bTodo \in Seq(BillingDoc) /\ bTodo # <<>> /\ 1 \in 1..Len(bTodo) /\ Head(bTodo) = bTodo[1]
        BY <1>1 DEF BillingInv, BillingTypes, B!Write
  <2>2. bLicense' = IF bTodo[1].doc = "license" THEN [bLicense EXCEPT ![bTodo[1].of] = bTodo[1].is]
                   ELSE bLicense
        BY <1>1, <2>1 DEF B!Write
  <2>3. bTodo[1].doc = "license" => LicenseDue(bTodo[1])
        BY <2>1 DEF BillingInv, BillingTodo
  <2> QED BY <2>2, <2>3 DEF B!LicenseStays, LicenseDue, BillingInv, BillingTypes
<1>2. CASE ~B!Write
      BY <1>2 DEF B!Next, B!vars, B!Sell, B!Withdraw, B!Repeat, B!Ping, B!Verify, B!Crash, B!LicenseStays
<1> QED BY <1>1, <1>2

LEMMA BillingStep == ASSUME BillingInv, [B!Next]_(B!vars) PROVE BillingInv'
<1> USE NoneAssumption
<1>1. CASE \E s \in Sale : B!Sell(s) \/ B!Withdraw(s) \/ B!Repeat(s)
      BY <1>1, SaleStep
<1>2. CASE \E s \in Sale : B!Ping(s)
      BY <1>2, PingStep
<1>3. CASE \E a \in User, s \in Sale : B!Verify(a, s)
      BY <1>3, VerifyStep
<1>4. CASE B!Write
      BY <1>4, BillingWrite
<1>5. CASE B!Crash \/ UNCHANGED B!vars
      BY <1>5, BillingCrash
<1> QED BY <1>1, <1>2, <1>3, <1>4, <1>5 DEF B!Next

(* Whatever is sold, pinged, written and lost, a key stays with the account    *)
(* that bound it, an entitlement is backed by the license of its account, and  *)
(* a withdrawal that was answered in order lasts.                              *)
THEOREM Billed == B!Spec => BillingHolds
<1>1. BillingInv /\ [B!Next]_(B!vars) => BillingInv' /\ B!LicenseStays
      BY BillingStep, KeyStays
<1>2. BillingInv' => B!EntitlementBacked' /\ B!WithdrawalLasts'
      BY DEF BillingInv
<1> QED BY BillingInit, <1>1, <1>2, PTL DEF B!Spec, BillingHolds, B!BillingHolds

(* The documents of billing have their types.                                  *)
THEOREM BillingTyped == B!Spec => []B!BillingTypeOK
<1>1. BillingInv /\ [B!Next]_(B!vars) => BillingInv'
      BY BillingStep
<1>2. BillingInv => B!BillingTypeOK
      BY Zenon DEF BillingInv, BillingTypes, B!BillingTypeOK
<1> QED BY BillingInit, <1>1, <1>2, PTL DEF B!Spec

-----------------------------------------------------------------------------
(* Transcription                                                              *)

(* The requests that still have a launch on its way.                          *)
Launches == {r \in Request : aTask[r] # "none"}

AudioTypes ==
  /\ A!AudioBatchTypeOK
  /\ aAnswer \in [Request -> Request \cup {None}]
  /\ aMet \in BOOLEAN

(* Unless a launch met a running batch, there are as many launches on their    *)
(* way as requests in the queue: one of them is enough for a batch.            *)
AudioInv ==
  /\ AudioTypes
  /\ \A r \in Request : aRequest[r] = "new" => aTask[r] = "none"
  /\ IsFiniteSet(Launches)
  /\ ~aMet => Len(aQueue) <= Cardinality(Launches)
  /\ A!AudioServed

LEMMA AudioInit == A!Init => AudioInv
<1> SUFFICES ASSUME A!Init PROVE AudioInv
    OBVIOUS
<1>1. /\ aQueue = <<>> /\ aBatch = <<>> /\ aMet = FALSE
      /\ \A r \in Request : aTask[r] = "none" /\ aAnswer[r] = None
      /\ aTask \in [Request -> {"none", "timer", "launch"}]
      /\ aAnswer \in [Request -> Request \cup {None}]
      /\ aRequest \in [Request -> {"new", "waiting", "answered", "lost", "gone"}]
      BY DEF A!Init
<1>2. Launches = {}
      BY <1>1 DEF Launches
<1>3. IsFiniteSet(Launches) /\ Cardinality(Launches) = 0
      BY <1>2, FS_EmptySet
<1>4. <<>> \in Seq(Request) /\ Len(<<>>) = 0
      BY EmptySeq
<1>5. AudioTypes
  <2>1. aQueue \in Seq(Request) /\ aBatch \in Seq(Request)
        BY <1>1, <1>4, Zenon
  <2>2. Len(aBatch) = 0
        BY <1>1, <1>4, Zenon
  <2>3. Len(aBatch) <= Batch
        BY <2>2, BatchAssumption
  <2> QED BY <1>1, <2>1, <2>3 DEF AudioTypes, A!AudioBatchTypeOK
<1> QED BY <1>1, <1>3, <1>4, <1>5 DEF AudioInv, A!AudioServed, A!OwnAnswer, A!StrandedByLock

LEMMA AudioPost == ASSUME AudioInv, NEW r \in Request, A!Post(r) PROVE AudioInv'
<1>1. /\ aRequest[r] = "new" /\ aRequest' = [aRequest EXCEPT ![r] = "waiting"]
      /\ aQueue' = Append(aQueue, r)
      /\ UNCHANGED <<aBatch, aAnswer, aMet>>
      /\ \E t \in {"timer", "launch"} : aTask' = [aTask EXCEPT ![r] = t]
      BY Zenon DEF A!Post
<1>2. PICK t \in {"timer", "launch"} : aTask' = [aTask EXCEPT ![r] = t]
      BY <1>1
<1>3. /\ aQueue \in Seq(Request) /\ aTask[r] = "none"
      /\ aTask \in [Request -> {"none", "timer", "launch"}]
      BY <1>1 DEF AudioInv, AudioTypes, A!AudioBatchTypeOK
<1>4. aQueue' \in Seq(Request) /\ Len(aQueue') = Len(aQueue) + 1 /\ aQueue' # <<>>
      BY <1>1, <1>3, AppendProperties
<1>5. Launches' = Launches \cup {r} /\ r \notin Launches
      BY <1>2, <1>3 DEF Launches
<1>6. IsFiniteSet(Launches') /\ Cardinality(Launches') = Cardinality(Launches) + 1
      BY <1>5, FS_AddElement DEF AudioInv
<1>7. Cardinality(Launches) \in Nat
      BY FS_CardinalityType DEF AudioInv
<1>8. AudioTypes'
      BY <1>1, <1>2, <1>4 DEF AudioInv, AudioTypes, A!AudioBatchTypeOK
<1>9. \A q \in Request : aRequest'[q] = "new" => aTask'[q] = "none"
      BY <1>1, <1>2, <1>3 DEF AudioInv, AudioTypes, A!AudioBatchTypeOK
<1>10. ~aMet' => Len(aQueue') <= Cardinality(Launches')
      BY <1>1, <1>3, <1>4, <1>6, <1>7, LenProperties DEF AudioInv
<1>11. aTask'[r] # "none"
      BY <1>2, <1>3
<1>12. A!AudioServed'
      BY <1>1, <1>11 DEF AudioInv, A!AudioServed, A!OwnAnswer, A!StrandedByLock
<1> QED BY <1>6, <1>8, <1>9, <1>10, <1>12 DEF AudioInv

LEMMA AudioLaunch == ASSUME AudioInv, NEW r \in Request, A!Launch(r) PROVE AudioInv'
<1> DEFINE n == IF A!Locked THEN 0 ELSE IF Batch < Len(aQueue) THEN Batch ELSE Len(aQueue)
<1>1. /\ aTask[r] # "none" /\ aTask' = [aTask EXCEPT ![r] = "none"]
      /\ aMet' = (aMet \/ A!Locked)
      /\ aBatch' = aBatch \o SubSeq(aQueue, 1, n)
      /\ aQueue' = SubSeq(aQueue, n + 1, Len(aQueue))
      /\ UNCHANGED <<aRequest, aAnswer>>
      BY Zenon DEF A!Launch
<1>2. /\ aQueue \in Seq(Request) /\ aBatch \in Seq(Request) /\ Len(aBatch) <= Batch
      /\ aTask \in [Request -> {"none", "timer", "launch"}]
      BY DEF AudioInv, AudioTypes, A!AudioBatchTypeOK
<1>3. Len(aQueue) \in Nat /\ Len(aBatch) \in Nat /\ n \in 0..Len(aQueue) /\ n <= Batch
      BY <1>2, LenProperties, BatchAssumption
<1> HIDE DEF n
<1>4. \A i \in 1..Len(aQueue) : aQueue[i] \in Request
      BY <1>2, ElementOfSeq
<1>5. /\ SubSeq(aQueue, 1, n) \in Seq(Request) /\ Len(SubSeq(aQueue, 1, n)) = n
      /\ aQueue' \in Seq(Request) /\ Len(aQueue') = Len(aQueue) - n
  <2>1. \A i \in 1..n : aQueue[i] \in Request
        BY <1>3, <1>4
  <2>2. \A i \in n + 1..Len(aQueue) : aQueue[i] \in Request
        BY <1>3, <1>4
  <2>3. SubSeq(aQueue, 1, n) \in Seq(Request) /\ Len(SubSeq(aQueue, 1, n)) = n
        BY <1>3, <2>1, SubSeqProperties
  <2>4. /\ SubSeq(aQueue, n + 1, Len(aQueue)) \in Seq(Request)
        /\ Len(SubSeq(aQueue, n + 1, Len(aQueue))) = Len(aQueue) - n
        BY <1>3, <2>2, SubSeqProperties
  <2> QED BY <1>1, <2>3, <2>4
<1>6. aBatch' \in Seq(Request) /\ Len(aBatch') = Len(aBatch) + n
      BY <1>1, <1>2, <1>5, ConcatProperties
<1>7. Len(aBatch') <= Batch
  <2>1. CASE A!Locked
        BY <1>2, <1>3, <1>6, <2>1 DEF n
  <2>2. CASE ~A!Locked
    <3>1. Len(aBatch) = 0
          BY <2>2, EmptySeq DEF A!Locked
    <3> QED BY <1>3, <1>6, <3>1, BatchAssumption
  <2> QED BY <2>1, <2>2
<1>8. AudioTypes'
      BY <1>1, <1>2, <1>5, <1>6, <1>7 DEF AudioInv, AudioTypes, A!AudioBatchTypeOK, A!Locked
<1>9. Launches' = Launches \ {r} /\ r \in Launches
      BY <1>1, <1>2 DEF Launches
<1>10. IsFiniteSet(Launches') /\ Cardinality(Launches') = Cardinality(Launches) - 1
      BY <1>9, FS_RemoveElement DEF AudioInv
<1>11. Cardinality(Launches) \in Nat /\ Cardinality(Launches') \in Nat
      BY <1>10, FS_CardinalityType DEF AudioInv
<1>12. ~aMet' => Len(aQueue') <= Cardinality(Launches')
  <2> SUFFICES ASSUME ~aMet' PROVE Len(aQueue') <= Cardinality(Launches')
      OBVIOUS
  <2>1. ~aMet /\ ~A!Locked /\ Len(aQueue) <= Cardinality(Launches)
        BY <1>1 DEF AudioInv
  <2>2. n = IF Batch < Len(aQueue) THEN Batch ELSE Len(aQueue)
        BY <2>1 DEF n
  <2> QED BY <1>3, <1>5, <1>10, <1>11, <2>1, <2>2, BatchAssumption
<1>13. A!StrandedByLock'
  <2> SUFFICES ASSUME aQueue' # <<>>, \A q \in Request : aTask'[q] = "none" PROVE aMet'
      BY DEF A!StrandedByLock
  <2>1. Launches' = {}
        BY DEF Launches
  <2>2. Cardinality(Launches') = 0
        BY <2>1, FS_EmptySet
  <2>3. Len(aQueue') \in Nat \ {0}
        BY <1>5, EmptySeq
  <2> QED BY <1>12, <2>2, <2>3
<1>14. A!OwnAnswer' /\ (\A q \in Request : aRequest'[q] = "new" => aTask'[q] = "none")
      BY <1>1, <1>2 DEF AudioInv, A!AudioServed, A!OwnAnswer
<1> QED BY <1>8, <1>10, <1>12, <1>13, <1>14 DEF AudioInv, A!AudioServed

(* The queue, the launches and what met them are left alone. *)
LEMMA AudioKept ==
  ASSUME AudioInv, UNCHANGED <<aQueue, aTask, aMet>>,
         aBatch' = <<>> \/ aBatch' = aBatch,
         aRequest' \in [Request -> {"new", "waiting", "answered", "lost", "gone"}],
         \A r \in Request : aRequest'[r] = "new" => aRequest[r] = "new" \/ aTask[r] = "none",
         aAnswer' \in [Request -> Request \cup {None}],
         \A r \in Request : aAnswer'[r] \in {aAnswer[r], r, None}
  PROVE  AudioInv'
<1>0. <<>> \in Seq(Request) /\ Len(<<>>) = 0
      BY EmptySeq
<1>1. aBatch' \in Seq(Request) /\ Len(aBatch') <= Batch
  <2>1. CASE aBatch' = <<>>
    <3>1. aBatch' \in Seq(Request) /\ Len(aBatch') = 0
          BY <1>0, <2>1, Zenon
    <3> QED BY <3>1, BatchAssumption
  <2>2. CASE aBatch' = aBatch
        BY <2>2 DEF AudioInv, AudioTypes, A!AudioBatchTypeOK
  <2> QED BY <2>1, <2>2
<1>2. AudioTypes'
      BY <1>1 DEF AudioInv, AudioTypes, A!AudioBatchTypeOK
<1>3. Launches' = Launches
      BY DEF Launches
<1>4. A!OwnAnswer'
      BY DEF AudioInv, A!AudioServed, A!OwnAnswer
<1>5. aQueue # <<>> /\ ~aMet => Launches # {}
  <2>1. aQueue # <<>> => Len(aQueue) \in Nat \ {0}
        BY EmptySeq DEF AudioInv, AudioTypes, A!AudioBatchTypeOK
  <2> QED BY <2>1, FS_EmptySet DEF AudioInv
<1>6. A!StrandedByLock'
      BY <1>5 DEF A!StrandedByLock, Launches
<1> QED BY <1>2, <1>3, <1>4, <1>6 DEF AudioInv, A!AudioServed

LEMMA AudioDone == ASSUME AudioInv, A!Done PROVE AudioInv'
<1> DEFINE open == {r \in A!ToSet(aBatch) : aRequest[r] = "waiting"}
<1>1. /\ aAnswer' = [r \in Request |->
           IF r \in open THEN A!Texts(aBatch)[CHOOSE i \in DOMAIN aBatch : aBatch[i] = r]
           ELSE aAnswer[r]]
      /\ aRequest' = [r \in Request |-> IF r \in open THEN "answered" ELSE aRequest[r]]
      /\ aBatch' = <<>> /\ UNCHANGED <<aQueue, aTask, aMet>>
      BY Zenon DEF A!Done
<1>2. \A r \in open : \E i \in DOMAIN aBatch : aBatch[i] = r
      BY DEF A!ToSet
<1>3. ASSUME NEW r \in Request PROVE aAnswer'[r] \in {aAnswer[r], r, None}
  <2>1. CASE r \in open
    <3>1. PICK j \in DOMAIN aBatch : aBatch[j] = r
          BY <1>2, <2>1
    <3> DEFINE c == CHOOSE i \in DOMAIN aBatch : aBatch[i] = r
    <3>2. c \in DOMAIN aBatch /\ aBatch[c] = r
          BY <3>1, Zenon
    <3>3. aAnswer'[r] = A!Texts(aBatch)[c]
          BY <1>1, <2>1, Zenon
    <3> HIDE DEF c
    <3> QED BY <3>2, <3>3 DEF A!Texts
  <2>2. CASE r \notin open
        BY <1>1, <2>2, Zenon
  <2> QED BY <2>1, <2>2
<1> HIDE DEF open
<1>4. DOMAIN aAnswer' = Request /\ aAnswer' = [r \in Request |-> aAnswer'[r]]
      BY <1>1
<1>5. \A r \in Request : aAnswer[r] \in Request \cup {None}
      BY DEF AudioInv, AudioTypes
<1>6. aAnswer' \in [Request -> Request \cup {None}]
      BY <1>3, <1>4, <1>5
<1>7. aRequest' \in [Request -> {"new", "waiting", "answered", "lost", "gone"}]
      BY <1>1 DEF AudioInv, AudioTypes, A!AudioBatchTypeOK
<1>8. \A r \in Request : aRequest'[r] = "new" => aRequest[r] = "new"
      BY <1>1
<1> QED BY <1>1, <1>3, <1>6, <1>7, <1>8, AudioKept

LEMMA AudioOther ==
  ASSUME AudioInv, A!Failed \/ (\E r \in Request : A!PostSilence(r) \/ A!Leave(r) \/ A!Again(r))
  PROVE  AudioInv'
<1> USE DEF AudioInv, AudioTypes, A!AudioBatchTypeOK
<1>1. CASE A!Failed
  <2>1. /\ aRequest' \in [Request -> {"new", "waiting", "answered", "lost", "gone"}]
        /\ \A r \in Request : aRequest'[r] = "new" => aRequest[r] = "new"
        BY <1>1 DEF A!Failed
  <2>2. aBatch' = <<>> /\ UNCHANGED <<aQueue, aTask, aAnswer, aMet>>
        BY <1>1 DEF A!Failed
  <2>3. aAnswer' \in [Request -> Request \cup {None}]
        BY <2>2
  <2> QED BY <2>1, <2>2, <2>3, AudioKept
<1>2. ASSUME NEW r \in Request, A!PostSilence(r) \/ A!Leave(r) \/ A!Again(r)
      PROVE  AudioInv'
  <2>1. /\ UNCHANGED <<aQueue, aTask, aMet, aBatch>>
        /\ aAnswer' = aAnswer \/ (\E x \in {r, None} : aAnswer' = [aAnswer EXCEPT ![r] = x])
        /\ \E x \in {"new", "answered", "gone"} :
             /\ aRequest' = [aRequest EXCEPT ![r] = x]
             /\ x = "new" => aTask[r] = "none"
        BY <1>2 DEF A!PostSilence, A!Leave, A!Again
  <2>2. /\ aAnswer' \in [Request -> Request \cup {None}]
        /\ \A q \in Request : aAnswer'[q] \in {aAnswer[q], q, None}
        BY <2>1
  <2>3. /\ aRequest' \in [Request -> {"new", "waiting", "answered", "lost", "gone"}]
        /\ \A q \in Request : aRequest'[q] = "new" => aRequest[q] = "new" \/ aTask[q] = "none"
        BY <2>1
  <2> HIDE DEF AudioInv
  <2> QED BY <2>1, <2>2, <2>3, AudioKept
<1> QED BY <1>1, <1>2

(* However requests come, leave and come again, whoever is answered gets the   *)
(* text of its own audio, and a request is left in the queue only when a launch *)
(* met a running batch.                                                        *)
THEOREM Audio == A!Spec => [](A!AudioServed /\ A!AudioBatchTypeOK)
<1>1. ASSUME AudioInv, [A!Next]_(A!vars) PROVE AudioInv'
  <2>1. CASE UNCHANGED A!vars
    <3>1. UNCHANGED <<aRequest, aQueue, aTask, aBatch, aAnswer, aMet>>
          BY <2>1 DEF A!vars
    <3> QED BY <1>1, <3>1, AudioKept DEF AudioInv, AudioTypes, A!AudioBatchTypeOK
  <2>2. CASE A!Next
        BY <1>1, <2>2, AudioPost, AudioLaunch, AudioDone, AudioOther DEF A!Next
  <2> QED BY <1>1, <2>1, <2>2
<1>2. AudioInv => A!AudioServed /\ A!AudioBatchTypeOK
      BY DEF AudioInv, AudioTypes
<1> QED BY AudioInit, <1>1, <1>2, PTL DEF A!Spec

-----------------------------------------------------------------------------
(* Projects of the API service                                                *)

(* What a path is made of.                                                     *)
PathPart == ApiScene \cup ApiContext \cup
  {"projects", "contexts", "chats", "datasets", "data.scn", "meta.doc", "metas.doc", "user.doc",
   "config.doc"}

(* The paths of the model, part by part.                                       *)
LEMMA Paths ==
  ASSUME NEW s \in ApiScene
  PROVE  /\ O!Project(s) = <<"projects", s>>
         /\ O!Contexts(s) = <<"projects", s, "contexts">>
         /\ \A c : O!Contexts(s) \o <<c>> = <<"projects", s, "contexts", c>>
         /\ \A c \in ApiContext : O!Blob(<<s, c>>) = <<"projects", s, "contexts", c>>
         /\ O!Project(s) \o <<"data.scn">> = <<"projects", s, "data.scn">>
         /\ O!Project(s) \o <<"meta.doc">> = <<"projects", s, "meta.doc">>
         /\ O!Project(s) \o <<"chats", "metas.doc">> = <<"projects", s, "chats", "metas.doc">>
<1>1. O!Project(s) = <<"projects", s>>
      BY DEF O!Project
<1>3. O!Contexts(s) = <<"projects", s, "contexts">>
      BY <1>1, JoinTwo DEF O!Contexts
<1>4. ASSUME NEW c
      PROVE  O!Contexts(s) \o <<c>> = <<"projects", s, "contexts", c>>
      BY <1>3, JoinThree
<1>5. ASSUME NEW c \in ApiContext PROVE O!Blob(<<s, c>>) = <<"projects", s, "contexts", c>>
      BY <1>4, <1>5 DEF O!Blob
<1>6. O!Project(s) \o <<"data.scn">> = <<"projects", s, "data.scn">>
      BY <1>1, JoinTwo
<1>7. O!Project(s) \o <<"meta.doc">> = <<"projects", s, "meta.doc">>
      BY <1>1, JoinTwo
<1>8. O!Project(s) \o <<"chats", "metas.doc">> = <<"projects", s, "chats", "metas.doc">>
      BY <1>1, JoinPairs
<1> QED BY <1>1, <1>3, <1>4, <1>5, <1>6, <1>7, <1>8

(* A model is below the directory of no other context, and below that of its    *)
(* project only.                                                               *)
LEMMA BlobBelow ==
  ASSUME NEW k \in O!Ctx, NEW s \in ApiScene
  PROVE  /\ k = <<k[1], k[2]>> /\ k[1] \in ApiScene /\ k[2] \in ApiContext
         /\ O!Blob(k) = <<"projects", k[1], "contexts", k[2]>>
         /\ \A c : O!IsPrefix(O!Contexts(s) \o <<c>>, O!Blob(k)) => k = <<s, c>>
         /\ O!IsPrefix(O!Project(s), O!Blob(k)) => k[1] = s
<1>1. k = <<k[1], k[2]>> /\ k[1] \in ApiScene /\ k[2] \in ApiContext
      BY DEF O!Ctx
<1>2. O!Blob(k) = <<"projects", k[1], "contexts", k[2]>>
      BY <1>1, Paths
<1>3. ASSUME NEW c, O!IsPrefix(O!Contexts(s) \o <<c>>, O!Blob(k))
      PROVE  k = <<s, c>>
  <2>1. O!Contexts(s) \o <<c>> = <<"projects", s, "contexts", c>>
        BY Paths
  <2>2. SubSeq(<<"projects", s, "contexts", c>>, 1, 4)
        = SubSeq(<<"projects", k[1], "contexts", k[2]>>, 1, 4)
        BY <1>2, <1>3, <2>1 DEF O!IsPrefix
  <2>3. /\ SubSeq(<<"projects", s, "contexts", c>>, 1, 4) = <<"projects", s, "contexts", c>>
        /\ SubSeq(<<"projects", k[1], "contexts", k[2]>>, 1, 4) = <<"projects", k[1], "contexts", k[2]>>
    <3> DEFINE Part2 == {"projects", s, "contexts", c, k[1], k[2]}
    <3>1. /\ <<"projects", s, "contexts", c>> \in Seq(Part2)
          /\ <<"projects", k[1], "contexts", k[2]>> \in Seq(Part2)
          OBVIOUS
    <3>2. /\ Len(<<"projects", s, "contexts", c>>) = 4
          /\ Len(<<"projects", k[1], "contexts", k[2]>>) = 4
          OBVIOUS
    <3> QED BY <3>1, <3>2, SubSeqFull
  <2> QED BY <1>1, <2>2, <2>3
<1>4. ASSUME O!IsPrefix(O!Project(s), O!Blob(k)) PROVE k[1] = s
  <2>1. SubSeq(<<"projects", s>>, 1, 2) = SubSeq(<<"projects", k[1], "contexts", k[2]>>, 1, 2)
        BY SMTT(30), <1>2, <1>4, Paths DEF O!IsPrefix
  <2>2. /\ SubSeq(<<"projects", s>>, 1, 2)[2] = s
        /\ SubSeq(<<"projects", k[1], "contexts", k[2]>>, 1, 2)[2] = k[1]
    <3>1. /\ \A i \in 1..2 : <<"projects", s>>[i] \in PathPart
          /\ \A i \in 1..2 : <<"projects", k[1], "contexts", k[2]>>[i] \in PathPart
          BY <1>1 DEF PathPart
    <3> QED BY <3>1, SubSeqProperties
  <2> QED BY <2>1, <2>2
<1> QED BY <1>1, <1>2, <1>3, <1>4

(* Two models are at two places.                                               *)
LEMMA BlobOne ==
  ASSUME NEW k \in O!Ctx, NEW j \in O!Ctx, O!Blob(k) = O!Blob(j)
  PROVE  k = j
<1>1. /\ k = <<k[1], k[2]>> /\ O!Blob(k) = <<"projects", k[1], "contexts", k[2]>>
      /\ j = <<j[1], j[2]>> /\ O!Blob(j) = <<"projects", j[1], "contexts", j[2]>>
  <2>1. k[1] \in ApiScene
        BY DEF O!Ctx
  <2> QED BY <2>1, BlobBelow
<1>2. /\ <<"projects", k[1], "contexts", k[2]>>[2] = k[1]
      /\ <<"projects", k[1], "contexts", k[2]>>[4] = k[2]
      /\ <<"projects", j[1], "contexts", j[2]>>[2] = j[1]
      /\ <<"projects", j[1], "contexts", j[2]>>[4] = j[2]
      OBVIOUS
<1>3. k[1] = j[1] /\ k[2] = j[2]
      BY <1>1, <1>2, Zenon
<1> QED BY <1>1, <1>3, Zenon

(* The documents the API service writes.                                       *)
PathsOf(s) ==
  {<<"projects", s, "data.scn">>, <<"projects", s, "meta.doc">>,
   <<"projects", s, "chats", "metas.doc">>}
  \cup {<<"projects", s, "contexts", c>> : c \in ApiContext \cup {"meta.doc"}}

KnownPath ==
  {<<"user.doc">>, <<"config.doc">>, <<"projects", "metas.doc">>, <<"datasets", "metas.doc">>}
  \cup UNION {PathsOf(s) : s \in ApiScene}

Trained == 0..MaxTrained

ModelTypes ==
  /\ oCache \in [O!Ctx -> Trained \cup {NoModel}]
  /\ oBusy \in [O!Ctx -> {"idle", "train", "infer"}]
  /\ oUsing \in [O!Ctx -> Trained \cup {NoModel}]
  /\ \A k \in O!Ctx : oUsing[k] = NoModel <=> oBusy[k] = "idle"
  /\ DOMAIN oDb \subseteq KnownPath
  /\ \A p \in DOMAIN oDb : oDb[p] \in Trained

(* A model that is trained is the session's, and the cached one if there is    *)
(* one; any other that is cached is as it is stored, unless its project was    *)
(* deleted.                                                                    *)
ModelInv ==
  /\ ModelTypes
  /\ \A k \in O!Ctx : oBusy[k] = "train" /\ oCache[k] # NoModel => oCache[k] = oUsing[k]
  /\ \A k \in O!Ctx : oBusy[k] # "train" /\ oCache[k] # NoModel /\ k[1] \notin oDeleted
                      => oCache[k] = O!Read(oDb, O!Blob(k), 0)

LEMMA ModelInit == O!Init => ModelInv
<1> SUFFICES ASSUME O!Init PROVE ModelInv
    OBVIOUS
<1>1. DOMAIN oDb = {}
  <2>1. oDb = <<>>
        BY DEF O!Init
  <2>2. DOMAIN <<>> = 1..0
        BY EmptySeq, LenProperties
  <2> QED BY <2>1, <2>2
<1>2. ModelTypes
      BY <1>1 DEF O!Init, ModelTypes
<1> QED BY <1>2 DEF O!Init, ModelInv

(* What is read after what was written, dropped and deleted.                   *)
LEMMA StoreReads ==
  ASSUME NEW db, NEW paths, NEW doc, NEW p
  PROVE  O!Read(O!WriteAll(db, paths, doc), p, 0) =
           IF p \in paths THEN doc ELSE O!Read(db, p, 0)
BY DEF O!WriteAll, O!Read

LEMMA StoreTypes ==
  ASSUME NEW db, NEW paths, NEW doc, NEW Known, NEW Docs, DOMAIN db \subseteq Known, paths \subseteq Known,
         \A p \in DOMAIN db : db[p] \in Docs, doc \in Docs
  PROVE  /\ DOMAIN O!WriteAll(db, paths, doc) \subseteq Known
         /\ \A p \in DOMAIN O!WriteAll(db, paths, doc) : O!WriteAll(db, paths, doc)[p] \in Docs
BY DEF O!WriteAll

(* Collecting takes the model out of the cache, or leaves it in the store.      *)
LEMMA CollectedKeeps ==
  ASSUME NEW s \in ApiScene, NEW keep, NEW store, NEW k \in O!Ctx, k \notin O!Collected(s, keep)
  PROVE  O!Read(O!Dropped(store, s, keep), O!Blob(k), 0) = O!Read(store, O!Blob(k), 0)
<1> DEFINE gone == UNION {O!Under(store, O!Contexts(s) \o <<c>>) : c \in O!Listed(s) \ keep}
<1>1. ASSUME O!Blob(k) \in gone PROVE FALSE
  <2>1. PICK c \in O!Listed(s) \ keep : O!Blob(k) \in O!Under(store, O!Contexts(s) \o <<c>>)
        BY <1>1
  <2>2. O!IsPrefix(O!Contexts(s) \o <<c>>, O!Blob(k))
        BY <2>1 DEF O!Under
  <2>3. k = <<s, c>>
        BY <2>2, BlobBelow
  <2> QED BY <2>1, <2>3 DEF O!Collected
<1>2. O!Dropped(store, s, keep) = [p \in DOMAIN store \ gone |-> store[p]]
      BY DEF O!Dropped
<1> HIDE DEF gone
<1>3. /\ DOMAIN O!Dropped(store, s, keep) = DOMAIN store \ gone
      /\ \A p \in DOMAIN store \ gone : O!Dropped(store, s, keep)[p] = store[p]
      BY <1>2
<1> QED BY <1>1, <1>3 DEF O!Read

LEMMA DroppedTypes ==
  ASSUME NEW s \in ApiScene, NEW keep, NEW store
  PROVE  /\ DOMAIN O!Dropped(store, s, keep) \subseteq DOMAIN store
         /\ \A p \in DOMAIN O!Dropped(store, s, keep) : O!Dropped(store, s, keep)[p] = store[p]
BY DEF O!Dropped

(* Neither a directory's document nor a scene is where a model is.              *)
LEMMA BlobApart ==
  ASSUME NEW k \in O!Ctx, NEW s \in ApiScene
  PROVE  O!Blob(k) \notin {O!Project(s) \o <<"data.scn">>, O!Project(s) \o <<"meta.doc">>,
                           O!Contexts(s) \o <<"meta.doc">>,
                           O!Project(s) \o <<"chats", "metas.doc">>,
                           <<"user.doc">>, <<"config.doc">>, <<"projects", "metas.doc">>,
                           <<"datasets", "metas.doc">>}
<1>1. /\ O!Project(s) \o <<"data.scn">> = <<"projects", s, "data.scn">>
      /\ O!Project(s) \o <<"meta.doc">> = <<"projects", s, "meta.doc">>
      /\ O!Contexts(s) \o <<"meta.doc">> = <<"projects", s, "contexts", "meta.doc">>
      /\ O!Project(s) \o <<"chats", "metas.doc">> = <<"projects", s, "chats", "metas.doc">>
      BY Paths
<1>2. O!Blob(k) = <<"projects", k[1], "contexts", k[2]>> /\ k[2] # "meta.doc"
      BY BlobBelow, ContextAssumption
<1> QED BY <1>1, <1>2

(* A save or a reading of the contexts collects, then writes what is no model. *)
LEMMA CollectStep ==
  ASSUME ModelInv, NEW s \in ApiScene, NEW keep \in SUBSET ApiContext,
         O!Save(s, keep) \/ O!GetCtxs(s, keep)
  PROVE  ModelInv'
<1> DEFINE one == {O!Contexts(s) \o <<"meta.doc">>}
           docs == {O!Project(s) \o <<"data.scn">>, O!Project(s) \o <<"meta.doc">>,
                    O!Contexts(s) \o <<"meta.doc">>, O!Project(s) \o <<"chats", "metas.doc">>}
<1>1. /\ UNCHANGED <<oBusy, oUsing, oDeleted>>
      /\ oCache' = [k \in O!Ctx |-> IF k \in O!Collected(s, keep) THEN NoModel ELSE oCache[k]]
      /\ \/ oDb' = O!WriteAll(O!Dropped(oDb, s, keep), docs, 0)
         \/ oDb' = O!Dropped(O!WriteAll(oDb, one, 0), s, keep)
      BY DEF O!Save, O!GetCtxs, O!Write, O!MetaDoc
<1>2. docs \subseteq KnownPath /\ one \subseteq KnownPath /\ 0 \in Trained
  <2>1. docs = {<<"projects", s, "data.scn">>, <<"projects", s, "meta.doc">>,
                <<"projects", s, "contexts", "meta.doc">>, <<"projects", s, "chats", "metas.doc">>}
        BY Paths
  <2>2. one = {<<"projects", s, "contexts", "meta.doc">>}
        BY Paths
  <2>3. 0 \in Trained
        BY ModelAssumption DEF Trained
  <2>4. docs \subseteq PathsOf(s)
    <3>1. <<"projects", s, "contexts", "meta.doc">> \in PathsOf(s)
          BY DEF PathsOf
    <3> QED BY <2>1, <3>1 DEF PathsOf
  <2>5. one \subseteq docs
        BY <2>1, <2>2
  <2>6. PathsOf(s) \subseteq KnownPath
        BY DEF KnownPath
  <2> QED BY <2>3, <2>4, <2>5, <2>6
<1>3. \A k \in O!Ctx : O!Blob(k) \notin docs /\ O!Blob(k) \notin one
      BY BlobApart
<1> HIDE DEF docs, one
<1>4. DOMAIN oDb' \subseteq KnownPath /\ \A p \in DOMAIN oDb' : oDb'[p] \in Trained
  <2>1. DOMAIN oDb \subseteq KnownPath /\ \A p \in DOMAIN oDb : oDb[p] \in Trained
        BY DEF ModelInv, ModelTypes
  <2>2. CASE oDb' = O!WriteAll(O!Dropped(oDb, s, keep), docs, 0)
    <3>1. /\ DOMAIN O!Dropped(oDb, s, keep) \subseteq KnownPath
          /\ \A p \in DOMAIN O!Dropped(oDb, s, keep) : O!Dropped(oDb, s, keep)[p] \in Trained
          BY <2>1, DroppedTypes
    <3> QED BY <1>2, <2>2, <3>1, StoreTypes
  <2>3. CASE oDb' = O!Dropped(O!WriteAll(oDb, one, 0), s, keep)
    <3>1. /\ DOMAIN O!WriteAll(oDb, one, 0) \subseteq KnownPath
          /\ \A p \in DOMAIN O!WriteAll(oDb, one, 0) : O!WriteAll(oDb, one, 0)[p] \in Trained
          BY <1>2, <2>1, StoreTypes
    <3> QED BY <2>3, <3>1, DroppedTypes
  <2> QED BY <1>1, <2>2, <2>3
<1>5. ModelTypes'
      BY <1>1, <1>4 DEF ModelInv, ModelTypes
<1>6. ASSUME NEW k \in O!Ctx, k \notin O!Collected(s, keep)
      PROVE  O!Read(oDb', O!Blob(k), 0) = O!Read(oDb, O!Blob(k), 0)
  <2>1. O!Blob(k) \notin docs /\ O!Blob(k) \notin one
        BY <1>3
  <2>2. CASE oDb' = O!WriteAll(O!Dropped(oDb, s, keep), docs, 0)
    <3>1. O!Read(O!WriteAll(O!Dropped(oDb, s, keep), docs, 0), O!Blob(k), 0)
          = O!Read(O!Dropped(oDb, s, keep), O!Blob(k), 0)
          BY <2>1, StoreReads
    <3>2. O!Read(O!Dropped(oDb, s, keep), O!Blob(k), 0) = O!Read(oDb, O!Blob(k), 0)
          BY <1>6, CollectedKeeps
    <3> QED BY <2>2, <3>1, <3>2, Zenon
  <2>3. CASE oDb' = O!Dropped(O!WriteAll(oDb, one, 0), s, keep)
    <3>1. O!Read(O!WriteAll(oDb, one, 0), O!Blob(k), 0) = O!Read(oDb, O!Blob(k), 0)
          BY <2>1, StoreReads
    <3>2. O!Read(O!Dropped(O!WriteAll(oDb, one, 0), s, keep), O!Blob(k), 0)
          = O!Read(O!WriteAll(oDb, one, 0), O!Blob(k), 0)
          BY <1>6, CollectedKeeps
    <3> QED BY <2>3, <3>1, <3>2, Zenon
  <2> QED BY <1>1, <2>2, <2>3
<1>7. \A k \in O!Ctx : oCache'[k] # NoModel => k \notin O!Collected(s, keep) /\ oCache'[k] = oCache[k]
      BY <1>1
<1>8. \A k \in O!Ctx : oBusy'[k] = oBusy[k] /\ oUsing'[k] = oUsing[k]
      BY <1>1
<1>9. \A k \in O!Ctx : oBusy'[k] = "train" /\ oCache'[k] # NoModel => oCache'[k] = oUsing'[k]
      BY <1>7, <1>8 DEF ModelInv
<1>10. ASSUME NEW k \in O!Ctx, oBusy'[k] # "train", oCache'[k] # NoModel, k[1] \notin oDeleted'
       PROVE  oCache'[k] = O!Read(oDb', O!Blob(k), 0)
  <2>1. oBusy[k] # "train" /\ oCache[k] # NoModel /\ k[1] \notin oDeleted
        BY <1>1, <1>7, <1>10
  <2> QED BY <1>6, <1>7, <1>10, <2>1 DEF ModelInv
<1> QED BY <1>5, <1>9, <1>10 DEF ModelInv

LEMMA CreateUserStep == ASSUME ModelInv, O!CreateUser PROVE ModelInv'
<1> DEFINE docs == {<<"user.doc">>, <<"config.doc">>, <<"projects", "metas.doc">>,
                    <<"datasets", "metas.doc">>}
<1>1. oDb' = O!WriteAll(oDb, docs, 0) /\ UNCHANGED <<oCache, oBusy, oUsing, oDeleted>>
      BY DEF O!CreateUser, O!UserDoc
<1>2. docs \subseteq KnownPath /\ 0 \in Trained
      BY ModelAssumption DEF KnownPath, Trained
<1>3. ASSUME NEW k \in O!Ctx PROVE O!Blob(k) \notin docs
  <2>1. k[1] \in ApiScene
        BY DEF O!Ctx
  <2> QED BY <2>1, BlobApart
<1> HIDE DEF docs
<1>4. DOMAIN oDb' \subseteq KnownPath /\ \A p \in DOMAIN oDb' : oDb'[p] \in Trained
  <2>1. DOMAIN oDb \subseteq KnownPath /\ \A p \in DOMAIN oDb : oDb[p] \in Trained
        BY DEF ModelInv, ModelTypes
  <2>2. /\ DOMAIN O!WriteAll(oDb, docs, 0) \subseteq KnownPath
        /\ \A p \in DOMAIN O!WriteAll(oDb, docs, 0) : O!WriteAll(oDb, docs, 0)[p] \in Trained
        BY <1>2, <2>1, StoreTypes
  <2> QED BY <1>1, <2>2
<1>5. ASSUME NEW k \in O!Ctx
      PROVE  O!Read(oDb', O!Blob(k), 0) = O!Read(oDb, O!Blob(k), 0)
  <2>1. O!Blob(k) \notin docs
        BY <1>3
  <2>2. O!Read(O!WriteAll(oDb, docs, 0), O!Blob(k), 0) = O!Read(oDb, O!Blob(k), 0)
        BY <2>1, StoreReads
  <2> QED BY <1>1, <2>2, Zenon
<1>6. ModelTypes'
      BY <1>1, <1>4 DEF ModelInv, ModelTypes
<1> QED BY <1>1, <1>5, <1>6 DEF ModelInv

LEMMA DeleteProjectStep == ASSUME ModelInv, NEW s \in ApiScene, O!DeleteProject(s) PROVE ModelInv'
<1>1. /\ oDb' = O!Delete(oDb, O!Project(s)) /\ oDeleted' = oDeleted \cup {s}
      /\ UNCHANGED <<oCache, oBusy, oUsing>>
      BY DEF O!DeleteProject
<1>2. /\ DOMAIN oDb' = DOMAIN oDb \ O!Under(oDb, O!Project(s))
      /\ \A p \in DOMAIN oDb' : oDb'[p] = oDb[p]
      BY <1>1 DEF O!Delete
<1>3. ModelTypes'
      BY <1>1, <1>2 DEF ModelInv, ModelTypes
<1>4. ASSUME NEW k \in O!Ctx, k[1] # s
      PROVE  O!Read(oDb', O!Blob(k), 0) = O!Read(oDb, O!Blob(k), 0)
  <2>1. O!Blob(k) \notin O!Under(oDb, O!Project(s))
        BY <1>4, BlobBelow DEF O!Under
  <2> QED BY <1>2, <2>1 DEF O!Read
<1> QED BY <1>1, <1>3, <1>4 DEF ModelInv

LEMMA DeleteCtxStep ==
  ASSUME ModelInv, NEW s \in ApiScene, NEW names \in SUBSET ApiContext, O!DeleteCtx(s, names)
  PROVE  ModelInv'
<1> DEFINE keys == {s} \X names
<1>1. /\ oDb' = [p \in DOMAIN oDb \ {O!Blob(k) : k \in keys} |-> oDb[p]]
      /\ oCache' = [k \in O!Ctx |-> IF k \in keys THEN NoModel ELSE oCache[k]]
      /\ UNCHANGED <<oBusy, oUsing, oDeleted>>
      BY Zenon DEF O!DeleteCtx
<1>2. \A k \in keys : k \in O!Ctx
      BY DEF O!Ctx
<1>3. \A k \in O!Ctx, j \in O!Ctx : O!Blob(k) = O!Blob(j) => k = j
      BY BlobOne
<1> HIDE DEF keys
<1>4. /\ DOMAIN oDb' = DOMAIN oDb \ {O!Blob(k) : k \in keys}
      /\ \A p \in DOMAIN oDb' : oDb'[p] = oDb[p]
      BY <1>1
<1>5. ModelTypes'
      BY <1>1, <1>4 DEF ModelInv, ModelTypes
<1>6. ASSUME NEW k \in O!Ctx, k \notin keys
      PROVE  O!Read(oDb', O!Blob(k), 0) = O!Read(oDb, O!Blob(k), 0)
  <2>1. O!Blob(k) \notin {O!Blob(j) : j \in keys}
        BY <1>2, <1>3, <1>6
  <2> QED BY <1>4, <2>1 DEF O!Read
<1> QED BY <1>1, <1>5, <1>6 DEF ModelInv

LEMMA BeginStep ==
  ASSUME ModelInv, NEW k \in O!Ctx, NEW use \in {"train", "infer"}, O!Begin(k, use)
  PROVE  ModelInv'
<1> DEFINE model == O!Loaded(k)
<1>1. /\ oBusy[k] = "idle" /\ oBusy' = [oBusy EXCEPT ![k] = use]
      /\ oUsing' = [oUsing EXCEPT ![k] = model] /\ oCache' = [oCache EXCEPT ![k] = model]
      /\ UNCHANGED <<oDb, oDeleted>>
      BY DEF O!Begin
<1>2. model \in Trained /\ model # NoModel
  <2>1. O!Read(oDb, O!Blob(k), 0) \in Trained
        BY ModelAssumption DEF O!Read, ModelInv, ModelTypes, Trained
  <2>2. oCache[k] \in Trained \cup {NoModel}
        BY DEF ModelInv, ModelTypes
  <2> QED BY <2>1, <2>2, ModelAssumption DEF O!Loaded, Trained
<1>3. k[1] \notin oDeleted => model = O!Read(oDb, O!Blob(k), 0)
      BY <1>1 DEF O!Loaded, ModelInv
<1> HIDE DEF model
<1>4. ModelTypes'
      BY <1>1, <1>2 DEF ModelInv, ModelTypes
<1> QED BY <1>1, <1>2, <1>3, <1>4 DEF ModelInv, ModelTypes

LEMMA TrainStep == ASSUME ModelInv, NEW k \in O!Ctx, O!Train(k) PROVE ModelInv'
<1>1. /\ oBusy[k] = "train" /\ oUsing[k] < MaxTrained
      /\ oUsing' = [oUsing EXCEPT ![k] = oUsing[k] + 1]
      /\ oCache' = IF oCache[k] = NoModel THEN oCache ELSE [oCache EXCEPT ![k] = oUsing[k] + 1]
      /\ UNCHANGED <<oDb, oBusy, oDeleted>>
      BY DEF O!Train
<1>2. oUsing[k] + 1 \in Trained /\ oUsing[k] + 1 # NoModel
  <2>1. oUsing[k] \in Trained
        BY <1>1 DEF ModelInv, ModelTypes
  <2> QED BY <1>1, <2>1, ModelAssumption DEF Trained
<1>3. ModelTypes'
      BY <1>1, <1>2 DEF ModelInv, ModelTypes
<1> QED BY <1>1, <1>3 DEF ModelInv, ModelTypes

LEMMA FinishStep == ASSUME ModelInv, NEW k \in O!Ctx, O!Finish(k) PROVE ModelInv'
<1>1. /\ oBusy[k] # "idle" /\ oBusy' = [oBusy EXCEPT ![k] = "idle"]
      /\ oUsing' = [oUsing EXCEPT ![k] = NoModel]
      /\ oDb' = IF oBusy[k] = "train" THEN O!WriteAll(oDb, {O!Blob(k)}, oUsing[k]) ELSE oDb
      /\ UNCHANGED <<oCache, oDeleted>>
      BY DEF O!Finish, O!Write
<1>2. oUsing[k] \in Trained /\ O!Blob(k) \in KnownPath
  <2>1. oUsing[k] \in Trained
        BY <1>1 DEF ModelInv, ModelTypes
  <2>2. O!Blob(k) \in KnownPath
    <3>1. k[1] \in ApiScene /\ k[2] \in ApiContext
          BY DEF O!Ctx
    <3>2. O!Blob(k) = <<"projects", k[1], "contexts", k[2]>>
          BY <3>1, BlobBelow
    <3>3. <<"projects", k[1], "contexts", k[2]>> \in PathsOf(k[1])
          BY <3>1 DEF PathsOf
    <3> QED BY <3>1, <3>2, <3>3 DEF KnownPath
  <2> QED BY <2>1, <2>2
<1>3. DOMAIN oDb' \subseteq KnownPath /\ \A p \in DOMAIN oDb' : oDb'[p] \in Trained
  <2>1. DOMAIN oDb \subseteq KnownPath /\ \A p \in DOMAIN oDb : oDb[p] \in Trained
        BY DEF ModelInv, ModelTypes
  <2>2. CASE oDb' = O!WriteAll(oDb, {O!Blob(k)}, oUsing[k])
    <3>1. {O!Blob(k)} \subseteq KnownPath
          BY <1>2
    <3>2. /\ DOMAIN O!WriteAll(oDb, {O!Blob(k)}, oUsing[k]) \subseteq KnownPath
          /\ \A p \in DOMAIN O!WriteAll(oDb, {O!Blob(k)}, oUsing[k]) :
               O!WriteAll(oDb, {O!Blob(k)}, oUsing[k])[p] \in Trained
          BY <1>2, <2>1, <3>1, StoreTypes
    <3> QED BY <2>2, <3>2
  <2> QED BY <1>1, <2>1, <2>2
<1>4. ModelTypes'
      BY <1>1, <1>3 DEF ModelInv, ModelTypes
<1>5. \A j \in O!Ctx : j # k => O!Blob(j) # O!Blob(k)
      BY BlobOne
<1>6. ASSUME NEW j \in O!Ctx
      PROVE  O!Read(oDb', O!Blob(j), 0) =
               IF oBusy[k] = "train" /\ j = k THEN oUsing[k] ELSE O!Read(oDb, O!Blob(j), 0)
  <2>1. O!Blob(j) \in {O!Blob(k)} <=> j = k
        BY <1>5
  <2>2. O!Read(O!WriteAll(oDb, {O!Blob(k)}, oUsing[k]), O!Blob(j), 0) =
          IF O!Blob(j) \in {O!Blob(k)} THEN oUsing[k] ELSE O!Read(oDb, O!Blob(j), 0)
        BY StoreReads
  <2> QED BY <1>1, <2>1, <2>2
<1> QED BY ZenonT(60), <1>1, <1>4, <1>6 DEF ModelInv, ModelTypes

LEMMA ModelOther == ASSUME ModelInv, O!Restart \/ UNCHANGED O!vars PROVE ModelInv'
<1>1. CASE O!Restart
  <2>1. /\ oCache' = [k \in O!Ctx |-> NoModel] /\ oBusy' = [k \in O!Ctx |-> "idle"]
        /\ oUsing' = [k \in O!Ctx |-> NoModel] /\ oDb' = oDb
        BY <1>1 DEF O!Restart
  <2> QED BY <2>1 DEF ModelInv, ModelTypes
<1>2. CASE UNCHANGED O!vars
      BY <1>2 DEF O!vars, ModelInv, ModelTypes
<1> QED BY <1>1, <1>2

(* What the list of projects shows are projects.                               *)
LEMMA ShownScenes == ModelTypes => O!Shown \subseteq ApiScene
<1> SUFFICES ASSUME ModelTypes, NEW x \in O!Shown PROVE x \in ApiScene
    OBVIOUS
<1>1. PICK p \in DOMAIN oDb : O!IsPrefix(<<"projects">>, p) /\ x = p[2] /\ x # "metas.doc"
      BY DEF O!Shown, O!List, O!Under
<1>2. p \in KnownPath
      BY <1>1 DEF ModelTypes
<1>3. SubSeq(<<"projects">>, 1, 1)[1] = SubSeq(p, 1, 1)[1]
      BY <1>1 DEF O!IsPrefix
<1>4. ASSUME NEW q, q \in {<<"user.doc">>, <<"config.doc">>, <<"datasets", "metas.doc">>}
      PROVE  SubSeq(q, 1, 1)[1] # "projects"
  <2>1. q[1] \in {"user.doc", "config.doc", "datasets"}
        BY <1>4
  <2>2. \A i \in 1..1 : q[i] \in {"user.doc", "config.doc", "datasets"}
        BY <2>1
  <2>3. SubSeq(q, 1, 1)[1] = q[1]
        BY <2>2, SubSeqProperties
  <2> QED BY <2>1, <2>3
<1>5. SubSeq(<<"projects">>, 1, 1)[1] = "projects"
  <2>1. \A i \in 1..1 : <<"projects">>[i] \in {"projects"}
        OBVIOUS
  <2> QED BY <2>1, SubSeqProperties
<1>6. p \notin {<<"user.doc">>, <<"config.doc">>, <<"datasets", "metas.doc">>}
      BY <1>3, <1>4, <1>5
<1>7. CASE p = <<"projects", "metas.doc">>
      BY <1>1, <1>7
<1>8. CASE \E s \in ApiScene : p \in {<<"projects", s, "data.scn">>, <<"projects", s, "meta.doc">>,
                                   <<"projects", s, "chats", "metas.doc">>}
      BY <1>1, <1>8
<1>9. CASE \E s \in ApiScene, c \in ApiContext \cup {"meta.doc"} :
             p = <<"projects", s, "contexts", c>>
      BY <1>1, <1>9
<1>10. CASE \E s \in ApiScene : p \in PathsOf(s)
  <2>1. PICK s \in ApiScene : p \in PathsOf(s)
        BY <1>10
  <2> QED BY <1>8, <1>9, <2>1 DEF PathsOf
<1> QED BY <1>2, <1>6, <1>7, <1>10 DEF KnownPath

(* Whatever is saved, collected, deleted, trained and lost in a restart, a     *)
(* model that is not in use is served as it is stored.                         *)
THEOREM Served == O!Spec => [](O!ServedAsStored /\ O!ApiProjectsTypeOK)
<1>1. ASSUME ModelInv, [O!Next]_(O!vars) PROVE ModelInv'
  <2> SUFFICES ASSUME O!Next PROVE ModelInv'
      BY <1>1, ModelOther
  <2> QED BY <1>1, CollectStep, CreateUserStep, DeleteProjectStep, DeleteCtxStep, BeginStep,
          TrainStep, FinishStep, ModelOther DEF O!Next
<1>2. ModelInv => O!ServedAsStored
      BY DEF ModelInv, O!ServedAsStored
<1>3. ModelInv => O!ApiProjectsTypeOK
      BY ShownScenes DEF ModelInv, ModelTypes, O!ApiProjectsTypeOK, Trained
<1> QED BY ModelInit, <1>1, <1>2, <1>3, PTL DEF O!Spec

-----------------------------------------------------------------------------
(* Classrooms of the API service                                              *)

FrameKind == {"snapshot", "event"}

(* Where the events are in a queue, how many, and whether a snapshot follows.  *)
Events(q) == {i \in 1..Len(q) : q[i] = "event"}
Told(q) == Cardinality(Events(q))
NoSnapshot(q) == \A i \in 1..Len(q) : q[i] # "snapshot"

LEMMA EventsFinite ==
  ASSUME NEW q \in Seq(FrameKind)
  PROVE  IsFiniteSet(Events(q)) /\ Told(q) \in Nat
<1>1. Len(q) \in Nat
      BY LenProperties
<1>2. IsFiniteSet(1..Len(q))
      BY <1>1, FS_Interval
<1>3. IsFiniteSet(Events(q))
      BY <1>2, FS_Subset DEF Events
<1> QED BY <1>3, FS_CardinalityType DEF Told

LEMMA NoEvents == Told(<<>>) = 0
<1>1. Events(<<>>) = {}
      BY DEF Events
<1> QED BY <1>1, FS_EmptySet DEF Told

LEMMA EventsJoin ==
  ASSUME NEW q \in Seq(FrameKind)
  PROVE  /\ q \o <<"snapshot">> \in Seq(FrameKind)
         /\ Told(q \o <<"snapshot">>) = Told(q)
         /\ ~NoSnapshot(q \o <<"snapshot">>)
         /\ q \o <<"snapshot", "event">> \in Seq(FrameKind)
         /\ Told(q \o <<"snapshot", "event">>) = Told(q) + 1
         /\ ~NoSnapshot(q \o <<"snapshot", "event">>)
<1> DEFINE q1 == q \o <<"snapshot">>
           q2 == q \o <<"snapshot", "event">>
           n == Len(q)
<1>1. n \in Nat /\ <<"snapshot">> \in Seq(FrameKind) /\ <<"snapshot", "event">> \in Seq(FrameKind)
      BY LenProperties DEF FrameKind
<1>2. /\ q1 \in Seq(FrameKind) /\ Len(q1) = n + 1
      /\ \A i \in 1..n : q1[i] = q[i]
      /\ q1[n + 1] = "snapshot"
  <2>1. /\ q1 \in Seq(FrameKind) /\ Len(q1) = n + 1
        /\ \A i \in 1..n + 1 : q1[i] = IF i <= n THEN q[i] ELSE <<"snapshot">>[i - n]
        BY <1>1, ConcatProperties
  <2> QED BY <1>1, <2>1
<1>3. /\ q2 \in Seq(FrameKind) /\ Len(q2) = n + 2
      /\ \A i \in 1..n : q2[i] = q[i]
      /\ q2[n + 1] = "snapshot" /\ q2[n + 2] = "event"
  <2>1. /\ q2 \in Seq(FrameKind) /\ Len(q2) = n + 2
        /\ \A i \in 1..n + 2 : q2[i] = IF i <= n THEN q[i] ELSE <<"snapshot", "event">>[i - n]
        BY <1>1, ConcatProperties
  <2>2. (n + 1) - n = 1 /\ (n + 2) - n = 2 /\ ~(n + 1 <= n) /\ ~(n + 2 <= n)
        BY <1>1
  <2>3. <<"snapshot", "event">>[1] = "snapshot" /\ <<"snapshot", "event">>[2] = "event"
        OBVIOUS
  <2> QED BY <1>1, <2>1, <2>2, <2>3
<1> HIDE DEF q1, q2
<1>4. Events(q1) = Events(q)
      BY <1>1, <1>2 DEF Events
<1>5. Events(q2) = Events(q) \cup {n + 2} /\ n + 2 \notin Events(q)
      BY <1>1, <1>3 DEF Events
<1>6. Told(q2) = Told(q) + 1
  <2>1. IsFiniteSet(Events(q)) /\ Told(q) \in Nat
        BY EventsFinite
  <2> QED BY <1>5, <2>1, FS_AddElement DEF Told
<1>7. ~NoSnapshot(q1) /\ ~NoSnapshot(q2)
      BY <1>1, <1>2, <1>3 DEF NoSnapshot
<1>8. Told(q1) = Told(q)
      BY <1>4 DEF Told
<1> QED BY <1>2, <1>3, <1>6, <1>7, <1>8 DEF q1, q2

LEMMA EventsTail ==
  ASSUME NEW q \in Seq(FrameKind), q # <<>>
  PROVE  /\ Head(q) \in FrameKind /\ Tail(q) \in Seq(FrameKind)
         /\ Told(q) = Told(Tail(q)) + IF Head(q) = "event" THEN 1 ELSE 0
         /\ Head(q) # "snapshot" /\ NoSnapshot(Tail(q)) => NoSnapshot(q)
<1> DEFINE t == Tail(q)
           n == Len(q)
           later == {i \in 2..n : q[i] = "event"}
           shift == [i \in Events(t) |-> i + 1]
<1>1. n \in Nat /\ n > 0 /\ Head(q) = q[1]
      BY EmptySeq, LenProperties
<1>2. /\ Head(q) \in FrameKind /\ t \in Seq(FrameKind) /\ Len(t) = n - 1
      /\ \A i \in 1..n - 1 : t[i] = q[i + 1]
      BY HeadTailProperties
<1> HIDE DEF t, n
<1>3. \A i \in Events(t) : i \in Nat /\ i + 1 \in later
      BY <1>1, <1>2 DEF Events
<1>4. \A j \in later : j - 1 \in Events(t) /\ (j - 1) + 1 = j
      BY <1>1, <1>2 DEF Events
<1>5. IsFiniteSet(Events(t)) /\ Told(t) \in Nat
      BY <1>2, EventsFinite
<1>6. ExistsBijection(Events(t), later)
  <2>1. shift \in [Events(t) -> later]
        BY <1>3
  <2>2. \A a, b \in Events(t) : shift[a] = shift[b] => a = b
        BY <1>3
  <2>3. \A j \in later : \E i \in Events(t) : shift[i] = j
        BY <1>4
  <2>4. shift \in Bijection(Events(t), later)
        BY <2>1, <2>2, <2>3 DEF Bijection, Injection, Surjection, IsInjective
  <2> QED BY <2>4 DEF ExistsBijection
<1>7. IsFiniteSet(later) /\ Cardinality(later) = Told(t)
      BY <1>5, <1>6, FS_Bijection DEF Told
<1>8. Events(q) = IF Head(q) = "event" THEN later \cup {1} ELSE later
      BY <1>1 DEF Events, n
<1>9. 1 \notin later
      OBVIOUS
<1>10. Told(q) = Told(t) + IF Head(q) = "event" THEN 1 ELSE 0
  <2> HIDE DEF later
  <2>1. CASE Head(q) = "event"
    <3>1. Cardinality(later \cup {1}) = Cardinality(later) + 1
          BY <1>7, <1>9, FS_AddElement
    <3> QED BY <1>5, <1>7, <1>8, <2>1, <3>1 DEF Told
  <2>2. CASE Head(q) # "event"
        BY <1>5, <1>7, <1>8, <2>2 DEF Told
  <2> QED BY <2>1, <2>2
<1>11. ASSUME Head(q) # "snapshot", NoSnapshot(t) PROVE NoSnapshot(q)
  <2> SUFFICES ASSUME NEW i \in 1..Len(q) PROVE q[i] # "snapshot"
      BY DEF NoSnapshot
  <2>1. CASE i = 1
        BY <1>1, <1>11, <2>1
  <2>2. CASE i # 1
    <3>1. i - 1 \in 1..n - 1 /\ (i - 1) + 1 = i
          BY <1>1, <2>2 DEF n
    <3>2. t[i - 1] # "snapshot"
          BY <1>2, <1>11, <3>1 DEF NoSnapshot
    <3> QED BY <1>2, <3>1, <3>2
  <2> QED BY <2>1, <2>2
<1> QED BY <1>2, <1>10, <1>11 DEF t

(* A stream f that has told of all but n explanations of what is in meta and   *)
(* students.                                                                   *)
Follows(f, n, meta, students) ==
  /\ DOMAIN f = {"at", "class", "queue", "frame", "shown"}
  /\ f.at \in {"closed", "opening", "sending", "waiting"}
  /\ f.class \in ApiClass \cup {None}
  /\ f.queue \in Seq(FrameKind) /\ f.frame \in FrameKind
  /\ n = Told(f.queue) + IF f.frame = "event" THEN 1 ELSE 0
  /\ f.at # "closed" => f.class \in ApiClass /\ meta[f.class] # <<>>
  /\ f.at \in {"closed", "opening"} => f.queue = <<>> /\ f.frame = "snapshot"
  /\ f.at = "waiting" => f.frame = "snapshot"
  /\ f.at \in {"sending", "waiting"} /\ NoSnapshot(f.queue)
       => f.shown = <<meta[f.class], students[f.class]>>

ClassAccount == ApiTeacher \cup ApiStudent
MetaKind == {<<>>} \cup [teacher : ApiTeacher, version : Nat]

(* The documents: a class that is none has no students, and whoever has a      *)
(* class teaches it or is listed.                                              *)
ClassDocs ==
  /\ lConfig \in [ClassAccount -> ApiClass \cup {None}]
  /\ lMeta \in [ApiClass -> MetaKind]
  /\ DOMAIN lStudents = ApiClass
  /\ \A c \in ApiClass : /\ DOMAIN lStudents[c] \subseteq ClassAccount
                         /\ lStudents[c] = [s \in DOMAIN lStudents[c] |-> lStudents[c][s]]
                         /\ lMeta[c] = <<>> => DOMAIN lStudents[c] = {}
  /\ \A a \in ClassAccount : lConfig[a] # None =>
       \/ lMeta[lConfig[a]] # <<>> /\ lMeta[lConfig[a]].teacher = a
       \/ a \in DOMAIN lStudents[lConfig[a]]

ClassStreams ==
  /\ DOMAIN lStream = Stream /\ DOMAIN lEnds = Stream
  /\ \A e \in Stream : Follows(lStream[e], lEnds[e], lMeta, lStudents)

ClassInv == ClassDocs /\ ClassStreams

LEMMA MetaIs ==
  ASSUME NEW a, NEW v
  PROVE  [teacher |-> a, version |-> v] # <<>>
<1>1. DOMAIN [teacher |-> a, version |-> v] = {"teacher", "version"}
      OBVIOUS
<1>2. DOMAIN <<>> = {}
      OBVIOUS
<1> QED BY <1>1, <1>2

LEMMA ClosedFollows ==
  ASSUME NEW meta, NEW students
  PROVE  Follows(L!Closed, 0, meta, students)
<1>1. /\ DOMAIN L!Closed = {"at", "class", "queue", "frame", "shown"}
      /\ L!Closed.at = "closed" /\ L!Closed.class = None /\ L!Closed.queue = <<>>
      /\ L!Closed.frame = "snapshot"
      BY DEF L!Closed
<1>2. <<>> \in Seq(FrameKind) /\ Told(<<>>) = 0
      BY EmptySeq, NoEvents
<1> QED BY <1>1, <1>2 DEF Follows, FrameKind

(* What a stream knows when something changes and it is told, or it is not     *)
(* subscribed, or the change is elsewhere.                                     *)
LEMMA FollowsTold ==
  ASSUME NEW f, NEW n, NEW meta, NEW students, Follows(f, n, meta, students),
         f.at \in {"sending", "waiting"}, NEW meta2, NEW students2, meta2[f.class] # <<>>
  PROVE  /\ Follows([f EXCEPT !.queue = @ \o <<"snapshot">>], n, meta2, students2)
         /\ Follows([f EXCEPT !.queue = @ \o <<"snapshot", "event">>], n + 1, meta2, students2)
<1> DEFINE f1 == [f EXCEPT !.queue = @ \o <<"snapshot">>]
           f2 == [f EXCEPT !.queue = @ \o <<"snapshot", "event">>]
<1>1. /\ DOMAIN f = {"at", "class", "queue", "frame", "shown"}
      /\ f.queue \in Seq(FrameKind)
      BY DEF Follows
<1>2. /\ f1.queue = f.queue \o <<"snapshot">> /\ DOMAIN f1 = DOMAIN f
      /\ f1.at = f.at /\ f1.class = f.class /\ f1.frame = f.frame /\ f1.shown = f.shown
      BY <1>1
<1>3. /\ f2.queue = f.queue \o <<"snapshot", "event">> /\ DOMAIN f2 = DOMAIN f
      /\ f2.at = f.at /\ f2.class = f.class /\ f2.frame = f.frame /\ f2.shown = f.shown
      BY <1>1
<1> HIDE DEF f1, f2
<1>4. /\ f1.queue \in Seq(FrameKind) /\ Told(f1.queue) = Told(f.queue) /\ ~NoSnapshot(f1.queue)
      /\ f2.queue \in Seq(FrameKind) /\ Told(f2.queue) = Told(f.queue) + 1
      /\ ~NoSnapshot(f2.queue) /\ Told(f.queue) \in Nat
      BY <1>1, <1>2, <1>3, EventsJoin, EventsFinite
<1>5. Follows(f1, n, meta2, students2)
      BY <1>2, <1>4 DEF Follows
<1>6. Follows(f2, n + 1, meta2, students2)
      BY <1>3, <1>4 DEF Follows
<1> QED BY <1>5, <1>6 DEF f1, f2

LEMMA FollowsElsewhere ==
  ASSUME NEW f, NEW n, NEW meta, NEW students, Follows(f, n, meta, students),
         NEW meta2, NEW students2,
         f.at # "closed" => meta2[f.class] # <<>>,
         f.at \in {"sending", "waiting"} =>
           meta2[f.class] = meta[f.class] /\ students2[f.class] = students[f.class]
  PROVE  Follows(f, n, meta2, students2)
BY DEF Follows

(* A change of one class, and the frames that tell of it.                      *)
LEMMA EmitFollows ==
  ASSUME ClassStreams, NEW c \in ApiClass, lMeta[c] # <<>>, lMeta'[c] # <<>>,
         \A d \in ApiClass \ {c} : lMeta'[d] = lMeta[d] /\ lStudents'[d] = lStudents[d],
         \/ L!Follow(c)
         \/ /\ L!Emit(c, <<"snapshot", "event">>)
            /\ lEnds' = [e \in Stream |-> IF e \in L!Subscribed(c) THEN lEnds[e] + 1 ELSE lEnds[e]]
  PROVE  ClassStreams'
<1>1. L!Subscribed(c) = {e \in Stream : lStream[e].class = c /\ lStream[e].at \in {"sending", "waiting"}}
      BY DEF L!Subscribed
<1>2. PICK both \in BOOLEAN :
        /\ DOMAIN lStream' = Stream /\ DOMAIN lEnds' = Stream
        /\ \A e \in Stream \ L!Subscribed(c) : lStream'[e] = lStream[e] /\ lEnds'[e] = lEnds[e]
        /\ \A e \in L!Subscribed(c) :
             /\ lStream'[e] = IF both
                              THEN [lStream[e] EXCEPT !.queue = @ \o <<"snapshot", "event">>]
                              ELSE [lStream[e] EXCEPT !.queue = @ \o <<"snapshot">>]
             /\ lEnds'[e] = IF both THEN lEnds[e] + 1 ELSE lEnds[e]
  <2> DEFINE one == [e \in Stream |-> [lStream[e] EXCEPT !.queue = @ \o <<"snapshot">>]]
             two == [e \in Stream |-> [lStream[e] EXCEPT !.queue = @ \o <<"snapshot", "event">>]]
  <2>1. \A e \in Stream : /\ one[e] = [lStream[e] EXCEPT !.queue = @ \o <<"snapshot">>]
                          /\ two[e] = [lStream[e] EXCEPT !.queue = @ \o <<"snapshot", "event">>]
        OBVIOUS
  <2>2. CASE L!Follow(c)
    <3>1. /\ lStream' = [e \in Stream |-> IF e \in L!Subscribed(c) THEN one[e] ELSE lStream[e]]
          /\ lEnds' = lEnds
          BY <2>1, <2>2 DEF L!Follow, L!Emit
    <3> HIDE DEF one, two
    <3>2. /\ \A e \in Stream \ L!Subscribed(c) : lStream'[e] = lStream[e] /\ lEnds'[e] = lEnds[e]
          /\ \A e \in L!Subscribed(c) : lStream'[e] = one[e] /\ lEnds'[e] = lEnds[e]
          BY <1>1, <3>1
    <3>3. DOMAIN lStream' = Stream /\ DOMAIN lEnds' = Stream
          BY <3>1 DEF ClassStreams
    <3> WITNESS FALSE \in BOOLEAN
    <3> QED BY <1>1, <2>1, <3>2, <3>3
  <2>3. CASE L!Emit(c, <<"snapshot", "event">>)
             /\ lEnds' = [e \in Stream |-> IF e \in L!Subscribed(c) THEN lEnds[e] + 1 ELSE lEnds[e]]
    <3>1. lStream' = [e \in Stream |-> IF e \in L!Subscribed(c) THEN two[e] ELSE lStream[e]]
          BY <2>1, <2>3 DEF L!Emit
    <3> HIDE DEF one, two
    <3>2. /\ \A e \in Stream \ L!Subscribed(c) : lStream'[e] = lStream[e] /\ lEnds'[e] = lEnds[e]
          /\ \A e \in L!Subscribed(c) : lStream'[e] = two[e] /\ lEnds'[e] = lEnds[e] + 1
          BY <1>1, <2>3, <3>1
    <3>3. DOMAIN lStream' = Stream /\ DOMAIN lEnds' = Stream
          BY <2>3, <3>1
    <3> WITNESS TRUE \in BOOLEAN
    <3> QED BY <1>1, <2>1, <3>2, <3>3
  <2> QED BY <2>2, <2>3
<1> SUFFICES ASSUME NEW e \in Stream PROVE Follows(lStream'[e], lEnds'[e], lMeta', lStudents')
    BY <1>2 DEF ClassStreams
<1>3. Follows(lStream[e], lEnds[e], lMeta, lStudents)
      BY DEF ClassStreams
<1>4. CASE e \in L!Subscribed(c)
  <2>1. lStream[e].class = c /\ lStream[e].at \in {"sending", "waiting"}
        BY <1>1, <1>4
  <2>2. lMeta'[lStream[e].class] # <<>>
        BY <2>1
  <2>3. /\ Follows([lStream[e] EXCEPT !.queue = @ \o <<"snapshot">>], lEnds[e], lMeta', lStudents')
        /\ Follows([lStream[e] EXCEPT !.queue = @ \o <<"snapshot", "event">>], lEnds[e] + 1,
                   lMeta', lStudents')
        BY <1>3, <2>1, <2>2, FollowsTold
  <2>4. \/ /\ lStream'[e] = [lStream[e] EXCEPT !.queue = @ \o <<"snapshot", "event">>]
           /\ lEnds'[e] = lEnds[e] + 1
        \/ /\ lStream'[e] = [lStream[e] EXCEPT !.queue = @ \o <<"snapshot">>]
           /\ lEnds'[e] = lEnds[e]
        BY <1>2, <1>4, Zenon
  <2> QED BY <2>3, <2>4, Zenon
<1>5. CASE e \notin L!Subscribed(c)
  <2>1. lStream'[e] = lStream[e] /\ lEnds'[e] = lEnds[e]
        BY <1>2, <1>5, Zenon
  <2>2. lStream[e].at # "closed" => lMeta'[lStream[e].class] # <<>>
        BY <1>3 DEF Follows
  <2>3. lStream[e].at \in {"sending", "waiting"} =>
          /\ lMeta'[lStream[e].class] = lMeta[lStream[e].class]
          /\ lStudents'[lStream[e].class] = lStudents[lStream[e].class]
        BY <1>1, <1>3, <1>5 DEF Follows
  <2>4. Follows(lStream[e], lEnds[e], lMeta', lStudents')
        BY <1>3, <2>2, <2>3, FollowsElsewhere
  <2> QED BY <2>1, <2>4, Zenon
<1> QED BY <1>4, <1>5

(* A change of the students of a class, by something that keeps them all or    *)
(* takes out whoever has another class or none.                                *)
LEMMA StudentsDocs ==
  ASSUME ClassDocs, NEW c \in ApiClass, lMeta[c] # <<>>, UNCHANGED lMeta, NEW new,
         lStudents' = [lStudents EXCEPT ![c] = new],
         DOMAIN new \subseteq ClassAccount, new = [s \in DOMAIN new |-> new[s]],
         lConfig' \in [ClassAccount -> ApiClass \cup {None}],
         \A a \in ClassAccount : lConfig'[a] # None =>
           \/ lConfig'[a] = c /\ a \in DOMAIN new
           \/ lConfig'[a] = lConfig[a] /\ (lConfig[a] = c /\ a \in DOMAIN lStudents[c] => a \in DOMAIN new)
  PROVE  ClassDocs'
<1>1. /\ DOMAIN lStudents' = ApiClass
      /\ lStudents'[c] = new
      /\ \A d \in ApiClass \ {c} : lStudents'[d] = lStudents[d]
      BY DEF ClassDocs
<1>2. \A d \in ApiClass : /\ DOMAIN lStudents'[d] \subseteq ClassAccount
                          /\ lStudents'[d] = [s \in DOMAIN lStudents'[d] |-> lStudents'[d][s]]
                          /\ lMeta'[d] = <<>> => DOMAIN lStudents'[d] = {}
  <2> TAKE d \in ApiClass
  <2>1. CASE d = c
        BY <1>1, <2>1
  <2>2. CASE d # c
    <3>1. lStudents'[d] = lStudents[d] /\ lMeta'[d] = lMeta[d]
          BY <1>1, <2>2
    <3>2. /\ DOMAIN lStudents[d] \subseteq ClassAccount
          /\ lStudents[d] = [s \in DOMAIN lStudents[d] |-> lStudents[d][s]]
          /\ lMeta[d] = <<>> => DOMAIN lStudents[d] = {}
          BY DEF ClassDocs
    <3> QED BY <3>1, <3>2
  <2> QED BY <2>1, <2>2
<1>3. ASSUME NEW a \in ClassAccount, lConfig'[a] # None
      PROVE  \/ lMeta'[lConfig'[a]] # <<>> /\ lMeta'[lConfig'[a]].teacher = a
             \/ a \in DOMAIN lStudents'[lConfig'[a]]
  <2>1. CASE lConfig'[a] = c /\ a \in DOMAIN new
        BY <1>1, <2>1
  <2>2. CASE lConfig'[a] = lConfig[a] /\ (lConfig[a] = c /\ a \in DOMAIN lStudents[c] => a \in DOMAIN new)
    <3>1. lConfig[a] \in ApiClass
          BY <1>3, <2>2 DEF ClassDocs
    <3>2. \/ lMeta[lConfig[a]] # <<>> /\ lMeta[lConfig[a]].teacher = a
          \/ a \in DOMAIN lStudents[lConfig[a]]
          BY <1>3, <2>2 DEF ClassDocs
    <3> QED BY <1>1, <2>2, <3>1, <3>2
  <2> QED BY <1>3, <2>1, <2>2
<1> QED BY <1>1, <1>2, <1>3 DEF ClassDocs

LEMMA CreateClass == ASSUME ClassInv, NEW a \in ApiTeacher, NEW c \in ApiClass, L!Create(a, c) PROVE ClassInv'
<1>1. /\ lMeta[c] = <<>>
      /\ lConfig' = [lConfig EXCEPT ![a] = c]
      /\ lMeta' = [lMeta EXCEPT ![c] = [teacher |-> a, version |-> 0]]
      /\ lStudents' = [lStudents EXCEPT ![c] = <<>>]
      /\ lStream' = lStream /\ lEnds' = lEnds
      BY DEF L!Create, L!Exists
<1>2. /\ lMeta'[c] = [teacher |-> a, version |-> 0] /\ lMeta'[c] # <<>> /\ lMeta'[c].teacher = a
      /\ \A d \in ApiClass \ {c} : lMeta'[d] = lMeta[d] /\ lStudents'[d] = lStudents[d]
      /\ lMeta' \in [ApiClass -> MetaKind]
      /\ DOMAIN lStudents' = ApiClass /\ lStudents'[c] = <<>>
  <2>1. [teacher |-> a, version |-> 0] \in MetaKind
        BY DEF MetaKind
  <2> QED BY <1>1, <2>1, MetaIs DEF ClassInv, ClassDocs
<1>3. /\ lConfig' \in [ClassAccount -> ApiClass \cup {None}] /\ lConfig'[a] = c
      /\ \A b \in ClassAccount \ {a} : lConfig'[b] = lConfig[b]
      BY <1>1 DEF ClassInv, ClassDocs, ClassAccount
<1>4. \A d \in ApiClass : /\ DOMAIN lStudents'[d] \subseteq ClassAccount
                          /\ lStudents'[d] = [s \in DOMAIN lStudents'[d] |-> lStudents'[d][s]]
                          /\ lMeta'[d] = <<>> => DOMAIN lStudents'[d] = {}
  <2> TAKE d \in ApiClass
  <2>1. CASE d = c
    <3>1. DOMAIN <<>> = {} /\ <<>> = [s \in {} |-> <<>>[s]]
          OBVIOUS
    <3> QED BY <1>2, <2>1, <3>1
  <2>2. CASE d # c
    <3>1. lStudents'[d] = lStudents[d] /\ lMeta'[d] = lMeta[d]
          BY <1>2, <2>2
    <3>2. /\ DOMAIN lStudents[d] \subseteq ClassAccount
          /\ lStudents[d] = [s \in DOMAIN lStudents[d] |-> lStudents[d][s]]
          /\ lMeta[d] = <<>> => DOMAIN lStudents[d] = {}
          BY DEF ClassInv, ClassDocs
    <3> QED BY <3>1, <3>2
  <2> QED BY <2>1, <2>2
<1>5. ASSUME NEW b \in ClassAccount, lConfig'[b] # None
      PROVE  \/ lMeta'[lConfig'[b]] # <<>> /\ lMeta'[lConfig'[b]].teacher = b
             \/ b \in DOMAIN lStudents'[lConfig'[b]]
  <2>1. CASE b = a
        BY <1>2, <1>3, <2>1
  <2>2. CASE b # a
    <3>1. lConfig'[b] = lConfig[b]
          BY <1>3, <2>2
    <3>2. lConfig[b] \in ApiClass
          BY <1>5, <3>1 DEF ClassInv, ClassDocs
    <3>3. \/ lMeta[lConfig[b]] # <<>> /\ lMeta[lConfig[b]].teacher = b
          \/ b \in DOMAIN lStudents[lConfig[b]]
          BY <1>5, <3>1 DEF ClassInv, ClassDocs
    <3>4. lConfig[b] # c
      <4>1. DOMAIN lStudents[c] = {}
            BY <1>1 DEF ClassInv, ClassDocs
      <4> QED BY <1>1, <3>3, <4>1
    <3> QED BY <1>2, <3>1, <3>2, <3>3, <3>4
  <2> QED BY <2>1, <2>2
<1>6. ClassDocs'
      BY <1>2, <1>3, <1>4, <1>5 DEF ClassDocs
<1>7. ClassStreams'
  <2> SUFFICES ASSUME NEW e \in Stream PROVE Follows(lStream[e], lEnds[e], lMeta', lStudents')
      BY <1>1 DEF ClassInv, ClassStreams
  <2>1. Follows(lStream[e], lEnds[e], lMeta, lStudents)
        BY DEF ClassInv, ClassStreams
  <2>2. lStream[e].at # "closed" => /\ lStream[e].class \in ApiClass /\ lStream[e].class # c
                                    /\ lMeta[lStream[e].class] # <<>>
        BY <1>1, <2>1 DEF Follows
  <2>3. /\ lStream[e].at # "closed" => lMeta'[lStream[e].class] # <<>>
        /\ lStream[e].at \in {"sending", "waiting"} =>
             /\ lMeta'[lStream[e].class] = lMeta[lStream[e].class]
             /\ lStudents'[lStream[e].class] = lStudents[lStream[e].class]
        BY <1>2, <2>2
  <2> QED BY <2>1, <2>3, FollowsElsewhere
<1> QED BY <1>6, <1>7 DEF ClassInv

LEMMA JoinClass == ASSUME ClassInv, NEW a \in ApiStudent, NEW c \in ApiClass, L!Join(a, c) PROVE ClassInv'
<1> DEFINE new == [s \in DOMAIN lStudents[c] \cup {a} |->
                     IF s = a THEN [awaiting |-> FALSE, lesson |-> 0] ELSE lStudents[c][s]]
<1>1. /\ lMeta[c] # <<>> /\ lMeta' = lMeta
      /\ lConfig' = [lConfig EXCEPT ![a] = c]
      /\ lStudents' = [lStudents EXCEPT ![c] = new]
      /\ L!Follow(c)
      BY Zenon DEF L!Join, L!Exists
<1>2. DOMAIN new = DOMAIN lStudents[c] \cup {a} /\ new = [s \in DOMAIN new |-> new[s]]
      OBVIOUS
<1> HIDE DEF new
<1>3. DOMAIN new \subseteq ClassAccount
      BY <1>2 DEF ClassInv, ClassDocs, ClassAccount
<1>4. /\ lConfig' \in [ClassAccount -> ApiClass \cup {None}] /\ lConfig'[a] = c
      /\ \A b \in ClassAccount \ {a} : lConfig'[b] = lConfig[b]
      BY <1>1 DEF ClassInv, ClassDocs, ClassAccount
<1>5. \A b \in ClassAccount : lConfig'[b] # None =>
        \/ lConfig'[b] = c /\ b \in DOMAIN new
        \/ lConfig'[b] = lConfig[b] /\ (lConfig[b] = c /\ b \in DOMAIN lStudents[c] => b \in DOMAIN new)
      BY <1>2, <1>4
<1>6. ClassDocs'
      BY <1>1, <1>2, <1>3, <1>4, <1>5, StudentsDocs DEF ClassInv
<1>7. ClassStreams'
  <2>1. \A d \in ApiClass \ {c} : lMeta'[d] = lMeta[d] /\ lStudents'[d] = lStudents[d]
        BY <1>1 DEF ClassInv, ClassDocs
  <2> QED BY <1>1, <2>1, EmitFollows DEF ClassInv
<1> QED BY <1>6, <1>7 DEF ClassInv

LEMMA LeaveClass == ASSUME ClassInv, NEW a \in ApiStudent, NEW c \in ApiClass, L!Leave(a, c) PROVE ClassInv'
<1> DEFINE new == [s \in DOMAIN lStudents[c] \ {a} |-> lStudents[c][s]]
<1>1. /\ lMeta[c] # <<>> /\ lMeta' = lMeta
      /\ lConfig' = [lConfig EXCEPT ![a] = None]
      /\ lStudents' = [lStudents EXCEPT ![c] = new]
      /\ IF a \in DOMAIN lStudents[c] THEN L!Follow(c) ELSE lStream' = lStream /\ lEnds' = lEnds
      BY Zenon DEF L!Leave, L!Exists
<1>2. DOMAIN new = DOMAIN lStudents[c] \ {a} /\ new = [s \in DOMAIN new |-> new[s]]
      OBVIOUS
<1>3. a \notin DOMAIN lStudents[c] => new = lStudents[c]
  <2>1. lStudents[c] = [s \in DOMAIN lStudents[c] |-> lStudents[c][s]]
        BY DEF ClassInv, ClassDocs
  <2>2. a \notin DOMAIN lStudents[c] => DOMAIN lStudents[c] \ {a} = DOMAIN lStudents[c]
        OBVIOUS
  <2> QED BY <2>1, <2>2
<1> HIDE DEF new
<1>4. DOMAIN new \subseteq ClassAccount
      BY <1>2 DEF ClassInv, ClassDocs, ClassAccount
<1>5. /\ lConfig' \in [ClassAccount -> ApiClass \cup {None}] /\ lConfig'[a] = None
      /\ \A b \in ClassAccount \ {a} : lConfig'[b] = lConfig[b]
      BY <1>1 DEF ClassInv, ClassDocs, ClassAccount
<1>6. \A b \in ClassAccount : lConfig'[b] # None =>
        \/ lConfig'[b] = c /\ b \in DOMAIN new
        \/ lConfig'[b] = lConfig[b] /\ (lConfig[b] = c /\ b \in DOMAIN lStudents[c] => b \in DOMAIN new)
      BY <1>2, <1>5
<1>7. ClassDocs'
      BY <1>1, <1>2, <1>4, <1>5, <1>6, StudentsDocs DEF ClassInv
<1>8. ClassStreams'
  <2>1. CASE a \in DOMAIN lStudents[c]
    <3>1. \A d \in ApiClass \ {c} : lMeta'[d] = lMeta[d] /\ lStudents'[d] = lStudents[d]
          BY <1>1 DEF ClassInv, ClassDocs
    <3> QED BY <1>1, <2>1, <3>1, EmitFollows DEF ClassInv
  <2>2. CASE a \notin DOMAIN lStudents[c]
    <3>1. lMeta' = lMeta /\ lStream' = lStream /\ lEnds' = lEnds
          BY <1>1, <2>2
    <3>2. \A d \in ApiClass : lStudents'[d] = lStudents[d]
          BY <1>1, <1>3, <2>2 DEF ClassInv, ClassDocs
    <3> SUFFICES ASSUME NEW e \in Stream PROVE Follows(lStream[e], lEnds[e], lMeta, lStudents')
        BY <3>1 DEF ClassInv, ClassStreams
    <3>3. Follows(lStream[e], lEnds[e], lMeta, lStudents)
          BY DEF ClassInv, ClassStreams
    <3>4. /\ lStream[e].at # "closed" => lMeta[lStream[e].class] # <<>>
          /\ lStream[e].at \in {"sending", "waiting"} =>
               lStudents'[lStream[e].class] = lStudents[lStream[e].class]
          BY <3>2, <3>3 DEF Follows
    <3> QED BY <3>3, <3>4, FollowsElsewhere
  <2> QED BY <2>1, <2>2
<1> QED BY <1>7, <1>8 DEF ClassInv

LEMMA UpdateMetaClass ==
  ASSUME ClassInv, NEW a \in ApiTeacher, NEW c \in ApiClass, L!UpdateMeta(a, c) PROVE ClassInv'
<1>1. /\ lMeta[c] # <<>>
      /\ lMeta' = [lMeta EXCEPT ![c].version = lMeta[c].version + 1]
      /\ lConfig' = lConfig /\ lStudents' = lStudents
      /\ L!Follow(c)
      BY DEF L!UpdateMeta, L!Teaches, L!Exists
<1>2. lMeta[c] \in [teacher : ApiTeacher, version : Nat]
      BY <1>1 DEF ClassInv, ClassDocs, MetaKind
<1> DEFINE new == [lMeta[c] EXCEPT !.version = lMeta[c].version + 1]
<1>3. /\ new \in [teacher : ApiTeacher, version : Nat] /\ new.teacher = lMeta[c].teacher
      BY <1>2
<1>4. new # <<>>
  <2>1. DOMAIN new = {"teacher", "version"} /\ DOMAIN <<>> = {}
        BY <1>3
  <2> QED BY <2>1
<1>5. lMeta' = [lMeta EXCEPT ![c] = new]
      BY <1>1
<1> HIDE DEF new
<1>6. /\ lMeta' \in [ApiClass -> MetaKind] /\ lMeta'[c] = new
      /\ \A d \in ApiClass \ {c} : lMeta'[d] = lMeta[d]
      BY <1>3, <1>5 DEF ClassInv, ClassDocs, MetaKind
<1>7. \A d \in ApiClass : /\ lMeta'[d] = <<>> <=> lMeta[d] = <<>>
                          /\ lMeta[d] # <<>> => lMeta'[d].teacher = lMeta[d].teacher
      BY <1>1, <1>3, <1>4, <1>6
<1>8. ClassDocs'
  <2>1. ASSUME NEW b \in ClassAccount, lConfig[b] # None
        PROVE  \/ lMeta'[lConfig[b]] # <<>> /\ lMeta'[lConfig[b]].teacher = b
               \/ b \in DOMAIN lStudents[lConfig[b]]
    <3>1. lConfig[b] \in ApiClass
          BY <2>1 DEF ClassInv, ClassDocs
    <3>2. \/ lMeta[lConfig[b]] # <<>> /\ lMeta[lConfig[b]].teacher = b
          \/ b \in DOMAIN lStudents[lConfig[b]]
          BY <2>1 DEF ClassInv, ClassDocs
    <3> QED BY <1>7, <3>1, <3>2
  <2> QED BY <1>1, <1>6, <1>7, <2>1 DEF ClassInv, ClassDocs
<1>9. ClassStreams'
  <2>1. \A d \in ApiClass \ {c} : lMeta'[d] = lMeta[d] /\ lStudents'[d] = lStudents[d]
        BY <1>1, <1>6
  <2> QED BY <1>1, <1>4, <1>6, <2>1, EmitFollows DEF ClassInv
<1> QED BY <1>8, <1>9 DEF ClassInv

LEMMA UpdateStateClass ==
  ASSUME ClassInv, NEW a, NEW c \in ApiClass, NEW s, NEW lesson, NEW awaiting,
         L!UpdateState(a, c, s, lesson, awaiting)
  PROVE  ClassInv'
<1> DEFINE new == [lStudents[c] EXCEPT ![s] = [awaiting |-> awaiting, lesson |-> lesson]]
<1>1. /\ lMeta[c] # <<>> /\ lMeta' = lMeta /\ lConfig' = lConfig
      /\ lStudents' = [lStudents EXCEPT ![c] = new]
      /\ L!Follow(c)
      BY DEF L!UpdateState, L!Exists
<1>2. DOMAIN new = DOMAIN lStudents[c] /\ new = [x \in DOMAIN new |-> new[x]]
      OBVIOUS
<1> HIDE DEF new
<1>3. /\ DOMAIN new \subseteq ClassAccount
      /\ lConfig' \in [ClassAccount -> ApiClass \cup {None}]
      BY <1>1, <1>2 DEF ClassInv, ClassDocs
<1>4. \A b \in ClassAccount : lConfig'[b] # None =>
        \/ lConfig'[b] = c /\ b \in DOMAIN new
        \/ lConfig'[b] = lConfig[b] /\ (lConfig[b] = c /\ b \in DOMAIN lStudents[c] => b \in DOMAIN new)
      BY <1>1, <1>2
<1>5. ClassDocs'
      BY <1>1, <1>2, <1>3, <1>4, StudentsDocs DEF ClassInv
<1>6. ClassStreams'
  <2>1. \A d \in ApiClass \ {c} : lMeta'[d] = lMeta[d] /\ lStudents'[d] = lStudents[d]
        BY <1>1 DEF ClassInv, ClassDocs
  <2> QED BY <1>1, <2>1, EmitFollows DEF ClassInv
<1> QED BY <1>5, <1>6 DEF ClassInv

LEMMA MarkExplainedClass ==
  ASSUME ClassInv, NEW a, NEW c \in ApiClass, NEW lessons, L!MarkExplained(a, c, lessons)
  PROVE  ClassInv'
<1> DEFINE new == [s \in DOMAIN lStudents[c] |->
                     IF lStudents[c][s].lesson \in lessons
                     THEN [lStudents[c][s] EXCEPT !.awaiting = FALSE] ELSE lStudents[c][s]]
<1>1. /\ lMeta[c] # <<>> /\ lMeta' = lMeta /\ lConfig' = lConfig
      /\ lStudents' = [lStudents EXCEPT ![c] = new]
      /\ L!Emit(c, <<"snapshot", "event">>)
      /\ lEnds' = [e \in Stream |-> IF e \in L!Subscribed(c) THEN lEnds[e] + 1 ELSE lEnds[e]]
      BY Zenon DEF L!MarkExplained, L!Teaches, L!Exists
<1>2. DOMAIN new = DOMAIN lStudents[c] /\ new = [x \in DOMAIN new |-> new[x]]
      BY Zenon
<1> HIDE DEF new
<1>3. /\ DOMAIN new \subseteq ClassAccount
      /\ lConfig' \in [ClassAccount -> ApiClass \cup {None}]
      BY <1>1, <1>2 DEF ClassInv, ClassDocs
<1>4. \A b \in ClassAccount : lConfig'[b] # None =>
        \/ lConfig'[b] = c /\ b \in DOMAIN new
        \/ lConfig'[b] = lConfig[b] /\ (lConfig[b] = c /\ b \in DOMAIN lStudents[c] => b \in DOMAIN new)
      BY <1>1, <1>2
<1>5. ClassDocs'
      BY <1>1, <1>2, <1>3, <1>4, StudentsDocs DEF ClassInv
<1>6. ClassStreams'
  <2>1. \A d \in ApiClass \ {c} : lMeta'[d] = lMeta[d] /\ lStudents'[d] = lStudents[d]
        BY <1>1 DEF ClassInv, ClassDocs
  <2> QED BY <1>1, <2>1, EmitFollows DEF ClassInv
<1> QED BY <1>5, <1>6 DEF ClassInv

(* What a stream does by itself.                                               *)
LEMMA OneFollows ==
  ASSUME ClassInv, NEW e \in Stream, NEW f, NEW n, UNCHANGED <<lConfig, lMeta, lStudents>>,
         lStream' = [lStream EXCEPT ![e] = f], DOMAIN lEnds' = Stream, lEnds'[e] = n,
         \A d \in Stream \ {e} : lEnds'[d] = lEnds[d],
         Follows(f, n, lMeta, lStudents)
  PROVE  ClassInv'
<1>1. ClassDocs'
      BY DEF ClassInv, ClassDocs
<1>2. /\ DOMAIN lStream' = Stream /\ DOMAIN lEnds' = Stream
      /\ lStream'[e] = f /\ lEnds'[e] = n
      /\ \A d \in Stream \ {e} : lStream'[d] = lStream[d] /\ lEnds'[d] = lEnds[d]
      BY DEF ClassInv, ClassStreams
<1>3. \A d \in Stream : Follows(lStream'[d], lEnds'[d], lMeta, lStudents)
      BY <1>2 DEF ClassInv, ClassStreams
<1> QED BY <1>1, <1>2, <1>3 DEF ClassInv, ClassStreams

LEMMA StreamSteps ==
  ASSUME ClassInv, NEW e \in Stream,
         L!Subscribe(e) \/ L!Frame(e) \/ L!Sent(e) \/ L!Close(e) \/ \E c \in ApiClass : L!Open(e, c)
  PROVE  ClassInv'
<1> DEFINE f == lStream[e]
<1>1. /\ Follows(f, lEnds[e], lMeta, lStudents)
      /\ DOMAIN lEnds = Stream
      BY DEF ClassInv, ClassStreams
<1>2. /\ DOMAIN f = {"at", "class", "queue", "frame", "shown"}
      /\ f.queue \in Seq(FrameKind)
      BY <1>1 DEF Follows
<1>3. CASE L!Subscribe(e)
  <2> DEFINE g == [f EXCEPT !.at = "sending", !.shown = <<lMeta[f.class], lStudents[f.class]>>]
  <2>1. /\ f.at = "opening" /\ UNCHANGED <<lConfig, lMeta, lStudents>>
        /\ lStream' = [lStream EXCEPT ![e] = g] /\ lEnds' = lEnds
        BY <1>3 DEF L!Subscribe, L!Snapshot
  <2>2. /\ DOMAIN g = DOMAIN f /\ g.at = "sending" /\ g.class = f.class /\ g.queue = f.queue
        /\ g.frame = f.frame /\ g.shown = <<lMeta[f.class], lStudents[f.class]>>
        BY <1>2
  <2> HIDE DEF g
  <2>3. Follows(g, lEnds[e], lMeta, lStudents)
        BY <1>1, <2>1, <2>2 DEF Follows
  <2>4. /\ DOMAIN lEnds' = Stream /\ lEnds'[e] = lEnds[e]
        /\ \A d \in Stream \ {e} : lEnds'[d] = lEnds[d]
        BY <1>1, <2>1
  <2> HIDE DEF f
  <2> QED BY <2>1, <2>3, <2>4, OneFollows
<1>4. CASE L!Frame(e)
  <2> DEFINE h == Head(f.queue)
             shown == IF h = "snapshot" THEN <<lMeta[f.class], lStudents[f.class]>> ELSE f.shown
             g == [f EXCEPT !.at = "sending", !.queue = Tail(f.queue), !.frame = h, !.shown = shown]
  <2>1. /\ f.at = "waiting" /\ f.queue # <<>> /\ UNCHANGED <<lConfig, lMeta, lStudents>>
        /\ lStream' = [lStream EXCEPT ![e] = g] /\ lEnds' = lEnds
        BY <1>4 DEF L!Frame, L!Snapshot
  <2>2. /\ DOMAIN g = DOMAIN f /\ g.at = "sending" /\ g.class = f.class
        /\ g.queue = Tail(f.queue) /\ g.frame = h /\ g.shown = shown
        BY <1>2
  <2> HIDE DEF g
  <2>3. /\ h \in FrameKind /\ Tail(f.queue) \in Seq(FrameKind)
        /\ Told(f.queue) = Told(Tail(f.queue)) + IF h = "event" THEN 1 ELSE 0
        /\ h # "snapshot" /\ NoSnapshot(Tail(f.queue)) => NoSnapshot(f.queue)
        BY <1>2, <2>1, EventsTail
  <2>5. Told(f.queue) \in Nat
        BY <1>2, EventsFinite
  <2>6. f.frame = "snapshot" /\ lEnds[e] = Told(f.queue)
        BY <1>1, <2>1, <2>5 DEF Follows
  <2>7. NoSnapshot(g.queue) => g.shown = <<lMeta[f.class], lStudents[f.class]>>
    <3>1. CASE h = "snapshot"
          BY <2>2, <3>1
    <3>2. CASE h # "snapshot"
          BY <1>1, <2>1, <2>2, <2>3, <3>2 DEF Follows
    <3> QED BY <3>1, <3>2
  <2> HIDE DEF shown, h
  <2>8. Follows(g, lEnds[e], lMeta, lStudents)
        BY <1>1, <2>1, <2>2, <2>3, <2>6, <2>7 DEF Follows
  <2>9. /\ DOMAIN lEnds' = Stream /\ lEnds'[e] = lEnds[e]
        /\ \A d \in Stream \ {e} : lEnds'[d] = lEnds[d]
        BY <1>1, <2>1
  <2> HIDE DEF f
  <2> QED BY <2>1, <2>8, <2>9, OneFollows
<1>5. CASE L!Sent(e)
  <2> DEFINE g == [f EXCEPT !.at = "waiting", !.frame = "snapshot"]
             n == IF f.frame = "event" THEN lEnds[e] - 1 ELSE lEnds[e]
  <2>1. /\ f.at = "sending" /\ UNCHANGED <<lConfig, lMeta, lStudents>>
        /\ lStream' = [lStream EXCEPT ![e] = g]
        /\ lEnds' = IF f.frame = "event" THEN [lEnds EXCEPT ![e] = lEnds[e] - 1] ELSE lEnds
        BY <1>5 DEF L!Sent
  <2>2. /\ DOMAIN g = DOMAIN f /\ g.at = "waiting" /\ g.class = f.class
        /\ g.queue = f.queue /\ g.frame = "snapshot" /\ g.shown = f.shown
        BY <1>2
  <2> HIDE DEF g
  <2>3. n = Told(f.queue)
    <3>1. Told(f.queue) \in Nat
          BY <1>2, EventsFinite
    <3> QED BY <1>1, <3>1 DEF Follows
  <2>4. /\ DOMAIN lEnds' = Stream /\ lEnds'[e] = n
        /\ \A d \in Stream \ {e} : lEnds'[d] = lEnds[d]
        BY <1>1, <2>1
  <2>5. Told(g.queue) \in Nat /\ "snapshot" \in FrameKind
        BY <1>2, <2>2, EventsFinite DEF FrameKind
  <2> HIDE DEF n
  <2>6. Follows(g, n, lMeta, lStudents)
        BY <1>1, <2>1, <2>2, <2>3, <2>5 DEF Follows
  <2> HIDE DEF f
  <2> QED BY <2>1, <2>4, <2>6, OneFollows
<1>6. CASE L!Close(e)
  <2>1. /\ UNCHANGED <<lConfig, lMeta, lStudents>>
        /\ lStream' = [lStream EXCEPT ![e] = L!Closed] /\ lEnds' = [lEnds EXCEPT ![e] = 0]
        BY <1>6 DEF L!Close
  <2>2. /\ DOMAIN lEnds' = Stream /\ lEnds'[e] = 0
        /\ \A d \in Stream \ {e} : lEnds'[d] = lEnds[d]
        BY <1>1, <2>1
  <2>3. Follows(L!Closed, 0, lMeta, lStudents)
        BY ClosedFollows
  <2> HIDE DEF f
  <2> QED BY <2>1, <2>2, <2>3, OneFollows
<1>7. CASE \E c \in ApiClass : L!Open(e, c)
  <2> PICK c \in ApiClass : L!Open(e, c)
      BY <1>7
  <2> DEFINE g == [L!Closed EXCEPT !.at = "opening", !.class = c]
  <2>1. /\ f.at = "closed" /\ lMeta[c] # <<>> /\ UNCHANGED <<lConfig, lMeta, lStudents>>
        /\ lStream' = [lStream EXCEPT ![e] = g] /\ lEnds' = lEnds
        BY DEF L!Open, L!Exists
  <2>2. /\ DOMAIN g = {"at", "class", "queue", "frame", "shown"} /\ g.at = "opening"
        /\ g.class = c /\ g.queue = <<>> /\ g.frame = "snapshot"
        BY DEF L!Closed
  <2> HIDE DEF g
  <2>3. lEnds[e] = 0 /\ <<>> \in Seq(FrameKind) /\ Told(<<>>) = 0
    <3>1. f.queue = <<>> /\ f.frame = "snapshot" /\ Told(<<>>) = 0
          BY <1>1, <2>1, NoEvents DEF Follows
    <3> QED BY <1>1, <3>1, EmptySeq DEF Follows
  <2>4. Follows(g, lEnds[e], lMeta, lStudents)
        BY <2>1, <2>2, <2>3 DEF Follows, FrameKind
  <2>5. /\ DOMAIN lEnds' = Stream /\ lEnds'[e] = lEnds[e]
        /\ \A d \in Stream \ {e} : lEnds'[d] = lEnds[d]
        BY <1>1, <2>1
  <2> HIDE DEF f
  <2> QED BY <2>1, <2>4, <2>5, OneFollows
<1> QED BY <1>3, <1>4, <1>5, <1>6, <1>7

LEMMA ClassInit == L!Init => ClassInv
<1> SUFFICES ASSUME L!Init PROVE ClassInv
    OBVIOUS
<1>1. /\ lConfig = [a \in ClassAccount |-> None]
      /\ lMeta = [c \in ApiClass |-> <<>>] /\ lStudents = [c \in ApiClass |-> <<>>]
      /\ lStream = [e \in Stream |-> L!Closed] /\ lEnds = [e \in Stream |-> 0]
      BY DEF L!Init, L!Account, ClassAccount
<1>2. DOMAIN <<>> = {} /\ <<>> = [s \in {} |-> <<>>[s]]
      OBVIOUS
<1>3. ClassDocs
      BY <1>1, <1>2 DEF ClassDocs, MetaKind
<1>4. ClassStreams
      BY <1>1, ClosedFollows DEF ClassStreams
<1> QED BY <1>3, <1>4 DEF ClassInv

(* Whatever changes while a stream is behind, it ends with its class as it is  *)
(* and has told of every explanation; and whoever has a class belongs to it.   *)
THEOREM Classes == L!Spec => [](L!ApiClassroomsHold /\ L!ApiClassroomsTypeOK)
<1>1. ASSUME ClassInv, [L!Next]_(L!vars) PROVE ClassInv'
  <2>1. CASE UNCHANGED L!vars
        BY <1>1, <2>1 DEF L!vars, ClassInv, ClassDocs, ClassStreams
  <2>2. CASE L!Next
        BY <1>1, <2>2, CreateClass, JoinClass, LeaveClass, UpdateMetaClass, UpdateStateClass,
           MarkExplainedClass, StreamSteps DEF L!Next
  <2> QED BY <1>1, <2>1, <2>2
<1>2. ClassInv => L!StreamsFollow
  <2> SUFFICES ASSUME ClassInv, NEW e \in Stream, lStream[e].at = "waiting", lStream[e].queue = <<>>
               PROVE  lStream[e].shown = <<lMeta[lStream[e].class], lStudents[lStream[e].class]>>
                      /\ lEnds[e] = 0
      BY DEF L!StreamsFollow, L!Snapshot
  <2>1. Follows(lStream[e], lEnds[e], lMeta, lStudents)
        BY DEF ClassInv, ClassStreams
  <2>2. NoSnapshot(<<>>) /\ Told(<<>>) = 0
        BY NoEvents DEF NoSnapshot
  <2> QED BY <2>1, <2>2 DEF Follows
<1>3. ClassInv => L!MembersListed
      BY DEF ClassInv, ClassDocs, ClassAccount, L!MembersListed, L!Account, L!Teaches, L!Exists
<1>4. ClassInv => L!ApiClassroomsTypeOK
      BY DEF ClassInv, ClassDocs, ClassStreams, Follows, ClassAccount, L!ApiClassroomsTypeOK, L!Account
<1> QED BY ClassInit, <1>1, <1>2, <1>3, <1>4, PTL DEF L!Spec, L!ApiClassroomsHold

-----------------------------------------------------------------------------
(* Datasets of the API service                                                *)

LEMMA SameCount == \A T : D!Cardinality(T) = Cardinality(T)
BY DEF D!Cardinality, Cardinality

LEMMA SeqOf ==
  ASSUME NEW X, NEW n \in Nat, NEW f \in [1..n -> X]
  PROVE  f \in Seq(X) /\ Len(f) = n
BY IsASeq, LenProperties

(* Every place once, in ascending order: there is one at each position, and    *)
(* none is left out.                                                           *)
LEMMA AscendingAll ==
  ASSUME NEW n \in Nat, NEW T \in SUBSET (1..n)
  PROVE  /\ D!Ascending(T) \in Seq(T)
         /\ \A i \in T : \E k \in 1..Len(D!Ascending(T)) : D!Ascending(T)[k] = i
<1> DEFINE c == Cardinality(T)
           below(i) == {j \in T : j < i}
           place == [i \in T |-> Cardinality(below(i)) + 1]
<1>1. IsFiniteSet(T)
  <2>1. IsFiniteSet(1..n)
        BY FS_Interval
  <2> QED BY <2>1, FS_Subset
<1>2. c \in Nat
      BY <1>1, FS_CardinalityType
<1>3. \A i \in T : i \in Nat
      OBVIOUS
<1>4. ASSUME NEW i \in T
      PROVE  /\ IsFiniteSet(below(i)) /\ Cardinality(below(i)) \in Nat
             /\ Cardinality(below(i)) + 1 <= c
  <2>1. IsFiniteSet(below(i)) /\ Cardinality(below(i)) \in Nat
        BY <1>1, FS_Subset, FS_CardinalityType
  <2>2. i \notin below(i) /\ below(i) \cup {i} \in SUBSET T
        BY <1>3
  <2>3. Cardinality(below(i) \cup {i}) = Cardinality(below(i)) + 1
        BY <2>1, <2>2, FS_AddElement
  <2>4. Cardinality(below(i) \cup {i}) <= c
        BY <1>1, <2>2, FS_Subset
  <2> QED BY <2>1, <2>3, <2>4
<1>5. ASSUME NEW i \in T, NEW j \in T, i < j
      PROVE  Cardinality(below(i)) < Cardinality(below(j))
  <2>1. i \notin below(i) /\ below(i) \cup {i} \in SUBSET below(j)
    <3>1. i \in Nat /\ j \in Nat
          BY <1>3
    <3>2. \A x \in below(i) : x \in T /\ x < j
          BY <1>3, <1>5, <3>1
    <3>3. i \in below(j) /\ ~(i < i)
          BY <1>5, <3>1
    <3> QED BY <3>2, <3>3
  <2>2. Cardinality(below(i) \cup {i}) = Cardinality(below(i)) + 1
        BY <1>4, <2>1, FS_AddElement
  <2>3. Cardinality(below(i) \cup {i}) <= Cardinality(below(j))
        BY <1>4, <2>1, FS_Subset
  <2> QED BY <1>4, <2>2, <2>3
<1> HIDE DEF below, c
<1>6. place \in Injection(T, 1..c)
  <2>1. place \in [T -> 1..c]
        BY <1>2, <1>4
  <2>2. \A i, j \in T : place[i] = place[j] => i = j
        BY <1>3, <1>4, <1>5
  <2> QED BY <2>1, <2>2 DEF Injection, IsInjective
<1>7. IsFiniteSet(1..c) /\ Cardinality(1..c) = c
  <2>1. 1 \in Int /\ c \in Int
        BY <1>2
  <2>2. IsFiniteSet(1..c) /\ Cardinality(1..c) = IF 1 > c THEN 0 ELSE c - 1 + 1
        BY <2>1, FS_Interval
  <2> QED BY <1>2, <2>2
<1>8. place \in Surjection(T, 1..c)
      BY <1>1, <1>6, <1>7, FS_Injection DEF c
<1>9. \A k \in 1..c : \E i \in T : Cardinality(below(i)) = k - 1
  <2>1. \A k \in 1..c : \E i \in T : place[i] = k
        BY <1>8 DEF Surjection
  <2> TAKE k \in 1..c
  <2>2. PICK i \in T : place[i] = k
        BY <2>1
  <2>3. Cardinality(below(i)) + 1 = k /\ Cardinality(below(i)) \in Nat
        BY <1>4, <2>2
  <2> QED BY <1>2, <2>3
<1>10. D!Ascending(T) = [k \in 1..D!Cardinality(T) |->
                          CHOOSE i \in T : D!Cardinality({j \in T : j < i}) = k - 1]
      BY DEF D!Ascending
<1>11. /\ D!Ascending(T) = [k \in 1..c |-> D!Ascending(T)[k]]
       /\ \A k \in 1..c : /\ D!Ascending(T)[k] \in T
                          /\ Cardinality(below(D!Ascending(T)[k])) = k - 1
  <2>1. D!Cardinality(T) = c
        BY SameCount DEF c
  <2>2. ASSUME NEW k \in 1..c
        PROVE  /\ D!Ascending(T)[k] \in T
               /\ Cardinality(below(D!Ascending(T)[k])) = k - 1
    <3>1. D!Ascending(T)[k] = CHOOSE i \in T : D!Cardinality({j \in T : j < i}) = k - 1
          BY <1>10, <2>1
    <3>2. PICK i \in T : Cardinality({j \in T : j < i}) = k - 1
          BY <1>9 DEF below
    <3>3. D!Cardinality({j \in T : j < i}) = k - 1
          BY <3>2, SameCount
    <3>4. LET x == CHOOSE x \in T : D!Cardinality({j \in T : j < x}) = k - 1
          IN  x \in T /\ D!Cardinality({j \in T : j < x}) = k - 1
          BY <3>3
    <3>5. /\ D!Ascending(T)[k] \in T
          /\ D!Cardinality({j \in T : j < D!Ascending(T)[k]}) = k - 1
          BY <3>1, <3>4
    <3> QED BY <3>5, SameCount DEF below
  <2>3. D!Ascending(T) = [k \in 1..c |-> D!Ascending(T)[k]]
        BY <1>10, <2>1
  <2> QED BY <2>2, <2>3
<1>12. D!Ascending(T) \in Seq(T) /\ Len(D!Ascending(T)) = c
  <2>1. D!Ascending(T) \in [1..c -> T]
        BY <1>11
  <2> QED BY <1>2, <2>1
<1>13. ASSUME NEW i \in T PROVE \E k \in 1..c : D!Ascending(T)[k] = i
  <2> DEFINE k == Cardinality(below(i)) + 1
  <2>1. k \in 1..c /\ k - 1 = Cardinality(below(i))
        BY <1>2, <1>4
  <2>2. D!Ascending(T)[k] \in T /\ Cardinality(below(D!Ascending(T)[k])) = Cardinality(below(i))
        BY <1>11, <2>1
  <2>3. D!Ascending(T)[k] = i
    <3> DEFINE j == D!Ascending(T)[k]
    <3>1. j \in T /\ j \in Nat /\ i \in Nat /\ Cardinality(below(j)) = Cardinality(below(i))
          BY <1>3, <2>2
    <3>2. Cardinality(below(i)) \in Nat
          BY <1>4
    <3>3. ~(i < j)
          BY <1>5, <3>1, <3>2
    <3>4. ~(j < i)
          BY <1>5, <3>1, <3>2
    <3> HIDE DEF j
    <3>5. j = i
          BY <3>1, <3>3, <3>4
    <3> QED BY <3>5 DEF j
  <2> QED BY <2>1, <2>3
<1> QED BY <1>12, <1>13

LEMMA Versions ==
  ASSUME NEW v \in ApiVersion, NEW s \in D!Side
  PROVE  /\ Len(v[s]) \in Nat /\ Len(v[s]) = Len(v["inputs"]) /\ Len(v[s]) > 0
         /\ DOMAIN v[s] = 1..Len(v[s])
         /\ DOMAIN v["inputs"] = DOMAIN v[s]
         /\ \A i \in DOMAIN v[s] : v[s][i] # ""
<1>1. /\ v[s] \in Seq({v[s][i] : i \in DOMAIN v[s]})
      /\ v["inputs"] \in Seq({v["inputs"][i] : i \in DOMAIN v["inputs"]})
      /\ Len(v[s]) = Len(v["inputs"]) /\ Len(v[s]) > 0
      /\ \A i \in DOMAIN v[s] : v[s][i] # ""
      BY DatasetAssumption DEF D!Side
<1>2. /\ Len(v[s]) \in Nat /\ DOMAIN v[s] = 1..Len(v[s])
      /\ DOMAIN v["inputs"] = 1..Len(v["inputs"])
      BY <1>1, LenProperties
<1> QED BY <1>1, <1>2

(* A block a client sends, of a version that is or was.                        *)
SentBlock == {f \in [side : D!Side, blk : Nat, payload : UNION {D!BlocksOf(w) : w \in ApiVersion}] :
                \E w \in ApiVersion : f.blk \in DOMAIN w[f.side] /\ f.payload = w[f.side][f.blk]}

(* What was asked for and is still there is sent, and nothing else.            *)
LEMMA FramesOf ==
  ASSUME NEW need, NEW w \in ApiVersion
  PROVE  /\ D!Frames(need, w) \in Seq(SentBlock)
         /\ \A k \in 1..Len(D!Frames(need, w)) :
              LET f == D!Frames(need, w)[k]
              IN  <<f.side, f.blk>> \in need /\ f.blk \in DOMAIN w[f.side]
                  /\ f.payload = w[f.side][f.blk]
         /\ \A s \in D!Side : \A i \in DOMAIN w[s] : <<s, i>> \in need =>
              \E k \in 1..Len(D!Frames(need, w)) :
                D!Frames(need, w)[k].side = s /\ D!Frames(need, w)[k].blk = i
<1> DEFINE places(s) == {i \in DOMAIN w[s] : <<s, i>> \in need}
           blks(s)   == D!Ascending(places(s))
           of(s)     == [k \in DOMAIN blks(s) |->
                           [side |-> s, blk |-> blks(s)[k], payload |-> w[s][blks(s)[k]]]]
<1>1. D!Frames(need, w) = of("inputs") \o of("outputs")
      BY DEF D!Frames
<1>2. ASSUME NEW s \in D!Side
      PROVE  /\ of(s) \in Seq(SentBlock)
             /\ \A k \in 1..Len(of(s)) : /\ of(s)[k].side = s /\ of(s)[k].blk \in places(s)
                                         /\ of(s)[k].payload = w[s][of(s)[k].blk]
             /\ \A i \in places(s) : \E k \in 1..Len(of(s)) : of(s)[k].blk = i
  <2>1. /\ Len(w[s]) \in Nat /\ DOMAIN w[s] = 1..Len(w[s])
        BY Versions
  <2>2. places(s) \in SUBSET (1..Len(w[s]))
        BY <2>1
  <2> DEFINE asc == blks(s)
             Spot == places(s)
  <2>3. /\ asc \in Seq(Spot)
        /\ \A i \in Spot : \E k \in 1..Len(asc) : asc[k] = i
        BY <2>1, <2>2, AscendingAll
  <2>4. /\ Len(asc) \in Nat /\ DOMAIN asc = 1..Len(asc)
        /\ \A k \in 1..Len(asc) : asc[k] \in Spot
        BY <2>3, LenProperties, ElementOfSeq
  <2>5. \A i \in Spot : i \in DOMAIN w[s] /\ i \in Nat /\ <<s, i>> \in need
        BY <2>1
  <2> DEFINE block(i) == [side |-> s, blk |-> i, payload |-> w[s][i]]
  <2>6. \A i \in Spot : block(i) \in SentBlock
    <3> TAKE i \in Spot
    <3>1. w[s][i] \in D!BlocksOf(w)
          BY <2>5 DEF D!BlocksOf
    <3> QED BY <2>5, <3>1 DEF SentBlock
  <2>7. of(s) = [k \in 1..Len(asc) |-> block(asc[k])]
        BY <2>4
  <2> HIDE DEF Spot, asc
  <2>8. of(s) \in [1..Len(asc) -> SentBlock]
        BY <2>4, <2>6, <2>7
  <2>9. of(s) \in Seq(SentBlock) /\ Len(of(s)) = Len(asc)
        BY ZenonT(60), <2>4, <2>8, SeqOf
  <2>10. \A k \in 1..Len(asc) : of(s)[k] = block(asc[k])
         BY <2>7
  <2> HIDE DEF of
  <2>11. ASSUME NEW k \in 1..Len(of(s))
         PROVE  /\ of(s)[k].side = s /\ of(s)[k].blk = asc[k] /\ of(s)[k].blk \in Spot
                /\ of(s)[k].payload = w[s][of(s)[k].blk]
    <3>1. k \in 1..Len(asc) /\ asc[k] \in Spot
          BY <2>4, <2>9
    <3>2. of(s)[k] = block(asc[k])
          BY <2>10, <3>1
    <3> QED BY <3>1, <3>2
  <2>12. ASSUME NEW i \in Spot PROVE \E k \in 1..Len(of(s)) : of(s)[k].blk = i
    <3>1. PICK k \in 1..Len(asc) : asc[k] = i
          BY <2>3
    <3>2. k \in 1..Len(of(s))
          BY <2>9
    <3> QED BY <2>11, <3>1, <3>2
  <2> QED BY <2>9, <2>11, <2>12 DEF Spot
<1> HIDE DEF of, places
<1>3. "inputs" \in D!Side /\ "outputs" \in D!Side
      BY DEF D!Side
<1> DEFINE a == of("inputs")
           b == of("outputs")
           q == D!Frames(need, w)
<1>4. /\ a \in Seq(SentBlock) /\ b \in Seq(SentBlock) /\ q = a \o b
      /\ \A k \in 1..Len(a) : /\ a[k].side = "inputs" /\ a[k].blk \in places("inputs")
                              /\ a[k].payload = w["inputs"][a[k].blk]
      /\ \A k \in 1..Len(b) : /\ b[k].side = "outputs" /\ b[k].blk \in places("outputs")
                              /\ b[k].payload = w["outputs"][b[k].blk]
      /\ \A i \in places("inputs") : \E k \in 1..Len(a) : a[k].blk = i
      /\ \A i \in places("outputs") : \E k \in 1..Len(b) : b[k].blk = i
      BY <1>1, <1>2, <1>3, Zenon
<1> HIDE DEF a, b, q
<1>5. /\ q \in Seq(SentBlock) /\ Len(q) = Len(a) + Len(b)
      /\ \A k \in 1..Len(a) + Len(b) : q[k] = IF k <= Len(a) THEN a[k] ELSE b[k - Len(a)]
      /\ Len(a) \in Nat /\ Len(b) \in Nat
      BY <1>4, ConcatProperties, LenProperties
<1>6. ASSUME NEW k \in 1..Len(q)
      PROVE  \E s \in D!Side : /\ q[k].side = s /\ q[k].blk \in places(s)
                               /\ q[k].payload = w[s][q[k].blk]
  <2>1. CASE k <= Len(a)
    <3>1. k \in 1..Len(a) /\ q[k] = a[k]
          BY <1>5, <1>6, <2>1
    <3> QED BY <1>3, <1>4, <3>1
  <2>2. CASE ~(k <= Len(a))
    <3>1. k - Len(a) \in 1..Len(b) /\ q[k] = b[k - Len(a)]
          BY <1>5, <1>6, <2>2
    <3> QED BY <1>3, <1>4, <3>1
  <2> QED BY <2>1, <2>2
<1>7. ASSUME NEW s \in D!Side, NEW i \in places(s)
      PROVE  \E k \in 1..Len(q) : q[k].side = s /\ q[k].blk = i
  <2>1. CASE s = "inputs"
    <3>1. PICK k \in 1..Len(a) : a[k].blk = i
          BY <1>4, <2>1
    <3>2. k \in 1..Len(q) /\ q[k] = a[k]
          BY <1>5, <3>1
    <3> QED BY <1>4, <2>1, <3>1, <3>2
  <2>2. CASE s = "outputs"
    <3>1. PICK k \in 1..Len(b) : b[k].blk = i
          BY <1>4, <2>2
    <3>2. /\ Len(a) + k \in 1..Len(a) + Len(b) /\ ~(Len(a) + k <= Len(a))
          /\ (Len(a) + k) - Len(a) = k
          BY <1>5
    <3>3. Len(a) + k \in 1..Len(q) /\ q[Len(a) + k] = b[k]
          BY <1>5, <3>2
    <3> QED BY SMTT(30), <1>4, <2>2, <3>1, <3>3
  <2> QED BY <2>1, <2>2 DEF D!Side
<1>8. \A k \in 1..Len(q) : LET f == q[k]
                           IN  <<f.side, f.blk>> \in need /\ f.blk \in DOMAIN w[f.side]
                               /\ f.payload = w[f.side][f.blk]
      BY <1>6 DEF places
<1> QED BY <1>5, <1>7, <1>8 DEF q, places

(* A list that is made long enough.                                            *)
LEMMA PaddedIs ==
  ASSUME NEW q, Len(q) \in Nat, NEW n \in Nat, NEW x
  PROVE  /\ Len(D!Padded(q, n, x)) \in Nat
         /\ Len(D!Padded(q, n, x)) >= n /\ Len(D!Padded(q, n, x)) >= Len(q)
         /\ \A i \in 1..Len(D!Padded(q, n, x)) :
              D!Padded(q, n, x)[i] = IF i <= Len(q) THEN q[i] ELSE x
         /\ D!Padded(q, n, x) = [i \in 1..Len(D!Padded(q, n, x)) |-> D!Padded(q, n, x)[i]]
<1> DEFINE m == IF Len(q) < n THEN n ELSE Len(q)
           r == [i \in 1..m |-> IF i <= Len(q) THEN q[i] ELSE x]
           Elem == {r[i] : i \in 1..m}
<1>1. m \in Nat /\ m >= n /\ m >= Len(q)
      OBVIOUS
<1>2. D!Padded(q, n, x) = r
      BY DEF D!Padded
<1>3. r \in [1..m -> Elem]
      OBVIOUS
<1> HIDE DEF m, Elem
<1>4. /\ \A i \in 1..m : r[i] = IF i <= Len(q) THEN q[i] ELSE x
      /\ r = [i \in 1..m |-> r[i]]
      OBVIOUS
<1> HIDE DEF r
<1>5. Len(r) = m
      BY <1>1, <1>3, SeqOf
<1> QED BY <1>1, <1>2, <1>4, <1>5

(* A block is put into a list that is made long enough.                        *)
PutIn(q, n, x, y) == [D!Padded(q, n, y) EXCEPT ![n] = x]

LEMMA PutIs ==
  ASSUME NEW q, Len(q) \in Nat, NEW n \in Nat, n > 0, NEW x, NEW y
  PROVE  LET r == PutIn(q, n, x, y)
         IN  /\ Len(r) \in Nat /\ Len(r) >= n /\ Len(r) >= Len(q)
             /\ r[n] = x
             /\ \A i \in 1..Len(r) : i # n => r[i] = IF i <= Len(q) THEN q[i] ELSE y
             /\ r = [i \in 1..Len(r) |-> r[i]]
<1> DEFINE p == D!Padded(q, n, y)
           m == Len(p)
           r == [p EXCEPT ![n] = x]
           Elem == {r[i] : i \in 1..m}
<1>1. /\ m \in Nat /\ m >= n /\ m >= Len(q)
      /\ \A i \in 1..m : p[i] = IF i <= Len(q) THEN q[i] ELSE y
      /\ p = [i \in 1..m |-> p[i]]
      BY PaddedIs
<1> HIDE DEF p, m
<1>2. /\ r = [i \in 1..m |-> r[i]] /\ r[n] = x
      /\ \A i \in 1..m : i # n => r[i] = p[i]
      BY SMTT(30), <1>1
<1>3. r \in [1..m -> Elem]
      BY <1>2
<1> HIDE DEF r, Elem
<1>4. Len(r) = m
      BY <1>1, <1>3, SeqOf
<1> QED BY <1>1, <1>2, <1>4 DEF r, p, PutIn

LEMMA ListIs ==
  ASSUME NEW Elem, NEW r, Len(r) \in Nat, r = [i \in 1..Len(r) |-> r[i]],
         \A i \in 1..Len(r) : r[i] \in Elem
  PROVE  r \in Seq(Elem)
<1> DEFINE m == Len(r)
<1>1. m \in Nat /\ r = [i \in 1..m |-> r[i]] /\ \A i \in 1..m : r[i] \in Elem
      OBVIOUS
<1> HIDE DEF m
<1>2. r \in [1..m -> Elem]
      BY <1>1
<1> QED BY <1>1, <1>2, SeqOf

(* The two sides' lists.                                                       *)
Sides(b) ==
  /\ b = [s \in D!Side |-> b[s]]
  /\ \A s \in D!Side : Len(b[s]) \in Nat /\ b[s] = [i \in 1..Len(b[s]) |-> b[s][i]]

SidesIn(b, Elem) == Sides(b) /\ \A s \in D!Side : \A i \in 1..Len(b[s]) : b[s][i] \in Elem

LEMMA SidesAre ==
  ASSUME NEW Elem, NEW b
  PROVE  b \in [D!Side -> Seq(Elem)] <=> SidesIn(b, Elem)
<1>1. ASSUME b \in [D!Side -> Seq(Elem)] PROVE SidesIn(b, Elem)
  <2>1. ASSUME NEW s \in D!Side
        PROVE  /\ Len(b[s]) \in Nat /\ b[s] = [i \in 1..Len(b[s]) |-> b[s][i]]
               /\ \A i \in 1..Len(b[s]) : b[s][i] \in Elem
    <3> DEFINE q == b[s]
    <3>1. q \in Seq(Elem)
          BY <1>1
    <3> HIDE DEF q
    <3>2. Len(q) \in Nat /\ q \in [1..Len(q) -> Elem]
          BY <3>1
    <3> QED BY <3>2 DEF q
  <2> QED BY <1>1, <2>1 DEF SidesIn, Sides
<1>2. ASSUME SidesIn(b, Elem) PROVE b \in [D!Side -> Seq(Elem)]
  <2>1. ASSUME NEW s \in D!Side PROVE b[s] \in Seq(Elem)
    <3> DEFINE q == b[s]
    <3>1. Len(q) \in Nat /\ q = [i \in 1..Len(q) |-> q[i]] /\ \A i \in 1..Len(q) : q[i] \in Elem
          BY <1>2 DEF SidesIn, Sides
    <3> HIDE DEF q
    <3>2. q \in Seq(Elem)
          BY <3>1, ListIs
    <3> QED BY <3>2 DEF q
  <2>2. b = [s \in D!Side |-> b[s]]
        BY <1>2 DEF SidesIn, Sides
  <2> QED BY <2>1, <2>2
<1> QED BY <1>1, <1>2

(* One side's list gets a block.                                               *)
Put(b, s0, n, x, y) == [b EXCEPT ![s0] = PutIn(b[s0], n, x, y)]

LEMMA PutSide ==
  ASSUME NEW b, Sides(b), NEW s0 \in D!Side, NEW n \in Nat, n > 0, NEW x, NEW y
  PROVE  /\ Sides(Put(b, s0, n, x, y))
         /\ n \in 1..Len(Put(b, s0, n, x, y)[s0]) /\ Put(b, s0, n, x, y)[s0][n] = x
         /\ \A s \in D!Side : \A i \in 1..Len(Put(b, s0, n, x, y)[s]) :
              \/ s = s0 /\ i = n
              \/ i \in 1..Len(b[s]) /\ Put(b, s0, n, x, y)[s][i] = b[s][i]
              \/ Put(b, s0, n, x, y)[s][i] = y
         /\ \A s \in D!Side : \A i \in 1..Len(b[s]) :
              /\ i \in 1..Len(Put(b, s0, n, x, y)[s])
              /\ ~(s = s0 /\ i = n) => Put(b, s0, n, x, y)[s][i] = b[s][i]
<1> DEFINE q == b[s0]
           r == PutIn(q, n, x, y)
           b2 == Put(b, s0, n, x, y)
<1>1. Len(q) \in Nat
      BY DEF Sides
<1> HIDE DEF q, b2
<1>2. /\ Len(r) \in Nat /\ Len(r) >= n /\ Len(r) >= Len(q)
      /\ r[n] = x
      /\ \A i \in 1..Len(r) : i # n => r[i] = IF i <= Len(q) THEN q[i] ELSE y
      /\ r = [i \in 1..Len(r) |-> r[i]]
      BY <1>1, PutIs
<1> HIDE DEF r
<1>4. /\ b2 = [s \in D!Side |-> b2[s]] /\ b2[s0] = r
      /\ \A s \in D!Side \ {s0} : b2[s] = b[s]
      BY DEF b2, r, q, Put, Sides
<1>5. n \in 1..Len(r)
      BY <1>1, <1>2
<1>6. \A i \in 1..Len(r) : i = n \/ (i \in 1..Len(q) /\ r[i] = q[i]) \/ r[i] = y
      BY <1>1, <1>2
<1>7. \A i \in 1..Len(q) : i \in 1..Len(r) /\ (i # n => r[i] = q[i])
      BY <1>1, <1>2
<1>8. ASSUME NEW s \in D!Side, NEW i \in 1..Len(b2[s])
      PROVE  \/ s = s0 /\ i = n
             \/ i \in 1..Len(b[s]) /\ b2[s][i] = b[s][i]
             \/ b2[s][i] = y
      BY <1>4, <1>6 DEF q
<1>9. ASSUME NEW s \in D!Side, NEW i \in 1..Len(b[s])
      PROVE  i \in 1..Len(b2[s]) /\ (~(s = s0 /\ i = n) => b2[s][i] = b[s][i])
      BY <1>4, <1>7 DEF q
<1>10. Sides(b2)
       BY <1>2, <1>4 DEF Sides
<1> QED BY <1>2, <1>4, <1>5, <1>8, <1>9, <1>10 DEF b2

(* Lists that are made long enough.                                            *)
Grown(h, n, y) == [s \in D!Side |-> D!Padded(h[s], n[s], y)]

LEMMA GrownSides ==
  ASSUME NEW h, Sides(h), NEW n \in [D!Side -> Nat], NEW y
  PROVE  /\ Sides(Grown(h, n, y))
         /\ \A s \in D!Side : Len(Grown(h, n, y)[s]) >= n[s] /\ Len(Grown(h, n, y)[s]) >= Len(h[s])
         /\ \A s \in D!Side : \A i \in 1..Len(Grown(h, n, y)[s]) :
              \/ i \in 1..Len(h[s]) /\ Grown(h, n, y)[s][i] = h[s][i]
              \/ Grown(h, n, y)[s][i] = y
<1> DEFINE e == Grown(h, n, y)
<1>1. e = [s \in D!Side |-> e[s]] /\ \A s \in D!Side : e[s] = D!Padded(h[s], n[s], y)
      BY DEF Grown
<1>2. ASSUME NEW s \in D!Side
      PROVE  /\ Len(e[s]) \in Nat /\ e[s] = [i \in 1..Len(e[s]) |-> e[s][i]]
             /\ Len(e[s]) >= n[s] /\ Len(e[s]) >= Len(h[s])
             /\ \A i \in 1..Len(e[s]) : (i \in 1..Len(h[s]) /\ e[s][i] = h[s][i]) \/ e[s][i] = y
  <2> DEFINE q == h[s]
             m == n[s]
             r == D!Padded(q, m, y)
  <2>1. Len(q) \in Nat /\ m \in Nat /\ e[s] = r
        BY <1>1 DEF Sides
  <2> HIDE DEF q, m, e
  <2>2. /\ Len(r) \in Nat /\ Len(r) >= m /\ Len(r) >= Len(q)
        /\ \A i \in 1..Len(r) : r[i] = IF i <= Len(q) THEN q[i] ELSE y
        /\ r = [i \in 1..Len(r) |-> r[i]]
        BY <2>1, PaddedIs
  <2> HIDE DEF r
  <2>3. \A i \in 1..Len(r) : (i \in 1..Len(q) /\ r[i] = q[i]) \/ r[i] = y
        BY <2>1, <2>2
  <2> QED BY <2>1, <2>2, <2>3 DEF q, m
<1> HIDE DEF e
<1>3. Sides(e)
      BY <1>1, <1>2 DEF Sides
<1> QED BY <1>2, <1>3 DEF e

GrownOne(h, s0, m, y) == [h EXCEPT ![s0] = D!Padded(h[s0], m, y)]

LEMMA GrownSide ==
  ASSUME NEW h, Sides(h), NEW s0 \in D!Side, NEW m \in Nat, NEW y
  PROVE  /\ Sides(GrownOne(h, s0, m, y))
         /\ \A s \in D!Side : \A i \in 1..Len(GrownOne(h, s0, m, y)[s]) :
              \/ i \in 1..Len(h[s]) /\ GrownOne(h, s0, m, y)[s][i] = h[s][i]
              \/ GrownOne(h, s0, m, y)[s][i] = y
<1> DEFINE q == h[s0]
           r == D!Padded(q, m, y)
           e == GrownOne(h, s0, m, y)
<1>1. Len(q) \in Nat
      BY DEF Sides
<1> HIDE DEF q
<1>2. /\ Len(r) \in Nat /\ Len(r) >= m /\ Len(r) >= Len(q)
      /\ \A i \in 1..Len(r) : r[i] = IF i <= Len(q) THEN q[i] ELSE y
      /\ r = [i \in 1..Len(r) |-> r[i]]
      BY <1>1, PaddedIs
<1> HIDE DEF r
<1>3. \A i \in 1..Len(r) : (i \in 1..Len(q) /\ r[i] = q[i]) \/ r[i] = y
      BY <1>1, <1>2
<1>4. /\ e = [s \in D!Side |-> e[s]] /\ e[s0] = r
      /\ \A s \in D!Side \ {s0} : e[s] = h[s]
      BY DEF r, q, GrownOne, Sides
<1> HIDE DEF e
<1>5. ASSUME NEW s \in D!Side, NEW i \in 1..Len(e[s])
      PROVE  (i \in 1..Len(h[s]) /\ e[s][i] = h[s][i]) \/ e[s][i] = y
      BY <1>3, <1>4, <1>5 DEF q, Sides
<1>6. Sides(e)
      BY <1>2, <1>4 DEF Sides
<1> QED BY <1>5, <1>6 DEF e

Given == UNION {D!BlocksOf(w) : w \in ApiVersion}
BlockKind == {""} \cup Given
HashKind == {[by |-> "", of |-> ""]} \cup [by : HashAlgo, of : Given]

(* The entry: a block that came was at that place of some version.             *)
EntryKind == [algo : HashAlgo \cup {""}, blocks : [D!Side -> Seq(BlockKind)],
              hashes : [D!Side -> Seq(HashKind)]]
Placed(s, i, x) == x = "" \/ \E w \in ApiVersion : i \in DOMAIN w[s] /\ w[s][i] = x
AllPlaced(b) == \A s \in D!Side : \A i \in 1..Len(b[s]) : Placed(s, i, b[s][i])
EntryOK(e) == e \in EntryKind /\ AllPlaced(e.blocks)

Working == {"queued", "writing", "noting"}
Active == Working \cup {"asked", "loaded", "failed"}

(* A training, whatever others do: its frames are of places its version has,   *)
(* and its rows of versions.                                                   *)
LoadOK(f) ==
  /\ DOMAIN f = {"at", "version", "algo", "need", "frames", "orphan", "rows"}
  /\ f.at \in Active \cup {"idle", "left", "trained", "skipped"}
  /\ f.at \in Active => f.version \in ApiVersion /\ f.algo \in HashAlgo
  /\ f.at = "asked" => f.need \subseteq D!Side \X (1..Len(f.version["inputs"]))
  /\ f.frames \in Seq(SentBlock)
  /\ f.at \in Working => \A k \in 1..Len(f.frames) :
       f.frames[k].blk \in DOMAIN f.version[f.frames[k].side]
  /\ f.at = "noting" => f.frames # <<>>
  /\ f.rows # <<>> =>
       /\ f.at = "loaded"
       /\ f.rows = [i \in DOMAIN f.version["inputs"] |-> f.rows[i]]
       /\ \A i \in DOMAIN f.version["inputs"] :
            \E v, w \in ApiVersion : /\ i \in DOMAIN v["inputs"] /\ v["inputs"][i] = f.rows[i][1]
                                     /\ i \in DOMAIN w["outputs"] /\ w["outputs"][i] = f.rows[i][2]

There(v, b, s, i) == i \in 1..Len(b[s]) /\ b[s][i] = v[s][i]

(* A training that no other overlaps: what of its version is not there is      *)
(* asked for, and then on its way.                                             *)
Steady(f, b) ==
  /\ f.at \notin {"failed", "skipped"}
  /\ f.at \in Active => ~f.orphan
  /\ f.at = "asked" => \A s \in D!Side : \A i \in DOMAIN f.version[s] :
       <<s, i>> \in f.need \/ There(f.version, b, s, i)
  /\ f.at \in Working => \A s \in D!Side : \A i \in DOMAIN f.version[s] :
       \/ There(f.version, b, s, i)
       \/ \E k \in 1..Len(f.frames) : f.frames[k].side = s /\ f.frames[k].blk = i
  /\ f.at \in Working => \A k \in 1..Len(f.frames) :
       f.frames[k].payload = f.version[f.frames[k].side][f.frames[k].blk]
  /\ f.at = "noting" => There(f.version, b, f.frames[1].side, f.frames[1].blk)
  /\ f.at = "loaded" => f.rows = [i \in DOMAIN f.version["inputs"] |->
                                    <<f.version["inputs"][i], f.version["outputs"][i]>>]

Noting(f, s, i) == f.at = "noting" /\ f.frames[1].side = s /\ f.frames[1].blk = i
HashTrue(e, s, i) ==
  \/ e.hashes[s][i] = [by |-> "", of |-> ""]
  \/ i \in 1..Len(e.blocks[s]) /\ e.blocks[s][i] = e.hashes[s][i].of

LoadInv ==
  /\ EntryOK(dEntry) /\ dMixed \in BOOLEAN
  /\ DOMAIN dLoad = Load
  /\ \A l \in Load : LoadOK(dLoad[l])
  /\ ~dMixed =>
       /\ \A k, l \in Load : dLoad[k].at \in Active /\ dLoad[l].at \in Active => k = l
       /\ \A l \in Load : Steady(dLoad[l], dEntry.blocks)
       /\ \A s \in D!Side : \A i \in 1..Len(dEntry.hashes[s]) :
            HashTrue(dEntry, s, i) \/ \E l \in Load : Noting(dLoad[l], s, i)

LEMMA SteadyOver ==
  ASSUME NEW f, NEW b, NEW b2, Steady(f, b), f.at \notin Active
  PROVE  Steady(f, b2)
BY DEF Steady, Active, Working

(* One training goes on, and the others stand still.                           *)
LEMMA OneLoads ==
  ASSUME LoadInv, NEW l \in Load, dLoad[l].at \in Active, NEW f, LoadOK(f),
         dLoad' = [dLoad EXCEPT ![l] = f], EntryOK(dEntry'), dMixed' \in BOOLEAN,
         dMixed => dMixed',
         ~dMixed' => /\ Steady(f, dEntry'.blocks)
                     /\ \A s \in D!Side : \A i \in 1..Len(dEntry'.hashes[s]) :
                          HashTrue(dEntry', s, i) \/ Noting(f, s, i)
  PROVE  LoadInv'
<1>1. /\ DOMAIN dLoad' = Load /\ dLoad'[l] = f
      /\ \A k \in Load \ {l} : dLoad'[k] = dLoad[k]
      BY DEF LoadInv
<1>2. \A k \in Load : LoadOK(dLoad'[k])
      BY <1>1 DEF LoadInv
<1>3. ASSUME ~dMixed'
      PROVE  /\ \A k, j \in Load : dLoad'[k].at \in Active /\ dLoad'[j].at \in Active => k = j
             /\ \A k \in Load : Steady(dLoad'[k], dEntry'.blocks)
             /\ \A s \in D!Side : \A i \in 1..Len(dEntry'.hashes[s]) :
                  HashTrue(dEntry', s, i) \/ \E k \in Load : Noting(dLoad'[k], s, i)
  <2>1. /\ \A k \in Load \ {l} : dLoad[k].at \notin Active
        /\ \A k \in Load : Steady(dLoad[k], dEntry.blocks)
        BY <1>3 DEF LoadInv
  <2>2. \A k \in Load \ {l} : Steady(dLoad[k], dEntry'.blocks)
        BY <2>1, SteadyOver
  <2> QED BY <1>1, <1>3, <2>1, <2>2
<1> QED BY <1>1, <1>2, <1>3 DEF LoadInv

(* The only one that goes on is the one whose hash may be missing.             *)
LEMMA HashesOf ==
  ASSUME LoadInv, ~dMixed, NEW l \in Load, dLoad[l].at \in Active,
         NEW s \in D!Side, NEW i \in 1..Len(dEntry.hashes[s])
  PROVE  HashTrue(dEntry, s, i) \/ Noting(dLoad[l], s, i)
BY DEF LoadInv, Noting, Active, Working

LEMMA IdleLoad == LoadOK(D!Idle) /\ LoadOK([D!Idle EXCEPT !.at = "left"])
                  /\ LoadOK([D!Idle EXCEPT !.at = "trained"]) /\ LoadOK([D!Idle EXCEPT !.at = "skipped"])
                  /\ \A b : Steady(D!Idle, b) /\ Steady([D!Idle EXCEPT !.at = "left"], b)
                            /\ Steady([D!Idle EXCEPT !.at = "trained"], b)
<1> DEFINE idle(at) == [D!Idle EXCEPT !.at = at]
<1>0. /\ DOMAIN D!Idle = {"at", "version", "algo", "need", "frames", "orphan", "rows"}
      /\ D!Idle.at = "idle" /\ D!Idle.frames = <<>> /\ D!Idle.rows = <<>>
  <2>1. DOMAIN D!Idle = {"at", "version", "algo", "need", "frames", "orphan", "rows"}
        BY DEF D!Idle
  <2>2. D!Idle.at = "idle"
        BY DEF D!Idle
  <2>3. D!Idle.frames = <<>>
        BY Zenon DEF D!Idle
  <2>4. D!Idle.rows = <<>>
        BY Zenon DEF D!Idle
  <2> QED BY <2>1, <2>2, <2>3, <2>4
<1>1. \A at : /\ DOMAIN idle(at) = {"at", "version", "algo", "need", "frames", "orphan", "rows"}
              /\ idle(at).at = at /\ idle(at).frames = <<>> /\ idle(at).rows = <<>>
      BY <1>0
<1>2. <<>> \in Seq(SentBlock)
      BY EmptySeq
<1> HIDE DEF idle
<1>3. \A at \in {"idle", "left", "trained", "skipped"} : LoadOK(idle(at))
      BY <1>1, <1>2 DEF LoadOK, Active, Working
<1>4. \A at \in {"idle", "left", "trained"} : \A b : Steady(idle(at), b)
      BY <1>1 DEF Steady, Active, Working
<1>5. LoadOK(D!Idle) /\ \A b : Steady(D!Idle, b)
  <2>1. LoadOK(D!Idle)
        BY <1>0, <1>2 DEF LoadOK, Active, Working
  <2>2. \A b : Steady(D!Idle, b)
        BY <1>0 DEF Steady, Active, Working
  <2> QED BY <2>1, <2>2
<1>6. /\ LoadOK(idle("left")) /\ LoadOK(idle("trained")) /\ LoadOK(idle("skipped"))
      /\ \A b : Steady(idle("left"), b) /\ Steady(idle("trained"), b)
      BY <1>3, <1>4
<1> QED BY <1>5, <1>6 DEF idle

LEMMA SendLoad ==
  ASSUME LoadInv, NEW l \in Load, NEW w \in ApiVersion, D!Send(l, w)
  PROVE  LoadInv'
<1> DEFINE f == dLoad[l]
           q == D!Frames(f.need, w)
           g == [f EXCEPT !.at = "queued", !.need = {}, !.frames = q]
<1>1. /\ f.at = "asked" /\ dLoad' = [dLoad EXCEPT ![l] = g]
      /\ dEntry' = dEntry
      BY DEF D!Send
<1>2. /\ dMixed' \in BOOLEAN /\ (dMixed => dMixed') /\ (~dMixed' => ~dMixed /\ w = f.version)
      BY DEF D!Send, LoadInv
<1>3. LoadOK(f) /\ (~dMixed => Steady(f, dEntry.blocks))
      BY DEF LoadInv
<1>4. /\ DOMAIN f = {"at", "version", "algo", "need", "frames", "orphan", "rows"}
      /\ f.version \in ApiVersion /\ f.algo \in HashAlgo
      /\ f.need \subseteq D!Side \X (1..Len(f.version["inputs"]))
      /\ f.rows = <<>>
      BY <1>1, <1>3 DEF LoadOK, Active
<1>5. /\ DOMAIN g = DOMAIN f /\ g.at = "queued" /\ g.version = f.version /\ g.algo = f.algo
      /\ g.frames = q /\ g.orphan = f.orphan /\ g.rows = f.rows
      BY <1>4
<1>6. /\ q \in Seq(SentBlock)
      /\ \A k \in 1..Len(q) : /\ <<q[k].side, q[k].blk>> \in f.need /\ q[k].blk \in DOMAIN w[q[k].side]
                              /\ q[k].payload = w[q[k].side][q[k].blk]
      /\ \A s \in D!Side : \A i \in DOMAIN w[s] : <<s, i>> \in f.need =>
           \E k \in 1..Len(q) : q[k].side = s /\ q[k].blk = i
      BY FramesOf
<1> HIDE DEF g, q
<1>7. \A k \in 1..Len(q) : q[k].blk \in DOMAIN f.version[q[k].side]
  <2> TAKE k \in 1..Len(q)
  <2>1. q[k].side \in D!Side /\ q[k].blk \in 1..Len(f.version["inputs"])
        BY ZenonT(60), <1>4, <1>6
  <2> QED BY <1>4, <2>1, Versions
<1>8. LoadOK(g)
      BY <1>4, <1>5, <1>6, <1>7 DEF LoadOK, Active, Working
<1>9. ASSUME ~dMixed' PROVE Steady(g, dEntry'.blocks)
  <2>1. /\ ~dMixed /\ w = f.version /\ Steady(f, dEntry.blocks)
        BY SMTT(30), <1>2, <1>3, <1>9
  <2>2. /\ ~f.orphan
        /\ \A s \in D!Side : \A i \in DOMAIN f.version[s] :
             <<s, i>> \in f.need \/ There(f.version, dEntry.blocks, s, i)
        BY <1>1, <2>1 DEF Steady, Active
  <2>3. /\ g.version = w /\ g.at = "queued" /\ g.frames = q /\ ~g.orphan
        /\ dEntry' = dEntry
        BY <1>1, <1>5, <2>1, <2>2
  <2>4. \A s \in D!Side : \A i \in DOMAIN w[s] :
          \/ There(w, dEntry.blocks, s, i)
          \/ \E k \in 1..Len(q) : q[k].side = s /\ q[k].blk = i
    <3> TAKE s \in D!Side
    <3> TAKE i \in DOMAIN w[s]
    <3>1. <<s, i>> \in f.need \/ There(w, dEntry.blocks, s, i)
          BY <2>1, <2>2, Zenon
    <3> QED BY <1>6, <3>1, ZenonT(60)
  <2>5. \A k \in 1..Len(q) : q[k].payload = w[q[k].side][q[k].blk]
        BY <1>6, Zenon
  <2> HIDE DEF f
  <2> QED BY <2>3, <2>4, <2>5 DEF Steady, Active, Working
<1>10. ASSUME ~dMixed', NEW s \in D!Side, NEW i \in 1..Len(dEntry'.hashes[s])
       PROVE  HashTrue(dEntry', s, i) \/ Noting(g, s, i)
  <2>1. HashTrue(dEntry, s, i) \/ Noting(f, s, i)
        BY <1>1, <1>2, <1>10, HashesOf DEF Active
  <2> QED BY <1>1, <2>1 DEF Noting
<1>11. EntryOK(dEntry')
       BY <1>1 DEF LoadInv
<1>12. dLoad[l].at \in Active
       BY <1>1 DEF Active
<1> HIDE DEF f
<1> QED BY <1>1, <1>2, <1>8, <1>9, <1>10, <1>11, <1>12, OneLoads

LEMMA LeaveLoad == ASSUME LoadInv, NEW l \in Load, D!Leave(l) PROVE LoadInv'
<1> DEFINE g == [D!Idle EXCEPT !.at = "left"]
<1>1. /\ dLoad[l].at = "asked" /\ dLoad' = [dLoad EXCEPT ![l] = g]
      /\ dEntry' = dEntry /\ dMixed' = dMixed
      BY DEF D!Leave
<1>2. LoadOK(g) /\ Steady(g, dEntry'.blocks)
      BY IdleLoad
<1> HIDE DEF g
<1>3. ASSUME ~dMixed', NEW s \in D!Side, NEW i \in 1..Len(dEntry'.hashes[s])
      PROVE  HashTrue(dEntry', s, i) \/ Noting(g, s, i)
  <2>1. HashTrue(dEntry, s, i) \/ Noting(dLoad[l], s, i)
        BY <1>1, <1>3, HashesOf DEF Active
  <2> QED BY <1>1, <2>1 DEF Noting
<1>4. EntryOK(dEntry') /\ dMixed' \in BOOLEAN /\ dLoad[l].at \in Active
      BY <1>1 DEF LoadInv, Active
<1> QED BY <1>1, <1>2, <1>3, <1>4, OneLoads

LEMMA BeginLoad == ASSUME LoadInv, NEW l \in Load, D!Begin(l) PROVE LoadInv'
<1> DEFINE f == dLoad[l]
           g == [f EXCEPT !.at = "writing"]
<1>1. /\ f.at = "queued" /\ dLoad' = [dLoad EXCEPT ![l] = g]
      /\ dEntry' = [dEntry EXCEPT !.algo = f.algo] /\ dMixed' = dMixed
      BY DEF D!Begin
<1>2. LoadOK(f) /\ (~dMixed => Steady(f, dEntry.blocks)) /\ f.at \in Active
      BY <1>1 DEF LoadInv, Active, Working
<1>3. DOMAIN f = {"at", "version", "algo", "need", "frames", "orphan", "rows"}
      BY <1>2 DEF LoadOK
<1>4. /\ DOMAIN g = DOMAIN f /\ g.at = "writing" /\ g.version = f.version /\ g.algo = f.algo
      /\ g.frames = f.frames /\ g.orphan = f.orphan /\ g.rows = f.rows
      BY <1>3
<1> HIDE DEF g
<1>5. /\ EntryOK(dEntry') /\ dEntry'.blocks = dEntry.blocks /\ dEntry'.hashes = dEntry.hashes
  <2>1. f.algo \in HashAlgo /\ EntryOK(dEntry)
        BY <1>2 DEF LoadOK, LoadInv
  <2> HIDE DEF f
  <2>2. /\ dEntry' \in EntryKind
        /\ dEntry'.blocks = dEntry.blocks /\ dEntry'.hashes = dEntry.hashes
        BY <1>1, <2>1 DEF EntryOK, EntryKind
  <2>3. AllPlaced(dEntry'.blocks)
        BY <2>1, <2>2, Zenon DEF EntryOK
  <2> QED BY <2>2, <2>3 DEF EntryOK
<1>6. LoadOK(g)
      BY SMTT(30), <1>1, <1>2, <1>4 DEF LoadOK, Active, Working
<1>7. ~dMixed' => Steady(g, dEntry'.blocks)
      BY <1>1, <1>2, <1>4, <1>5 DEF Steady, Active, Working
<1>8. ASSUME ~dMixed', NEW s \in D!Side, NEW i \in 1..Len(dEntry'.hashes[s])
      PROVE  HashTrue(dEntry', s, i) \/ Noting(g, s, i)
  <2>1. HashTrue(dEntry, s, i) \/ Noting(f, s, i)
        BY <1>1, <1>2, <1>5, <1>8, HashesOf
  <2> QED BY <1>1, <1>5, <2>1 DEF Noting, HashTrue
<1>9. dMixed' \in BOOLEAN /\ (dMixed => dMixed') /\ dLoad[l].at \in Active
      BY <1>1, <1>2 DEF LoadInv
<1> HIDE DEF f
<1> QED BY <1>1, <1>5, <1>6, <1>7, <1>8, <1>9, OneLoads

(* What a training that works has in front of it.                              *)
LEMMA FrontFrame ==
  ASSUME NEW f, LoadOK(f), f.at \in Working, f.frames # <<>>, NEW b \in SentBlock, b = Head(f.frames)
  PROVE  /\ b.side \in D!Side /\ b.blk \in Nat /\ b.blk > 0 /\ b.payload \in Given
         /\ b.blk \in DOMAIN f.version[b.side]
         /\ \E w \in ApiVersion : b.blk \in DOMAIN w[b.side] /\ b.payload = w[b.side][b.blk]
         /\ b = f.frames[1] /\ 1 \in 1..Len(f.frames)
<1>1. /\ f.frames \in Seq(SentBlock)
      /\ \A k \in 1..Len(f.frames) : f.frames[k].blk \in DOMAIN f.version[f.frames[k].side]
      BY DEF LoadOK
<1>2. b = f.frames[1] /\ 1 \in 1..Len(f.frames)
      BY <1>1
<1>3. PICK w \in ApiVersion : b.blk \in DOMAIN w[b.side] /\ b.payload = w[b.side][b.blk]
      BY DEF SentBlock
<1>4. b.side \in D!Side /\ b.blk \in Nat /\ b.payload \in Given
      BY DEF SentBlock, Given
<1>5. DOMAIN w[b.side] = 1..Len(w[b.side])
      BY <1>4, Versions
<1> QED BY <1>1, <1>2, <1>3, <1>4, <1>5

(* A block that came is put at its place, and the hashes get as many places.   *)
Writes(b, h, b2, h2, s0, n, x, y) ==
  /\ b2 \in [D!Side -> Seq(BlockKind)] /\ AllPlaced(b2)
  /\ n \in 1..Len(b2[s0]) /\ b2[s0][n] = x
  /\ \A s \in D!Side : \A i \in 1..Len(b[s]) :
       /\ i \in 1..Len(b2[s])
       /\ ~(s = s0 /\ i = n) => b2[s][i] = b[s][i]
  /\ h2 \in [D!Side -> Seq(HashKind)]
  /\ \A s \in D!Side : \A i \in 1..Len(h2[s]) :
       (i \in 1..Len(h[s]) /\ h2[s][i] = h[s][i]) \/ h2[s][i] = y

LEMMA Written ==
  ASSUME NEW b \in [D!Side -> Seq(BlockKind)], NEW h \in [D!Side -> Seq(HashKind)], AllPlaced(b),
         NEW s0 \in D!Side, NEW n \in Nat, n > 0, NEW x \in Given, Placed(s0, n, x),
         NEW m \in Nat, NEW z \in BlockKind, \A s, i : Placed(s, i, z), NEW y \in HashKind
  PROVE  Writes(b, h, Put(b, s0, n, x, z), GrownOne(h, s0, m, y), s0, n, x, y)
<1> DEFINE b2 == Put(b, s0, n, x, z)
           h2 == GrownOne(h, s0, m, y)
<1>1. x \in BlockKind
      BY DEF BlockKind
<1>2. SidesIn(b, BlockKind) /\ SidesIn(h, HashKind)
      BY SidesAre, Zenon
<1>3. Sides(b) /\ Sides(h)
      BY <1>2 DEF SidesIn
<1>4. /\ Sides(b2)
      /\ n \in 1..Len(b2[s0]) /\ b2[s0][n] = x
      /\ \A s \in D!Side : \A i \in 1..Len(b2[s]) :
           \/ s = s0 /\ i = n
           \/ i \in 1..Len(b[s]) /\ b2[s][i] = b[s][i]
           \/ b2[s][i] = z
      /\ \A s \in D!Side : \A i \in 1..Len(b[s]) :
           /\ i \in 1..Len(b2[s])
           /\ ~(s = s0 /\ i = n) => b2[s][i] = b[s][i]
      BY <1>3, PutSide
<1>5. /\ Sides(h2)
      /\ \A s \in D!Side : \A i \in 1..Len(h2[s]) :
           (i \in 1..Len(h[s]) /\ h2[s][i] = h[s][i]) \/ h2[s][i] = y
      BY <1>3, GrownSide
<1> HIDE DEF b2, h2
<1>6. b2 \in [D!Side -> Seq(BlockKind)]
  <2>1. SidesIn(b2, BlockKind)
        BY <1>1, <1>2, <1>4 DEF SidesIn
  <2> QED BY <2>1, SidesAre
<1>7. h2 \in [D!Side -> Seq(HashKind)]
  <2>1. SidesIn(h2, HashKind)
        BY <1>1, <1>2, <1>5 DEF SidesIn
  <2> QED BY <2>1, SidesAre
<1>8. AllPlaced(b2)
  <2>1. ASSUME NEW s \in D!Side, NEW i \in 1..Len(b2[s]) PROVE Placed(s, i, b2[s][i])
    <3>1. CASE s = s0 /\ i = n
          BY <1>4, <3>1, Zenon
    <3>2. CASE i \in 1..Len(b[s]) /\ b2[s][i] = b[s][i]
          BY <3>2 DEF AllPlaced
    <3>3. CASE b2[s][i] = z
          BY <3>3
    <3> QED BY <1>4, <3>1, <3>2, <3>3
  <2> QED BY <2>1 DEF AllPlaced
<1>9. Writes(b, h, b2, h2, s0, n, x, y)
      BY <1>4, <1>5, <1>6, <1>7, <1>8 DEF Writes
<1> QED BY <1>9 DEF b2, h2

(* An entry is its algorithm, blocks and hashes.                               *)
LEMMA EntryIs ==
  ASSUME NEW e \in EntryKind, NEW b, NEW h
  PROVE  /\ e = [algo |-> e.algo, blocks |-> e.blocks, hashes |-> e.hashes]
         /\ e.algo \in HashAlgo \cup {""}
         /\ e.blocks \in [D!Side -> Seq(BlockKind)] /\ e.hashes \in [D!Side -> Seq(HashKind)]
         /\ [[e EXCEPT !.blocks = b] EXCEPT !.hashes = h] = [algo |-> e.algo, blocks |-> b, hashes |-> h]
<1>1. /\ e = [algo |-> e.algo, blocks |-> e.blocks, hashes |-> e.hashes]
      /\ e.algo \in HashAlgo \cup {""}
      /\ e.blocks \in [D!Side -> Seq(BlockKind)] /\ e.hashes \in [D!Side -> Seq(HashKind)]
      BY DEF EntryKind
<1>2. [e EXCEPT !.blocks = b] = [algo |-> e.algo, blocks |-> b, hashes |-> e.hashes]
  <2>1. \A al, bl, ha : [[algo |-> al, blocks |-> bl, hashes |-> ha] EXCEPT !.blocks = b]
                          = [algo |-> al, blocks |-> b, hashes |-> ha]
        OBVIOUS
  <2>2. [[algo |-> e.algo, blocks |-> e.blocks, hashes |-> e.hashes] EXCEPT !.blocks = b]
          = [algo |-> e.algo, blocks |-> b, hashes |-> e.hashes]
        BY <2>1
  <2> QED BY <1>1, <2>2, Zenon
<1>3. [[algo |-> e.algo, blocks |-> b, hashes |-> e.hashes] EXCEPT !.hashes = h]
        = [algo |-> e.algo, blocks |-> b, hashes |-> h]
      OBVIOUS
<1> QED BY <1>1, <1>2, <1>3

LEMMA WriteBlockLoad == ASSUME LoadInv, NEW l \in Load, D!WriteBlock(l) PROVE LoadInv'
<1> DEFINE f == dLoad[l]
           g == [f EXCEPT !.at = "noting", !.orphan = FALSE]
           b == Head(f.frames)
           e == dEntry
           had == Len(e.blocks[b.side])
           more == IF b.blk > had THEN b.blk - had ELSE 0
           grown == Len(e.hashes[b.side]) + more
           blank == [by |-> "", of |-> ""]
           z == ""
           b2 == Put(e.blocks, b.side, b.blk, b.payload, z)
           h2 == GrownOne(e.hashes, b.side, grown, blank)
<1>1. /\ f.at = "writing" /\ f.frames # <<>> /\ dLoad' = [dLoad EXCEPT ![l] = g]
      /\ dMixed' = dMixed
      BY Zenon DEF D!WriteBlock
<1>2. dEntry' = [e EXCEPT !.blocks[b.side] = [D!Padded(@, b.blk, "") EXCEPT ![b.blk] = b.payload],
                          !.hashes[b.side] = D!Padded(@, Len(@) + more, blank)]
      BY Zenon DEF D!WriteBlock, D!Unhashed
<1>3. LoadOK(f) /\ EntryOK(e) /\ f.at \in Working /\ f.at \in Active
      BY <1>1 DEF LoadInv, Working, Active
<1>4. /\ DOMAIN f = {"at", "version", "algo", "need", "frames", "orphan", "rows"}
      /\ f.frames \in Seq(SentBlock) /\ f.version \in ApiVersion
      BY <1>3 DEF LoadOK
<1>5. b \in SentBlock
      BY <1>1, <1>4
<1>6. /\ b.side \in D!Side /\ b.blk \in Nat /\ b.blk > 0 /\ b.payload \in Given
      /\ b.blk \in DOMAIN f.version[b.side]
      /\ \E w \in ApiVersion : b.blk \in DOMAIN w[b.side] /\ b.payload = w[b.side][b.blk]
      /\ b = f.frames[1] /\ 1 \in 1..Len(f.frames)
      BY <1>1, <1>3, <1>5, FrontFrame
<1>7. /\ DOMAIN g = DOMAIN f /\ g.at = "noting" /\ g.version = f.version /\ g.algo = f.algo
      /\ g.frames = f.frames /\ g.orphan = FALSE /\ g.rows = f.rows
      BY <1>4
<1>8. /\ e \in EntryKind /\ AllPlaced(e.blocks)
      /\ e.blocks \in [D!Side -> Seq(BlockKind)] /\ e.hashes \in [D!Side -> Seq(HashKind)]
      BY <1>3 DEF EntryOK, EntryKind
<1>9. dEntry'.blocks = b2 /\ dEntry'.hashes = h2 /\ dEntry' = [algo |-> e.algo, blocks |-> b2, hashes |-> h2]
  <2>1. dEntry' = [[e EXCEPT !.blocks = b2] EXCEPT !.hashes = h2]
    <3> DEFINE e1 == [e EXCEPT !.blocks = b2]
    <3>1. e1.hashes = e.hashes
          BY <1>8 DEF EntryKind
    <3> QED BY <1>2, <3>1, Zenon DEF Put, PutIn, GrownOne
  <2> HIDE DEF b2, h2, e
  <2> QED BY <1>8, <2>1, EntryIs
<1>11. grown \in Nat
  <2>1. had \in Nat /\ Len(e.hashes[b.side]) \in Nat
    <3>1. e.blocks[b.side] \in Seq(BlockKind) /\ e.hashes[b.side] \in Seq(HashKind)
          BY <1>6, <1>8
    <3> QED BY <3>1, LenProperties
  <2> HIDE DEF had, b, e
  <2> QED BY SMTT(30), <1>6, <2>1
<1> DEFINE eb == e.blocks
           eh == e.hashes
           s0 == b.side
           n  == b.blk
           x  == b.payload
<1>12. Placed(s0, n, x)
       BY <1>6, Zenon DEF Placed
<1>13. /\ b2 = Put(eb, s0, n, x, z) /\ h2 = GrownOne(eh, s0, grown, blank)
       /\ z \in BlockKind /\ blank \in HashKind
       /\ eb \in [D!Side -> Seq(BlockKind)] /\ eh \in [D!Side -> Seq(HashKind)] /\ AllPlaced(eb)
       /\ s0 \in D!Side /\ n \in Nat /\ n > 0 /\ x \in Given
       BY <1>6, <1>8, Zenon DEF BlockKind, HashKind
<1>20. \A s, i : Placed(s, i, z)
       BY Zenon DEF Placed
<1> HIDE DEF g, b2, h2, grown, more, had, eb, eh, s0, n, x, z, blank
<1>10. /\ b2 \in [D!Side -> Seq(BlockKind)] /\ AllPlaced(b2)
       /\ n \in 1..Len(b2[s0]) /\ b2[s0][n] = x
       /\ \A s \in D!Side : \A i \in 1..Len(eb[s]) :
            /\ i \in 1..Len(b2[s])
            /\ ~(s = s0 /\ i = n) => b2[s][i] = eb[s][i]
       /\ h2 \in [D!Side -> Seq(HashKind)]
       /\ \A s \in D!Side : \A i \in 1..Len(h2[s]) :
            (i \in 1..Len(eh[s]) /\ h2[s][i] = eh[s][i]) \/ h2[s][i] = blank
  <2>1. Writes(eb, eh, Put(eb, s0, n, x, z), GrownOne(eh, s0, grown, blank), s0, n, x, blank)
        BY <1>11, <1>12, <1>13, <1>20, Written
  <2>2. Writes(eb, eh, b2, h2, s0, n, x, blank)
        BY <1>13, <2>1, Zenon
  <2> QED BY <2>2 DEF Writes
<1> USE DEF s0, n, x, eb, eh, blank
<1> HIDE DEF e
<1>14. EntryOK(dEntry')
  <2>1. dEntry' \in EntryKind
        BY <1>8, <1>9, <1>10, EntryIs DEF EntryKind
  <2> QED BY ZenonT(60), <1>9, <1>10, <2>1 DEF EntryOK
<1>15. LoadOK(g)
       BY SMTT(30), <1>1, <1>3, <1>7 DEF LoadOK, Active, Working
<1>16. ASSUME ~dMixed' PROVE Steady(g, b2)
  <2>1. Steady(f, e.blocks)
        BY SMTT(30), <1>1, <1>16 DEF LoadInv, e
  <2>2. /\ \A s \in D!Side : \A i \in DOMAIN f.version[s] :
             \/ There(f.version, e.blocks, s, i)
             \/ \E k \in 1..Len(f.frames) : f.frames[k].side = s /\ f.frames[k].blk = i
        /\ \A k \in 1..Len(f.frames) :
             f.frames[k].payload = f.version[f.frames[k].side][f.frames[k].blk]
        BY <1>3, <2>1 DEF Steady
  <2>3. There(f.version, b2, b.side, b.blk)
    <3>1. b.payload = f.version[b.side][b.blk]
          BY <1>6, <2>2, Zenon
    <3> HIDE DEF b, f
    <3> QED BY <1>10, <3>1 DEF There
  <2>4. \A s \in D!Side : \A i \in DOMAIN f.version[s] :
          There(f.version, e.blocks, s, i) => There(f.version, b2, s, i)
        BY <1>10, <2>3 DEF There
  <2>5. \A s \in D!Side : \A i \in DOMAIN f.version[s] :
             \/ There(f.version, b2, s, i)
             \/ \E k \in 1..Len(f.frames) : f.frames[k].side = s /\ f.frames[k].blk = i
        BY <2>2, <2>4
  <2> HIDE DEF f, b
  <2> QED BY <1>6, <1>7, <2>2, <2>3, <2>5 DEF Steady, Active, Working
<1>17. ASSUME ~dMixed', NEW s \in D!Side, NEW i \in 1..Len(h2[s])
       PROVE  HashTrue(dEntry', s, i) \/ Noting(g, s, i)
  <2>1. CASE h2[s][i] = blank
        BY <1>9, <2>1 DEF HashTrue
  <2>2. CASE s = b.side /\ i = b.blk
        BY <1>6, <1>7, <2>2 DEF Noting
  <2>3. CASE ~(s = b.side /\ i = b.blk) /\ h2[s][i] # blank
    <3>1. i \in 1..Len(e.hashes[s]) /\ h2[s][i] = e.hashes[s][i]
          BY <1>10, <2>3
    <3>2. HashTrue(e, s, i)
          BY <1>1, <1>3, <1>17, <3>1, HashesOf DEF Noting, e
    <3>3. i \in 1..Len(e.blocks[s]) /\ e.blocks[s][i] = e.hashes[s][i].of
          BY <2>3, <3>1, <3>2 DEF HashTrue
    <3>4. i \in 1..Len(b2[s]) /\ b2[s][i] = e.blocks[s][i]
          BY <1>10, <2>3, <3>3
    <3> QED BY <1>9, <3>1, <3>3, <3>4 DEF HashTrue
  <2> QED BY <2>1, <2>2, <2>3
<1>18. dMixed' \in BOOLEAN /\ (dMixed => dMixed')
       BY <1>1 DEF LoadInv
<1> HIDE DEF f, b, e
<1>19. ~dMixed' => /\ Steady(g, dEntry'.blocks)
                   /\ \A s \in D!Side : \A i \in 1..Len(dEntry'.hashes[s]) :
                        HashTrue(dEntry', s, i) \/ Noting(g, s, i)
       BY <1>9, <1>16, <1>17
<1> QED BY <1>1, <1>3, <1>14, <1>15, <1>18, <1>19, OneLoads DEF f

LEMMA TailIs ==
  ASSUME NEW Elem, NEW q, q \in Seq(Elem), q # <<>>
  PROVE  /\ Tail(q) \in Seq(Elem)
         /\ \A k \in 1..Len(Tail(q)) : k + 1 \in 1..Len(q) /\ Tail(q)[k] = q[k + 1]
         /\ \A k \in 1..Len(q) : k = 1 \/ (k - 1 \in 1..Len(Tail(q)) /\ Tail(q)[k - 1] = q[k])
<1>1. /\ Tail(q) \in Seq(Elem) /\ Len(q) \in Nat /\ Len(Tail(q)) = Len(q) - 1
      /\ \A k \in 1..Len(Tail(q)) : Tail(q)[k] = q[k + 1]
      BY HeadTailProperties, LenProperties
<1> DEFINE t == Tail(q)
           n == Len(q)
           m == Len(t)
<1>2. n \in Nat /\ m = n - 1
      BY <1>1
<1>3. \A k \in 1..m : t[k] = q[k + 1]
      BY <1>1
<1> HIDE DEF t, n, m
<1>4. \A k \in 1..m : k + 1 \in 1..n
      BY <1>2
<1>5. ASSUME NEW k \in 1..n, k # 1
      PROVE  k - 1 \in 1..m /\ t[k - 1] = q[k]
  <2>1. k - 1 \in 1..m /\ (k - 1) + 1 = k
        BY <1>2, <1>5
  <2> QED BY <1>3, <2>1
<1> QED BY <1>1, <1>3, <1>4, <1>5 DEF t, n, m

LEMMA NoteHashLoad == ASSUME LoadInv, NEW l \in Load, D!NoteHash(l) PROVE LoadInv'
<1> DEFINE f == dLoad[l]
           q == Tail(f.frames)
           g == [f EXCEPT !.at = "writing", !.frames = q, !.orphan = FALSE]
           b == Head(f.frames)
           e == dEntry
           s0 == b.side
           n == b.blk
           x == D!Hash(f.algo, f.version[b.side][b.blk])
           blank == [by |-> "", of |-> ""]
           h2 == Put(e.hashes, s0, n, x, blank)
<1>1. /\ f.at = "noting" /\ dLoad' = [dLoad EXCEPT ![l] = g]
      /\ dMixed' = dMixed
      BY Zenon DEF D!NoteHash
<1>2. dEntry' = IF f.orphan THEN e
                ELSE [e EXCEPT !.hashes[b.side] = D!Padded(@, b.blk, blank),
                               !.hashes[b.side][b.blk] = x]
      BY Zenon DEF D!NoteHash, D!Unhashed
<1>3. LoadOK(f) /\ EntryOK(e) /\ f.at \in Working /\ f.at \in Active
      BY <1>1 DEF LoadInv, Working, Active
<1>4. /\ DOMAIN f = {"at", "version", "algo", "need", "frames", "orphan", "rows"}
      /\ f.frames \in Seq(SentBlock) /\ f.version \in ApiVersion /\ f.algo \in HashAlgo
      /\ f.frames # <<>>
      BY <1>1, <1>3 DEF LoadOK
<1>5. b \in SentBlock
      BY <1>4
<1>6. /\ b.side \in D!Side /\ b.blk \in Nat /\ b.blk > 0
      /\ b.blk \in DOMAIN f.version[b.side]
      /\ b = f.frames[1] /\ 1 \in 1..Len(f.frames)
      BY <1>3, <1>4, <1>5, FrontFrame
<1>7. /\ DOMAIN g = DOMAIN f /\ g.at = "writing" /\ g.version = f.version /\ g.algo = f.algo
      /\ g.frames = q /\ g.orphan = FALSE /\ g.rows = f.rows
      BY SMTT(30), <1>4
<1>8. /\ e \in EntryKind /\ AllPlaced(e.blocks)
      /\ e.blocks \in [D!Side -> Seq(BlockKind)] /\ e.hashes \in [D!Side -> Seq(HashKind)]
      BY <1>3 DEF EntryOK, EntryKind
<1>9. /\ q \in Seq(SentBlock)
      /\ \A k \in 1..Len(q) : k + 1 \in 1..Len(f.frames) /\ q[k] = f.frames[k + 1]
      /\ \A k \in 1..Len(f.frames) : k = 1 \/ (k - 1 \in 1..Len(q) /\ q[k - 1] = f.frames[k])
      BY SMTT(30), <1>4, TailIs
<1>10. x \in HashKind /\ blank \in HashKind /\ x.of = f.version[s0][n]
  <2>1. f.version[s0][n] \in Given
    <3>1. f.version[s0][n] \in D!BlocksOf(f.version)
          BY <1>6 DEF D!BlocksOf
    <3> QED BY SMTT(30), <1>4, <3>1 DEF Given
  <2> QED BY <1>4, <2>1 DEF HashKind, D!Hash
<1>11. ~f.orphan => dEntry' = [e EXCEPT !.hashes = h2]
  <2> SUFFICES ASSUME ~f.orphan PROVE dEntry' = [e EXCEPT !.hashes = h2]
      OBVIOUS
  <2> DEFINE e1 == [e EXCEPT !.hashes[b.side] = D!Padded(@, b.blk, blank)]
  <2>1. dEntry' = [e1 EXCEPT !.hashes[b.side][b.blk] = x]
        BY <1>2, Zenon
  <2>2. e1 = [e EXCEPT !.hashes = [e.hashes EXCEPT ![b.side] = D!Padded(e.hashes[b.side], b.blk, blank)]]
        BY Zenon
  <2> DEFINE h1 == [e.hashes EXCEPT ![b.side] = D!Padded(e.hashes[b.side], b.blk, blank)]
  <2>3. e = [algo |-> e.algo, blocks |-> e.blocks, hashes |-> e.hashes]
        BY <1>8, EntryIs
  <2>4. e1.hashes = h1
        BY <1>8, <2>2 DEF EntryKind
  <2>5. h1[b.side] = D!Padded(e.hashes[b.side], b.blk, blank)
        BY ZenonT(60), <1>6, <1>8
  <2>6. [h1 EXCEPT ![b.side][b.blk] = x] = h2
    <3> DEFINE p == D!Padded(e.hashes[b.side], b.blk, blank)
               eh == e.hashes
    <3>1. eh \in [D!Side -> Seq(HashKind)] /\ s0 \in D!Side
          BY <1>6, <1>8
    <3>2. h2 = [eh EXCEPT ![s0] = [p EXCEPT ![n] = x]]
          BY Zenon DEF Put, PutIn
    <3>3. [h1 EXCEPT ![s0][n] = x] = [[eh EXCEPT ![s0] = p] EXCEPT ![s0] = [h1[s0] EXCEPT ![n] = x]]
          BY Zenon
    <3>4. h1[s0] = p
          BY <2>5
    <3> HIDE DEF h1, h2, p, eh, s0, n, x
    <3>5. [[eh EXCEPT ![s0] = p] EXCEPT ![s0] = [p EXCEPT ![n] = x]]
             = [eh EXCEPT ![s0] = [p EXCEPT ![n] = x]]
          BY <3>1
    <3>6. [h1 EXCEPT ![s0][n] = x] = h2
          BY <3>2, <3>3, <3>4, <3>5
    <3> QED BY <3>6 DEF h1, h2, s0, n, x
  <2>7. dEntry' = [e1 EXCEPT !.hashes = [h1 EXCEPT ![b.side][b.blk] = x]]
        BY <2>1, <2>4, Zenon
  <2> HIDE DEF h1, e1, h2, x, b, e
  <2>8. dEntry' = [e1 EXCEPT !.hashes = h2]
        BY <2>6, <2>7
  <2>9. [e1 EXCEPT !.hashes = h2] = [e EXCEPT !.hashes = h2]
        BY <2>2, <2>3 DEF e1
  <2> QED BY <2>8, <2>9
<1>12. /\ dEntry' \in EntryKind /\ dEntry'.blocks = e.blocks
       /\ dEntry'.hashes = IF f.orphan THEN e.hashes ELSE h2
  <2>1. CASE f.orphan
        BY <1>2, <1>8, <2>1, Zenon
  <2>2. CASE ~f.orphan
    <3> HIDE DEF f, h2, e
    <3>1. dEntry' = [algo |-> e.algo, blocks |-> e.blocks, hashes |-> h2]
      <4>1. [e EXCEPT !.hashes = h2] = [algo |-> e.algo, blocks |-> e.blocks, hashes |-> h2]
        <5>1. \A al, bl, ha : [[algo |-> al, blocks |-> bl, hashes |-> ha] EXCEPT !.hashes = h2]
                                = [algo |-> al, blocks |-> bl, hashes |-> h2]
              OBVIOUS
        <5>2. [[algo |-> e.algo, blocks |-> e.blocks, hashes |-> e.hashes] EXCEPT !.hashes = h2]
                = [algo |-> e.algo, blocks |-> e.blocks, hashes |-> h2]
              BY <5>1
        <5> QED BY <1>8, <5>2, EntryIs, Zenon
      <4> QED BY <1>11, <2>2, <4>1, Zenon
    <3>2. h2 \in [D!Side -> Seq(HashKind)]
      <4> DEFINE eh == e.hashes
      <4>1. SidesIn(eh, HashKind) /\ h2 = Put(eh, s0, n, x, blank) /\ s0 \in D!Side /\ n \in Nat /\ n > 0
            BY <1>6, <1>8, SidesAre, Zenon DEF h2
      <4> HIDE DEF eh, b, s0, n, x, blank
      <4>2. /\ Sides(Put(eh, s0, n, x, blank))
            /\ Put(eh, s0, n, x, blank)[s0][n] = x
            /\ \A s \in D!Side : \A i \in 1..Len(Put(eh, s0, n, x, blank)[s]) :
                 \/ s = s0 /\ i = n
                 \/ i \in 1..Len(eh[s]) /\ Put(eh, s0, n, x, blank)[s][i] = eh[s][i]
                 \/ Put(eh, s0, n, x, blank)[s][i] = blank
            BY <4>1, PutSide DEF SidesIn
      <4>3. SidesIn(Put(eh, s0, n, x, blank), HashKind)
            BY <1>10, <4>1, <4>2 DEF SidesIn
      <4> QED BY <4>1, <4>3, SidesAre
    <3> QED BY <1>8, <2>2, <3>1, <3>2 DEF EntryKind
  <2> QED BY <2>1, <2>2
<1>13. EntryOK(dEntry')
       BY <1>8, <1>12, Zenon DEF EntryOK
<1> HIDE DEF q, g
<1>14. LoadOK(g)
  <2>1. f.at \in Working
        BY <1>3
  <2>2. \A k \in 1..Len(f.frames) : f.frames[k].blk \in DOMAIN f.version[f.frames[k].side]
        BY <1>3 DEF LoadOK
  <2>3. \A k \in 1..Len(q) : q[k].blk \in DOMAIN f.version[q[k].side]
        BY <1>9, <2>2
  <2>4. f.rows = <<>>
        BY <1>1, <1>3 DEF LoadOK
  <2> HIDE DEF f
  <2> QED BY <1>4, <1>7, <1>9, <2>3, <2>4 DEF LoadOK, Active, Working
<1>15. ASSUME ~dMixed'
       PROVE  Steady(f, e.blocks) /\ ~f.orphan /\ There(f.version, e.blocks, s0, n)
  <2>1. Steady(f, e.blocks)
        BY <1>1, <1>15 DEF LoadInv
  <2> QED BY <1>1, <1>3, <1>6, <2>1 DEF Steady
<1>16. ASSUME ~dMixed' PROVE Steady(g, e.blocks)
  <2>1. \A s \in D!Side : \A i \in DOMAIN f.version[s] :
          \/ There(f.version, e.blocks, s, i)
          \/ \E k \in 1..Len(f.frames) : f.frames[k].side = s /\ f.frames[k].blk = i
        BY SMTT(30), <1>3, <1>15, <1>16 DEF Steady
  <2>2. \A k \in 1..Len(f.frames) :
          f.frames[k].payload = f.version[f.frames[k].side][f.frames[k].blk]
        BY <1>3, <1>15, <1>16 DEF Steady
  <2>3. \A k \in 1..Len(q) : q[k].payload = f.version[q[k].side][q[k].blk]
    <3> SUFFICES ASSUME NEW k \in 1..Len(q)
                 PROVE  q[k].payload = f.version[q[k].side][q[k].blk]
        OBVIOUS
    <3>1. k + 1 \in 1..Len(f.frames) /\ q[k] = f.frames[k + 1]
          BY <1>9, Zenon
    <3> QED BY <2>2, <3>1, Zenon
  <2>4. ASSUME NEW s \in D!Side, NEW i \in DOMAIN f.version[s], ~There(f.version, e.blocks, s, i)
        PROVE  \E k \in 1..Len(q) : q[k].side = s /\ q[k].blk = i
    <3>1. PICK k \in 1..Len(f.frames) : f.frames[k].side = s /\ f.frames[k].blk = i
          BY <2>1, <2>4
    <3>2. k # 1
          BY <1>6, <1>15, <1>16, <2>4, <3>1
    <3>3. k - 1 \in 1..Len(q) /\ q[k - 1] = f.frames[k]
          BY <1>9, <3>2
    <3> QED BY <3>1, <3>3
  <2> HIDE DEF f, e
  <2>5. \A s \in D!Side : \A i \in DOMAIN g.version[s] :
          \/ There(g.version, e.blocks, s, i)
          \/ \E k \in 1..Len(g.frames) : g.frames[k].side = s /\ g.frames[k].blk = i
        BY <1>7, <2>4
  <2> QED BY SMTT(30), <1>7, <2>3, <2>5 DEF Steady, Active, Working
<1>17. ASSUME ~dMixed', NEW s \in D!Side, NEW i \in 1..Len(dEntry'.hashes[s])
       PROVE  HashTrue(dEntry', s, i)
  <2> DEFINE eh == e.hashes
  <2>1. dEntry'.hashes = h2 /\ dEntry'.blocks = e.blocks
        BY <1>12, <1>15, <1>17
  <2>2. SidesIn(eh, HashKind) /\ h2 = Put(eh, s0, n, x, blank) /\ s0 \in D!Side /\ n \in Nat /\ n > 0
        BY <1>6, <1>8, SidesAre, ZenonT(60)
  <2>3. i \in 1..Len(h2[s])
        BY ZenonT(60), <2>1
  <2>4. x.of = e.blocks[s0][n] /\ n \in 1..Len(e.blocks[s0])
        BY <1>10, <1>15, <1>17 DEF There
  <2>5. ASSUME NEW j \in 1..Len(e.hashes[s]), ~(s = s0 /\ j = n) PROVE HashTrue(e, s, j)
    <3>1. HashTrue(e, s, j) \/ Noting(f, s, j)
          BY <1>1, <1>3, <1>17, HashesOf
    <3> QED BY <1>6, <2>5, <3>1 DEF Noting
  <2> HIDE DEF eh, b, s0, n, x, blank, h2, e, f
  <2>6. /\ h2[s0][n] = x
        /\ (s = s0 /\ i = n) \/ (i \in 1..Len(eh[s]) /\ h2[s][i] = eh[s][i]) \/ h2[s][i] = blank
        BY <2>2, <2>3, PutSide DEF SidesIn
  <2>7. CASE s = s0 /\ i = n
        BY <2>1, <2>4, <2>6, <2>7 DEF HashTrue
  <2>8. CASE h2[s][i] = blank
        BY <2>1, <2>8 DEF HashTrue, blank
  <2>9. CASE ~(s = s0 /\ i = n) /\ i \in 1..Len(eh[s]) /\ h2[s][i] = eh[s][i]
    <3>1. HashTrue(e, s, i)
          BY <2>5, <2>9 DEF eh
    <3> QED BY <2>1, <2>9, <3>1 DEF HashTrue, eh
  <2> QED BY SMTT(30), <2>6, <2>7, <2>8, <2>9
<1>18. dMixed' \in BOOLEAN /\ (dMixed => dMixed')
       BY SMTT(30), <1>1 DEF LoadInv
<1>19. ~dMixed' => /\ Steady(g, dEntry'.blocks)
                   /\ \A s \in D!Side : \A i \in 1..Len(dEntry'.hashes[s]) :
                        HashTrue(dEntry', s, i) \/ Noting(g, s, i)
       BY <1>12, <1>16, <1>17
<1> HIDE DEF f, b, e, s0, n, x, blank, h2
<1> QED BY <1>1, <1>3, <1>13, <1>14, <1>18, <1>19, OneLoads DEF f

LEMMA DecodeLoad == ASSUME LoadInv, NEW l \in Load, D!Decode(l) PROVE LoadInv'
<1> DEFINE f == dLoad[l]
           e == dEntry
           v == f.version
           c == D!Complete(l)
           row(i) == <<e.blocks["inputs"][i], e.blocks["outputs"][i]>>
           rows == [i \in DOMAIN v["inputs"] |-> row(i)]
           at == IF c THEN "loaded" ELSE "failed"
           had == IF c THEN rows ELSE <<>>
           g == [f EXCEPT !.at = at, !.rows = had]
<1>1. /\ f.at = "writing" /\ f.frames = <<>> /\ dEntry' = dEntry /\ dMixed' = dMixed
      BY DEF D!Decode
<1>2. dLoad' = [dLoad EXCEPT ![l] = g]
      BY Zenon DEF D!Decode, D!Decoded
<1>3. LoadOK(f) /\ EntryOK(e) /\ f.at \in Working /\ f.at \in Active
      BY <1>1 DEF LoadInv, Working, Active
<1>4. /\ DOMAIN f = {"at", "version", "algo", "need", "frames", "orphan", "rows"}
      /\ f.frames \in Seq(SentBlock) /\ v \in ApiVersion /\ f.algo \in HashAlgo
      BY <1>3 DEF LoadOK
<1>5. /\ DOMAIN g = DOMAIN f /\ g.at = at /\ g.version = v /\ g.algo = f.algo
      /\ g.frames = <<>> /\ g.orphan = f.orphan /\ g.rows = had
      BY <1>1, <1>4
<1>6. c <=> \A s \in D!Side : \A i \in DOMAIN v[s] : i <= Len(e.blocks[s]) /\ e.blocks[s][i] # ""
      BY DEF D!Complete
<1>0. \A s \in D!Side : Len(e.blocks[s]) \in Nat
  <2> TAKE s \in D!Side
  <2>1. e.blocks[s] \in Seq(BlockKind)
        BY <1>3 DEF EntryOK, EntryKind
  <2> QED BY <2>1, LenProperties
<1>7. "inputs" \in D!Side /\ "outputs" \in D!Side
      BY DEF D!Side
<1>8. \A s \in D!Side : /\ DOMAIN v[s] = 1..Len(v[s]) /\ Len(v[s]) \in Nat
                        /\ DOMAIN v["inputs"] = DOMAIN v[s] /\ \A i \in DOMAIN v[s] : v[s][i] # ""
      BY <1>4, Versions
<1>9. \A s \in D!Side : \A i \in 1..Len(e.blocks[s]) : Placed(s, i, e.blocks[s][i])
      BY <1>3, Zenon DEF EntryOK, AllPlaced
<1>10. ASSUME c, NEW i \in DOMAIN v["inputs"]
       PROVE  \E v1, w1 \in ApiVersion :
                /\ i \in DOMAIN v1["inputs"] /\ v1["inputs"][i] = e.blocks["inputs"][i]
                /\ i \in DOMAIN w1["outputs"] /\ w1["outputs"][i] = e.blocks["outputs"][i]
  <2>1. ASSUME NEW s \in D!Side
        PROVE  \E w \in ApiVersion : i \in DOMAIN w[s] /\ w[s][i] = e.blocks[s][i]
    <3>1. i \in DOMAIN v[s] /\ i \in 1..Len(v[s]) /\ Len(v[s]) \in Nat
          BY <1>8, <1>10
    <3>2. i <= Len(e.blocks[s]) /\ e.blocks[s][i] # ""
          BY <1>6, <1>10, <3>1
    <3>3. i \in 1..Len(e.blocks[s])
      <4> DEFINE n == Len(e.blocks[s])
                 m == Len(v[s])
      <4>1. i \in 1..m /\ m \in Nat /\ n \in Nat /\ i <= n
            BY <1>0, <3>1, <3>2
      <4> HIDE DEF n, m
      <4>2. i \in 1..n
            BY <4>1
      <4> QED BY <4>2 DEF n
    <3> QED BY <1>9, <3>2, <3>3 DEF Placed
  <2> QED BY <1>7, <2>1
<1> HIDE DEF c, e, at, had, g
<1>11. \A i \in DOMAIN v["inputs"] : rows[i] = row(i) /\ row(i)[1] = e.blocks["inputs"][i]
                                     /\ row(i)[2] = e.blocks["outputs"][i]
       OBVIOUS
<1>12. rows = [i \in DOMAIN v["inputs"] |-> rows[i]]
       OBVIOUS
<1> HIDE DEF rows
<1>13. LoadOK(g)
  <2>1. CASE c
    <3>1. g.at = "loaded" /\ g.rows = rows
          BY <1>5, <2>1 DEF at, had
    <3>2. \A i \in DOMAIN v["inputs"] :
            \E v1, w1 \in ApiVersion :
              /\ i \in DOMAIN v1["inputs"] /\ v1["inputs"][i] = rows[i][1]
              /\ i \in DOMAIN w1["outputs"] /\ w1["outputs"][i] = rows[i][2]
          BY <1>10, <1>11, <2>1
    <3> HIDE DEF v
    <3> QED BY <1>1, <1>4, <1>5, <1>12, <3>1, <3>2 DEF LoadOK, Active, Working
  <2>2. CASE ~c
    <3>1. g.at = "failed" /\ g.rows = <<>>
          BY <1>5, <2>2 DEF at, had
    <3> QED BY <1>1, <1>4, <1>5, <3>1 DEF LoadOK, Active, Working
  <2> QED BY <2>1, <2>2
<1>14. ASSUME ~dMixed' PROVE Steady(g, e.blocks)
  <2>1. Steady(f, e.blocks)
        BY <1>1, <1>14 DEF LoadInv, e
  <2>2. ASSUME NEW s \in D!Side, NEW i \in DOMAIN v[s]
        PROVE  There(v, e.blocks, s, i)
    <3>1. There(v, e.blocks, s, i) \/ \E k \in 1..Len(f.frames) : f.frames[k].side = s
          BY <1>3, <2>1 DEF Steady
    <3>2. Len(f.frames) = 0
          BY <1>1, EmptySeq
    <3> QED BY <3>1, <3>2
  <2>3. c
    <3>1. ASSUME NEW s \in D!Side, NEW i \in DOMAIN v[s]
          PROVE  i <= Len(e.blocks[s]) /\ e.blocks[s][i] # ""
      <4>1. i \in 1..Len(e.blocks[s]) /\ e.blocks[s][i] = v[s][i]
            BY <2>2 DEF There
      <4>2. Len(e.blocks[s]) \in Nat /\ v[s][i] # ""
            BY <1>0, <1>8
      <4>3. i <= Len(e.blocks[s])
        <5> DEFINE n == Len(e.blocks[s])
        <5>1. i \in 1..n /\ n \in Nat
              BY <4>1, <4>2
        <5> HIDE DEF n
        <5>2. i <= n
              BY <5>1
        <5> QED BY <5>2 DEF n
      <4> QED BY <4>1, <4>2, <4>3
    <3> QED BY <1>6, <3>1
  <2>4. g.at = "loaded" /\ g.rows = rows
        BY <1>5, <2>3 DEF at, had
  <2>5. \A i \in DOMAIN v["inputs"] :
          e.blocks["inputs"][i] = v["inputs"][i] /\ e.blocks["outputs"][i] = v["outputs"][i]
        BY <1>7, <1>8, <2>2 DEF There
  <2>6. rows = [i \in DOMAIN v["inputs"] |-> <<v["inputs"][i], v["outputs"][i]>>]
        BY SMTT(30), <2>5 DEF rows
  <2>7. ~g.orphan
        BY <1>3, <1>5, <2>1 DEF Steady
  <2> HIDE DEF v
  <2> QED BY <1>5, <2>4, <2>6, <2>7 DEF Steady, Active, Working
<1>15. ASSUME ~dMixed', NEW s \in D!Side, NEW i \in 1..Len(dEntry'.hashes[s])
       PROVE  HashTrue(dEntry', s, i) \/ Noting(g, s, i)
  <2>1. HashTrue(dEntry, s, i) \/ Noting(f, s, i)
        BY <1>1, <1>3, <1>15, HashesOf
  <2> QED BY <1>1, <2>1 DEF Noting
<1>16. EntryOK(dEntry') /\ dMixed' \in BOOLEAN /\ (dMixed => dMixed') /\ dEntry'.blocks = e.blocks
       BY <1>1 DEF LoadInv, e
<1> HIDE DEF f, v
<1>17. ~dMixed' => /\ Steady(g, dEntry'.blocks)
                   /\ \A s \in D!Side : \A i \in 1..Len(dEntry'.hashes[s]) :
                        HashTrue(dEntry', s, i) \/ Noting(g, s, i)
       BY <1>14, <1>15, <1>16
<1> QED BY <1>2, <1>3, <1>13, <1>16, <1>17, OneLoads DEF f

LEMMA TrainLoad == ASSUME LoadInv, NEW l \in Load, D!Train(l) PROVE LoadInv'
<1> DEFINE f == dLoad[l]
           at == IF f.rows # <<>> THEN "trained" ELSE "skipped"
           g == [D!Idle EXCEPT !.at = at]
<1>1. /\ f.at \in {"loaded", "failed"} /\ dLoad' = [dLoad EXCEPT ![l] = g]
      /\ dEntry' = dEntry /\ dMixed' = dMixed
      BY DEF D!Train
<1>2. LoadOK(f) /\ EntryOK(dEntry) /\ f.at \in Active
      BY <1>1 DEF LoadInv, Active
<1>3. LoadOK(g)
  <2>1. CASE f.rows # <<>>
        BY <2>1, IdleLoad
  <2>2. CASE f.rows = <<>>
        BY <2>2, IdleLoad
  <2> QED BY <2>1, <2>2
<1>4. ASSUME ~dMixed' PROVE Steady(g, dEntry.blocks)
  <2>1. Steady(f, dEntry.blocks)
        BY <1>1, <1>4 DEF LoadInv
  <2>2. f.rows = [i \in DOMAIN f.version["inputs"] |->
                    <<f.version["inputs"][i], f.version["outputs"][i]>>]
        BY <1>1, <2>1 DEF Steady
  <2>3. 1 \in DOMAIN f.version["inputs"]
    <3>1. f.version \in ApiVersion /\ "inputs" \in D!Side
          BY <1>2 DEF LoadOK, D!Side
    <3> DEFINE v == f.version
    <3>2. DOMAIN v["inputs"] = 1..Len(v["inputs"]) /\ Len(v["inputs"]) \in Nat /\ Len(v["inputs"]) > 0
          BY <3>1, Versions
    <3> QED BY <3>2
  <2>4. 1 \in DOMAIN f.rows
        BY <2>2, <2>3
  <2>5. DOMAIN <<>> = {}
        OBVIOUS
  <2>6. f.rows # <<>>
        BY <2>4, <2>5
  <2> QED BY <2>6, IdleLoad
<1> HIDE DEF g
<1>5. ASSUME ~dMixed', NEW s \in D!Side, NEW i \in 1..Len(dEntry'.hashes[s])
      PROVE  HashTrue(dEntry', s, i) \/ Noting(g, s, i)
  <2>1. HashTrue(dEntry, s, i) \/ Noting(f, s, i)
        BY <1>1, <1>2, <1>5, HashesOf
  <2> QED BY <1>1, <2>1 DEF Noting
<1>6. EntryOK(dEntry') /\ dMixed' \in BOOLEAN /\ (dMixed => dMixed')
      BY <1>1, <1>2 DEF LoadInv
<1> HIDE DEF f
<1> QED BY <1>1, <1>2, <1>3, <1>4, <1>5, <1>6, OneLoads DEF f

LEMMA NoPlace == \A n : n = 0 => 1..n = {}
OBVIOUS

LEMMA BlankEntry ==
  ASSUME NEW z \in HashAlgo \cup {""}
  PROVE  /\ EntryOK(D!Blank(z)) /\ D!Blank(z).algo = z
         /\ \A s \in D!Side : /\ Len(D!Blank(z).hashes[s]) = 0 /\ Len(D!Blank(z).blocks[s]) = 0
<1> DEFINE none == [s \in D!Side |-> <<>>]
           e == D!Blank(z)
<1>1. e = [algo |-> z, blocks |-> none, hashes |-> none]
      BY Zenon DEF D!Blank, D!Each
<1>2. none \in [D!Side -> Seq(BlockKind)] /\ none \in [D!Side -> Seq(HashKind)]
  <2>1. <<>> \in Seq(BlockKind) /\ <<>> \in Seq(HashKind)
        BY EmptySeq
  <2> QED BY <2>1
<1>3. \A s \in D!Side : Len(none[s]) = 0 /\ 1..Len(none[s]) = {}
  <2> TAKE s \in D!Side
  <2>1. none[s] = <<>>
        OBVIOUS
  <2>2. Len(<<>>) = 0
        OBVIOUS
  <2>3. Len(none[s]) = 0
        BY <2>1, <2>2, Zenon
  <2> QED BY <2>3, NoPlace, Zenon
<1> HIDE DEF none, e
<1>4. e \in EntryKind /\ e.blocks = none /\ e.hashes = none /\ e.algo = z
      BY <1>1, <1>2 DEF EntryKind
<1>5. AllPlaced(none)
      BY <1>3 DEF AllPlaced
<1>6. EntryOK(e)
      BY <1>4, <1>5 DEF EntryOK
<1> QED BY <1>3, <1>4, <1>6 DEF e

LEMMA NoLoads ==
  ASSUME NEW t, t = [l \in Load |-> D!Idle]
  PROVE  /\ DOMAIN t = Load
         /\ \A l \in Load : LoadOK(t[l]) /\ t[l].at \notin Active /\ \A b : Steady(t[l], b)
<1>1. D!Idle.at \notin Active
      BY DEF D!Idle, Active, Working
<1>2. \A l \in Load : LoadOK(t[l]) /\ t[l].at \notin Active /\ \A b : Steady(t[l], b)
  <2> TAKE l \in Load
  <2>1. t[l] = D!Idle
        BY Zenon
  <2> QED BY <1>1, <2>1, IdleLoad, Zenon
<1> QED BY <1>2

LEMMA RestartLoad == ASSUME D!Restart PROVE LoadInv'
<1>1. dEntry' = D!Blank("") /\ dLoad' = [l \in Load |-> D!Idle] /\ dMixed' \in BOOLEAN
      BY Zenon DEF D!Restart
<1>2. /\ EntryOK(dEntry') /\ \A s \in D!Side : Len(dEntry'.hashes[s]) = 0
  <2> DEFINE z == ""
  <2>1. z \in HashAlgo \cup {""}
        OBVIOUS
  <2> HIDE DEF z
  <2>2. EntryOK(D!Blank(z)) /\ \A s \in D!Side : Len(D!Blank(z).hashes[s]) = 0
        BY <2>1, BlankEntry
  <2> QED BY <1>1, <2>2, Zenon DEF z
<1>3. /\ DOMAIN dLoad' = Load
      /\ \A l \in Load : LoadOK(dLoad'[l]) /\ dLoad'[l].at \notin Active /\ \A b : Steady(dLoad'[l], b)
      BY <1>1, NoLoads, Zenon
<1>4. dMixed' \in BOOLEAN
      BY <1>1
<1>5. \A s \in D!Side : 1..Len(dEntry'.hashes[s]) = {}
      BY <1>2
<1> QED BY <1>2, <1>3, <1>4, <1>5 DEF LoadInv

LEMMA InitLoad == ASSUME D!Init PROVE LoadInv
<1>1. dEntry = D!Blank("") /\ dLoad = [l \in Load |-> D!Idle] /\ dMixed \in BOOLEAN
      BY Zenon DEF D!Init
<1>2. /\ EntryOK(dEntry) /\ \A s \in D!Side : Len(dEntry.hashes[s]) = 0
  <2> DEFINE z == ""
  <2>1. z \in HashAlgo \cup {""}
        OBVIOUS
  <2> HIDE DEF z
  <2>2. EntryOK(D!Blank(z)) /\ \A s \in D!Side : Len(D!Blank(z).hashes[s]) = 0
        BY <2>1, BlankEntry
  <2> QED BY <1>1, <2>2, ZenonT(60) DEF z
<1>3. /\ DOMAIN dLoad = Load
      /\ \A l \in Load : LoadOK(dLoad[l]) /\ dLoad[l].at \notin Active /\ \A b : Steady(dLoad[l], b)
      BY <1>1, NoLoads, Zenon
<1>4. dMixed \in BOOLEAN
      BY <1>1
<1>5. \A s \in D!Side : 1..Len(dEntry.hashes[s]) = {}
      BY <1>2
<1> QED BY <1>2, <1>3, <1>4, <1>5 DEF LoadInv

(* A training of which only orphan changes.                                    *)
LEMMA OrphanLoad ==
  ASSUME NEW f, LoadOK(f), NEW o
  PROVE  LET g == [f EXCEPT !.orphan = o]
         IN  /\ LoadOK(g) /\ g.at = f.at
             /\ \A b, b2 : f.at \notin Active /\ Steady(f, b) => Steady(g, b2)
<1> DEFINE g == [f EXCEPT !.orphan = o]
<1>1. DOMAIN f = {"at", "version", "algo", "need", "frames", "orphan", "rows"}
      BY DEF LoadOK
<1>2. /\ DOMAIN g = DOMAIN f /\ g.at = f.at /\ g.version = f.version /\ g.algo = f.algo
      /\ g.need = f.need /\ g.frames = f.frames /\ g.rows = f.rows
      BY <1>1
<1> HIDE DEF g
<1>3. LoadOK(g)
      BY <1>1, <1>2 DEF LoadOK
<1>4. ASSUME NEW b, NEW b2, f.at \notin Active, Steady(f, b) PROVE Steady(g, b2)
      BY <1>2, <1>4 DEF Steady, Active, Working
<1> QED BY <1>2, <1>3, <1>4 DEF g

(* What is asked for: every block whose hash is not noted.                     *)
LEMMA AskedLoad ==
  ASSUME NEW g, NEW v \in ApiVersion, NEW algo \in HashAlgo, NEW need,
         need \subseteq D!Side \X (1..Len(v["inputs"])),
         g = [D!Idle EXCEPT !.at = "asked", !.version = v, !.algo = algo, !.need = need]
  PROVE  /\ LoadOK(g) /\ g.at = "asked"
         /\ \A b : (\A s \in D!Side : \A i \in DOMAIN v[s] : <<s, i>> \in need \/ There(v, b, s, i))
                   => Steady(g, b)
<1>2. /\ DOMAIN g = {"at", "version", "algo", "need", "frames", "orphan", "rows"}
      /\ g.at = "asked" /\ g.version = v /\ g.algo = algo /\ g.need = need
      BY DEF D!Idle
<1>3. g.frames = <<>> /\ g.rows = <<>> /\ ~g.orphan
  <2>1. D!Idle.frames = <<>> /\ D!Idle.rows = <<>> /\ ~D!Idle.orphan
        BY Zenon DEF D!Idle
  <2>2. DOMAIN D!Idle = {"at", "version", "algo", "need", "frames", "orphan", "rows"}
        BY DEF D!Idle
  <2>3. g.frames = D!Idle.frames /\ g.rows = D!Idle.rows /\ g.orphan = D!Idle.orphan
        BY <2>2
  <2> QED BY <2>1, <2>3, Zenon
<1>4. <<>> \in Seq(SentBlock)
      BY EmptySeq
<1>5. LoadOK(g)
      BY <1>2, <1>3, <1>4 DEF LoadOK, Active, Working
<1>6. ASSUME NEW b, \A s \in D!Side : \A i \in DOMAIN v[s] : <<s, i>> \in need \/ There(v, b, s, i)
      PROVE  Steady(g, b)
      BY <1>2, <1>3, <1>6 DEF Steady, Active, Working
<1> QED BY <1>2, <1>5, <1>6

LEMMA AskLoad ==
  ASSUME LoadInv, NEW l \in Load, NEW v \in ApiVersion, NEW algo \in HashAlgo, D!Ask(l, v, algo)
  PROVE  LoadInv'
<1> DEFINE e == dEntry
           kept == IF e.algo = algo THEN e ELSE D!Blank(algo)
           blank == [by |-> "", of |-> ""]
           lens == [s \in D!Side |-> Len(v[s])]
           h2 == Grown(kept.hashes, lens, blank)
           need == {p \in D!Side \X (1..Len(v["inputs"])) : h2[p[1]][p[2]] # D!Hash(algo, v[p[1]][p[2]])}
           g == [D!Idle EXCEPT !.at = "asked", !.version = v, !.algo = algo, !.need = need]
           other(k) == [dLoad[k] EXCEPT !.orphan = (dLoad[k].orphan \/ e.algo # algo)]
<1>1. dLoad[l].at \in D!Over /\ ~dMixed
      BY DEF D!Ask
<1>2. [s \in D!Side |-> D!Padded(kept.hashes[s], Len(v[s]), blank)] = h2
  <2>1. \A s \in D!Side : lens[s] = Len(v[s])
        BY Zenon
  <2>2. h2 = [s \in D!Side |-> D!Padded(kept.hashes[s], lens[s], blank)]
        BY Zenon DEF Grown
  <2> QED BY <2>1, <2>2, Zenon
<1>3. dEntry' = [kept EXCEPT !.hashes = h2]
      BY <1>2, Zenon DEF D!Ask, D!Unhashed
<1>4. dLoad' = [k \in Load |-> IF k = l THEN g ELSE other(k)]
  <2> DEFINE hs == [s \in D!Side |-> D!Padded(kept.hashes[s], Len(v[s]), blank)]
             asked(h) == [D!Idle EXCEPT !.at = "asked", !.version = v, !.algo = algo,
                            !.need = {p \in D!Side \X (1..Len(v["inputs"])) :
                                        h[p[1]][p[2]] # D!Hash(algo, v[p[1]][p[2]])}]
  <2>1. dLoad' = [k \in Load |-> IF k = l THEN asked(hs) ELSE other(k)]
        BY ZenonT(60) DEF D!Ask, D!Unhashed
  <2>2. hs = h2
        BY <1>2, Zenon
  <2>3. asked(h2) = g
        BY Zenon
  <2> HIDE DEF hs, asked, g, other
  <2> QED BY <2>1, <2>2, <2>3, Zenon
<1>5. dMixed' = (dMixed \/ \E k \in Load \ {l} : dLoad[k].at \notin D!Over)
      BY Zenon DEF D!Ask
<1>6. EntryOK(kept) /\ kept.hashes \in [D!Side -> Seq(HashKind)]
  <2>1. EntryOK(e) /\ EntryOK(D!Blank(algo))
        BY BlankEntry DEF LoadInv
  <2>2. EntryOK(kept)
        BY <2>1, Zenon
  <2> HIDE DEF kept
  <2> QED BY <2>2 DEF EntryOK, EntryKind
<1> DEFINE hk == kept.hashes
<1>7. SidesIn(hk, HashKind) /\ h2 = Grown(hk, lens, blank) /\ lens \in [D!Side -> Nat]
      /\ \A s \in D!Side : lens[s] = Len(v[s])
  <2>1. \A s \in D!Side : Len(v[s]) \in Nat
        BY Versions
  <2> QED BY <1>6, <2>1, SidesAre
<1> HIDE DEF hk, lens, h2, blank, kept
<1>8. /\ Sides(h2)
      /\ \A s \in D!Side : Len(h2[s]) >= Len(v[s])
      /\ \A s \in D!Side : \A i \in 1..Len(h2[s]) :
           (i \in 1..Len(hk[s]) /\ h2[s][i] = hk[s][i]) \/ h2[s][i] = blank
      BY <1>7, GrownSides DEF SidesIn
<1>9. h2 \in [D!Side -> Seq(HashKind)]
  <2>1. blank \in HashKind
        BY DEF blank, HashKind
  <2>2. SidesIn(h2, HashKind)
        BY <1>7, <1>8, <2>1 DEF SidesIn
  <2> QED BY <2>2, SidesAre
<1>10. /\ dEntry' \in EntryKind /\ dEntry'.blocks = kept.blocks /\ dEntry'.hashes = h2
  <2>1. kept \in EntryKind
        BY <1>6 DEF EntryOK
  <2> QED BY <1>3, <1>9, <2>1 DEF EntryKind
<1>11. EntryOK(dEntry')
       BY <1>6, <1>10, Zenon DEF EntryOK
<1>12. /\ DOMAIN dLoad' = Load /\ dLoad'[l] = g
       /\ \A k \in Load \ {l} : dLoad'[k] = other(k)
       BY <1>4
<1>13. need \subseteq D!Side \X (1..Len(v["inputs"]))
       BY DEF need
<1>14. /\ LoadOK(g) /\ g.at = "asked"
       /\ \A b : (\A s \in D!Side : \A i \in DOMAIN v[s] : <<s, i>> \in need \/ There(v, b, s, i))
                   => Steady(g, b)
  <2> HIDE DEF need
  <2>1. g = [D!Idle EXCEPT !.at = "asked", !.version = v, !.algo = algo, !.need = need]
        BY DEF g
  <2> HIDE DEF g
  <2> QED BY <1>13, <2>1, AskedLoad
<1>15. ASSUME NEW k \in Load
       PROVE  /\ LoadOK(dLoad[k]) /\ LoadOK(other(k)) /\ other(k).at = dLoad[k].at
              /\ \A b, b2 : dLoad[k].at \notin Active /\ Steady(dLoad[k], b) => Steady(other(k), b2)
  <2>1. LoadOK(dLoad[k])
        BY DEF LoadInv
  <2> QED BY <2>1, OrphanLoad, Zenon DEF other
<1> HIDE DEF g, other, need
<1>16. \A k \in Load : LoadOK(dLoad'[k])
       BY <1>12, <1>14, <1>15
<1>17. dMixed' \in BOOLEAN
       BY <1>1, <1>5, Zenon
<1>18. SUFFICES ASSUME ~dMixed'
                PROVE  /\ \A k, j \in Load : dLoad'[k].at \in Active /\ dLoad'[j].at \in Active => k = j
                       /\ \A k \in Load : Steady(dLoad'[k], dEntry'.blocks)
                       /\ \A s \in D!Side : \A i \in 1..Len(dEntry'.hashes[s]) :
                            HashTrue(dEntry', s, i) \/ \E k \in Load : Noting(dLoad'[k], s, i)
       BY <1>11, <1>12, <1>16, <1>17 DEF LoadInv
<1>19. \A k \in Load : dLoad[k].at \notin Active
  <2>1. \A k \in Load : dLoad[k].at \in D!Over
        BY <1>1, <1>5, <1>18
  <2> QED BY <2>1 DEF D!Over, Active, Working
<1>20. \A k, j \in Load : dLoad'[k].at \in Active /\ dLoad'[j].at \in Active => k = j
       BY <1>12, <1>15, <1>19
<1>21. ASSUME NEW s \in D!Side, NEW i \in 1..Len(h2[s]), h2[s][i] # blank
       PROVE  /\ kept = e /\ i \in 1..Len(e.blocks[s]) /\ e.blocks[s][i] = h2[s][i].of
  <2>1. i \in 1..Len(hk[s]) /\ h2[s][i] = hk[s][i]
        BY <1>8, <1>21
  <2>2. kept = e
    <3>1. SUFFICES ASSUME kept = D!Blank(algo) PROVE FALSE
          BY Zenon DEF kept
    <3>2. Len(hk[s]) = 0
          BY <3>1, BlankEntry DEF hk
    <3> QED BY <2>1, <3>2
  <2>3. i \in 1..Len(e.hashes[s]) /\ h2[s][i] = e.hashes[s][i]
        BY <2>1, <2>2 DEF hk
  <2>4. HashTrue(e, s, i) \/ \E k \in Load : Noting(dLoad[k], s, i)
        BY <1>1, <2>3 DEF LoadInv
  <2>5. \A k \in Load : ~Noting(dLoad[k], s, i)
        BY <1>19 DEF Noting, Active, Working
  <2> QED BY <1>21, <2>2, <2>3, <2>4, <2>5 DEF HashTrue, blank
<1>22. ASSUME NEW s \in D!Side, NEW i \in 1..Len(dEntry'.hashes[s])
       PROVE  HashTrue(dEntry', s, i)
  <2>1. CASE h2[s][i] = blank
        BY <1>10, <2>1 DEF HashTrue, blank
  <2>2. CASE h2[s][i] # blank
        BY ZenonT(60), <1>10, <1>21, <1>22, <2>2 DEF HashTrue
  <2> QED BY <2>1, <2>2
<1>23. Steady(g, dEntry'.blocks)
  <2>1. ASSUME NEW s \in D!Side, NEW i \in DOMAIN v[s]
        PROVE  <<s, i>> \in need \/ There(v, dEntry'.blocks, s, i)
    <3>1. /\ Len(v[s]) = Len(v["inputs"]) /\ DOMAIN v[s] = 1..Len(v[s])
          /\ Len(v[s]) \in Nat /\ v[s][i] # ""
          BY <2>1, Versions
    <3>2. i \in 1..Len(h2[s])
      <4>1. Len(h2[s]) \in Nat /\ Len(h2[s]) >= Len(v[s])
            BY <1>8 DEF Sides
      <4> DEFINE n == Len(h2[s])
                 m == Len(v[s])
      <4>2. i \in 1..m /\ n \in Nat /\ n >= m /\ m \in Nat
            BY <2>1, <3>1, <4>1
      <4> HIDE DEF n, m
      <4>3. i \in 1..n
            BY <4>2
      <4> QED BY <4>3 DEF n
    <3>3. CASE h2[s][i] # D!Hash(algo, v[s][i])
      <4>1. <<s, i>> \in D!Side \X (1..Len(v["inputs"]))
            BY <2>1, <3>1
      <4> QED BY <3>3, <4>1 DEF need
    <3>4. CASE h2[s][i] = D!Hash(algo, v[s][i])
      <4>1. h2[s][i].of = v[s][i]
            BY <3>4 DEF D!Hash
      <4>2. h2[s][i] # blank
        <5>1. blank.of = ""
              BY DEF blank
        <5> QED BY <3>1, <4>1, <5>1, Zenon
      <4>3. kept = e /\ i \in 1..Len(e.blocks[s]) /\ e.blocks[s][i] = h2[s][i].of
            BY <1>21, <3>2, <4>2
      <4> QED BY <1>10, <4>1, <4>3 DEF There
    <3> QED BY <3>3, <3>4
  <2> QED BY <1>14, <2>1
<1>24. \A k \in Load : Steady(dLoad'[k], dEntry'.blocks)
  <2>1. \A k \in Load : Steady(dLoad[k], e.blocks)
        BY <1>1 DEF LoadInv
  <2> QED BY <1>12, <1>15, <1>19, <1>23, <2>1
<1> QED BY SMTT(30), <1>20, <1>22, <1>24

LEMMA NextLoad == ASSUME LoadInv, [D!Next]_(D!vars) PROVE LoadInv'
<1>1. CASE D!Restart
      BY <1>1, RestartLoad
<1>2. ASSUME NEW l \in Load,
             \/ \E v \in ApiVersion, algo \in HashAlgo : D!Ask(l, v, algo)
             \/ \E w \in ApiVersion : D!Send(l, w)
             \/ D!Leave(l) \/ D!Begin(l) \/ D!WriteBlock(l) \/ D!NoteHash(l) \/ D!Decode(l) \/ D!Train(l)
      PROVE  LoadInv'
  <2>1. CASE \E v \in ApiVersion, algo \in HashAlgo : D!Ask(l, v, algo)
        BY <2>1, AskLoad
  <2>2. CASE \E w \in ApiVersion : D!Send(l, w)
        BY <2>2, SendLoad
  <2>3. CASE D!Leave(l)
        BY <2>3, LeaveLoad
  <2>4. CASE D!Begin(l)
        BY <2>4, BeginLoad
  <2>5. CASE D!WriteBlock(l)
        BY <2>5, WriteBlockLoad
  <2>6. CASE D!NoteHash(l)
        BY <2>6, NoteHashLoad
  <2>7. CASE D!Decode(l)
        BY <2>7, DecodeLoad
  <2>8. CASE D!Train(l)
        BY <2>8, TrainLoad
  <2> QED BY <1>2, <2>1, <2>2, <2>3, <2>4, <2>5, <2>6, <2>7, <2>8
<1>3. CASE UNCHANGED D!vars
  <2>1. dEntry' = dEntry /\ dLoad' = dLoad /\ dMixed' = dMixed
        BY <1>3 DEF D!vars
  <2> QED BY <2>1 DEF LoadInv
<1> QED BY <1>1, <1>2, <1>3 DEF D!Next

LEMMA LoadHolds == ASSUME LoadInv PROVE D!DatasetsHold /\ D!ApiDatasetsTypeOK
<1>1. ASSUME NEW s \in D!Side
      PROVE  /\ DOMAIN dEntry.hashes[s] = 1..Len(dEntry.hashes[s])
             /\ DOMAIN dEntry.blocks[s] = 1..Len(dEntry.blocks[s])
             /\ \A i \in DOMAIN dEntry.hashes[s] : dEntry.hashes[s][i] \in HashKind
             /\ \A i \in DOMAIN dEntry.blocks[s] : dEntry.blocks[s][i] \in BlockKind
  <2>1. dEntry.hashes \in [D!Side -> Seq(HashKind)] /\ dEntry.blocks \in [D!Side -> Seq(BlockKind)]
        BY DEF LoadInv, EntryOK, EntryKind
  <2>2. dEntry.hashes[s] \in Seq(HashKind) /\ dEntry.blocks[s] \in Seq(BlockKind)
        BY <2>1
  <2> QED BY <2>2, LenProperties, ElementOfSeq
<1>2. D!HashesTrue
  <2>1. SUFFICES ASSUME ~dMixed, NEW s \in D!Side, NEW i \in DOMAIN dEntry.hashes[s]
                 PROVE  \/ dEntry.hashes[s][i] = D!Unhashed
                        \/ i \in DOMAIN dEntry.blocks[s] /\ dEntry.blocks[s][i] = dEntry.hashes[s][i].of
                        \/ \E l \in Load : dLoad[l].at = "noting" /\ Head(dLoad[l].frames).side = s
                                           /\ Head(dLoad[l].frames).blk = i
        BY DEF D!HashesTrue
  <2>2. HashTrue(dEntry, s, i) \/ \E l \in Load : Noting(dLoad[l], s, i)
        BY <1>1, <2>1 DEF LoadInv
  <2>3. CASE HashTrue(dEntry, s, i)
        BY <1>1, <2>3 DEF HashTrue, D!Unhashed
  <2>4. ASSUME NEW l \in Load, Noting(dLoad[l], s, i)
        PROVE  dLoad[l].at = "noting" /\ Head(dLoad[l].frames).side = s
               /\ Head(dLoad[l].frames).blk = i
    <3>1. dLoad[l].frames \in Seq(SentBlock) /\ dLoad[l].frames # <<>>
          BY <2>4 DEF LoadInv, LoadOK, Noting
    <3>2. Head(dLoad[l].frames) = dLoad[l].frames[1]
          BY <3>1
    <3> QED BY <2>4, <3>2 DEF Noting
  <2> QED BY <2>2, <2>3, <2>4
<1>3. D!LoadedAsAsked
  <2>1. SUFFICES ASSUME ~dMixed, NEW l \in Load
                 PROVE  /\ dLoad[l].at \notin {"failed", "skipped"}
                        /\ dLoad[l].at = "loaded" =>
                             dLoad[l].rows = [i \in DOMAIN dLoad[l].version["inputs"] |->
                               <<dLoad[l].version["inputs"][i], dLoad[l].version["outputs"][i]>>]
        BY DEF D!LoadedAsAsked
  <2>2. Steady(dLoad[l], dEntry.blocks)
        BY <2>1 DEF LoadInv
  <2> QED BY <2>2 DEF Steady
<1>4. D!RowsOfTheirPlace
  <2>1. SUFFICES ASSUME NEW l \in Load, dLoad[l].rows # <<>>
                 PROVE  /\ Len(dLoad[l].rows) = Len(dLoad[l].version["inputs"])
                        /\ \A i \in DOMAIN dLoad[l].rows :
                             \E v, w \in ApiVersion :
                               /\ i \in DOMAIN v["inputs"] /\ v["inputs"][i] = dLoad[l].rows[i][1]
                               /\ i \in DOMAIN w["outputs"] /\ w["outputs"][i] = dLoad[l].rows[i][2]
        BY DEF D!RowsOfTheirPlace
  <2> DEFINE r == dLoad[l].rows
             v == dLoad[l].version
             Row == {r[i] : i \in DOMAIN v["inputs"]}
             n == Len(v["inputs"])
  <2>2. LoadOK(dLoad[l])
        BY DEF LoadInv
  <2>3. /\ dLoad[l].at = "loaded" /\ r = [i \in DOMAIN v["inputs"] |-> r[i]] /\ v \in ApiVersion
        /\ \A i \in DOMAIN v["inputs"] :
             \E v1, w1 \in ApiVersion : /\ i \in DOMAIN v1["inputs"] /\ v1["inputs"][i] = r[i][1]
                                        /\ i \in DOMAIN w1["outputs"] /\ w1["outputs"][i] = r[i][2]
        BY <2>1, <2>2 DEF LoadOK, Active
  <2>4. DOMAIN v["inputs"] = 1..n /\ n \in Nat
        BY <2>3, Versions DEF D!Side
  <2>5. DOMAIN r = DOMAIN v["inputs"]
        BY <2>3
  <2>6. r \in [1..n -> Row]
        BY <2>3, <2>4
  <2> HIDE DEF r, v, Row, n
  <2>7. Len(r) = n
        BY <2>4, <2>6, SeqOf
  <2> QED BY <2>3, <2>5, <2>7 DEF r, v, n
<1>5. D!ApiDatasetsTypeOK
  <2>1. dEntry.algo \in HashAlgo \cup {""} /\ dMixed \in BOOLEAN
        BY DEF LoadInv, EntryOK, EntryKind
  <2>2. D!Contents = BlockKind
        BY DEF D!Contents, BlockKind, Given
  <2>3. "" \notin Given
    <3>1. ASSUME NEW v \in ApiVersion, "" \in D!BlocksOf(v) PROVE FALSE
      <4>1. PICK s \in D!Side : \E i \in DOMAIN v[s] : v[s][i] = ""
            BY <3>1 DEF D!BlocksOf
      <4> QED BY <4>1, Versions
    <3> QED BY <3>1 DEF Given
  <2>4. ASSUME NEW s \in D!Side
        PROVE  /\ \A i \in DOMAIN dEntry.blocks[s] : dEntry.blocks[s][i] \in D!Contents
               /\ \A i \in DOMAIN dEntry.hashes[s] :
                    dEntry.hashes[s][i] = D!Unhashed \/ dEntry.hashes[s][i].of \in D!Contents \ {""}
    <3>1. \A x \in HashKind : x = D!Unhashed \/ (x.of \in BlockKind /\ x.of # "")
          BY <2>3 DEF HashKind, D!Unhashed, BlockKind
    <3> QED BY <1>1, <2>2, <3>1
  <2>5. \A l \in Load :
          dLoad[l].at \in D!Over \cup {"asked", "queued", "writing", "noting", "loaded", "failed"}
        BY DEF LoadInv, LoadOK, D!Over, Active, Working
  <2> QED BY <2>1, <2>4, <2>5 DEF D!ApiDatasetsTypeOK
<1> QED BY <1>2, <1>3, <1>4, <1>5 DEF D!DatasetsHold

(* While trainings on a dataset do not overlap, a hash that is noted is that of *)
(* its block and each is of its dataset as it was asked for; whatever overlaps, *)
(* the rows are blocks of their places.                                        *)
THEOREM Trainings == D!Spec => [](D!DatasetsHold /\ D!ApiDatasetsTypeOK)
<1>1. D!Init => LoadInv
      BY InitLoad
<1>2. LoadInv /\ [D!Next]_(D!vars) => LoadInv'
      BY NextLoad
<1>3. LoadInv => D!DatasetsHold /\ D!ApiDatasetsTypeOK
      BY LoadHolds
<1> QED BY <1>1, <1>2, <1>3, PTL DEF D!Spec

-----------------------------------------------------------------------------
(* A run of the composition is one of each component, of which all but one     *)
(* stand still.                                                                *)
LEMMA Still ==
  /\ bVars = B!vars /\ oVars = O!vars /\ lVars = L!vars /\ aVars = A!vars /\ dVars = D!vars
  /\ bVars' = B!vars' /\ oVars' = O!vars' /\ lVars' = L!vars' /\ aVars' = A!vars' /\ dVars' = D!vars'
<1>1. bVars = B!vars /\ bVars' = B!vars'
      BY Zenon DEF bVars, B!vars
<1>2. oVars = O!vars /\ oVars' = O!vars'
      BY Zenon DEF oVars, O!vars
<1>3. lVars = L!vars /\ lVars' = L!vars'
      BY Zenon DEF lVars, L!vars
<1>4. aVars = A!vars /\ aVars' = A!vars'
      BY Zenon DEF aVars, A!vars
<1>5. dVars = D!vars /\ dVars' = D!vars'
      BY Zenon DEF dVars, D!vars
<1> QED BY <1>1, <1>2, <1>3, <1>4, <1>5

LEMMA PartStep ==
  ASSUME [StoreNext]_<<part, vars, bVars, sVars, cVars, pVars, iVars, oVars, lVars, aVars, dVars>>
  PROVE  /\ [B!Next]_(B!vars) /\ [O!Next]_(O!vars) /\ [L!Next]_(L!vars)
         /\ [A!Next]_(A!vars) /\ [D!Next]_(D!vars)
<1>1. CASE StoreNext
  <2>1. B!Next \/ bVars' = bVars
        BY <1>1, Zenon DEF StoreNext
  <2>2. O!Next \/ oVars' = oVars
        BY <1>1, Zenon DEF StoreNext
  <2>3. L!Next \/ lVars' = lVars
        BY <1>1, Zenon DEF StoreNext
  <2>4. A!Next \/ aVars' = aVars
        BY <1>1, Zenon DEF StoreNext
  <2>5. D!Next \/ dVars' = dVars
        BY <1>1, Zenon DEF StoreNext
  <2> QED BY <2>1, <2>2, <2>3, <2>4, <2>5, Still, Zenon
<1>2. CASE UNCHANGED <<part, vars, bVars, sVars, cVars, pVars, iVars, oVars, lVars, aVars, dVars>>
  <2>1. bVars' = bVars /\ oVars' = oVars /\ lVars' = lVars /\ aVars' = aVars /\ dVars' = dVars
        BY <1>2, Zenon
  <2> QED BY <2>1, Still, Zenon
<1> QED BY <1>1, <1>2

LEMMA PartSpecs == StoreSpec => B!Spec /\ O!Spec /\ L!Spec /\ A!Spec /\ D!Spec
<1>1. StoreInit => B!Init /\ O!Init /\ L!Init /\ A!Init /\ D!Init
      BY DEF StoreInit
<1> QED BY <1>1, PartStep, PTL DEF StoreSpec, B!Spec, O!Spec, L!Spec, A!Spec, D!Spec

(* Keys stay bound, entitlements are backed and withdrawals last, in every run *)
(* of the composition.                                                         *)
THEOREM BillingKept == StoreSpec => BillingHolds
BY PartSpecs, Billed, PTL

(* The API service serves models as they are stored, tells streams of all that *)
(* happens to their class, answers each request with its own text, and trains  *)
(* on datasets as they were asked for, in every run of the composition.        *)
THEOREM ApiKept == StoreSpec => []ApiHolds
<1>1. O!ServedAsStored /\ L!ApiClassroomsHold /\ A!AudioServed /\ D!DatasetsHold => ApiHolds
      BY DEF ApiHolds
<1> QED BY <1>1, PartSpecs, Served, Classes, Audio, Trainings, PTL
=============================================================================
