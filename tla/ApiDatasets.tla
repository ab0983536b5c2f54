---------------------------- MODULE ApiDatasets ----------------------------
(* A training of the API service on a dataset of the builder: perform_ds_load *)
(* asks for the blocks whose hashes differ from those of the user's entry in  *)
(* ds_cache, ds_load_task writes what came into it and decodes the entry, and *)
(* ws_train trains on that. The event loop and the pool's threads share it.   *)
(*                                                                            *)
(* One entry, whose sides are a column each; a block is its content, the rows *)
(* of a dataset are its blocks, and a hash is of a content by an algorithm.   *)
EXTENDS Naturals, Sequences, FiniteSets

CONSTANTS
  Load,    \* trainings of one user on one dataset
  Version, \* what the dataset is at some time: [Side -> Seq(contents)], sides of one length
  Algo,    \* hash_algo
  Empty    \* b"", a block that never came

VARIABLES
  entry,   \* ds_cache[user][dataset]: its algorithm, blocks and hashes
  load,    \* the trainings
  mixed    \* two of them overlapped, or a dataset was edited while it was asked for

vars == <<entry, load, mixed>>

Side == {"inputs", "outputs"}
Each(x) == [s \in Side |-> x]
Unhashed == [by |-> "", of |-> Empty]
Hash(algo, content) == [by |-> algo, of |-> content]
Blank(algo) == [algo |-> algo, blocks |-> Each(<<>>), hashes |-> Each(<<>>)]

Idle == [at |-> "idle", version |-> Each(<<>>), algo |-> "", need |-> {}, frames |-> <<>>,
         orphan |-> FALSE, rows |-> <<>>]
Over == {"idle", "left", "trained", "skipped"}

Init == entry = Blank("") /\ load = [l \in Load |-> Idle] /\ mixed = FALSE

-----------------------------------------------------------------------------
(* perform_ds_load *)

Padded(s, n, x) == [i \in 1..(IF Len(s) < n THEN n ELSE Len(s)) |-> IF i <= Len(s) THEN s[i] ELSE x]

\* Hashes of another algorithm say nothing: the entry is emptied. A thread that was about to
\* note a hash notes it in the list that was thrown away.
Ask(l, v, algo) ==
  /\ load[l].at \in Over
  /\ ~mixed   \* bound: afterwards those that are there go on
  /\ LET kept   == IF entry.algo = algo THEN entry ELSE Blank(algo)
         hashes == [s \in Side |-> Padded(kept.hashes[s], Len(v[s]), Unhashed)]
         need   == {p \in Side \X (1..Len(v["inputs"])) : hashes[p[1]][p[2]] # Hash(algo, v[p[1]][p[2]])}
     IN /\ entry' = [kept EXCEPT !.hashes = hashes]
        /\ load' = [k \in Load |->
             IF k = l THEN [Idle EXCEPT !.at = "asked", !.version = v, !.algo = algo, !.need = need]
             ELSE [load[k] EXCEPT !.orphan = @ \/ entry.algo # algo]]
  /\ mixed' = (mixed \/ \E k \in Load \ {l} : load[k].at \notin Over)

\* The builder's answer (ws_ds_frames): of the dataset as it is now, w, the blocks asked for
\* that it still has, in the order they were asked for.
Ascending(places) ==
  [k \in 1..Cardinality(places) |->
     CHOOSE i \in places : Cardinality({j \in places : j < i}) = k - 1]

Frames(need, w) ==
  LET blks(s) == Ascending({i \in DOMAIN w[s] : <<s, i>> \in need})
      of(s)   == [k \in DOMAIN blks(s) |->
                    [side |-> s, blk |-> blks(s)[k], payload |-> w[s][blks(s)[k]]]]
  IN  of("inputs") \o of("outputs")

Send(l, w) ==
  /\ load[l].at = "asked"
  /\ load' = [load EXCEPT ![l].at = "queued", ![l].need = {},
                          ![l].frames = Frames(load[l].need, w)]
  /\ mixed' = (mixed \/ w # load[l].version)
  /\ UNCHANGED entry

\* A client that leaves before its __end__ leaves nothing behind.
Leave(l) ==
  /\ load[l].at = "asked"
  /\ load' = [load EXCEPT ![l] = [Idle EXCEPT !.at = "left"]]
  /\ UNCHANGED <<entry, mixed>>

-----------------------------------------------------------------------------
(* ds_load_task, on a thread *)

Begin(l) ==
  /\ load[l].at = "queued"
  /\ load' = [load EXCEPT ![l].at = "writing"]
  /\ entry' = [entry EXCEPT !.algo = load[l].algo]
  /\ UNCHANGED mixed

\* Blocks that are not there yet are made room for, and as many hashes are added.
WriteBlock(l) ==
  /\ load[l].at = "writing" /\ load[l].frames # <<>>
  /\ LET f     == Head(load[l].frames)
         had   == Len(entry.blocks[f.side])
         more  == IF f.blk > had THEN f.blk - had ELSE 0
     IN entry' = [entry EXCEPT
          !.blocks[f.side] = [Padded(@, f.blk, Empty) EXCEPT ![f.blk] = f.payload],
          !.hashes[f.side] = Padded(@, Len(@) + more, Unhashed)]
  /\ load' = [load EXCEPT ![l].at = "noting", ![l].orphan = FALSE]
  /\ UNCHANGED mixed

NoteHash(l) ==
  /\ load[l].at = "noting"
  /\ LET f == Head(load[l].frames)
         h == Hash(load[l].algo, load[l].version[f.side][f.blk])
     IN entry' = IF load[l].orphan THEN entry
                 ELSE [entry EXCEPT !.hashes[f.side] = Padded(@, f.blk, Unhashed),
                                    !.hashes[f.side][f.blk] = h]
  /\ load' = [load EXCEPT ![l].at = "writing", ![l].frames = Tail(@), ![l].orphan = FALSE]
  /\ UNCHANGED mixed

\* The decoder takes as many rows as the header says, and gives up when there are fewer.
Complete(l) ==
  \A s \in Side : \A i \in DOMAIN load[l].version[s] :
    i <= Len(entry.blocks[s]) /\ entry.blocks[s][i] # Empty

Decoded(l) ==
  [i \in DOMAIN load[l].version["inputs"] |-> <<entry.blocks["inputs"][i], entry.blocks["outputs"][i]>>]

Decode(l) ==
  /\ load[l].at = "writing" /\ load[l].frames = <<>>
  /\ load' = [load EXCEPT ![l].at = IF Complete(l) THEN "loaded" ELSE "failed",
                          ![l].rows = IF Complete(l) THEN Decoded(l) ELSE <<>>]
  /\ UNCHANGED <<entry, mixed>>

-----------------------------------------------------------------------------
(* ws_train: without a dataset, what is left of train's arguments is a name it does not know. *)

Train(l) ==
  /\ load[l].at \in {"loaded", "failed"}
  /\ load' = [load EXCEPT ![l] =
       [Idle EXCEPT !.at = IF load[l].rows # <<>> THEN "trained" ELSE "skipped"]]
  /\ UNCHANGED <<entry, mixed>>

\* The service is started again: ds_cache was in its memory.
Restart == entry' = Blank("") /\ load' = [l \in Load |-> Idle] /\ mixed' = FALSE

Next ==
  \/ Restart
  \/ \E l \in Load :
       \/ \E v \in Version, algo \in Algo : Ask(l, v, algo)
       \/ \E w \in Version : Send(l, w)
       \/ Leave(l) \/ Begin(l) \/ WriteBlock(l) \/ NoteHash(l) \/ Decode(l) \/ Train(l)

Spec == Init /\ [][Next]_vars

-----------------------------------------------------------------------------
BlocksOf(v) == UNION {{v[s][i] : i \in DOMAIN v[s]} : s \in Side}
Contents == {Empty} \cup UNION {BlocksOf(v) : v \in Version}

ApiDatasetsTypeOK ==
  /\ entry.algo \in Algo \cup {""}
  /\ \A s \in Side :
       /\ \A i \in DOMAIN entry.blocks[s] : entry.blocks[s][i] \in Contents
       /\ \A i \in DOMAIN entry.hashes[s] :
            entry.hashes[s][i] = Unhashed \/ entry.hashes[s][i].of \in Contents \ {Empty}
  /\ \A l \in Load :
       load[l].at \in Over \cup {"asked", "queued", "writing", "noting", "loaded", "failed"}
  /\ mixed \in BOOLEAN

\* While trainings on a dataset follow each other, a hash that is noted is that of the block,
\* but for the one block whose hash is about to be noted.
HashesTrue ==
  ~mixed => \A s \in Side : \A i \in DOMAIN entry.hashes[s] :
    \/ entry.hashes[s][i] = Unhashed
    \/ i \in DOMAIN entry.blocks[s] /\ entry.blocks[s][i] = entry.hashes[s][i].of
    \/ \E l \in Load : load[l].at = "noting" /\ Head(load[l].frames).side = s
                       /\ Head(load[l].frames).blk = i

\* Then each of them is loaded, and trains on the dataset as it was when it was asked for:
\* whatever grew, shrank, was hashed otherwise or was left by a client in between.
LoadedAsAsked ==
  ~mixed => \A l \in Load :
    /\ load[l].at \notin {"failed", "skipped"}
    /\ load[l].at = "loaded" =>
         load[l].rows = [i \in DOMAIN load[l].version["inputs"] |->
                           <<load[l].version["inputs"][i], load[l].version["outputs"][i]>>]

\* Even when they overlap, a block of a training's rows was at that place of some version, and
\* there are as many as its header says.
RowsOfTheirPlace ==
  \A l \in Load : load[l].rows # <<>> =>
    /\ Len(load[l].rows) = Len(load[l].version["inputs"])
    /\ \A i \in DOMAIN load[l].rows :
         \E v, w \in Version : /\ i \in DOMAIN v["inputs"] /\ v["inputs"][i] = load[l].rows[i][1]
                               /\ i \in DOMAIN w["outputs"] /\ w["outputs"][i] = load[l].rows[i][2]

DatasetsHold == HashesTrue /\ LoadedAsAsked /\ RowsOfTheirPlace
=============================================================================
