----------------------------- MODULE OrtTrainer -----------------------------
(* What one training of the on-prem runtime reads, checks and writes:        *)
(* OrtBundleTrainer.train of core/ort_trainer.py with the providers of       *)
(* core/datasets.py. JobEngine models when a training runs and what its      *)
(* state becomes; here it is what it trains on and what it leaves.           *)
(*                                                                           *)
(* Arrays are their rows: x is their number, y the values of each. The       *)
(* permutation of an epoch is the choice of each batch; the library          *)
(* (onnxruntime.training) may raise where it is called.                      *)
EXTENDS Integers, Sequences, FiniteSets

CONSTANTS
  Bundle,      \* the extracted bundles a job may carry
  Public,      \* the .npz datasets of the runtime, by id
  Fingerprint, \* the contents the cached entry of a dataset may have, each by its fingerprint
  RowsOf,      \* the rows that a content decodes to, NoArrays if it has none or does not
  NoArrays,    \* arrays that are not there
  NoBundle,    \* a bundle to start from, before there is a job
  MaxSyncs     \* bound: sessions that synchronise the dataset while the job is there

VARIABLES
  bundle,   \* job.extracted_bundle
  held,     \* the content of the user's dataset in the cache: its header and blocks
  synced,   \* the fingerprint there: of the content when a session ended well last
  syncs,    \* sessions that announced a version so far
  open,     \* those of them whose frames are awaited
  agreed,   \* the content that the last session that ended well left; no action reads it
  stop,     \* stop_requested()
  stage,    \* where train is
  data,     \* the arrays as prepared: source, fingerprint, x, y, validation x and y
  epoch,    \* epochs that are over
  left,     \* rows of the permutation not yet taken
  seen,     \* how often each row was trained on
  model,    \* outputs/inference.onnx: the epoch it was exported after, or 0
  lines,    \* metrics.jsonl
  events,   \* what was emitted
  snapshot  \* the archive: its model, its metrics and the last of its manifest

vars == <<bundle, held, synced, syncs, open, agreed, stop, stage, data, epoch, left, seen, model, lines,
          events, snapshot>>
cache == <<held, synced, syncs, open, agreed>>

Ended == {"stopped", "failed", "completed"}
Nothing == [source |-> "none", fp |-> "", x |-> 0, y |-> <<>>, vx |-> 0, vy |-> <<>>]
NoSnapshot == [model |-> 0, metrics |-> <<>>, last |-> 0]

-----------------------------------------------------------------------------
(* core/datasets.py: the datasets a reference stands for, none or one *)

\* UploadedDatasetProvider: without data/train.npz there is nothing to take the length of.
UploadedData(b) ==
  IF b.train = NoArrays THEN {}
  ELSE {[source |-> "uploaded", fp |-> "", train |-> b.train, val |-> b.val]}

\* NeuralesePublicDatasetProvider and NpzPublicDatasetEngine: the checksum is passed on unread.
PublicData(b) ==
  {[source |-> "public", fp |-> b.fp, train |-> Public[i].train, val |-> Public[i].val] :
     i \in {k \in DOMAIN Public \cap {b.id} : Public[k].train # NoArrays}}

\* _normalize_y: a column of values becomes a vector.
Flat(a) == [a EXCEPT !.ndim = IF @ = 2 /\ Len(a.y[1]) = 1 THEN 1 ELSE @]

\* IncrementalLocalDatasetProvider: the fingerprint must be the one the bundle was made for;
\* the rows are those the entry decodes to now.
LocalData(b) ==
  IF synced = "" \/ b.fp \notin {"", synced} \/ RowsOf[held] = NoArrays THEN {}
  ELSE {[source |-> "local", fp |-> synced, train |-> Flat(RowsOf[held]), val |-> NoArrays]}

Resolved(b) ==
  CASE b.type \in {"none", "uploaded"} -> UploadedData(b)
    [] b.type = "public" -> PublicData(b)
    [] b.type = "local" -> LocalData(b)

-----------------------------------------------------------------------------
(* _prepare_arrays *)

Mse(b) == b.loss = "mse"
ArgMax(v) == CHOOSE i \in DOMAIN v : (\A k \in DOMAIN v : v[k] <= v[i]) /\ (\A k \in 1..(i - 1) : v[k] < v[i])
Targets(b, a) ==
  IF Mse(b) THEN a.y
  ELSE [i \in DOMAIN a.y |-> IF a.ndim = 2 THEN <<ArgMax(a.y[i]) - 1>> ELSE a.y[i]]
Prepared(b, d) ==
  LET v == IF d.val = NoArrays THEN d.train ELSE d.val
  IN  [source |-> d.source, fp |-> d.fp, x |-> d.train.x, y |-> Targets(b, d.train),
       vx |-> v.x, vy |-> Targets(b, v)]
Usable(p) == p.x = Len(p.y) /\ p.vx = Len(p.vy) /\ p.x > 0

(* The checks before the artifacts are generated *)

Labels(y) == {y[i][1] : i \in DOMAIN y}

LabelsFit(b, p) ==
  Mse(b) \/ b.declared = 0 \/ \A l \in Labels(p.y) \cup Labels(p.vy) : 0 <= l /\ l < b.declared

Supported(b) == b.loss \in {"mse", "cross_entropy"} /\ b.optimizer \in {"adamw", "sgd"}
NamesFit(b) == b.trainable \subseteq b.initializers /\ b.names \subseteq b.outputs

-----------------------------------------------------------------------------
Init ==
  /\ bundle = NoBundle /\ held = "" /\ synced = "" /\ syncs = 0 /\ open = 0 /\ agreed = ""
  /\ stop = FALSE /\ stage = "none" /\ data = Nothing
  /\ epoch = 0 /\ left = {} /\ seen = <<>>
  /\ model = 0 /\ lines = <<>> /\ events = <<>> /\ snapshot = NoSnapshot

\* create_job: any bundle that extract_training_bundle accepts.
Submit(b) ==
  /\ stage = "none"
  /\ bundle' = b /\ stage' = "new"
  /\ UNCHANGED <<cache, stop, data, epoch, left, seen, model, lines, events, snapshot>>

\* The user's dataset is changed and synchronised again before the job's turn: from then on
\* the training holds the event loop that the sessions need.
Synchronising ==
  /\ stage = "new" /\ bundle.type = "local"   \* bound: no other job looks at it
  /\ UNCHANGED <<bundle, stop, stage, data, epoch, left, seen, model, lines, events, snapshot>>

\* prepare_sync: the new header, and columns cut or lengthened to the new hashes, make another
\* content of what is there. The fingerprint stays; a new entry, of another algorithm, has none.
Announce(f) ==
  /\ Synchronising /\ syncs < MaxSyncs
  /\ held' = f /\ synced' \in {synced, ""}
  /\ syncs' = syncs + 1 /\ open' = open + 1 /\ UNCHANGED agreed

\* apply_frames, when the frames of a session have arrived: the blocks are filled in, and the
\* fingerprint is that of what is there then, whoever announced it.
Apply(f) ==
  /\ Synchronising /\ open > 0
  /\ held' = f /\ synced' = f /\ agreed' = f
  /\ open' = open - 1 /\ UNCHANGED syncs

\* A frame is refused after others were filled in, or the session ends before its frames arrive.
BreakOff(f) ==
  /\ Synchronising /\ open > 0
  /\ held' = f
  /\ open' = open - 1 /\ UNCHANGED <<synced, syncs, agreed>>

RequestStop ==
  /\ ~stop /\ stage \notin {"none"} \cup Ended
  /\ stop' = TRUE
  /\ UNCHANGED <<bundle, cache, stage, data, epoch, left, seen, model, lines, events, snapshot>>

\* Every check of stop_requested but the last ends the training with what it has written.
Leave ==
  /\ stop /\ stage \in {"started", "epoch", "batch"}
  /\ stage' = "stopped"
  /\ UNCHANGED <<bundle, cache, stop, data, epoch, left, seen, model, lines, events, snapshot>>

Fail ==
  /\ stage' = "failed"
  /\ UNCHANGED <<bundle, cache, stop, data, epoch, left, seen, model, lines, events, snapshot>>

\* _load_dataset and _prepare_arrays, then the event that says it has started.
Load ==
  /\ stage = "new"
  /\ LET ready == {p \in {Prepared(bundle, d) : d \in Resolved(bundle)} : Usable(p)}
     IN  \/ ready = {} /\ Fail
         \/ \E p \in ready :
              /\ data' = p /\ stage' = "started"
              /\ seen' = [i \in 1..p.x |-> 0]
              /\ events' = <<0>>
              /\ UNCHANGED <<bundle, cache, stop, epoch, left, model, lines, snapshot>>

\* The directories are emptied, the model is checked and its artifacts are generated.
Prepare ==
  /\ stage = "started" /\ ~stop
  /\ NamesFit(bundle) /\ LabelsFit(bundle, data) /\ Supported(bundle)
  /\ stage' = "epoch"
  /\ UNCHANGED <<bundle, cache, stop, data, epoch, left, seen, model, lines, events, snapshot>>

Refuse == stage = "started" /\ ~stop /\ Fail

StartEpoch ==
  /\ stage = "epoch" /\ ~stop /\ epoch < bundle.epochs
  /\ stage' = "batch" /\ left' = 1..data.x
  /\ UNCHANGED <<bundle, cache, stop, data, epoch, seen, model, lines, events, snapshot>>

\* The next slice of the permutation: all that is left when it is less than a batch.
Batches ==
  {s \in SUBSET left : Cardinality(s) = bundle.batch \/ (s = left /\ Cardinality(s) < bundle.batch)}

Train(s) ==
  /\ stage = "batch" /\ ~stop /\ left # {}
  /\ left' = left \ s
  /\ seen' = [i \in DOMAIN seen |-> IF i \in s THEN seen[i] + 1 ELSE seen[i]]
  /\ UNCHANGED <<bundle, cache, stop, stage, data, epoch, model, lines, events, snapshot>>

\* The library may refuse a label that is no class; the generated code need not.
TrainRaises(s) ==
  /\ stage = "batch" /\ ~stop /\ left # {}
  /\ ~Mse(bundle) /\ \E i \in s : data.y[i][1] \notin 0..(bundle.classes - 1)
  /\ Fail

\* probs[arange, labels] raises beyond the last class, and counts from the end below the first.
Indexable == Mse(bundle) \/ \A l \in Labels(data.vy) : -bundle.classes <= l /\ l < bundle.classes

\* The model is exported, evaluated and reported; the stop of the last batch is seen later.
EndEpoch ==
  /\ stage = "batch" /\ left = {}
  /\ model' = epoch + 1
  /\ IF Indexable
     THEN /\ epoch' = epoch + 1
          /\ lines' = Append(lines, epoch')
          /\ events' = Append(events, epoch')
          /\ stage' = "epoch"
     ELSE /\ stage' = "failed"
          /\ UNCHANGED <<epoch, lines, events>>
  /\ UNCHANGED <<bundle, cache, stop, data, left, seen, snapshot>>

\* The loop is over: nobody asks for a stop any more. A checkpoint that cannot be saved is left out.
Save ==
  /\ stage = "epoch" /\ epoch = bundle.epochs
  /\ snapshot' = [model |-> model, metrics |-> lines, last |-> lines[Len(lines)]]
  /\ stage' = "completed"
  /\ UNCHANGED <<bundle, cache, stop, data, epoch, left, seen, model, lines, events>>

Next ==
  \/ \E b \in Bundle : Submit(b)
  \/ \E f \in Fingerprint : Announce(f) \/ Apply(f) \/ BreakOff(f)
  \/ RequestStop \/ Leave \/ Load \/ Prepare \/ Refuse \/ StartEpoch \/ EndEpoch \/ Save
  \/ \E s \in Batches : Train(s) \/ TrainRaises(s)

Spec == Init /\ [][Next]_vars

-----------------------------------------------------------------------------
TrainerTypeOK ==
  /\ bundle = NoBundle \/ bundle \in Bundle
  /\ held \in Fingerprint /\ synced \in Fingerprint /\ syncs \in 0..MaxSyncs /\ open \in 0..syncs
  /\ agreed \in Fingerprint /\ stop \in BOOLEAN
  /\ stage \in {"none", "new", "started", "epoch", "batch"} \cup Ended
  /\ DOMAIN data = DOMAIN Nothing /\ epoch \in 0..bundle.epochs /\ left \subseteq 1..data.x
  /\ seen \in Seq(Nat) /\ model \in 0..bundle.epochs
  /\ lines \in Seq(Nat) /\ events \in Seq(Nat) /\ DOMAIN snapshot = DOMAIN NoSnapshot

\* At the end of an epoch every row has been trained on as often as any other: the last,
\* shorter batch of train included.
EachRowOnce ==
  /\ stage = "epoch" => \A i \in DOMAIN seen : seen[i] = epoch
  /\ stage = "completed" => \A i \in DOMAIN seen : seen[i] = bundle.epochs

\* No label that the model's output has no class for is trained on or evaluated with, when
\* the model says how many it has; when it does not, no epoch with such a label above the
\* last class is reported.
LabelsInRange ==
  ~Mse(bundle) =>
    /\ (stage \in {"epoch", "batch", "completed"} /\ bundle.declared > 0) =>
         \A l \in Labels(data.y) \cup Labels(data.vy) : 0 <= l /\ l < bundle.declared
    /\ lines # <<>> => \A l \in Labels(data.vy) : l < bundle.classes

\* The file of metrics, the events and the archive tell the same: one line for each epoch
\* that is over, the archive the model and the metrics of them all, and there is none of a
\* training that stopped or failed.
ToldAlike ==
  /\ events # <<>> => events = <<0>> \o lines
  /\ lines = [i \in 1..epoch |-> i]
  /\ model \in {epoch, epoch + 1}
  /\ (snapshot # NoSnapshot) = (stage = "completed")
  /\ stage = "completed" =>
       snapshot = [model |-> bundle.epochs, metrics |-> [i \in 1..bundle.epochs |-> i],
                   last |-> bundle.epochs]

\* A training on a synchronised dataset runs under the fingerprint its bundle names, and, when
\* the content is as the last session that ended well left it, on the rows of that version,
\* whatever was announced, applied or broken off since its submission. After a session that
\* did not end well, or has not ended yet, the old fingerprint passes the check on other rows.
RowsAsNamed ==
  (data.source = "local" /\ bundle.fp # "") =>
    /\ data.fp = bundle.fp
    /\ held = agreed => data.y = Targets(bundle, Flat(RowsOf[bundle.fp]))

TrainerHolds == EachRowOnce /\ LabelsInRange /\ ToldAlike /\ RowsAsNamed
=============================================================================
