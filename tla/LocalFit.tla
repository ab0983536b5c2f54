------------------------------ MODULE LocalFit ------------------------------
(* What a training without a server learns and reports. dataset_store reads   *)
(* the arrays of a dataset, train_task gives their targets the form of the    *)
(* loss, chooses the optimizer, and evaluates what was exported on some of    *)
(* the validation, or on all of it when the training ends.                    *)
(*                                                                            *)
(* A target is a row of numbers; ndim tells a vector of them from a matrix.   *)
(* Numbers are whole, and learning rates are thousandths.                     *)
EXTENDS Integers, SequencesExt, FiniteSetsExt

CONSTANTS
  Request,     \* [kind, files, table, outputsFrom, train, classes, epochs, sgd]: files has
               \* arrays by their names, table the cells of a dataset of the builder
  NoRequest,
  Unset,       \* a number that is not given
  MaxSamples,  \* EVAL_MAX_SAMPLES
  Interval     \* EXPORT_EVAL_INTERVAL

VARIABLES
  request,
  stage,
  data,     \* the ArrayDataset
  config,   \* loss, optimizer and rate, as resolved
  epoch,    \* epochs trained
  metrics,  \* last_metrics: of which epoch, on which rows
  events

vars == <<request, stage, data, config, epoch, metrics, events>>

NoData == [x |-> <<>>, y |-> <<>>, val_x |-> <<>>, val_y |-> <<>>]
NoMetrics == [epoch |-> 0, samples |-> <<>>]
Asked == [loss |-> "cross_entropy", optimizer |-> "adam", rate |-> Unset]
Warning == [phase |-> "warning"]

Init ==
  /\ request = NoRequest /\ stage = "none" /\ data = NoData /\ config = Asked
  /\ epoch = 0 /\ metrics = NoMetrics /\ events = <<>>

-----------------------------------------------------------------------------
(* ArrayDataset *)

\* None is the empty sequence; an array is [of, ndim, rows], of the split it is part of.
None == <<>>
Missing(a) == a = None
First(files, names) ==
  LET held == {i \in DOMAIN names : names[i] \in DOMAIN files}
  IN IF held = {} THEN None ELSE files[names[Min(held)]]

\* _normalize_targets: a column is a vector.
NormalizeTargets(y) ==
  IF ~Missing(y) /\ y.ndim > 1 /\ \A i \in DOMAIN y.rows : Len(y.rows[i]) = 1
  THEN [y EXCEPT !.ndim = 1] ELSE y

ArrayDataset(x, y, vx, vy) ==
  [x |-> x, y |-> NormalizeTargets(y), val_x |-> vx, val_y |-> NormalizeTargets(vy)]

\* _local_dataset_to_training_json: a row without an output is skipped, and one output alone
\* is no list. NumPy makes no array of rows of different lengths.
Even(ss) == \A i \in DOMAIN ss : Len(ss[i]) = Len(ss[1])
Kept(r) == {i \in DOMAIN r.table : Len(r.table[i]) > r.outputsFrom}
Ascending(places) ==
  [k \in 1..Cardinality(places) |->
     CHOOSE i \in places : Cardinality({j \in places : j < i}) = k - 1]
Converted(r) ==
  LET kept == Ascending(Kept(r))
      part(i, from, to) == FlattenSeq(SubSeq(r.table[i], from, to))
      xs == [k \in DOMAIN kept |-> part(kept[k], 1, r.outputsFrom)]
      ys == [k \in DOMAIN kept |-> part(kept[k], r.outputsFrom + 1, Len(r.table[kept[k]]))]
      dim == IF \E i \in DOMAIN ys : Len(ys[i]) = 1 THEN 1 ELSE 2
  IN IF Kept(r) = {} \/ ~Even(xs) \/ ~Even(ys) THEN <<>>
     ELSE [x |-> [of |-> "table", ndim |-> 2, rows |-> xs],
           y |-> [of |-> "table", ndim |-> dim, rows |-> ys]]

\* load_builtin_dataset and load_godot_json_dataset; what is not there is None in x or y.
Loaded(r) ==
  LET f == IF r.kind = "godot_json" THEN Converted(r) ELSE r.files
  IN CASE r.kind = "npz" ->
            ArrayDataset(First(f, <<"x", "train_x">>), First(f, <<"y", "train_y">>),
                         First(f, <<"val_x", "test_x">>), First(f, <<"val_y", "test_y">>))
       [] r.kind = "npy" ->
            ArrayDataset(First(f, <<"train_x">>), First(f, <<"train_y">>),
                         First(f, <<"val_x", "test_x">>), First(f, <<"val_y", "test_y">>))
       [] r.kind = "godot_json" ->
            ArrayDataset(First(f, <<"x">>), First(f, <<"y">>), None, None)
       [] OTHER -> NoData

ValidationArrays(d) ==
  IF ~Missing(d.val_x) /\ ~Missing(d.val_y) /\ d.val_x.rows # <<>>
  THEN [x |-> d.val_x, y |-> d.val_y] ELSE [x |-> d.x, y |-> d.y]

-----------------------------------------------------------------------------
(* run_training, before the first epoch *)

\* The last of the nodes that tell; a RunModel tells the loss of its first branch.
Extracted(nodes) ==
  LET heed(c, n) ==
        CASE n.type = "RunModel" /\ n.losses # <<>> -> [c EXCEPT !.loss = Head(n.losses)]
          [] n.type = "TrainInput" -> [c EXCEPT !.optimizer = n.optimizer, !.rate = n.rate]
          [] OTHER -> c
  IN FoldLeft(heed, Asked, nodes)

Regression(loss) == loss = "mse"
SupportedLoss == {"mse", "cross_entropy"}
Optimizers == {"adam", "adamw", "sgd"}

ArgMax(row) == CHOOSE i \in DOMAIN row :
  (\A j \in DOMAIN row : row[j] <= row[i]) /\ \A j \in 1..i - 1 : row[j] < row[i]

\* Targets of regression are a matrix; others are classes, from 0.
Coerced(y, loss) ==
  CASE Missing(y) -> y
    [] ~Missing(y) /\ Regression(loss) -> [y EXCEPT !.ndim = 2]
    [] OTHER -> [y EXCEPT !.ndim = 1,
                   !.rows = IF y.ndim = 1 THEN @ ELSE [i \in DOMAIN @ |-> <<ArgMax(@[i]) - 1>>]]

\* _resolve_optimizer_type: a build without SGD takes AdamW, no faster than a thousandth.
Fallback(c, r) == c.optimizer = "sgd" /\ ~r.sgd
Resolved(c, r) ==
  [loss |-> c.loss, optimizer |-> IF c.optimizer = "sgd" /\ r.sgd THEN "sgd" ELSE "adamw",
   rate |-> IF Fallback(c, r) /\ c.rate > 1 THEN 1 ELSE c.rate]
Warnings(c, r) ==
  IF ~Fallback(c, r) THEN <<>> ELSE IF c.rate > 1 THEN <<Warning, Warning>> ELSE <<Warning>>

Fail(told) == stage' = "failed" /\ events' = events \o told \o <<[phase |-> "error"]>>

Choose(r) ==
  /\ stage = "none"
  /\ request' = r /\ stage' = "asked"
  /\ UNCHANGED <<data, config, epoch, metrics, events>>

\* A loss that is not supported is met after the warnings, and once the targets are classes.
Prepare ==
  /\ stage = "asked"
  /\ LET d == Loaded(request)
         c == Extracted(request.train)
         told == IF c.optimizer \in Optimizers THEN Warnings(c, request) ELSE <<>>
     IN IF Missing(d.x) \/ Missing(d.y) THEN Fail(<<>>) /\ UNCHANGED <<data, config>>
        ELSE IF d.x.rows = <<>> \/ c.optimizer \notin Optimizers \/ c.loss \notin SupportedLoss
        THEN Fail(IF d.x.rows = <<>> THEN <<>> ELSE told) /\ UNCHANGED <<data, config>>
        ELSE /\ data' = [d EXCEPT !.y = Coerced(@, c.loss), !.val_y = Coerced(@, c.loss)]
             /\ config' = Resolved(c, request)
             /\ stage' = "training" /\ events' = events \o told
  /\ UNCHANGED <<request, epoch, metrics>>

-----------------------------------------------------------------------------
(* its epochs *)

\* A batch takes the targets of its rows by their places. What the loss makes of a target that
\* does not fit is ONNX Runtime's.
Fits(v) ==
  \A i \in DOMAIN v.x.rows \cap DOMAIN v.y.rows :
    IF Regression(config.loss) THEN Len(v.y.rows[i]) = request.classes
    ELSE v.y.rows[i][1] \in 0..request.classes - 1

TrainEpoch ==
  /\ stage = "training" /\ epoch < request.epochs
  /\ \/ /\ Len(data.y.rows) >= Len(data.x.rows)
        /\ stage' = "trained" /\ epoch' = epoch + 1 /\ UNCHANGED events
     \/ /\ Len(data.y.rows) < Len(data.x.rows) \/ ~Fits(data)
        /\ Fail(<<>>) /\ UNCHANGED epoch
  /\ UNCHANGED <<request, data, config, metrics>>

Exports(e) == e = 1 \/ e % Interval = 0 \/ e = request.epochs

\* np.linspace of places; all of them at the end.
Places(n) ==
  IF epoch = request.epochs \/ n <= MaxSamples THEN [i \in 1..n |-> i]
  ELSE [i \in 1..MaxSamples |-> 1 + ((i - 1) * (n - 1)) \div (MaxSamples - 1)]

\* Targets are compared by their places, a single one with all, and those of regression in
\* another shape if they are as many numbers; a class below zero counts from the end.
Comparable(v, places) ==
  LET n  == Len(places)
      ys == v.y.rows
      at == IF n < Len(v.x.rows) THEN Range(places) ELSE DOMAIN ys
      k  == Cardinality(at)
      wide == Len(ys[1])
  IN /\ at \subseteq DOMAIN ys /\ at # {}
     /\ IF Regression(config.loss)
        THEN \/ k * wide = n * request.classes
             \/ (k = n \/ 1 \in {k, n}) /\ 1 \in {wide, request.classes}
        ELSE k \in {1, n} /\ \A i \in at : ys[i][1] \in -request.classes..request.classes - 1

\* _evaluate: the rows and the targets that a metric is of.
Evaluated(v, places) ==
  [epoch |-> epoch,
   samples |-> [i \in DOMAIN places |->
                  LET t == IF places[i] \in DOMAIN v.y.rows THEN places[i] ELSE 1
                  IN [x |-> <<v.x.of, places[i]>>, y |-> <<v.y.of, t>>, target |-> v.y.rows[t]]]]

\* What was exported is evaluated, and the epoch reported, with the metrics of an older one if
\* it was not exported.
EndEpoch ==
  /\ stage = "trained"
  /\ LET v == ValidationArrays(data)
         places == Places(Len(v.x.rows))
         m == IF Exports(epoch) THEN Evaluated(v, places) ELSE metrics
     IN IF Exports(epoch) /\ ~Comparable(v, places) THEN Fail(<<>>) /\ UNCHANGED metrics
        ELSE /\ metrics' = m
             /\ events' = Append(events, [phase |-> "state", epoch |-> epoch, metrics |-> m])
             /\ stage' = "training"
  /\ UNCHANGED <<request, data, config, epoch>>

Done ==
  /\ stage = "training" /\ epoch = request.epochs
  /\ stage' = "done" /\ events' = Append(events, [phase |-> "done"])
  /\ UNCHANGED <<request, data, config, epoch, metrics>>

Next ==
  \/ \E r \in Request : Choose(r)
  \/ Prepare \/ TrainEpoch \/ EndEpoch \/ Done

Spec == Init /\ [][Next]_vars

-----------------------------------------------------------------------------
LocalFitTypeOK ==
  /\ stage \in {"none", "asked", "training", "trained", "done", "failed"}
  /\ epoch \in Nat /\ metrics.epoch <= epoch
  /\ \A i \in DOMAIN events : events[i].phase \in {"warning", "state", "done", "error"}

\* The class, or the numbers, that a file gives a row: a column is a number for each row.
Original(split) ==
  IF request.kind = "godot_json" THEN Converted(request).y
  ELSE LET n == CHOOSE n \in DOMAIN request.files :
                  request.files[n].of = split /\ n \in {"y", "train_y", "val_y", "test_y"}
       IN request.files[n]
Meaning(row) ==
  IF Regression(config.loss) \/ Len(row) = 1 THEN row ELSE <<ArgMax(row) - 1>>

\* A file is whole if an array of rows of each of its splits comes with their targets.
Whole(f) ==
  \A n \in DOMAIN f : \E m \in DOMAIN f :
    /\ f[n].of = f[m].of /\ Len(f[n].rows) = Len(f[m].rows)
    /\ <<n, m>> \in {<<"x", "y">>, <<"train_x", "train_y">>, <<"val_x", "val_y">>, <<"test_x", "test_y">>}
                    \cup {<<"y", "x">>, <<"train_y", "train_x">>, <<"val_y", "val_x">>, <<"test_y", "test_x">>}

\* Metrics of a whole file are of rows with their own targets, as the file has them, each once,
\* the first and the last among them.
MetricsOfRows ==
  Whole(request.files) =>
    LET s == metrics.samples
    IN /\ \A i \in DOMAIN s :
            /\ s[i].x = s[i].y
            /\ s[i].target = Meaning(Original(s[i].y[1]).rows[s[i].y[2]])
            /\ \A j \in DOMAIN s : s[i].x = s[j].x => i = j
       /\ s # <<>> =>
            /\ s[1].x[2] = 1
            /\ s[Len(s)].x[2] = Len(ValidationArrays(data).x.rows)

\* The last report tells of all the validation, by the last model; those before it of a model
\* that is not older than the interval.
ReportsFresh ==
  /\ \A i \in DOMAIN events : events[i].phase = "state" =>
       events[i].metrics.epoch \in (events[i].epoch - Interval + 1)..events[i].epoch \ {0}
  /\ stage = "done" =>
       /\ metrics.epoch = request.epochs
       /\ Len(metrics.samples) = Len(ValidationArrays(data).x.rows)

\* What differs from what was asked is told; and a training that began fails only for targets
\* that do not fit what the network gives.
AsAsked ==
  LET asked == Extracted(request.train)
      told  == Cardinality({i \in DOMAIN events : events[i].phase = "warning"})
  IN /\ stage \in {"training", "trained", "done"} =>
          /\ config.loss = asked.loss
          /\ (config.optimizer = "sgd") = (asked.optimizer = "sgd") \/ told >= 1
          /\ config.rate = asked.rate \/ told = 2
     /\ stage = "failed" /\ Whole(request.files) /\ epoch > 0 =>
          ~Fits(data) \/ ~Fits(ValidationArrays(data))

LocalFitHolds == stage # "none" => MetricsOfRows /\ ReportsFresh /\ AsAsked
=============================================================================
