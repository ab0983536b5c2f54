----------------------------- MODULE MCRuntimes -----------------------------
(* What trains and runs models, for TLC: the jobs of MCJobEngine, or one of   *)
(* the parts below, chosen at the start. Their states are disjoint, so a run  *)
(* of one at a time shows all they do.                                        *)
EXTENDS MCJobEngine, Integers, Sequences

CONSTANTS
  Table, Base, BlockRows, Few, Many,            \* of DatasetCodec
  Ops, NextOps, MaxPeriod, HeadKeep, MaxStep,   \* of GradGates
  NetContext, NetOwner, Network, Data, Absence, MaxTrainings, MaxTrained,   \* of Sections
  MaxSends,                                     \* of LocalInference
  FitEpochs, FitBatches, ExportInterval,        \* of LocalTraining
  Bundle, Public, Fingerprint, RowsOf, NoArrays, NoBundle, MaxSyncs,   \* of OrtTrainer
  Token, Good, Slot, MaxEdits,                  \* of Dashboard
  FitRequest, PlainFit, Unset, MaxSamples       \* of LocalFit

\* What the builder has: columns of one length, texts without a zero, images of one size.
ASSUME TableAssumption ==
  /\ Base \in Nat \ {0, 1} /\ BlockRows \in Nat \ {0} /\ Few \in Nat /\ Many \in Nat /\ <<>> \notin Table
  /\ \A d \in Table :
       /\ d.columns \in Seq({d.columns[c] : c \in DOMAIN d.columns}) /\ d.columns # <<>>
       /\ d.outputsFrom \in 0..Len(d.columns)
       /\ \A c \in DOMAIN d.columns :
            LET column == d.columns[c]
            IN /\ \/ column.dtype = "num" /\ column.min \in Int /\ column.max \in Int /\ column.cells \in Seq(Int)
                  \/ column.dtype = "float" /\ column.cells \in Seq(Int)
                  \/ column.dtype = "text" /\ column.cells \in Seq(Seq(1..Base - 1))
                  \/ /\ column.dtype = "image" /\ column.cells \in Seq(Seq(0..Base - 1) \ {<<>>})
                     /\ \A i, j \in DOMAIN column.cells : Len(column.cells[i]) = Len(column.cells[j])
               /\ Len(column.cells) = Len(d.columns[1].cells)

\* The operations of a network give to later ones, up to the last.
ASSUME GatesAssumption ==
  /\ Ops \in Nat \ {0} /\ MaxStep \in Nat
  /\ \A i \in 1..Ops - 1 : NextOps[i] # {} /\ NextOps[i] \subseteq i + 1..Ops

\* A training runs every layer of its network once, so none is behind itself; contexts have users.
ASSUME NetworkAssumption ==
  /\ NetContext = DOMAIN NetOwner
  /\ \A g \in Network :
       /\ g.layer \in Seq({g.layer[n] : n \in DOMAIN g.layer})
       /\ \E rank \in [DOMAIN g.layer -> DOMAIN g.layer] :
            \A m, n \in DOMAIN g.layer : <<m, n>> \in g.edge => rank[m] < rank[n]

\* A training without a server has an epoch at least.
ASSUME FitAssumption == FitEpochs \in Nat \ {0} /\ FitBatches \in Nat /\ ExportInterval \in Nat \ {0}

\* What extract_training_bundle and TrainingConfig.from_manifest accept: an epoch at least, a
\* dataset of one of the forms, and arrays of numbers.
Arrays == [x : Int, ndim : Int, y : Seq(Seq(Int))]
ASSUME BundleAssumption ==
  /\ \A b \in Bundle \cup {NoBundle} :
       /\ b.epochs \in Nat \ {0} /\ b.type \in {"none", "uploaded", "public", "local"}
       /\ b.train \in Arrays /\ b.val \in Arrays
  /\ \A i \in DOMAIN Public : Public[i].train \in Arrays /\ Public[i].val \in Arrays
  /\ \A f \in Fingerprint : RowsOf[f] \in Arrays
  /\ "" \in Fingerprint /\ MaxSyncs \in Nat

\* The token field is empty at first, and "" is no job.
ASSUME PageAssumption == "" \in Token /\ "" \notin Job /\ MaxEdits \in Nat

\* What run_training reads: arrays of rows of one length, numbers for a vector; one array of
\* targets in each split; an epoch at least.
ASSUME RequestAssumption ==
  /\ MaxSamples \in Nat \ {0, 1}
  /\ \A r \in FitRequest :
       /\ r.epochs \in Nat \ {0} /\ r.classes \in Nat
       /\ r.kind = "godot_json" =>
            r.files = <<>> /\ r.table \in Seq(Seq(Seq(Int))) /\ r.outputsFrom \in Nat
       /\ \A n \in DOMAIN r.files :
            LET a == r.files[n]
            IN /\ a \in [of : {"train", "val", "test"}, ndim : Nat \ {0}, rows : Seq(Seq(Int))]
               /\ \A i, j \in DOMAIN a.rows :
                    Len(a.rows[i]) = IF a.ndim = 1 THEN 1 ELSE Len(a.rows[j])
               /\ \A m \in DOMAIN r.files :
                    {n, m} \subseteq {"y", "train_y", "val_y", "test_y"} /\ r.files[m].of = a.of => n = m

\* The longest period is a power of two: 1 is its only odd divisor.
ASSUME PeriodAssumption ==
  /\ MaxPeriod \in Nat \ {0}
  /\ \A p \in 1..MaxPeriod : MaxPeriod % p = 0 /\ p # 1 => p % 2 = 0

VARIABLES
  part,    \* the component that runs
  dDataset, dPacket, dRows, dDecoded,
  gGraph, gPage, gReady, gExecuted, gInbox, gSent, gOut, gAnswer,
  sStage, sGraph, sStamp, sModules, sOptim, sPlans, sAccuracy, sEpochs, sRam, sBins, sAt, sTried,
  sLongest, sTrainings,
  tTrainable, tAccurate, tStep, tPeriod, tGates, tPhase, tSince,
  iChannel, iOpener, iAsked, iPolled, iGiven, iRequest, iResponse, iStop, iProcess, iLastSeq,
  iJob, iSends, iLatest, iShown,
  lPc, lEpoch, lBatch, lKilled, lProgress, lDir, lStop, lBuilder, lLines, lArtifact, lModel,
  lManifest,
  kBundle, kHeld, kSynced, kSyncs, kOpen, kAgreed, kStop, kStage, kData, kEpoch, kLeft, kSeen,
  kModel, kLines, kEvents, kSnapshot,
  pJobs, pLoop, pStops, pEdits, pToken, pRefresh, pCommand, pShown,
  mGraph, mTodo, mNodes, mShape, mRoute, mBox, mStage, mOutput, mFile,
  fRequest, fStage, fData, fConfig, fEpoch, fMetrics, fEvents

dVars == <<dDataset, dPacket, dRows, dDecoded>>
gVars == <<gGraph, gPage, gReady, gExecuted, gInbox, gSent, gOut, gAnswer>>
sVars == <<sStage, sGraph, sStamp, sModules, sOptim, sPlans, sAccuracy, sEpochs, sRam, sBins,
           sAt, sTried, sLongest, sTrainings>>
tVars == <<tTrainable, tAccurate, tStep, tPeriod, tGates, tPhase, tSince>>
iVars == <<iChannel, iOpener, iAsked, iPolled, iGiven, iRequest, iResponse, iStop, iProcess,
           iLastSeq, iJob, iSends, iLatest, iShown>>
lVars == <<lPc, lEpoch, lBatch, lKilled, lProgress, lDir, lStop, lBuilder, lLines, lArtifact,
           lModel, lManifest>>
kVars == <<kBundle, kHeld, kSynced, kSyncs, kOpen, kAgreed, kStop, kStage, kData, kEpoch, kLeft,
           kSeen, kModel, kLines, kEvents, kSnapshot>>
pVars == <<pJobs, pLoop, pStops, pEdits, pToken, pRefresh, pCommand, pShown>>
mVars == <<mGraph, mTodo, mNodes, mShape, mRoute, mBox, mStage, mOutput, mFile>>
fVars == <<fRequest, fStage, fData, fConfig, fEpoch, fMetrics, fEvents>>
own == <<dVars, gVars, sVars, tVars, iVars, lVars, kVars, pVars, mVars, fVars>>

Part == {"jobs", "codec", "graphs", "sections", "gates", "inference", "training", "trainer", "page",
         "compiler", "fit"}

\* All columns of the shapes that the codec treats differently, of up to eight rows.
Cells(S, n) == UNION {[1..k -> S] : k \in 1..n}
Col(dtype, min, max, cells) == [dtype |-> dtype, min |-> min, max |-> max, cells |-> cells]
Sheet(columns, n) == [columns |-> columns, outputsFrom |-> n]
Halves(s, n) == [i \in DOMAIN s |-> (i * n) % 5]

Datasets ==
  {Sheet(<<Col("num", m[1], m[2], s)>>, 1) :
     m \in {<<0, 1>>, <<-1, 1>>, <<-2, 2>>}, s \in Cells({-1, 0, 2}, 5)}
  \cup {Sheet(<<Col("num", 0, 17, s)>>, 0) : s \in Cells({0, 15, 17}, 2)}
  \cup {Sheet(<<Col("num", 0, 3, s)>>, 0) : s \in Cells({0, 3}, 8)}
  \cup {Sheet(<<Col("text", 0, 0, s)>>, 1) : s \in Cells({<<>>, <<1>>, <<1, 1>>}, 5)}
  \cup {Sheet(<<Col("image", 0, 0, s), Col("float", 0, 0, Halves(s, n))>>, 1) :
          s \in Cells({<<0, 0>>, <<0, 1>>}, 5), n \in 0..2}
  \cup {Sheet(<<Col("image", 0, 0, [i \in DOMAIN s |-> <<s[i], 1>>]),
                Col("num", 0, 2, s), Col("float", 0, 0, s)>>, 2) : s \in Cells({0, 1}, 5)}
  \cup {Sheet(<<Col("num", 0, 2, s), Col("float", 0, 0, [i \in DOMAIN s |-> 3 - s[i]])>>, 1) :
          s \in Cells({0, 1}, 5)}

D == INSTANCE DatasetCodec WITH
  Dataset <- Table,
  dataset <- dDataset, packet <- dPacket, rows <- dRows, decoded <- dDecoded

\* Networks of the builder: chains of two layers, forks that are joined, ports with two edges.
N(type, act, page, emit) ==
  [type |-> type, act |-> act, page |-> page, emit |-> emit, order |-> <<1, 2>>]
To(n, p) == {[to |-> n, port |-> p]}
Net(nodes, head, loss, batch) ==
  [node |-> nodes, head |-> head, loss |-> loss, rank |-> batch[1], shaped |-> batch[2]]
Layers == {<<"dense", "relu">>, <<"dense", "gelu">>, <<"conv2d", "tanh">>,
           <<"maxpool2d", "none">>, <<"Flatten", "none">>, <<"Reshape2D", "none">>}
BatchSizes == {<<2, FALSE>>, <<2, TRUE>>, <<3, FALSE>>}

Chains ==
  {Net(<<N("InputNode", "none", 0, To(2, 1)), N(a[1], a[2], 1, To(3, 1)),
         N(b[1], b[2], 2, To(4, 1)), N("SoftmaxNode", "none", 3, To(5, 1)),
         N("ClassifierNode", "none", 4, {})>>, 4, loss, batch) :
     a \in Layers, b \in Layers, loss \in {"mse", "cross_entropy"}, batch \in BatchSizes}
Joins ==
  {Net(<<N("InputNode", "none", 0, To(2, 1) \cup To(3, 1)), N(a[1], a[2], 1, To(4, 1)),
         N(b[1], b[2], 1, To(4, 2)),
         [N("Concat", "none", 2, To(5, 1)) EXCEPT !.order = order],
         N(c[1], "none", 3, {})>>, c[2], "mse", batch) :
     a \in Layers, b \in Layers, order \in {<<1, 2>>, <<2, 1>>},
     c \in {<<"ClassifierNode", 4>>, <<"dense", 4>>, <<"dense", 5>>}, batch \in BatchSizes}
Sums ==
  {Net(<<N("InputNode", "none", 0, To(2, 1) \cup To(3, 1)), N("dense", a, 1, To(4, 1)),
         N("dense", "none", 1, To(4, 1)), N(c, "none", 2, To(5, 1)),
         N("ClassifierNode", "none", 3, {})>>, 4, "mse", <<2, FALSE>>) :
     a \in {"relu", "gelu"}, c \in {"dense", "SoftmaxNode"}}

G == INSTANCE GraphRun WITH
  Graph <- Chains \cup Joins \cup Sums,
  graph <- gGraph, page <- gPage, ready <- gReady, executed <- gExecuted, inbox <- gInbox,
  sent <- gSent, out <- gOut, answer <- gAnswer

\* Networks that share prefixes: one without a bias, a longer one, and a fork.
L(kind, shape, bias) == [kind |-> kind, shape |-> shape, bias |-> bias]
Conv == L("conv2d", 1, TRUE)
SectionGraphs ==
  {[layer |-> <<Conv, L("dense", 2, b)>>, edge |-> {<<1, 2>>}] : b \in BOOLEAN}
  \cup {[layer |-> <<Conv, L("dense", 2, TRUE), L("dense", 3, TRUE)>>, edge |-> {<<1, 2>>, <<2, 3>>}],
        [layer |-> <<Conv, L("dense", 2, TRUE), L("dense", 2, TRUE), L("dense", 3, TRUE)>>,
         edge |-> {<<1, 2>>, <<1, 3>>, <<3, 4>>}]}

MCNetOwner == [c1 |-> "ann", c2 |-> "bob"]
S == INSTANCE Sections WITH
  Context <- NetContext, Owner <- NetOwner, Graph <- Network, Dataset <- Data, Unknown <- Absence,
  MaxEpochs <- MaxTrained,
  stage <- sStage, graph <- sGraph, stamp <- sStamp, modules <- sModules,
  optim <- sOptim, plans <- sPlans,
  accuracy <- sAccuracy, epochs <- sEpochs, ram <- sRam, bins <- sBins,
  at <- sAt, tried <- sTried, longest <- sLongest, trainings <- sTrainings

\* A network that forks after its first operation and joins before its last.
MCNextOps == <<{2, 3}, {4}, {4}, {}>>
T == INSTANCE GradGates WITH
  Succ <- NextOps,
  trainable <- tTrainable, accurate <- tAccurate, step <- tStep, period <- tPeriod,
  gates <- tGates, phase <- tPhase, since <- tSince

\* A channel and a training of a computer of one's own.
I == INSTANCE LocalInference WITH
  channel <- iChannel, opener <- iOpener, asked <- iAsked, polled <- iPolled, given <- iGiven,
  request <- iRequest, response <- iResponse, stop <- iStop, process <- iProcess,
  lastSeq <- iLastSeq, job <- iJob, sends <- iSends, latest <- iLatest, shown <- iShown

O == INSTANCE LocalTraining WITH
  Epochs <- FitEpochs, Batches <- FitBatches,
  pc <- lPc, epoch <- lEpoch, batch <- lBatch, killed <- lKilled, progress <- lProgress,
  dir <- lDir, stop <- lStop, builder <- lBuilder, lines <- lLines, artifact <- lArtifact,
  model <- lModel, manifest <- lManifest

\* Bundles of two rows and more with data of every origin, labels of every form and of every
\* class, and names that do not fit.
Rows(n, ndim, y) == [x |-> n, ndim |-> ndim, y |-> y]
Absent == Rows(-1, 1, <<>>)
Labelled == Rows(3, 1, <<<<0>>, <<1>>, <<1>>>>)
Job1 ==
  [type |-> "none", id |-> "", fp |-> "", train |-> Labelled, val |-> Absent,
   loss |-> "cross_entropy", optimizer |-> "adamw", trainable |-> {"w"}, initializers |-> {"w", "b"},
   names |-> {"out"}, outputs |-> {"out"}, declared |-> 2, classes |-> 2, epochs |-> 2, batch |-> 2]
Targeted ==
  {Rows(3, 1, <<<<a>>, <<1>>, <<0>>>>) : a \in -1..2}
  \cup {Rows(2, 2, <<v, <<0, 1, 0>>>>) : v \in {<<0, 0, 1>>, <<1, 1, 0>>}}
  \cup {Rows(2, 2, <<<<1>>, <<0>>>>), Rows(3, 1, <<<<0>>, <<1>>>>), Rows(0, 1, <<>>)}
Validated == {Absent, Rows(2, 1, <<<<1>>>>)} \cup {Rows(1, 1, <<<<a>>>>) : a \in -1..2}
Bundles ==
  {[Job1 EXCEPT !.train = t, !.val = v, !.loss = l, !.declared = d] :
     t \in Targeted, v \in Validated, l \in {"mse", "cross_entropy"}, d \in {0, 2}}
  \cup {[Job1 EXCEPT !.train = t, !.batch = 4] : t \in Targeted}
  \cup {[Job1 EXCEPT !.type = r[1], !.id = r[2], !.fp = r[3], !.train = t] :
          r \in {<<"uploaded", "", "">>, <<"public", "mnist", "">>, <<"public", "odd", "f1">>,
                 <<"public", "gone", "">>, <<"local", "mine", "f1">>},
          t \in {Labelled, Absent}}
  \cup {[Job1 EXCEPT !.loss = l, !.optimizer = o, !.trainable = w, !.names = n] :
          l \in {"mse", "hinge"}, o \in {"sgd", "lion"}, w \in {{"b"}, {"b", "c"}},
          n \in {{"out"}, {"in"}}}

MCPublic ==
  [mnist |-> [train |-> Labelled, val |-> Rows(1, 2, <<<<0, 1>>>>)],
   odd |-> [train |-> Absent, val |-> Absent]]
MCRowsOf ==
  [f \in {"", "empty"} |-> Absent]
  @@ [f1 |-> Rows(2, 2, <<<<0>>, <<1>>>>), f2 |-> Rows(3, 2, <<<<1>>, <<1>>, <<0>>>>)]

K == INSTANCE OrtTrainer WITH
  bundle <- kBundle, held <- kHeld, synced <- kSynced, syncs <- kSyncs, open <- kOpen,
  agreed <- kAgreed, stop <- kStop, stage <- kStage, data <- kData, epoch <- kEpoch, left <- kLeft, seen <- kSeen,
  model <- kModel, lines <- kLines, events <- kEvents, snapshot <- kSnapshot

\* The page of the runtime: one job, and two refreshes at once.
P == INSTANCE Dashboard WITH
  jobs <- pJobs, loop <- pLoop, stops <- pStops, edits <- pEdits, token <- pToken,
  refresh <- pRefresh, command <- pCommand, shown <- pShown

\* Networks that are compiled without a server: chains of two layers, forks that are joined.
Block(type) ==
  [type |-> type, act |-> "none", size |-> 2, kernel |-> 2, stride |-> 1, keep |-> FALSE,
   rows |-> 0, cols |-> 0, order |-> <<>>, role |-> ""]
Wire(n, out, m, p) == [from |-> n, out |-> out, to |-> m, port |-> p]
Feed(n) == [Block("InputNode") EXCEPT !.size = n]
Image == [Block("InputNode") EXCEPT !.rows = 4, !.cols = 4]
Strided == [Block("conv2d") EXCEPT !.keep = TRUE, !.stride = 2]
Seconds == {[Block("dense") EXCEPT !.act = "relu"], Block("conv2d"), Block("maxpool2d"),
            [Block("Reshape2D") EXCEPT !.rows = 2]}
Firsts == Seconds \cup {[Block("dense") EXCEPT !.act = "gelu"], Strided, Block("dropout"),
                       Block("Flatten"), Block("Reshape2D"), Block("unknown")}
Ends == {<<[Block("SoftmaxNode") EXCEPT !.role = "output"], "mse">>,
         <<[Block("SoftmaxNode") EXCEPT !.role = "output"], "cross_entropy">>,
         <<Block("SoftmaxNode"), "cross_entropy">>, <<Block("Flatten"), "cross_entropy">>}
Straight ==
  {[node |-> <<i, a, b, e[1], Block("ClassifierNode")>>, loss |-> e[2],
    pages |-> <<<<1>>, <<2>>, <<3>>, <<4>>, <<5>>>>,
    conns |-> <<Wire(1, "input_out", 2, "layer_in"), Wire(2, "layer_out", 3, "layer_in"),
                Wire(3, "layer_out", 4, "model_in"), Wire(4, "layer_out", 5, "model_in")>>] :
     i \in {Feed(4), Feed(9), Image}, a \in Firsts, b \in Seconds, e \in Ends}
Forked ==
  {[node |-> <<i, a, b, c, Block("dense"), Block("TrainInput")>>, pages |-> p, loss |-> "mse",
    conns |-> <<Wire(1, "input_out", 3, "layer_in"), Wire(1, "input_out", 2, "layer_in"),
                Wire(2, "layer_out", 4, "b"), Wire(3, "layer_out", 4, "a"),
                Wire(4, "layer_out", 5, "layer_in"), Wire(5, "layer_out", 6, "model_in")>>] :
     i \in {Feed(4), Image}, a \in Seconds \cup {Block("Flatten")}, b \in Seconds,
     c \in {Block("Concat"), [Block("Concat") EXCEPT !.order = <<"b", "a">>], Block("Add")},
     p \in {<<>>, <<<<1>>, <<2, 3>>, <<4>>, <<5>>, <<6>>>>}}

M == INSTANCE LocalModel WITH
  Graph <- Straight \cup Forked, Core <- {<<"x", "M">>, <<"x">>}, Magic <- "M",
  graph <- mGraph, todo <- mTodo, nodes <- mNodes, shape <- mShape, route <- mRoute, box <- mBox,
  stage <- mStage, output <- mOutput, file <- mFile

\* Datasets in every form a file has, whole or not; those of the builder with short rows and
\* uneven ones.
Array(of, ndim, rows) == [of |-> of, ndim |-> ndim, rows |-> rows]
Inputs(of, n) == Array(of, 2, [i \in 1..n |-> <<i, 0>>])
Answers(of, n) ==
  {Array(of, 1, [i \in 1..n |-> <<IF i = 1 THEN a ELSE i % 2>>]) : a \in -1..2}
  \cup {Array(of, 2, [i \in 1..n |-> <<i % 2>>]),
        Array(of, 2, [i \in 1..n |-> IF i = 1 THEN <<1, 1>> ELSE <<0, 1>>])}
NotGiven == -1
Setting(l, o, rate) ==
  <<[type |-> "RunModel", losses |-> <<l>>], [type |-> "TrainInput", optimizer |-> o, rate |-> rate]>>
Settings == {Setting(l, "adam", NotGiven) : l \in {"mse", "cross_entropy"}}
Plain ==
  [kind |-> "npz", files |-> <<>>, table |-> <<>>, outputsFrom |-> 1, train |-> <<>>, classes |-> 2,
   epochs |-> 5, sgd |-> FALSE]
TableRows == {<<<<1, 2>>, <<1>>>>, <<<<2, 1>>, <<0>>>>, <<<<0, 0>>>>, <<<<0, 1>>, <<0>>, <<1>>>>}
Fits ==
  {[Plain EXCEPT !.train = t, !.sgd = s, !.epochs = e,
      !.files = [x |-> Inputs("train", 2), y |-> Array("train", 1, <<<<0>>, <<1>>>>),
                 val_x |-> Inputs("val", 4), val_y |-> Array("val", 1, <<<<0>>, <<1>>, <<0>>, <<1>>>>)]] :
     t \in {<<>>} \cup {Setting(l, o, rate) : l \in {"mse", "hinge"}, o \in {"adam", "sgd", "lion"},
                                            rate \in {NotGiven, 1, 10}},
     s \in BOOLEAN, e \in {1, 5}}
  \cup {[Plain EXCEPT !.train = t,
           !.files = [train_x |-> Inputs("train", 3), train_y |-> y,
                      test_x |-> Inputs("test", 4), test_y |-> z]] :
          t \in Settings, y \in Answers("train", 3), z \in Answers("test", 4)}
  \cup {[Plain EXCEPT !.train = t, !.kind = k,
           !.files = [train_x |-> Inputs("train", 5), train_y |-> y]] :
          t \in Settings, k \in {"npz", "npy", "zip"}, y \in Answers("train", 5) \cup Answers("train", 4)}
  \cup {[Plain EXCEPT !.train = t,
           !.files = [x |-> Inputs("train", 2), y |-> Array("train", 1, <<<<0>>, <<1>>>>),
                      val_x |-> Inputs("val", n), test_x |-> Inputs("test", 4), test_y |-> z]] :
          t \in Settings, n \in {1, 4}, z \in Answers("test", 4)}
  \cup {[Plain EXCEPT !.train = t, !.kind = "godot_json", !.table = rows, !.classes = c] :
          t \in Settings, c \in 1..2, rows \in Cells(TableRows, 3)}

F == INSTANCE LocalFit WITH
  Request <- FitRequest, NoRequest <- PlainFit, Interval <- ExportInterval,
  request <- fRequest, stage <- fStage, data <- fData, config <- fConfig, epoch <- fEpoch,
  metrics <- fMetrics, events <- fEvents

RuntimesInit ==
  /\ part \in Part
  /\ Init /\ D!Init /\ G!Init /\ S!Init /\ T!Init /\ I!Init /\ O!Init /\ K!Init /\ P!Init
  /\ M!Init /\ F!Init

RuntimesNext ==
  /\ part' = part
  /\ \/ part = "jobs" /\ Next
        /\ UNCHANGED own
     \/ part = "codec" /\ D!Next
        /\ UNCHANGED <<vars, gVars, sVars, tVars, iVars, lVars, kVars, pVars, mVars, fVars>>
     \/ part = "graphs" /\ G!Next
        /\ UNCHANGED <<vars, dVars, sVars, tVars, iVars, lVars, kVars, pVars, mVars, fVars>>
     \/ part = "sections" /\ S!Next
        /\ UNCHANGED <<vars, dVars, gVars, tVars, iVars, lVars, kVars, pVars, mVars, fVars>>
     \/ part = "gates" /\ T!Next
        /\ UNCHANGED <<vars, dVars, gVars, sVars, iVars, lVars, kVars, pVars, mVars, fVars>>
     \/ part = "inference" /\ I!Next
        /\ UNCHANGED <<vars, dVars, gVars, sVars, tVars, lVars, kVars, pVars, mVars, fVars>>
     \/ part = "training" /\ O!Next
        /\ UNCHANGED <<vars, dVars, gVars, sVars, tVars, iVars, kVars, pVars, mVars, fVars>>
     \/ part = "trainer" /\ K!Next
        /\ UNCHANGED <<vars, dVars, gVars, sVars, tVars, iVars, lVars, pVars, mVars, fVars>>
     \/ part = "page" /\ P!Next
        /\ UNCHANGED <<vars, dVars, gVars, sVars, tVars, iVars, lVars, kVars, mVars, fVars>>
     \/ part = "compiler" /\ M!Next
        /\ UNCHANGED <<vars, dVars, gVars, sVars, tVars, iVars, lVars, kVars, pVars, fVars>>
     \/ part = "fit" /\ F!Next
        /\ UNCHANGED <<vars, dVars, gVars, sVars, tVars, iVars, lVars, kVars, pVars, mVars>>

RuntimesSpec == RuntimesInit /\ [][RuntimesNext]_<<part, vars, own>>

\* The trainings of two users on the server alone.
SectionsSpec == RuntimesInit /\ part = "sections" /\ [][RuntimesNext]_<<part, vars, own>>

-----------------------------------------------------------------------------
\* The states of every component have their types.
RuntimesTypeOK ==
  /\ D!CodecTypeOK /\ G!GraphRunTypeOK /\ S!SectionsTypeOK /\ T!GradGatesTypeOK
  /\ I!InferenceTypeOK /\ O!TrainingTypeOK /\ K!TrainerTypeOK
  /\ P!DashboardTypeOK /\ M!LocalModelTypeOK
  /\ F!LocalFitTypeOK

\* The codec: what was packed is what is read.
RoundTrip == D!RoundTrip

\* Networks: all executors make the same of a batch, and one that was compiled without a server
\* and packed answers what was drawn.
ExecutorsAgree == G!ExecutorsAgree /\ M!LocalModelHolds

\* Gates: every operation learns at least every few steps.
EveryOpLearns == T!EveryOpLearns

\* Sections: a training loads the longest chains that were registered, and they are kept.
SectionsHold == S!SectionsHold

\* model_core.py:1211: "if weights were injected, optimizers must reset".
OptimizersReset == S!OptimizersReset

\* Without a server: no request is forgotten and the newest values are shown.
InferenceHolds == I!InferenceHolds

\* A training without a server ends once, and with a whole model if it was not stopped; one of
\* a job trains on every row of the data it names and leaves what its events told; the page
\* of the jobs is right when nothing changed since it asked. What one without a server reports
\* is of rows with their own targets, and of the last model in the end.
TrainingHolds == O!TrainingHolds /\ K!TrainerHolds /\ P!PageHolds /\ F!LocalFitHolds
=============================================================================
