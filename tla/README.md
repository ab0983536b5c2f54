# Verification of Neuralese

TLA+ modules of the parts of Neuralese whose correctness depends on the order
of events, on files and documents that outlive a process, or on two programs
agreeing about a format: several clients, an event loop that suspends, worker
threads, crashes. TLC checks them on small instances, TLAPS proves the results
listed below for every instance. Definitions are named after the code;
`PROJECT.json` maps each of them to its lines, and lists the runs, the mutants
that show each property can fail, the hazards and the theorems.

Paths below are relative to `src/`; `onprem_runtime/` stands for
`runtime/onnx-training/code-snapshot/onprem_runtime/`, `neuralese_local/` for
`apps/builder/local_runtime/neuralese_local/`.

## 1. The system

Neuralese is a builder of neural networks (a Godot application), three Python
services it may talk to, a runtime that needs none of them, and a few smaller
programs.

| Part | State it keeps | Operations | Hard behaviour |
|---|---|---|---|
| On-prem training jobs: `onprem_runtime/core/{engine,jobs,ort_trainer,bundle,snapshot,datasets}.py`, `api/app.py`, `dashboard/app.js` | job registry, per-job event queue, workspaces on disk | submit, run, stop, cleanup, subscribe, watch | the runner holds the event loop; stops and cleanups run in threads beside it; workspaces survive a restart, the registry does not |
| On-prem dataset sync: `core/dataset_sync.py`, `api/dataset_routes.py` | one entry of hashes and blocks per dataset, its JSON file | announce a version, send blocks, load | sessions overlap on one entry; refused frames and failing writes leave half of it; training reads it between two steps |
| API worker pool: `services/api/worker/{worker_pebble,trio_tasks}.py` | thread pool, and by job: inbox, progress queue, result, events, kill hook | submit, send, stop, kill, wait | dictionaries shared by threads and loop; a killed job counts as done while its thread works |
| API sessions: `services/api/routes/trio_bp.py`, `common/{stream_progressor,trio_exec,context_cache}.py` | loaded models ("contexts"), busy marks, datasets | load a dataset, train, infer, export over WebSockets | check, await, mark; a stop that blocks the event loop; clients that leave |
| API networks: `services/api/nns` | tensors, sections of trained layers | run, train, match, register | several executors of one graph; gates on gradients; weights shared between users |
| API chat, classrooms, projects, transcription: `services/api/routes` | documents, a queue of audio | talk, join, save, transcribe | a copy of the chat kept over a run of the model; a cache beside the store; a timer that gives up |
| Backend assistant: `services/backend/axon` | chats, request, build and token logs | talk, ask once, build a graph, summarise one | whole-document write-back over awaits; a limiter asked and told in separate calls; histories with open calls |
| Backend billing: `services/backend/billing` | licenses, events, entitlements | verify, ping, status | repeated and late pings, crash between two writes |
| Backend sign-in and users: `services/backend/{auth,users}` | login attempts, profiles, names | create, wait, complete, cancel, claim a name | device, two pages and clock race; a claim in three writes |
| Backend projects, classrooms, storage: `services/backend/{projects,classrooms,storage}` | documents over RocksDB | save, load, delete, join, watch a class | a tree of documents in one flat table; streams that take snapshots late |
| Builder: `apps/builder/scripts` | scenes, sockets, local jobs | the client of all of this | polls files, reads progress by line |
| Fully local runtime: `neuralese_local/` | request, response, progress, model and stop files | compile, train, infer, export | two processes that meet in files; shapes and formats kept by hand |
| Installer: `installer/setup/src-tauri/src/main.rs` | a folder, its marker, manifest and uninstaller | install, upgrade, uninstall | the window may be closed at any file |
| Block editor, landing site, research, `dist` | - | - | - |

How they interact. The builder sends a training bundle to the on-prem runtime
over HTTP, follows it on a WebSocket (events are queued per job, `job.queue`)
and synchronises datasets on another. It holds one WebSocket per training,
inference or talk with the API and backend services, and starts Python
processes for what it does alone. Inside a service handlers share module-level
dictionaries with the worker threads; a thread reaches the loop only through
queues and events. The services share no state but the documents of an account.

## 2. Order of work

| Order | Modules | Abstract specification | Status |
|---|---|---|---|
| 1 | `JobEngine`, `JobEngine_proof` | `JobLifecycle` | checked; every invariant and the refinement proved |
| 2 | `DatasetSync`, in `Documents_proof` | - | checked; every invariant that holds proved |
| 3 | `WorkerPool`, on it `TrioServer`, `TrioServer_proof` | - | checked; four invariants proved |
| 4 | `AxonTalk`, `ModelRun` in `Assistant`, `GraphSummary`; `Assistant_proof` | `RunPromise` | checked; all but `AllShown` proved |
| 5 | `Billing`, `SignIn`, `Classrooms`, `ProjectStore`; `Documents_proof`, `Accounts_proof` | - | checked; `BillingHolds`, `SignInHolds`, `ClassroomsHold`, `ProjectsHold` proved |
| 6 | `LocalInference`, `LocalTraining`, `LocalModel`, `LocalFit`, `DatasetCodec`, `Installer`; `Runtimes_proof`, `Codec_proof` | - | checked; `TrainingHolds` and `RoundTrip` proved, `InferenceHolds` (`Sections_proof`) and `InstallerHolds` (`Accounts_proof`) too |
| 7 | `GraphRun`, `GradGates`, `Sections`, `Sections_proof` | - | checked; `SectionsHold` and `EveryOpLearns` proved |
| 8 | `ApiTalk`, `ApiProjects` on `DocStore`, `ApiClassrooms`, `AudioBatch`, `ApiDatasets` | - | checked; `ApiTalkHolds` (`Assistant_proof`) and `ApiHolds` (`Documents_proof`) proved |
| 9 | `OrtTrainer`, `Dashboard` | - | checked; proved with `TrainingHolds` |
| next | the types of the executors and the compiler proved; the incremental compression of `ds_obj_serialize.gd`; `ApiDatasets` inside the sessions of `TrioServer` | a log of questions and answers for `AxonTalk` | open |

`TrioServer` composes `WorkerPool` by `EXTENDS`: its handlers call the pool's
operators in their own steps, as the code does. `ApiProjects` uses `DocStore` in
the same way. `Assistant` puts the talks of `AxonTalk` beside the runs of
`ModelRun` and the talks of `ApiTalk`. `AxonTalk` and `ModelRun` meet in
`RunPromise`: `AxonTalk` assumes of a run what `RunPromise` says, and `ModelRun`
is checked, and proved, to implement it.

## 3. The modules

### On-prem runtime

`JobEngine`, `JobLifecycle`. One asyncio loop runs the async handlers and the
runners of all jobs. `emit` puts into an unbounded queue and the trainer calls
ONNX Runtime directly, so a runner never suspends between "running" and its
terminal event: `loop` is the job that holds the event loop, and an action of
another handler needs `loop = NoJob`. Synchronous endpoints (stop, cleanup) run
in threads, whose steps interleave with everything. A step of a thread is one
access to shared state: `cleanup_jobs` is `BeginCleanup`, `ExamineJob`,
`DropJob`, `BeginTrack`, `CheckDir`, `RemoveDir`, `EndCleanup`, with its
`KeyError` and `RuntimeError` ends (`raised`). `pc[j]` is the place of the job's
handler and then of its runner; `files[j]` which parts of its workspace exist;
`aged` which time stamps are older than the long retention. `Restart` forgets
everything but the files. `JobLifecycle` promises: a job is queued, runs alone,
ends in one of three ways, may then be forgotten, and only the death of the
process forgets another. `life` maps the engine to it.

`OrtTrainer` is the inside of `train`: which data a bundle gets (its own array,
a public file, a synchronised dataset), the checks on labels and shapes, one
batch after another in a drawn order, the model, metrics and archive it leaves.
Arrays are their rows. The library may raise wherever it is called. Until the job
has its turn, sessions go on changing the dataset it will load: `Announce` is what
`prepare_sync` does to header and blocks under the old fingerprint, `Apply` what
`apply_frames` fills in and the new fingerprint, `BreakOff` a session that ends
otherwise. `held` is the content of the entry, `synced` its fingerprint, and the
training loads the one if the bundle names the other.

`Dashboard` is the page with the endpoints it asks: a refresh asks for several
things, the jobs are read one by one in a thread while others change them, and
the answer leaves when the training has let go of the loop. The timer starts
the next refresh whether or not the last is over.

`DatasetSync` has one key of `DatasetSyncCache`. Both sides and all columns are
one sequence of positions. A block is a model value and its own SHA-256; `md5`
stands for every algorithm whose hashes the server does not recompute; a
fingerprint is the record it digests. `PrepareSync` is `prepare_sync`;
`ApplyFrames`, `RejectFrames` and `FailPersist` are the three ends of
`apply_frames`. The client sends from its dataset as it is then (`now`), which
may have been edited after the announcement (`run_manager.gd`, `ws_ds_frames`).
Each call is one step, because it never suspends; sessions interleave where they
await.

`DatasetCodec` follows one dataset through the three programs that know its
packed form: the Python engine beside the builder, the decoder of the on-prem
server and the Rust one of the API's worker. The arithmetic is the code's, over
bytes of `Base` values instead of 256, and blocks of few rows. What the code
builds up byte by byte (`Runs`, `Split`, `BigEndian`) is a recursive function.

### API service

`WorkerPool` has the dictionaries of `worker_pebble.py` and the steps of the
threads: a job is queued, then its thread is fresh, running, executing,
returned, stored, ended. `Kill`, `BeginStop` and `Submit` are called on the
event loop by `TrioServer`, whose sessions are admitted, stream, close, wait
and are over. `loop` names the session whose `wp.stop` waits on the loop:
nothing else is handled until the job's event is set.

`ApiDatasets` is what `TrioServer` abstracts to "a dataset is loaded": the loop
compares hashes and asks, the client sends frames from the dataset as it is
then, a thread writes a block and notes its hash in two steps, decodes, and the
training goes on. `ApiProjects` has an account's projects with their contexts in
the cache and in the store; `DocStore` is the tree of documents below it.

`ApiTalk` is the older assistant: the handler keeps its copy of the chat while
the job runs its rounds of tools, and stores it whole. `ApiClassrooms` and
`AudioBatch` have one action per handler and per step of a stream, a timer or a
job.

`GraphRun` runs one batch through a network three ways: page by page with boxes
(`graph_core`, `ready`, `inbox`, `sent`), in topological order
(`graph_variations`) and as one traced module (`fuse_core`, `fuse_op`). A value
is its rank and the term it is, so that two answers are equal if they are the
same function of the input. `GradGates` is the schedule by which operations of a
training that goes well are updated less often. `Sections` has partition,
matching and registering of chains of layers by trainings of several users. A
training matches on its thread, chain by chain and length by length (`Build`,
`Hit`, `Miss`), while the event loop registers the chains of others one by one,
in memory (`Remember`) and then, if two users have trained them well, in the
store (`Persist`): the registration of a context is not interrupted on the loop
(`Registering`), but threads look between any two of its writes. The two lookups of
one length are one step, because what is stored has the same weights as what is
in memory. A prefix may thus be loaded though more of the chain was registered
since its full length was looked up; `longest` remembers what there was when the
matching of a chain began. A restart, which keeps only the store, is not modelled.
Weights are the user who trained them. A layer that lacks the bias of what is
loaded, or has one more, has taken the weight when `load_state_dict` fails.

### Backend service

`AxonTalk`: `ws_talk` reads the chat document when it opens and writes its own
copy back after each change; between its steps are awaits. The model runs in a
thread, and its tool call asks the limiter (`CheckBuild`) and tells it
(`RecordBuild`) in two locked calls; `raced` remembers how many threads have been
between the two at once, of each account and of all. `CutChat` and `ClearChat` are what saving a
project and the history endpoint do to the same document. `clock` is
`time.time()` in ticks; the window lengths and caps are constants. `ModelRun` is
the thread: rounds of a provider's stream, calls of tools, errors, the lock
that paces calls, the flood guard, the stop. `GraphSummary` writes the text of a
network, chain by chain, and lists the first `MaxOther` of the nodes that no chain
reaches; it has recursive operators and is only checked.

`Billing`, `SignIn`, `Classrooms` and `ProjectStore` take one step per write of a
document, and a restart may come between any two (`todo` holds the writes a
handler has left). `SignIn` has the device that polls, two browser pages and the
clock, and the claim of a user name in three writes. `Classrooms` has the stream
of a class, which subscribes, sends a snapshot, and takes later ones when it
forwards a frame. `ProjectStore` has the flat table under the tree: a key is a
sequence of pieces, so that the id of one project can begin that of another, and
`Order` is the order in which the store walks its keys.

### Fully local runtime and builder

`LocalInference`: builder and process exchange numbered requests and answers
through one file each; blocks send as values change, a script runs and waits.
`LocalTraining`: the directory of a training, the lines of its progress, the
stop file, the model beside its checkpoint, the builder that reads, leaves,
drops the block or dies; a batch, a copy, an evaluation or a write may raise
(`Raise`). `LocalModel`: the compiler node by node with the shapes
it keeps by itself, the softmax taken out for the loss and put back on export,
and the runner that finds its model in its own file. `LocalFit`: how a dataset
file becomes rows and targets, which optimizer and loss are used, on what the
metrics are computed.

### Installer

`Installer` runs a version of the installer on a folder that may hold the
user's files or an earlier installation, file by file, with a first replacement
by an empty file in every write; closing the window stops it anywhere. The
uninstaller is the script that the installer wrote; it tries one directory after
the other (`rest`). The installer sorts them by the length of their names, of
which the model keeps that each comes before those it is in (`Listings`).

## 4. The runs

| Run | Instance | Distinct states | Result |
|---|---|---|---|
| `job_registry` | 2 jobs, stops, 1 cleanup with long retention, 1 restart | 2.6 M | types, one running, streams, workspaces, snapshots, refinement hold |
| `runtimes` | one of eleven parts: jobs with 2 cleanups, trainer, page, codec, graphs, gates, sections, inference, training, compiler, fit | 1.2 M | hold |
| `served` | fair: a training and an inference on 2 threads, or a job with a dashboard, a cleanup and a restart | 0.14 M | the loop is released, marks are dropped, jobs end and tell, stops are served |
| `job_cleanup_live` | 1 job, 1 cleanup, zero retention | stops | **counterexample**, finding 1 |
| `job_stop_delay` | 1 job, 3 epochs | stops | **counterexample**, finding 2 |
| `stored_documents` | one of ten parts: dataset sync (2 clients, 3 versions, failing writes, restart), billing, sign-in, classrooms, projects, installer, API projects, API classrooms, audio, API datasets | 1.09 M | hold |
| `sync_stale_load` | 1 client, 4 versions, 1 job | stops | **counterexample**, finding 3 |
| `trio_sessions` | synchronising training, 2 inferences, export, 2 threads, 1 context | 6.7 M | types, marks and requests hold |
| `trio_leaving` | 2 trainings, one client leaves | stops | **counterexample**, finding 4 |
| `trio_full_pool` | training and inference on 1 thread, fair | stops | **counterexample**, finding 5 |
| `assistant` | one of four parts: 2 talks and a single question over 3 ticks, 2 runs of a model, 1536 graphs, 2 talks of the API service | 1.4 M | hold |
| `sections_optimizer` | 2 users, 1 network, 3 trainings | stops | **counterexample**, finding 6 |

Runs of several parts. `MCRuntimes`, `MCServed`, `MCDocuments` and `MCAssistant`
each extend the MC module of one component (`MCAssistant` extends `Assistant`)
and instantiate the others with variables of their own. `MCRuntimes` and
`MCDocuments` leave open the constants of the parts about which something is
proved: the cfg gives their values, and the assumptions that a proof needs are
stated there (section 7). `part` is chosen at the
start and never changes, and a step is one of that part's. The components of a
run share no variable and, in the code, no state, so a behaviour of one at a
time shows everything it can do, and the size of the run is the sum of its parts
instead of their product. In `served` the fairness of a part owes nothing while
the other was chosen: none of its actions is enabled in its initial state,
except the cleanup, whose fairness is conditional on the part.

What the combined properties say:

* `CleanupComplete`: a cleanup that returns normally has removed what it owed.
* `TrainingHolds`: for a local training, one packet ends it, after those of its
  epochs in order, and a result is of the last epoch and a whole model
  (`OneEnd`, `ResultComplete`). For an on-prem one, every row is trained on
  equally often, no label without a class is used, file, events and archive tell
  the same; it runs under the fingerprint its bundle names, and on the rows of
  that version if the entry is as the last session that ended well left it
  (`EachRowOnce`, `LabelsInRange`, `ToldAlike`, `RowsAsNamed`). While a session is
  open, or after one was broken off, the old fingerprint may stand before other
  rows: that is finding 3. The page is right if nothing
  changed since it asked, and shows a Stop button only for a job that is over
  (`PageCurrent`, `StopShownLate`). Metrics are of rows with their own targets,
  the last report of the last model on all of the validation, and what differs
  from what was asked is told (`MetricsOfRows`, `ReportsFresh`, `AsAsked`).
* `ExecutorsAgree`: the executors of the service agree wherever every port has
  one edge, with the exceptions named in the property; the local compiler's
  shapes are the runtime's (`ShapesTrue`), and the exported and packed model
  answers what was drawn (`AnswersAsDrawn`).
* `RoundTrip`: both decoders give back the dataset, up to the stated loss.
* `EveryOpLearns`: an operation has a gradient at least every `MaxPeriod` steps.
* `InferenceHolds`: no request that is out is forgotten, when nothing is out the
  newest values are shown, a script that waited is not given an older answer
  (`NothingForgotten`, `LatestShown`, `AnswerNotStale`).
* `SectionsHold`: plans are the longest chains; what is kept has the weights of
  what is in memory, and except for the one chain that is about to be persisted
  the two tables agree, so that a thread that looks in between gets the same
  weights from either; when the matching of a chain ends, one section has been
  loaded, at least as long as the longest there was when it began
  (`PlansAreChains`, `StoreConsistent`, `Loads`).
* `AllReturned`: the event loop is released from every stop and no context stays
  marked. `EndsAndTells`: every job ends and its dashboard is told.
  `StopServed`: a stop is answered, and honoured when it came in time.
* `BillingHolds`: a key stays with its account, an entitlement has its license
  even after a crash between the two, a withdrawal whose ping was the first of
  its sale lasts (`LicenseStays`, `EntitlementBacked`, `WithdrawalLasts`).
* `SignInHolds`: a waiting device is woken, a canceled or expired attempt is
  never completed, a reserved name is borne by its account, and without a crash
  in a claim names are unique (`WaiterWoken`, `CancelFinal`, `ReservedIsBorne`,
  `NamesUnique`).
* `ClassroomsHold`: a stream that waits shows the class as it is, a class keeps
  its teacher, a config is backed by the class (`StreamCurrent`, `TeacherKept`,
  `ConfigBacked`).
* `ProjectsHold`: a listed project opens, a delete takes its own documents
  (`ListedLoads`, `DeletesOwn`).
* `InstallerHolds`: the user's files stay, what Windows lists can be removed, an
  interrupted installation can be repeated, no empty directory is left
  (`OwnFilesKept`, `ListedIsRemovable`, `Repeatable`, `NoEmptyLeft`).
* `ApiHolds`: a model is served the same from cache and store
  (`ServedAsStored`); streams follow their class and members are listed
  (`StreamsFollow`, `MembersListed`); whoever is answered gets the text of its
  own audio, and a request is stranded only after a launch met a running batch
  (`OwnAnswer`, `StrandedByLock`); trainings that follow each other are on the
  dataset as it was when it was asked for, and of overlapping ones every block is
  at a place some version had it (`HashesTrue`, `LoadedAsAsked`,
  `RowsOfTheirPlace`).
* `LimitsKept`: requests never exceed a cap. Builds, checked and recorded in two
  calls, exceed one by at most the threads that were between the two at once,
  less one, of the account for its caps and of all for the global one; an account
  that never had two there keeps the interval as well (`RequestsCapped`,
  `BuildsCapped`). The instance has two threads that can build: they meet the caps
  of an hour and of a day, and exceed them; the global cap is reached and never
  refuses a third.
* `ChatKept`: the chat of talks that do not overlap (`AnswersFollow`,
  `HistoryKept`, `GraphCurrent`, `CutStays`).
* `ProviderServed`: the permits to call a provider are apart by its interval, and
  no history is sent in which the call of a registered tool is open.
  `KeepsPromise`: a run implements `RunPromise`. `AllShown`: a summary shows
  every node that an input or a dataset reaches, the activations plugged into
  them, and of the others the first `MaxOther` in the order of their tags, all of
  them if there are no more. The code lists 20 and leaves the rest out; the
  instance lists one of up to three. `ApiTalkHolds`: an answer is behind its question, a stored
  hash is the stored graph's, rounds are bounded (`AnswersBehind`,
  `HashOfGraph`, `CallsBounded`).

Why the bounds are enough. Two jobs are the least that can run at once or be
confused by a cleanup, and two cleanups the least that race for one directory.
A third restart, client or cleanup repeats a step the model already has: none
of them keeps a memory of more than one other. Three versions of a dataset
contain a cut, a change of header, a change of algorithm and a permutation; a
fourth adds an extension. Four sessions on two threads fill the pool and leave
a job queued. One report gives a training that is before it, at it or after it, and
one request can be early, queued, executing or answered. Three messages retained
with four stored by two talks makes trimming happen, and caps of one or two are
met within three ticks, when entries also leave the windows. Two pings of a
sale are a first and a repeated one; two pages race for one attempt and two
names; two projects of which one id begins the other are all the prefix can
confuse. Two versions of a program share a file and have one of their own each,
in a directory of two levels. Columns of one to eight rows cross the borders of
a byte, of a run and of a block, whose sizes are scaled down with them.
Networks of five or six nodes have every pair of layers in a chain, a fork, a
join and a port with two edges. Four requests of an inference are one out, one
waiting, one overwritten and one late. Four epochs with an export every second
have a first, a skipped, a regular and a last one. Two sessions beside a waiting
job are one that ends well and one that does not, in either order. Every bound is a constant of
its module: `Epochs`, `MaxRestarts`, `Reports`, `MaxClock`, `MaxCrashes`,
`MaxPings`, `MaxSends`, `MaxTrainings`, `MaxStep`, `MaxSyncs`, `MaxChunks`.

Symmetry is used for jobs (`job_registry`), clients (`stored_documents`) and
talks and graphs (`assistant`), which no definition or initial value
distinguishes; never in a run with liveness. Deadlock is not checked where the
instance is finite and may simply be over: jobs, sessions and talks happen once.

Fairness. `JobEngine`: what was started goes on (weak fairness of handlers,
runners and threads). Strong fairness for a runner, a stop or a delivery that
waits for the loop: asyncio runs ready callbacks in FIFO order, so none is
passed over for ever. Submissions, stops, sessions and restarts are never owed.
`TrioServer`: threads run (weak fairness; the operating system schedules them),
the loop runs what is ready, and a client that uses inference leaves some day;
clients need not come, ask or stop. Nothing is assumed of the thread pool's
queue: it is modelled. The instance of `served` has no dataset phase before a
training; `trio_sessions` has it, for safety. All other properties are safety
properties and assume no fairness.

Assumption of `Age`: a long retention does not elapse between the few
instructions from making a workspace to registering its job.

## 5. Findings

1. *Cleanup against a live job* (`engine.py:102`). The README of the runtime
   says cleanup leaves queued and running jobs alone. With
   `max_age_seconds=0` a cleanup thread removes the directory of a job that is
   registered between its test and its removal.
2. *Stop during training* (`ort_trainer.py:104`). The plan says a stop takes
   effect after the current batch. Training holds the loop, so a stop that is
   sent meanwhile is not received before it is over.
3. *Stale fingerprint* (`dataset_sync.py:67`). From the announcement of a
   version to its frames, and for good if they are refused or never come, the
   entry carries the fingerprint of another content, and training that names it
   is served.
4. *Two trainings on one context* (`worker_pebble.py:299`). `kill` declares a
   job done while its thread trains on; the mark is dropped and the next
   training admitted.
5. *The loop waits for itself* (`stream_progressor.py:96`). A stop for a job
   queued behind inferences waits on the event loop for threads that only the
   event loop could release.
6. *Old moments on new weights* (`model_core.py:1213`). A comment says that
   optimizers are reset when weights were injected. What is popped is a key
   nothing uses; the optimizer of the old weights goes on.

## 6. What the properties leave out, and why

Each of these is what the code does, seen while it was modelled; the property
named says as much in its guard or comment.

*Sessions.* `MarkKept` fails when two trainings of a context are both admitted
because one synchronises a dataset between the check and the mark
(`trio_bp.py:159`), and `AllReturned` when a stored context does not load
(`trio_bp.py:173`). `LoadedAsAsked` holds for trainings that follow each other:
two that overlap on one dataset, or an edit between asking and sending, mix
blocks under hashes of others, silently. One column per side is modelled; with
several, a dataset is flattened and its rows are paired wrongly. A load that
failed lets `ws_train` go on with the dataset it knew.

*On-prem trainer.* Labels of a public or uploaded dataset that come as a column
become class 0 for every row; only synchronised ones are flattened. A bundle's
checksum is recorded and never compared. If the model does not say how many
classes it has, a negative label indexes another class. `train_acc` is the
accuracy of the validation.

*Networks.* The fused executor drops `gelu`, takes one edge of a port with
several, and does not flatten (`NoGelu`, `Single`, `Reshapes`). `Fused` looks at the
first edge of a port, where `fuse_core.py:70` walks the inputs; the property is
about ports with one edge. A snapshot for
the best weights keeps references to the weights themselves, so nothing is
restored. A section keeps the weights of whoever registered it first while its
accuracy is raised by others. A training whose full chain was looked up a moment
before it is registered loads a prefix, or nothing.

*Transcription.* A request that waits when a launch meets a running batch is
fetched only by a later request; after a failed job, requests wait for the
server's own time-out.

*API documents.* A project deleted as a whole keeps its contexts in the cache
(`deleted`). A student who joins a second class stays in the list of the first.
The talk's write-back undoes what others stored; the chat is cut to the last id
the client saved whenever it is fetched; a question asked once always fails on
an undefined name.

*Billing.* Events are remembered by the id of their sale, so a refund after a
remembered ping is a duplicate (`honoured`). A crash between the event and the
deactivation loses it.

*Sign-in.* A signed-out attempt can still be completed. A crash in a claim
leaves a profile whose name is not reserved (`crashes = 0`).

*Projects.* A delete without an id deletes all projects; a restart leaves parts
of a save or a delete (`torn`).

*Assistant.* The flood guard and the rounds of tools have the same bound, so the
guard ends a run before a request with an open call is sent; `HistoryAnswered`
relies on it. A call of a tool nobody registered is ignored and stays open. What
is apart are the permits of `_pace_call`: the lock is released before the provider
is called, and two calls may reach it closer than that. A 429 ends the loop after
a pause, it is not repeated. The builder for one fixed network
(`build_graph_digit_2_conv`) is merged into the ordinary one: granted in the same
way, it sends a text instead of running a second loop. A build that raced is
counted when it is recorded, so the caps are exceeded as `BuildsCapped` says. The
limiter is in memory: a restart, which is not modelled, forgets what was served.
A summary leaves out what is unreached beyond the first 20 nodes.

*Codec.* A column whose range is 2^32 and more is written in four bytes all the
same, cut to their bits: `Kept` promises nothing for what does not fit. The Rust decoder keeps the first block of a column of texts; no packet
of the builder gives an image its size, so the worker refuses them, and the
server refuses texts.

*Local inference.* The packet by which an idle process says it closes carries
the index of the last answer, which the builder drops as old: its channel stays
open, and later requests wait for ever; the same if the process dies. The
property is about a process that lives (`Live`). A script that did not wait
("hasty") may be given the answer to an older request.

*Local training.* The model is copied in place beside its checkpoint; an
inference that loads it meanwhile reads a part, and one that loads it after the
copy was broken off as well: `ResultComplete` is about the model a result names. A stopped training leaves a
partly trained model, a dropped block its directory; directories older than a
day are collected even in use. `val_x` may be paired with `test_y` when a file
has no other (`Whole`); wrong labels are noticed only when they are evaluated.

*Local compiler.* An unwired layer reads the network's input, nodes of a cycle
are left out, several inputs share one tensor, a dense layer on an image and a
window larger than its image are accepted and refused later (`Odd`). The softmax
of an output on another branch is put back on the last node, and that of a graph
without pages not at all (`Usual`).

*Installer.* Closing the window within the write of the marker leaves a folder
that is refused by both programs. An upgrade's manifest lists the new files
only. The two scripts of the uninstaller are one step of the model
(`WriteTools`), two writes in `main.rs:530`. The property is about a user who does not run both at once and creates no
file under a payload's name.

## 7. What is proved

TLAPS (SMT, Zenon, and LS4 for the temporal steps) checks every leaf. The
theorems are about the modules TLC runs, for every value of their constants
that the named assumptions allow; TLC evaluates these on its instances. They
say of constants what they are, and what the code ensures: a version list is
not empty, `NoJob`, `NoHash`, `NoFp`, `Free` and `None` are not members of what
they stand beside (`NoneAssumption`), there is a worker and an epoch
(`FitAssumption`, `BundleAssumption`; `train_task.py:62` takes the larger of one
and what was asked), a batch has room (`BatchAssumption`), operations give to
later ones (`GatesAssumption`) and the longest period is a power of two
(`PeriodAssumption`), a request brings arrays whose rows have one length
(`RequestAssumption`), the assistant's rounds of tools are at least its flood
guard (`RunAssumption`: both are five), contexts have users and no layer of a
network is behind itself (`NetworkAssumption`), a dataset has columns of one
length, texts without a zero and images of one size (`TableAssumption`). The id of a project is a sequence without
a slash (`SceneAssumption`; `validate_scene_id` takes digits only) and the store's
order has all keys (`OrderAssumption`); the files of the installer are below its
folder, and the file the user adds is of no archive (`ReleaseAssumption`). SANY
and tlapm read `UNION A \ B` and `SUBSET A \ B` differently, so these have
parentheses wherever they stand.

*Compositions.* In `MCDocuments` and `MCRuntimes` one part moves and the others
stand still, so a behaviour of the whole is one of each part (`PartSpecs`,
`PartsOf`): every step is a step or a stutter of it. What is proved of a part's
own specification then holds of the whole.

**`JobEngine_proof`.** `IInv` is `TypeOK` with three facts. `RunnerInv` ties the
place of a job's runner to the registry, to the state users see and to the
loop: whoever is busy holds it. `OneRunning` alone is not inductive, since
nothing in it says that the second job's `RunJob` finds the loop taken.
`CleanerInv` says a cleanup thread only deletes a job it saw ended; terminal
states do not change, so the deletion is `Forget`. `SessionInv` types the
subscriber's job.

* `TypeCorrect`, `NeverTwoRunning`: `[]TypeOK`, `[]OneRunning`.
* `Refinement`: `Spec => ImplementsLifecycle`, by `StepSimulation`, one case per
  action: `Register` is `Accept`, `RunJob` is `Start` (which needs
  `OneRunning`), `SetState` is `End`, `DropJob` is `Forget`, `Restart` is
  `ProcessDies`, all others stutter.
* `Streams`: `[]StreamWellFormed`. That says what a job has reported when it is
  over; `StreamInv` says what it has reported where its runner is: as many epochs
  as it has trained, no terminal event before it is done, and "completed" only
  within reach of a runner that has trained them all.

*Cleanup.* Whether a cleanup may delete a directory depends on the
listing it took before. `WInv` adds that a directory which may still get a job is
young for every cleanup (`DirInv`), that what the orphan loop is about to remove
never gets one (`SweepInv`), and that a job is registered with its bundle and
completed with its snapshot (`FileInv`). `DueInv` says where each job stands that
a cleanup owes: still to be looked at, removed, or about to be dropped.

* `WorkspacesKept`, `SnapshotsKept`: if no retention is zero,
  `[]LiveWorkspaceKept` and `[]SnapshotAvailable`. The condition is needed: with
  a zero retention a directory is old as soon as it is made, and the code loses
  both (section 5).
* `CleanupKeepsWord`: `[]CleanupComplete`, with any retention.

**`TrioServer_proof`.** `IInv` adds that a queued job is queued once and not on
a thread, that sessions not admitted have no job, and that one that is over or
was stopped counts as done. Without the first, a thread could start a job that
has ended and the count of requests would be lost. Types and `FramesKept` need
each other: an inbox stays within its bound because no request is counted twice.
`MarkInv` adds that two sessions of one kind never hold the same mark; it needs
`LocalAlone`, that no other training shares the context of a client that
synchronises a dataset first.

* `TypeCorrect`, `RequestsKept`: `[]TypeOK`, `[]FramesKept`.
* `MarksOwned`, `UseMarked`: under `LocalAlone`, `[]MarkKept` and
  `[]MarkedWhileUsed`. The condition is not a convenience: without it the code
  violates both.

**`Assistant_proof`** (`AxonTalk`, `ModelRun`, `ApiTalk`). A talk writes a copy of
the whole chat, so `IInv` says of every copy what it says of every chat: an answer
is behind its question and no message is there twice (`Sound`). `AloneInv` adds that while a talk is alone no
other one is open and the chat is its copy, and that whatever it left is in the
copy of every talk opened after it; `CutInv`, that what was cut is in no copy
that is still to be written; `KnownInv`, that a message is of a talk that has
stored it, without which it could have been cut before it was written.

* `Chats`: `[]ChatKept`.
* `Limits`: `[]LimitsKept`. The caps count what was allowed in a window, the
  code counts what its logs still hold. `LimitInv` says the log is what was
  served less a prefix that has left the day's window, in ascending order of
  time, so that pruning takes only what no window counts (`Rest`). For builds,
  which are recorded after they were allowed, the inductive fact is a sum: what is
  counted in a window and the threads that may still record (`Waiting`) are
  together at most the cap and the most threads there ever were between the two,
  less one (`Sums`). A check that passes found the count below the cap, so the
  threads between the two, of which it is now one, exceed it by all but one at
  most; a record moves one from the threads to the log, and leaving the window
  or the tool call only lowers the sum. While an account never had
  two there, its one thread is still as far from the last build as it was when it
  was checked, since nobody else records in between (`Turns`).

`RunInv` says for each place of a thread which calls are open in its history, how
many were made in this round, and that the lock is held by whoever is in a call. That no open call is sent rests on the guard being
reached no later than the last round (`RunAssumption`); without it the code
sends one.

* `Served`: `M!Spec => ProviderServed`. `Promised`: `M!Spec => KeepsPromise`,
  the refinement of `RunPromise`, step by step.
* `ApiTalks`: `T!Spec => []ApiTalkHolds`, with `ApiInv`: the handler's copy, the
  job's text and the document agree at each place of the handler.
* `AssistantTyped`: the types of all three.

**`Documents_proof`** (`MCDocuments`, but for accounts).

*The dataset cache.* `IInv` is `TypeOK`, `BlockIntegrity`, `AckedIsDurable`
and `AnnouncedInv`: while a session waits for frames the announced hashes are
real ones, for only an entry read back from disk may list "" as announced.
Without it a filled slot could have an empty hash. `ExpectInv` says what a
waiting session that was not superseded relies on: the entry describes its
version, and every position it was not asked for is filled already. When it
sends the others, the fingerprint digests exactly its version.

* `TypeCorrect`, `Integrity`, `Durability`, `Acknowledged`: `TypeOK`,
  `BlockIntegrity`, `AckedIsDurable` and `AckMeansSynced` always hold.
* `QuietIsCurrent`: so does `CurrentWhenQuiet`. Every step leaves a session that
  is not quiet, or renews the fingerprint, or reads a file whose fingerprint is
  right.
* `BillingKept`. `BillingHolds` says what the documents are; whether a write
  keeps it depends on what the handler has still to write, so `BillingInv` adds
  `BillingTodo`: a license that is due belongs to nobody or to the account it is
  written for, an entitlement that is due has its license in the store or before
  it in the list, nothing that is due makes a withdrawn sale active, and an
  answer comes behind what it tells. `SaleInv` adds that Gumroad never takes a
  withdrawal back, so a verification after it is refused. A crash only empties
  the list.
* `ApiKept`: `ApiHolds`, from four parts. *Audio*: until a launch has met a
  running batch, no more requests wait than launches are to come (`AudioInv`).
  *Served*: while a model trains, the cache has the one in use, and otherwise
  what the store has (`ModelInv`). *Classes*: what a stream has been told, or has
  in its queue, is the class as it is (`ClassInv`). *Trainings*: while no two
  overlapped, at most one is active, it writes what it asked for at the places it
  asked for, and a hash is true of its block unless the thread is between the
  two writes (`LoadInv`).

**`Accounts_proof`** (`MCDocuments`: sign-in, classrooms, projects, the
installer; then the types of all).

* `SignInKept`. An attempt, its event and who waits for it agree (`Attempts`); a
  page's steps are of an attempt it has seen (`Pages`). A claim is three writes:
  `NameInv` says that either nothing is due, or it is one account's claim after
  its first, second or last write (`Claims`), and which name is whose then.
  Unique names are about runs without a crash: after one in a claim they fail.
* `ClassroomsKept`. Creating and joining are lists of writes too (`Creates`,
  `Enlists`): between them streams of all other classes are current
  (`CurrentBut`) and all other configs backed (`BackedBut`). A crash leaves a
  class without members, which no config names (`Bare`).
* `ProjectsKept`. Keys of different projects differ, although one id may begin
  the other, because a path has its slash where the shorter id ends
  (`ProjectsApart`, from lemmas on prefixes of joined sequences): what begins
  with a project's directory and a slash is of that project (`Beneath`). A save
  and a delete are lists of writes (`ProjectInv`): a save has written the scene,
  or will, before the document that lists it (`Putting`), and a delete has all
  it takes before it (`Dropping`), unless a restart tore it.
* `InstallerKept`. `InstallerInv` says what marker, manifest and scripts are at
  each step of either program (`Progressed`, `Removed`), that a whole manifest
  lists the files and the directories of one version (`ManifestTrue`), and that a
  folder with files of another program is never marked (`UsersOther`), so that
  no step writes over a file of the user's. No empty directory is left because
  each one is in use or still to be tried after all that are in it
  (`NoneEmpty`): the removal of one makes none empty that was tried before. Parents
  of paths are proper prefixes (`ParentIs`), and the listing is a sequence since
  archives are finite (`ListingIs`).
* `DocumentsTyped`: the documents of all nine components have their types.

**`Runtimes_proof`** (`MCRuntimes`).

* `TrainingKept`, from four parts. `TrainingInv`: which packets a local training
  has written at each place, that only a final one is last, and which epoch model
  and manifest are of. That half a model is never under a result needs that a process that is
  out beside one has told an error (`HalfTold`). `JobInv`: how far a training on-prem is fixes how often
  each row was seen, the lines, the events and the model; that its data is what the
  entry held under the fingerprint named needs that the fingerprint, if there is
  one, is of the content the last session that ended well left (`CacheInv`). `PageInv`: what a
  refresh has read was so if nothing changed since, and a job it saw running is
  over when the answer is sent, since the loop sends it. `FitInv`: data, losses
  and warnings are what the request resolves to, and the metrics of an epoch are
  of the last one that was exported.

**`Sections_proof`** (`MCRuntimes`), also of gates and of inference without a
server, which share nothing with the trainings. What a recursive function computes
is found by induction over numbers. The library's induction theorem takes an
operator, which no prover here instantiates; `AllNat` says the same of a set of
numbers, and follows from the least element of a set that is not empty (`Least`).
The set is that of the lengths up to which a function with the recursion's
equations exists (`ChainSteps`, `AscendingSteps`) or has what is
claimed.

* `Plans`: `PlansAreChains`. A chain ascends in the rank of its layers, so it ends
  within as many steps as there are layers (`ChainIs`), every layer is reached
  from a start, by induction over ranks (`ChainsCover`), and from one only
  (`ChainsApart`). That no layer stands alone follows.
* `SectionsKept`: `SectionsHold`. `SectionsInv` says of every context where it is
  (`ContextInv`): while it matches, its plans are those of its network, and of the
  chain it is at no length was passed over that was registered when its matching
  began (`MatchInv`), which `Longest` remembers; while it registers, it is the only one
  (`OneBusy`). Of the tables it says that they are `Consistent` but for the key that is
  about to be persisted: a section only gains users and accuracy (`BumpedIs`), so
  `Remember` leaves one key ahead of the store (`RememberedIs`) and `Persist` closes the
  gap (`PersistedIs`). What others register meanwhile only adds keys, so a miss
  stays true of what was there at the beginning (`OthersStay`), and a hit loads
  what memory and store both hold (`HeldIs`) layer by layer (`AppliedIs`); chains are
  disjoint, so other layers stay.
* `InferenceKept`. `OrderInv`: numbers read are at most those answered, those at
  most the one in the file, that at most the last one given. `AnswerInv`: an
  answer belongs to the request whose number it has. `AloneInv`: while no script
  ran the model without waiting, at most one request is out, and it is the last
  one or the newest values wait behind it. Without the last, an answer could end
  the waiting of a request it does not answer.
* `GatesKept`. Periods are powers of two, so all gates open together every
  `MaxPeriod` steps, and no operation has waited longer than since then
  (`GatesInv`).

**`Codec_proof`** (`MCRuntimes`). The invariant is short, that the packet is of the
dataset and the answers are of the packet (`CodecInv`); the rest is about the
functions, by the same induction. `FlattenSeq` lays sequences one after the other
(`Flat`: where each one ends, `Borders`, and what is read there, `Laid`), so what is
cut at these places is what was laid (`ChunksAre`, `BlocksJoin`, `RowIs`).

* `PackedInAll`: `RoundTrip` and the types of the codec. Digits are those of the
  number if it fits the width of its column (`NumIs`). Runs tell every byte of the
  block and none is longer than its count can say (`RunsTell`), so they are decoded
  to the block (`RleIs`); a text ends where its zero is, since it has none
  (`TextBlock`); images of one size are found by the number of rows (`ImageBlock`).
  Block by block follows the column (`ServerColumn`, `WorkerColumn`), column by
  column the row (`ServerHalf`, `WorkerHalf`).

Model-checked only. `AllShown`: `GraphSummary` has recursive operators.
`ExecutorsAgree`: what folds and recursive functions over networks compute; the
induction of `Sections_proof` would do, the lemmas about the library's folds are
missing. Of `RuntimesTypeOK`: the types of executors and compiler. `AllReturned`,
`EndsAndTells`, `StopServed`: liveness under fairness and `ENABLED` are out of the
prover's reach.

## 8. Not modelled

* Numerical code: tensors, ONNX Runtime, gradients. Networks are terms.
* `services/api/nns/topofuse`, `bvtopo.py`, `optibench.py` and the Python
  decoder in `worker_tasks.py` (`decode_column`): nothing in the service calls
  them.
* The builder's scenes, editors and widgets, its generator of documentation and
  the incremental compression of an edited dataset (`ds_obj_serialize.gd`).
* The block editor: pure functions over a document, for one person.
* HTML, prompts, the retrieval of documentation for the model, cryptography,
  passwords, the engine under the table of documents (a key is written
  atomically), the network below a WebSocket (a connection is there or lost).
* Handlers of the API's classrooms between two of their own writes: a crash
  there is not modelled, they have no await.
* Landing site, notebooks, vendored add-ons and built packages.

## 9. Running

    tlc -config MCJobEngine.cfg MCJobEngine.tla
    tlapm JobEngine_proof.tla

A module's runs are listed in `PROJECT.json` under `runs`; a definition preceded
by a comment that begins with "Fault" is used by the mutants only.
