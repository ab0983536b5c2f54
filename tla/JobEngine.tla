----------------------------- MODULE JobEngine -----------------------------
(***************************************************************************)
(* The training engine of the on-prem runtime: TrainingEngine of           *)
(* core/engine.py, TrainingJob of core/jobs.py, the control of             *)
(* OrtBundleTrainer.train in core/ort_trainer.py and the job endpoints of  *)
(* api/app.py.                                                             *)
(*                                                                         *)
(* One asyncio event loop runs the async handlers, the runner of every job *)
(* and the WebSocket forwarders.  Nothing in the runner suspends: emit     *)
(* puts into an unbounded queue and the trainer calls ONNX Runtime         *)
(* directly, so "loop" names the job whose handler or runner holds the     *)
(* event loop.  Sync endpoints run in threads, interleaved with everything.*)
(***************************************************************************)
EXTENDS Naturals, Sequences, FiniteSets

CONSTANTS
    Job,          \* the job ids uuid4 will hand out, each used at most once
    Client,       \* WebSocket sessions on /ws/jobs/{id}, each attaches once
    Cleaner,      \* calls of POST /api/jobs/cleanup, each made once
    Epochs,       \* config.epochs, at least 1 (config.py)
    Retentions,   \* the max_age_seconds values in use: "zero", "long" or both
    MaxRestarts,  \* bound: how often the process may die and come back
    NoJob         \* the event loop is free; also: no job selected

ASSUME EpochsAssumption == Epochs \in Nat \ {0}
ASSUME RetentionsAssumption == Retentions \subseteq {"zero", "long"}
ASSUME MaxRestartsAssumption == MaxRestarts \in Nat
ASSUME NoJobAssumption == NoJob \notin Job

Terminal == {"completed", "failed", "stopped"}
Event    == {"queued", "started", "epoch"} \cup Terminal
Live     == {"queued", "running"}

\* Files of a workspace that the control flow tests: the directory itself, the
\* extracted bundle, the outputs and metrics of training, the snapshot zip.
File == {"dir", "bundle", "outputs", "snapshot"}

\* The two time stamps cleanup compares with now: job.updated_at and the
\* modification time of the workspace directory.
Stamp == {"updated_at", "mtime"} \X Job

VARIABLES
    registered,  \* the keys of engine._jobs
    state,       \* job.state
    pc,          \* how far the handler and then the runner of the job are
    result,      \* what train returned, then what the runner made of it
    epoch,       \* epochs trained so far
    queue,       \* job.queue
    sent,        \* history: every event the job emitted, in order
    files,       \* the contents of root_dir/jobs/<job_id>
    loop,        \* the job that holds the event loop, or NoJob
    stop,        \* the one stop request a client may make for the job
    sentAt,      \* history: the epoch count when that request was sent
    aged,        \* stamps at least a "long" retention in the past
    clean,       \* the cleanup threads
    client,      \* the WebSocket sessions
    restarts     \* how often the process has died

jobVars == <<registered, state, pc, result, epoch, queue, sent, files, loop>>
vars == <<jobVars, stop, sentAt, aged, clean, client, restarts>>

Handling  == {"extracting", "extracted"}
Training  == {"started", "epochs", "saving", "trained"}
Busy      == Handling \cup Training \cup {"starting", "judged", "settled"}
PC        == Busy \cup {"absent", "rejected", "ready", "done", "lost"}
Stop      == {"none", "sent", "thread", "set", "refused"}

CleanPC  == {"called", "jobs", "drop", "track", "dirs", "rm",
             "returned", "raised"}
Cleaning == [pc : CleanPC, todo : SUBSET Job, old : SUBSET Stamp,
             due : SUBSET Job, seen : SUBSET Job, cur : Job \cup {NoJob}]
SessionState == [pc : {"off", "waiting", "gone", "told", "cut"},
                 job : Job \cup {NoJob}, got : Seq(Event)]

TypeOK ==
    /\ registered \subseteq Job
    /\ state \in [Job -> Live \cup Terminal]
    /\ pc \in [Job -> PC]
    /\ result \in [Job -> {"none"} \cup Terminal]
    /\ epoch \in [Job -> 0..Epochs]
    /\ queue \in [Job -> Seq(Event)]
    /\ sent \in [Job -> Seq(Event)]
    /\ files \in [Job -> SUBSET File]
    /\ loop \in Job \cup {NoJob}
    /\ stop \in [Job -> Stop]
    /\ sentAt \in [Job -> 0..Epochs]
    /\ aged \subseteq Stamp
    /\ clean \in [Cleaner -> Cleaning]
    /\ client \in [Client -> SessionState]
    /\ restarts \in 0..MaxRestarts

Init ==
    /\ registered = {}
    /\ state = [j \in Job |-> "queued"]
    /\ pc = [j \in Job |-> "absent"]
    /\ result = [j \in Job |-> "none"]
    /\ epoch = [j \in Job |-> 0]
    /\ queue = [j \in Job |-> <<>>]
    /\ sent = [j \in Job |-> <<>>]
    /\ files = [j \in Job |-> {}]
    /\ loop = NoJob
    /\ stop = [j \in Job |-> "none"]
    /\ sentAt = [j \in Job |-> 0]
    /\ aged = {}
    /\ clean = [t \in Cleaner |-> [pc |-> "called", todo |-> {}, old |-> {},
                                   due |-> {}, seen |-> {}, cur |-> NoJob]]
    /\ client = [c \in Client |-> [pc |-> "off", job |-> NoJob, got |-> <<>>]]
    /\ restarts = 0

-----------------------------------------------------------------------------
(* Helpers *)

\* Writing now into time stamps: none of them is old any more, neither later
\* nor for a cleanup whose now_value was read before.
Touch(stamps) ==
    /\ aged' = aged \ stamps
    /\ clean' = [t \in Cleaner |-> [clean[t] EXCEPT !.old = @ \ stamps,
                        !.due = {j \in @ : <<"updated_at", j>> \notin stamps}]]

\* job.emit: updated_at, latest and an unbounded put, which never suspends.
Emit(j, events) ==
    /\ queue' = [queue EXCEPT ![j] = @ \o events]
    /\ sent' = [sent EXCEPT ![j] = @ \o events]

\* The stop flag as the runner reads it.
StopRequested(j) == stop[j] = "set"

-----------------------------------------------------------------------------
(* POST /api/jobs: one handler, no suspension point, the loop is held *)

\* create_job makes the workspace directory before the engine knows the job.
SubmitBundle(j) ==
    /\ loop = NoJob /\ pc[j] = "absent"
    /\ pc' = [pc EXCEPT ![j] = "extracting"]
    /\ files' = [files EXCEPT ![j] = {"dir"}]
    /\ loop' = j
    /\ Touch({<<"mtime", j>>})
    /\ UNCHANGED <<registered, state, result, epoch, queue, sent, stop, sentAt,
                   client, restarts>>

\* extract_training_bundle; a BundleValidationError leaves the directory behind.
ExtractBundle(j) ==
    /\ pc[j] = "extracting"
    /\ \/ /\ pc' = [pc EXCEPT ![j] = "extracted"]
          /\ files' = [files EXCEPT ![j] = @ \cup {"dir", "bundle"}]
          /\ loop' = loop
       \/ /\ pc' = [pc EXCEPT ![j] = "rejected"]
          /\ files' = [files EXCEPT ![j] = @ \cup {"dir"}]
          /\ loop' = NoJob
    /\ Touch({<<"mtime", j>>})
    /\ UNCHANGED <<registered, state, result, epoch, queue, sent, stop, sentAt,
                   client, restarts>>

\* _jobs[job_id] = job, emit "queued", create_task(_run_job).
Register(j) ==
    /\ pc[j] = "extracted"
    /\ pc' = [pc EXCEPT ![j] = "ready"]
    /\ registered' = registered \cup {j}
    /\ loop' = NoJob
    /\ Emit(j, <<"queued">>) /\ Touch({<<"updated_at", j>>})
    /\ UNCHANGED <<state, result, epoch, files, stop, sentAt, client, restarts>>

-----------------------------------------------------------------------------
(* _run_job and OrtBundleTrainer.train: the loop is held from start to end *)

\* The runner's next position, with nothing but the result changed.
Return(j, res) ==
    /\ pc' = [pc EXCEPT ![j] = "trained"]
    /\ result' = [result EXCEPT ![j] = res]

\* The task scheduled by Register is due.
TaskDue(j) == pc[j] = "ready"

\* Who holds the loop while train runs: the runner, which awaits nothing that
\* suspends.  Fault: train is handed to an executor and the loop is free.
LoopFreeDuringTrain(j) == NoJob
LoopDuringTrain(j) == j

RunJob(j) ==
    /\ loop = NoJob /\ TaskDue(j)
    /\ pc' = [pc EXCEPT ![j] = "starting"]
    /\ state' = [state EXCEPT ![j] = "running"]
    /\ loop' = LoopDuringTrain(j)
    /\ UNCHANGED <<registered, result, epoch, queue, sent, files, stop, sentAt,
                   aged, clean, client, restarts>>

\* The dataset is resolved and validated, then "started" is emitted.
LoadDataset(j) ==
    /\ pc[j] = "starting"
    /\ \/ /\ pc' = [pc EXCEPT ![j] = "started"]
          /\ Emit(j, <<"started">>) /\ Touch({<<"updated_at", j>>})
          /\ UNCHANGED result
       \/ /\ Return(j, "failed")
          /\ UNCHANGED <<queue, sent, aged, clean>>
    /\ UNCHANGED <<registered, state, epoch, files, loop, stop, sentAt, client,
                   restarts>>

\* First stop check, then the directories are (re)created and the model and
\* artifacts are built from the extracted bundle.
Prepare(j) ==
    /\ pc[j] = "started"
    /\ IF StopRequested(j)
       THEN Return(j, "stopped") /\ UNCHANGED <<files, aged, clean>>
       ELSE /\ files' = [files EXCEPT ![j] = @ \cup {"dir", "outputs"}]
            /\ Touch({<<"mtime", j>>})
            /\ \/ /\ "bundle" \in files[j]
                  /\ pc' = [pc EXCEPT ![j] = "epochs"]
                  /\ UNCHANGED result
               \/ Return(j, "failed")
    /\ UNCHANGED <<registered, state, epoch, queue, sent, loop, stop, sentAt,
                   client, restarts>>

\* range(config.epochs).  Fault: off by one.
MoreEpochsOffByOne(n) == n <= Epochs
MoreEpochs(n) == n < Epochs

\* One epoch: the stop checks before it and in its batch loop, the export into
\* the outputs directory, which must still be there, and the "epoch" event.
TrainEpoch(j) ==
    /\ pc[j] = "epochs"
    /\ \/ /\ StopRequested(j)
          /\ Return(j, "stopped")
          /\ UNCHANGED <<epoch, queue, sent, aged, clean>>
       \/ /\ ~StopRequested(j) /\ "outputs" \in files[j]
          /\ epoch' = [epoch EXCEPT ![j] = @ + 1]
          /\ pc' = [pc EXCEPT ![j] = IF MoreEpochs(epoch'[j]) THEN @ ELSE "saving"]
          /\ Emit(j, <<"epoch">>) /\ Touch({<<"updated_at", j>>})
          /\ UNCHANGED result
       \/ /\ ~StopRequested(j)
          /\ Return(j, "failed")
          /\ UNCHANGED <<epoch, queue, sent, aged, clean>>
    /\ UNCHANGED <<registered, state, files, loop, stop, sentAt, client, restarts>>

\* create_snapshot_zip recreates the directory and needs model and metrics.
SaveSnapshot(j) ==
    /\ pc[j] = "saving"
    /\ Touch({<<"mtime", j>>})
    /\ IF "outputs" \in files[j]
       THEN /\ files' = [files EXCEPT ![j] = @ \cup {"dir", "snapshot"}]
            /\ Return(j, "completed")
       ELSE /\ files' = [files EXCEPT ![j] = @ \cup {"dir"}]
            /\ Return(j, "failed")
    /\ UNCHANGED <<registered, state, epoch, queue, sent, loop, stop, sentAt,
                   client, restarts>>

\* After train: the stop flag wins over everything but an exception, and a
\* completed job needs its snapshot file.  Fault: the flag is not looked at again.
VerdictOfTraining(j) == result[j]
Verdict(j) ==
    IF result[j] # "failed" /\ StopRequested(j) THEN "stopped"
    ELSE IF result[j] = "completed" /\ "snapshot" \notin files[j] THEN "failed"
    ELSE result[j]

Judge(j) ==
    /\ pc[j] = "trained"
    /\ pc' = [pc EXCEPT ![j] = "judged"]
    /\ result' = [result EXCEPT ![j] = Verdict(j)]
    /\ UNCHANGED <<registered, state, epoch, queue, sent, files, loop, stop,
                   sentAt, aged, clean, client, restarts>>

\* The state is written first, updated_at only by the emit that follows.
SetState(j) ==
    /\ pc[j] = "judged"
    /\ pc' = [pc EXCEPT ![j] = "settled"]
    /\ state' = [state EXCEPT ![j] = result[j]]
    /\ UNCHANGED <<registered, result, epoch, queue, sent, files, loop, stop,
                   sentAt, aged, clean, client, restarts>>

\* The event that ends the stream.  Faults: it reports what train did, not what
\* the runner made of it; a stopped job returns before its event.
TerminalEventsOfTraining(j) ==
    <<IF "snapshot" \in files[j] THEN "completed" ELSE state[j]>>
TerminalEventsUnlessStopped(j) ==
    IF state[j] = "stopped" THEN <<>> ELSE <<state[j]>>
TerminalEvents(j) == <<state[j]>>

EmitTerminal(j) ==
    /\ pc[j] = "settled"
    /\ pc' = [pc EXCEPT ![j] = "done"]
    /\ loop' = NoJob
    /\ Emit(j, TerminalEvents(j)) /\ Touch({<<"updated_at", j>>})
    /\ UNCHANGED <<registered, state, result, epoch, files, stop, sentAt, client,
                   restarts>>

-----------------------------------------------------------------------------
(* Stop requests: sent by a client at any time, received by the event loop *)

SendStop(j) ==
    /\ stop[j] = "none" /\ j \in registered
    /\ stop' = [stop EXCEPT ![j] = "sent"]
    /\ sentAt' = [sentAt EXCEPT ![j] = epoch[j]]
    /\ UNCHANGED <<jobVars, aged, clean, client, restarts>>

\* engine.stop: also true for a job that has already ended.
SetStopEvent(j) ==
    stop' = [stop EXCEPT ![j] = IF j \in registered THEN "set" ELSE "refused"]

\* The stop endpoint is a sync def: FastAPI runs it in a thread.
HandedToThread(j) == stop' = [stop EXCEPT ![j] = "thread"]

\* The loop takes the request: {"type": "stop"} on a WebSocket calls
\* engine.stop at once, POST /api/jobs/{id}/stop goes to a thread.
DispatchStop(j) ==
    /\ loop = NoJob /\ stop[j] = "sent"
    /\ \/ /\ \E c \in Client : client[c].pc = "waiting" /\ client[c].job = j
          /\ SetStopEvent(j)
       \/ HandedToThread(j)
    /\ UNCHANGED <<jobVars, sentAt, aged, clean, client, restarts>>

ThreadStop(j) ==
    /\ stop[j] = "thread"
    /\ SetStopEvent(j)
    /\ UNCHANGED <<jobVars, sentAt, aged, clean, client, restarts>>

-----------------------------------------------------------------------------
(* POST /api/jobs/cleanup: cleanup_jobs in a thread of its own *)

Step(t, to) == clean' = [clean EXCEPT ![t].pc = to]

\* now_value is read and list(_jobs.items()) copied.  "due" is history: the
\* jobs this call owes the user, those terminal and old when it began.
BeginCleanup(t) ==
    /\ clean[t].pc = "called"
    /\ \E retention \in Retentions :
         LET old == IF retention = "zero" THEN Stamp ELSE aged IN
         clean' = [clean EXCEPT ![t] =
            [@ EXCEPT !.pc = "jobs", !.todo = registered, !.old = old,
                      !.due = {j \in registered : /\ state[j] \in Terminal
                                                  /\ <<"updated_at", j>> \in old}]]
    /\ UNCHANGED <<jobVars, stop, sentAt, aged, client, restarts>>

\* The jobs the first loop removes.  Faults: terminal_states without "stopped";
\* only the age of the job is looked at.
RemovableButStopped(t, j) == /\ state[j] \in {"completed", "failed"}
                             /\ <<"updated_at", j>> \in clean[t].old
RemovableAnyState(t, j) == <<"updated_at", j>> \in clean[t].old
Removable(t, j) == state[j] \in Terminal /\ <<"updated_at", j>> \in clean[t].old

\* One pass of the first loop, up to and including the rmtree.
ExamineJob(t, j) ==
    /\ clean[t].pc = "jobs" /\ j \in clean[t].todo
    /\ IF Removable(t, j)
       THEN /\ files' = [files EXCEPT ![j] = {}]
            /\ clean' = [clean EXCEPT ![t] =
                  [@ EXCEPT !.pc = "drop", !.todo = clean[t].todo \ {j}, !.cur = j]]
       ELSE /\ clean' = [clean EXCEPT ![t] = [@ EXCEPT !.todo = clean[t].todo \ {j}]]
            /\ files' = files
    /\ UNCHANGED <<registered, state, pc, result, epoch, queue, sent, loop, stop,
                   sentAt, aged, client, restarts>>

\* The registry after del _jobs[job_id].  Fault: the del is missing.
NothingDeleted(t) == registered
Deleted(t) == registered \ {clean[t].cur}

\* del _jobs[job_id]: a KeyError when another cleanup deleted it first.
DropJob(t) ==
    /\ clean[t].pc = "drop"
    /\ IF clean[t].cur \in registered
       THEN registered' = Deleted(t) /\ Step(t, "jobs")
       ELSE registered' = registered /\ Step(t, "raised")
    /\ UNCHANGED <<state, pc, result, epoch, queue, sent, files, loop, stop,
                   sentAt, aged, client, restarts>>

\* tracked_workspaces iterates _jobs.values() ...
BeginTrack(t) ==
    /\ clean[t].pc = "jobs" /\ clean[t].todo = {}
    /\ clean' = [clean EXCEPT ![t] = [@ EXCEPT !.pc = "track", !.seen = registered]]
    /\ UNCHANGED <<jobVars, stop, sentAt, aged, client, restarts>>

\* The directories the second loop looks at.  Fault: tracked ones are not skipped.
AllDirs == {j \in Job : "dir" \in files[j]}
UntrackedDirs == {j \in Job : "dir" \in files[j]} \ registered

\* ... and raises RuntimeError if the dict changed size meanwhile; then jobs_dir
\* is listed.
EndTrack(t) ==
    /\ clean[t].pc = "track"
    /\ IF Cardinality(registered) = Cardinality(clean[t].seen)
       THEN clean' = [clean EXCEPT ![t] = [@ EXCEPT !.pc = "dirs",
                                               !.todo = UntrackedDirs]]
       ELSE Step(t, "raised")
    /\ UNCHANGED <<jobVars, stop, sentAt, aged, client, restarts>>

\* The age of one untracked directory is tested ...
CheckDir(t, j) ==
    /\ clean[t].pc = "dirs" /\ j \in clean[t].todo
    /\ clean' = [clean EXCEPT ![t] =
         IF "dir" \in files[j] /\ <<"mtime", j>> \in clean[t].old
         THEN [@ EXCEPT !.pc = "rm", !.todo = clean[t].todo \ {j}, !.cur = j]
         ELSE [@ EXCEPT !.todo = clean[t].todo \ {j}]]
    /\ UNCHANGED <<jobVars, stop, sentAt, aged, client, restarts>>

\* ... and the directory is removed, whatever happened to it in between.
RemoveDir(t) ==
    /\ clean[t].pc = "rm"
    /\ files' = [files EXCEPT ![clean[t].cur] = {}]
    /\ Step(t, "dirs")
    /\ UNCHANGED <<registered, state, pc, result, epoch, queue, sent, loop, stop,
                   sentAt, aged, client, restarts>>

EndCleanup(t) ==
    /\ clean[t].pc = "dirs" /\ clean[t].todo = {}
    /\ Step(t, "returned")
    /\ UNCHANGED <<jobVars, stop, sentAt, aged, client, restarts>>

-----------------------------------------------------------------------------
(* /ws/jobs/{id}: engine.subscribe, all sessions of a job share one queue *)

Attach(c, j) ==
    /\ loop = NoJob /\ client[c].pc = "off" /\ j \in registered
    /\ client' = [client EXCEPT ![c] = [@ EXCEPT !.pc = "waiting", !.job = j]]
    /\ UNCHANGED <<jobVars, stop, sentAt, aged, clean, restarts>>

\* The browser leaves.  The handler is not told: it waits on in queue.get.
Disconnect(c) ==
    /\ client[c].pc = "waiting"
    /\ client' = [client EXCEPT ![c].pc = "gone"]
    /\ UNCHANGED <<jobVars, stop, sentAt, aged, clean, restarts>>

\* queue.get then send_json; an event taken for a client that left is lost.
Deliver(c) ==
    LET j == client[c].job IN
    /\ loop = NoJob /\ client[c].pc \in {"waiting", "gone"}
    /\ queue[j] # <<>>
    /\ queue' = [queue EXCEPT ![j] = Tail(@)]
    /\ client' = [client EXCEPT ![c] =
         IF @.pc = "gone" THEN [@ EXCEPT !.pc = "cut"]
         ELSE [@ EXCEPT !.got = Append(client[c].got, Head(queue[j])),
                        !.pc = IF Head(queue[j]) \in Terminal THEN "told"
                               ELSE client[c].pc]]
    /\ UNCHANGED <<registered, state, pc, result, epoch, sent, files, loop, stop,
                   sentAt, aged, clean, restarts>>

-----------------------------------------------------------------------------
(* Environment *)

\* A pause of at least the long retention.  Assumed not to fall into the few
\* steps between making a workspace and registering its job.
Age ==
    /\ aged # Stamp
    /\ \A j \in Job : pc[j] \notin Handling
    /\ aged' = Stamp
    /\ UNCHANGED <<jobVars, stop, sentAt, clean, client, restarts>>

\* The process dies and starts again: only the workspaces survive.
Restart ==
    /\ restarts < MaxRestarts
    /\ restarts' = restarts + 1
    /\ registered' = {}
    /\ pc' = [j \in Job |-> IF pc[j] \in Handling THEN "rejected"
                             ELSE IF pc[j] \in Busy \cup {"ready"} THEN "lost"
                             ELSE pc[j]]
    /\ loop' = NoJob
    /\ stop' = [j \in Job |-> IF stop[j] \in {"sent", "thread"} THEN "refused"
                              ELSE stop[j]]
    /\ clean' = [t \in Cleaner |-> IF clean[t].pc = "called" THEN clean[t]
                                   ELSE [clean[t] EXCEPT !.pc = "raised"]]
    /\ client' = [c \in Client |-> IF client[c].pc \in {"waiting", "gone"}
                                   THEN [client[c] EXCEPT !.pc = "cut"]
                                   ELSE client[c]]
    /\ UNCHANGED <<state, result, epoch, queue, sent, files, sentAt, aged>>

Handler(j) == SubmitBundle(j) \/ ExtractBundle(j) \/ Register(j)

Runner(j) == \/ RunJob(j) \/ LoadDataset(j) \/ Prepare(j) \/ TrainEpoch(j)
             \/ SaveSnapshot(j) \/ Judge(j) \/ SetState(j) \/ EmitTerminal(j)

StopCall(j) == SendStop(j) \/ DispatchStop(j) \/ ThreadStop(j)

Cleanup(t) == \/ BeginCleanup(t) \/ DropJob(t) \/ BeginTrack(t) \/ EndTrack(t)
              \/ RemoveDir(t) \/ EndCleanup(t)
              \/ \E j \in Job : ExamineJob(t, j) \/ CheckDir(t, j)

Socket(c) == Disconnect(c) \/ Deliver(c) \/ \E j \in Job : Attach(c, j)

Next == \/ \E j \in Job : Handler(j) \/ Runner(j) \/ StopCall(j)
        \/ \E t \in Cleaner : Cleanup(t)
        \/ \E c \in Client : Socket(c)
        \/ Age \/ Restart

Spec == Init /\ [][Next]_vars

\* The event loop and the thread pool keep running what was started; nobody
\* owes a submission, a stop, a new session or a restart.  A runner waiting
\* for the loop gets it: asyncio runs ready tasks in FIFO order.
Fairness ==
    /\ \A j \in Job : /\ WF_vars(ExtractBundle(j) \/ Register(j))
                      /\ SF_vars(RunJob(j))
                      /\ WF_vars(Runner(j) /\ loop = j)
                      /\ SF_vars(DispatchStop(j)) /\ WF_vars(ThreadStop(j))
    /\ \A t \in Cleaner : WF_vars(Cleanup(t))
    /\ \A c \in Client : SF_vars(Deliver(c))

FairSpec == Spec /\ Fairness

-----------------------------------------------------------------------------
(* Properties *)

Running(j) == j \in registered /\ state[j] = "running"

\* The runner holds the event loop from "running" to the terminal event, so two
\* jobs never run at once, whatever max_parallel_jobs says: /api/capacity never
\* reports a negative or exhausted node because of a second job.
OneRunning == \A i, j \in Job : Running(i) /\ Running(j) => i = j

\* The stream of one job: nothing follows its terminal event, that event is the
\* state the registry shows, every ended runner has sent it, and "completed" is
\* only sent after every epoch was reported.
StreamWellFormed ==
    \A j \in Job :
        /\ \A n \in DOMAIN sent[j] :
              sent[j][n] \in Terminal => n = Len(sent[j]) /\ sent[j][n] = state[j]
        /\ pc[j] = "done" => sent[j][Len(sent[j])] \in Terminal
        /\ pc[j] = "done" /\ state[j] = "completed" =>
              Cardinality({n \in DOMAIN sent[j] : sent[j][n] = "epoch"}) = Epochs

\* The retention cleanup never takes the workspace of a job that is still queued
\* or running (README.md:344, "Running/queued jobs cleanup" does not touch).
LiveWorkspaceKept ==
    \A j \in registered : state[j] \in Live => "bundle" \in files[j]

\* GET /api/jobs/{id}/snapshot: a job shown as completed has its snapshot on
\* disk, except while a cleanup is between the rmtree and the del for that job.
SnapshotAvailable ==
    \A j \in registered :
        /\ state[j] = "completed"
        /\ \A t \in Cleaner : ~(clean[t].pc = "drop" /\ clean[t].cur = j)
        => "snapshot" \in files[j]

\* A stop that reached the stop flag before the runner judged the result of
\* training is never answered with "completed".
StopHonoured ==
    \A j \in Job : []((stop[j] = "set" /\ pc[j] \in Training)
                       => [](state[j] # "completed"))

\* implementation-plan.md:1171: a stop takes effect when the current batch ends.
\* Here: a job goes through at most one epoch after a client asked it to stop.
StopWithinEpoch ==
    \A j \in Job : Running(j) /\ stop[j] # "none" => epoch[j] <= sentAt[j] + 1

\* A cleanup that returns normally has removed, from the registry and from the
\* disk, every job that was terminal and old when it began.
CleanupComplete ==
    \A t \in Cleaner : clean[t].pc = "returned" =>
        \A j \in clean[t].due : j \notin registered /\ files[j] = {}

\* Every accepted job reaches a terminal state unless the process dies: neither a
\* stop, nor a cleanup, nor a lost workspace leaves it queued or running.
EveryJobEnds ==
    \A j \in Job : j \in registered ~> (state[j] \in Terminal \/ j \notin registered)

\* A dashboard that stays connected is told how its job ended.
SessionToldEnd ==
    \A c \in Client : client[c].pc = "waiting" ~> client[c].pc # "waiting"

\* Every accepted job ends, and the dashboard watching it is told.
EndsAndTells == EveryJobEnds /\ SessionToldEnd

\* A stop the event loop can still receive is answered.
StopAnswered ==
    \A j \in Job : stop[j] = "sent" ~> stop[j] \in {"set", "refused"}

\* A stop is answered, and one that came in time is honoured.
StopServed == StopAnswered /\ StopHonoured

\* The registry implements JobLifecycle: cleanup, stop and restart included.
life == [j \in Job |-> IF pc[j] \in Handling \cup {"absent", "rejected"} THEN "unknown"
                       ELSE IF j \in registered THEN state[j] ELSE "forgotten"]

Lifecycle == INSTANCE JobLifecycle WITH life <- life

ImplementsLifecycle == Lifecycle!Spec
=============================================================================
