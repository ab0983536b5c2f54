----------------------------- MODULE WorkerPool -----------------------------
(***************************************************************************)
(* The job machinery of the API service: worker/worker_pebble.py, and the  *)
(* tasks of worker/trio_tasks.py that run in it.                           *)
(*                                                                         *)
(* A pool of threads serves a FIFO of jobs.  The dictionaries of the       *)
(* module, keyed by job id, are shared by the threads and the event loop   *)
(* and locked one access at a time.  Each job here belongs to one client,  *)
(* whose name stands for the job id.                                       *)
(***************************************************************************)
EXTENDS Naturals, Sequences, FiniteSets

CONSTANTS
    Session,   \* the clients, each of which submits at most one job
    Kind,      \* Kind[s]: the task it asks for
    Faulty,    \* clients whose graph may fail, when it is loaded or executed
    Workers,   \* max_workers of the thread pool, 4 in the code
    Reports    \* bound: reports of a training, requests to an inference

ASSUME KindAssumption == Kind \in [Session -> {"train", "infer", "export"}]
ASSUME FaultyAssumption == Faulty \subseteq Session
ASSUME WorkersAssumption == Workers \in Nat \ {0}
ASSUME ReportsAssumption == Reports \in Nat

VARIABLES
    pool,    \* jobs waiting for a thread
    thread,  \* how far the thread of a job is
    reports, \* reports or answers the thread has produced
    done,    \* _done
    ev,      \* _done_ev is set
    frames,  \* requests in the job's inbox
    shut,    \* _CLOSE is in the inbox
    hook,    \* the task has registered its kill hook, nobody has taken it
    killed,  \* the task's flag, set by the hook
    events   \* the job's progress queue

poolVars == <<pool, thread, reports, done, ev, frames, shut, hook, killed, events>>

Phase  == {"start", "state", "inference", "stopping", "stopped", "done", "error"}
Final  == {"stopped", "done", "error"}
Thread == {"none", "queued", "fresh", "running", "executing", "returned",
           "stored", "ended"}

PoolTypeOK ==
    /\ pool \in Seq(Session)
    /\ thread \in [Session -> Thread]
    /\ reports \in [Session -> 0..Reports]
    /\ done \in [Session -> BOOLEAN]
    /\ ev \in [Session -> BOOLEAN]
    /\ frames \in [Session -> 0..Reports]
    /\ shut \in [Session -> BOOLEAN]
    /\ hook \in [Session -> BOOLEAN]
    /\ killed \in [Session -> BOOLEAN]
    /\ events \in [Session -> Seq(Phase)]

PoolInit ==
    /\ pool = <<>>
    /\ thread = [s \in Session |-> "none"]
    /\ reports = [s \in Session |-> 0]
    /\ done = [s \in Session |-> FALSE]
    /\ ev = [s \in Session |-> FALSE]
    /\ frames = [s \in Session |-> 0]
    /\ shut = [s \in Session |-> FALSE]
    /\ hook = [s \in Session |-> FALSE]
    /\ killed = [s \in Session |-> FALSE]
    /\ events = [s \in Session |-> <<>>]

\* The thread works on the context: it runs the graph, trains or exports it.
Using(s) == \/ thread[s] = "executing"
            \/ thread[s] = "fresh"
            \/ thread[s] = "running" /\ Kind[s] # "infer"

\* _emit_for: puts reach the queue in the order of the emits.
Emit(s, phases) == events' = [events EXCEPT ![s] = @ \o phases]

-----------------------------------------------------------------------------
(* Called on the event loop *)

Submit(s) ==
    /\ pool' = Append(pool, s)
    /\ thread' = [thread EXCEPT ![s] = "queued"]
    /\ UNCHANGED <<reports, done, ev, frames, shut, hook, killed, events>>

\* kill: the job counts as done from now on, whatever its thread is doing.
Kill(s) ==
    IF done[s] THEN UNCHANGED poolVars
    ELSE /\ shut' = [shut EXCEPT ![s] = TRUE]
         /\ done' = [done EXCEPT ![s] = TRUE]
         /\ ev' = [ev EXCEPT ![s] = TRUE]
         /\ hook' = [hook EXCEPT ![s] = FALSE]
         /\ killed' = [killed EXCEPT ![s] = @ \/ hook[s]]
         /\ Emit(s, (IF hook[s] THEN <<"stopped">> ELSE <<>>) \o <<"stopped">>)
         /\ UNCHANGED <<pool, thread, reports, frames>>

\* stop up to its wait for the job's event.
BeginStop(s) ==
    /\ hook' = [hook EXCEPT ![s] = FALSE]
    /\ IF done[s] THEN UNCHANGED <<shut, killed, events>>
       ELSE /\ shut' = [shut EXCEPT ![s] = TRUE]
            /\ killed' = [killed EXCEPT ![s] = @ \/ hook[s]]
            /\ Emit(s, (IF hook[s] THEN <<"stopped">> ELSE <<>>) \o <<"stopping">>)
    /\ UNCHANGED <<pool, thread, reports, done, ev, frames>>

-----------------------------------------------------------------------------
(* Run by the pool's threads *)

Running == {s \in Session : thread[s] \notin {"none", "queued", "ended"}}

\* A free thread takes the first job; both session tasks say "start" first.
StartThread(s) ==
    /\ pool # <<>> /\ s = Head(pool) /\ Cardinality(Running) < Workers
    /\ pool' = Tail(pool)
    /\ thread' = [thread EXCEPT ![s] = "fresh"]
    /\ Emit(s, IF Kind[s] = "export" THEN <<>> ELSE <<"start">>)
    /\ UNCHANGED <<reports, done, ev, frames, shut, hook, killed>>

\* train_task registers its kill hook, infer_task has run the graph once.
Ready(s) ==
    /\ thread[s] = "fresh" /\ Kind[s] # "export"
    /\ thread' = [thread EXCEPT ![s] = "running"]
    /\ hook' = [hook EXCEPT ![s] = Kind[s] = "train"]
    /\ UNCHANGED <<pool, reports, done, ev, frames, shut, killed, events>>

\* One report of nodes.train: nothing has read the inbox, so only the hook's
\* flag can end the loop.
Report(s) ==
    /\ thread[s] = "running" /\ Kind[s] = "train"
    /\ ~killed[s] /\ reports[s] < Reports
    /\ reports' = [reports EXCEPT ![s] = @ + 1]
    /\ Emit(s, <<"state">>)
    /\ UNCHANGED <<pool, thread, done, ev, frames, shut, hook, killed>>

StopTraining(s) ==
    /\ thread[s] = "running" /\ Kind[s] = "train" /\ killed[s]
    /\ thread' = [thread EXCEPT ![s] = "returned"]
    /\ Emit(s, IF reports[s] < Reports THEN <<"stopped">> ELSE <<>>)
    /\ UNCHANGED <<pool, reports, done, ev, frames, shut, hook, killed>>

EndTraining(s) ==
    /\ thread[s] = "running" /\ Kind[s] = "train"
    /\ ~killed[s] /\ reports[s] = Reports
    /\ thread' = [thread EXCEPT ![s] = "returned"]
    /\ Emit(s, <<"done">>)
    /\ UNCHANGED <<pool, reports, done, ev, frames, shut, hook, killed>>

\* infer_task takes a request and runs the graph on it.
TakeFrame(s) ==
    /\ thread[s] = "running" /\ Kind[s] = "infer" /\ frames[s] > 0
    /\ frames' = [frames EXCEPT ![s] = @ - 1]
    /\ thread' = [thread EXCEPT ![s] = "executing"]
    /\ UNCHANGED <<pool, reports, done, ev, shut, hook, killed, events>>

AnswerFrame(s) ==
    /\ thread[s] = "executing" /\ reports[s] < Reports
    /\ thread' = [thread EXCEPT ![s] = "running"]
    /\ reports' = [reports EXCEPT ![s] = @ + 1]
    /\ \/ Emit(s, <<"inference">>)
       \/ s \in Faulty /\ Emit(s, <<"error">>)
    /\ UNCHANGED <<pool, done, ev, frames, shut, hook, killed>>

\* The inbox holds nothing but _CLOSE: pop raises EOFError.
EndInference(s) ==
    /\ thread[s] = "running" /\ Kind[s] = "infer" /\ frames[s] = 0 /\ shut[s]
    /\ thread' = [thread EXCEPT ![s] = "returned"]
    /\ UNCHANGED <<pool, reports, done, ev, frames, shut, hook, killed, events>>

\* A graph that cannot be executed: the task says so and returns.
RaiseError(s) ==
    /\ s \in Faulty
    /\ \/ thread[s] = "running" /\ Kind[s] = "train"
       \/ thread[s] = "fresh" /\ Kind[s] = "infer"
    /\ thread' = [thread EXCEPT ![s] = "returned"]
    /\ Emit(s, <<"error">>)
    /\ UNCHANGED <<pool, reports, done, ev, frames, shut, hook, killed>>

Export(s) ==
    /\ thread[s] = "fresh" /\ Kind[s] = "export"
    /\ thread' = [thread EXCEPT ![s] = "returned"]
    /\ UNCHANGED <<pool, reports, done, ev, frames, shut, hook, killed, events>>

\* _on_done_f stores the result and emits, ...
StoreResult(s) ==
    /\ thread[s] = "returned"
    /\ thread' = [thread EXCEPT ![s] = "stored"]
    /\ Emit(s, <<"done">>)
    /\ UNCHANGED <<pool, reports, done, ev, frames, shut, hook, killed>>

\* ... then _mark_done wakes whoever waits, and the thread is free.
MarkDone(s) ==
    /\ thread[s] = "stored"
    /\ thread' = [thread EXCEPT ![s] = "ended"]
    /\ done' = [done EXCEPT ![s] = TRUE]
    /\ ev' = [ev EXCEPT ![s] = TRUE]
    /\ shut' = [shut EXCEPT ![s] = TRUE]
    /\ UNCHANGED <<pool, reports, frames, hook, killed, events>>

RunThread(s) ==
    \/ StartThread(s) \/ Ready(s)
    \/ Report(s) \/ StopTraining(s) \/ EndTraining(s)
    \/ TakeFrame(s) \/ AnswerFrame(s) \/ EndInference(s)
    \/ RaiseError(s) \/ Export(s)
    \/ StoreResult(s) \/ MarkDone(s)
=============================================================================
