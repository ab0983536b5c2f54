----------------------------- MODULE TrioServer -----------------------------
(***************************************************************************)
(* Training, inference and export sessions of the API service on top of    *)
(* WorkerPool: the handlers of routes/trio_bp.py, stream_progress of       *)
(* common/stream_progressor.py, the calls of common/trio_exec.py and the   *)
(* busy marks of common/context_cache.py.                                  *)
(*                                                                         *)
(* All handlers share one event loop and suspend only at an await.  A stop *)
(* is the exception: wp.stop waits for the job's event on the loop itself, *)
(* and "loop" names the session it waits for.                              *)
(***************************************************************************)
EXTENDS WorkerPool

CONSTANTS
    Context,   \* the models (user, scene, context name)
    CtxOf,     \* CtxOf[s]: the context a client works on
    Local,     \* training clients that synchronise a local dataset first
    Leaving,   \* clients that may lose or close their connection
    Stopping,  \* clients that may send {"stop": true}
    Free       \* the event loop waits for nothing

ASSUME CtxOfAssumption == CtxOf \in [Session -> Context]
ASSUME ClientAssumption ==
    /\ Local \subseteq {s \in Session : Kind[s] = "train"}
    /\ Leaving \subseteq Session /\ Stopping \subseteq Session
ASSUME FreeAssumption == Free \notin Session

VARIABLES
    pc,        \* how far the handler is
    online,    \* the client is connected
    hears,     \* recv_loop is still reading
    stopped,   \* the variable killed of stream_progress
    pending,   \* pending_msgs: requests that came before "start"
    asked,     \* history: requests the client has made
    told,      \* history: the last phase the client was told
    training,  \* task_state["training"]
    infer,     \* task_state["infer"]
    loop       \* the session whose stop holds the event loop

sessionVars == <<pc, online, hears, stopped, pending, asked, told, training, infer, loop>>
vars == <<poolVars, sessionVars>>

PC == {"new", "dataset", "streaming", "closing", "waiting", "over",
       "refused", "crashed"}

TypeOK ==
    /\ PoolTypeOK
    /\ pc \in [Session -> PC]
    /\ online \in [Session -> BOOLEAN]
    /\ hears \in [Session -> BOOLEAN]
    /\ stopped \in [Session -> BOOLEAN]
    /\ pending \in [Session -> 0..Reports]
    /\ asked \in [Session -> 0..Reports]
    /\ told \in [Session -> Phase \cup {"none"}]
    /\ training \subseteq Context
    /\ infer \subseteq Context
    /\ loop \in Session \cup {Free}

Init ==
    /\ PoolInit
    /\ pc = [s \in Session |-> "new"]
    /\ online = [s \in Session |-> TRUE]
    /\ hears = [s \in Session |-> FALSE]
    /\ stopped = [s \in Session |-> FALSE]
    /\ pending = [s \in Session |-> 0]
    /\ asked = [s \in Session |-> 0]
    /\ told = [s \in Session |-> "none"]
    /\ training = {}
    /\ infer = {}
    /\ loop = Free

Busy(s) == CtxOf[s] \in training \cup infer

-----------------------------------------------------------------------------
(* Admission: the check of the busy marks, and the marks *)

Refuse(s) ==
    /\ pc[s] = "new" /\ Busy(s)
    /\ pc' = [pc EXCEPT ![s] = "refused"]
    /\ UNCHANGED <<poolVars, online, hears, stopped, pending, asked, told,
                   training, infer, loop>>

\* A client with a local dataset has passed the check; its blocks come next.
AwaitDataset(s) ==
    /\ pc[s] = "new" /\ ~Busy(s) /\ s \in Local
    /\ pc' = [pc EXCEPT ![s] = "dataset"]
    /\ UNCHANGED <<poolVars, online, hears, stopped, pending, asked, told,
                   training, infer, loop>>

\* Fault: inference is admitted to a context that infers already.
PassesInference(s) ==
    \/ pc[s] = "new" /\ s \notin Local /\ CtxOf[s] \notin training
    \/ pc[s] = "dataset"
Passes(s) == \/ pc[s] = "new" /\ s \notin Local /\ ~Busy(s)
             \/ pc[s] = "dataset"

\* The client is gone before its blocks have come; nothing is marked yet.
Abandon(s) ==
    /\ pc[s] = "dataset" /\ s \in Leaving
    /\ pc' = [pc EXCEPT ![s] = "crashed"]
    /\ UNCHANGED <<poolVars, online, hears, stopped, pending, asked, told,
                   training, infer, loop>>

\* Fault: inference leaves no mark.
MarkTraining(s) ==
    /\ training' = IF Kind[s] = "train" THEN training \cup {CtxOf[s]} ELSE training
    /\ infer' = infer
Mark(s) ==
    /\ training' = IF Kind[s] = "train" THEN training \cup {CtxOf[s]} ELSE training
    /\ infer' = IF Kind[s] = "infer" THEN infer \cup {CtxOf[s]} ELSE infer

\* An exception in get_or_load_ctx leaves the mark behind.
Crash(s) ==
    /\ Passes(s) /\ s \in Faulty /\ Kind[s] # "export"
    /\ Mark(s)
    /\ pc' = [pc EXCEPT ![s] = "crashed"]
    /\ UNCHANGED <<poolVars, online, hears, stopped, pending, asked, told, loop>>

\* The context is marked and loaded, the job submitted and streamed.  An export
\* waits for its job without a mark or a stream.
Admit(s) ==
    /\ Passes(s)
    /\ Mark(s)
    /\ Submit(s)
    /\ pc' = [pc EXCEPT ![s] = IF Kind[s] = "export" THEN "waiting" ELSE "streaming"]
    /\ hears' = [hears EXCEPT ![s] = Kind[s] # "export"]
    /\ UNCHANGED <<online, stopped, pending, asked, told, loop>>

-----------------------------------------------------------------------------
(* recv_loop *)

\* The inbox after n more requests: once the job is done, send finds none.
Kept(s, n) == IF thread[s] = "ended" THEN frames[s] ELSE frames[s] + n

\* A request waits until the worker has said "start".
ReceiveFrame(s) ==
    /\ hears[s] /\ online[s] /\ Kind[s] = "infer" /\ asked[s] < Reports
    /\ asked' = [asked EXCEPT ![s] = @ + 1]
    /\ IF told[s] = "none"
       THEN pending' = [pending EXCEPT ![s] = @ + 1] /\ UNCHANGED poolVars
       ELSE /\ frames' = [frames EXCEPT ![s] = Kept(s, 1)]
            /\ UNCHANGED <<pool, thread, reports, done, ev, shut, hook, killed,
                           events, pending>>
    /\ UNCHANGED <<pc, online, hears, stopped, told, training, infer, loop>>

\* wp.stop begins; it waits on the event loop unless the job is done.
ReceiveStop(s) ==
    /\ hears[s] /\ online[s] /\ s \in Stopping
    /\ BeginStop(s)
    /\ loop' = s
    /\ hears' = [hears EXCEPT ![s] = FALSE]
    /\ UNCHANGED <<pc, online, stopped, pending, asked, told, training, infer>>

\* The job's event is set: wp.stop returns and the loop is free.
StopReturns(s) ==
    /\ loop = s /\ (ev[s] \/ done[s])
    /\ loop' = Free
    /\ stopped' = [stopped EXCEPT ![s] = TRUE]
    /\ UNCHANGED <<poolVars, pc, online, hears, pending, asked, told, training, infer>>

\* Fault: recv_loop ends without killing the job.
NoticeClosedOnly(s) ==
    /\ hears[s] /\ ~online[s]
    /\ hears' = [hears EXCEPT ![s] = FALSE]
    /\ stopped' = [stopped EXCEPT ![s] = TRUE]
    /\ UNCHANGED <<poolVars, pc, online, pending, asked, told, training, infer, loop>>
NoticeClosed(s) ==
    /\ hears[s] /\ ~online[s]
    /\ Kill(s)
    /\ hears' = [hears EXCEPT ![s] = FALSE]
    /\ stopped' = [stopped EXCEPT ![s] = TRUE]
    /\ UNCHANGED <<pc, online, pending, asked, told, training, infer, loop>>

-----------------------------------------------------------------------------
(* stream_progress and what follows it *)

\* After an update that is not final the job itself is polled.
LastUpdate(s) == Head(events[s]) \in Final \/ done[s]

\* The inbox once pending_msgs are flushed.  Faults: they are dropped, or doubled.
ReleasedNone(s) == frames[s]
ReleasedTwice(s) == Kept(s, 2 * pending[s])
Released(s) == Kept(s, pending[s])

\* One update is sent to the client; "start" releases the pending requests.
SendUpdate(s) ==
    /\ pc[s] = "streaming" /\ online[s] /\ events[s] # <<>>
    /\ events' = [events EXCEPT ![s] = Tail(@)]
    /\ told' = [told EXCEPT ![s] = IF Head(events[s]) \notin Final /\ LastUpdate(s)
                                   THEN "done" ELSE Head(events[s])]
    /\ frames' = [frames EXCEPT ![s] = Released(s)]
    /\ pending' = [pending EXCEPT ![s] = 0]
    /\ pc' = [pc EXCEPT ![s] = IF LastUpdate(s) THEN "closing" ELSE @]
    /\ hears' = [hears EXCEPT ![s] = @ /\ ~LastUpdate(s)]
    /\ UNCHANGED <<pool, thread, reports, done, ev, shut, hook, killed,
                   online, stopped, asked, training, infer, loop>>

\* "start" releases the pending requests though it cannot be sent afterwards.
FlushUnsent(s) ==
    /\ pc[s] = "streaming" /\ ~online[s] /\ events[s] # <<>>
    /\ Head(events[s]) = "start" /\ pending[s] > 0
    /\ frames' = [frames EXCEPT ![s] = Released(s)]
    /\ pending' = [pending EXCEPT ![s] = 0]
    /\ UNCHANGED <<pool, thread, reports, done, ev, shut, hook, killed, events, pc,
                   online, hears, stopped, asked, told, training, infer, loop>>

\* The update cannot be sent.
SendFails(s) ==
    /\ pc[s] = "streaming" /\ ~online[s] /\ events[s] # <<>>
    /\ Head(events[s]) # "start" \/ pending[s] = 0
    /\ Kill(s)
    /\ stopped' = [stopped EXCEPT ![s] = TRUE]
    /\ hears' = [hears EXCEPT ![s] = FALSE]
    /\ pc' = [pc EXCEPT ![s] = "closing"]
    /\ UNCHANGED <<online, pending, asked, told, training, infer, loop>>

\* The finally block kills the job unless that was done; only training waits.
CloseStream(s) ==
    /\ pc[s] = "closing"
    /\ IF stopped[s] THEN UNCHANGED poolVars ELSE Kill(s)
    /\ pc' = [pc EXCEPT ![s] = IF Kind[s] = "train" THEN "waiting" ELSE "over"]
    /\ infer' = IF Kind[s] = "infer" THEN infer \ {CtxOf[s]} ELSE infer
    /\ UNCHANGED <<online, hears, stopped, pending, asked, told, training, loop>>

\* wait_done returns; training drops its mark and saves the context.
Finish(s) ==
    /\ pc[s] = "waiting" /\ ev[s]
    /\ pc' = [pc EXCEPT ![s] = "over"]
    /\ training' = IF Kind[s] = "train" THEN training \ {CtxOf[s]} ELSE training
    /\ UNCHANGED <<poolVars, online, hears, stopped, pending, asked, told, infer, loop>>

Leave(s) ==
    /\ online[s] /\ s \in Leaving /\ pc[s] = "streaming"
    /\ online' = [online EXCEPT ![s] = FALSE]
    /\ UNCHANGED <<poolVars, pc, hears, stopped, pending, asked, told, training,
                   infer, loop>>

-----------------------------------------------------------------------------
\* What a session does by itself once admitted, and what takes its client.
Advance(s) ==
    \/ NoticeClosed(s) \/ SendUpdate(s) \/ FlushUnsent(s) \/ SendFails(s)
    \/ CloseStream(s) \/ Finish(s)

Arrive(s) == Refuse(s) \/ AwaitDataset(s) \/ Abandon(s) \/ Crash(s) \/ Admit(s)

Handle(s) == Arrive(s) \/ Advance(s) \/ ReceiveFrame(s) \/ ReceiveStop(s)

Next == \E s \in Session :
    \/ RunThread(s) /\ UNCHANGED sessionVars
    \/ loop = Free /\ Handle(s)
    \/ StopReturns(s)
    \/ Leave(s)

Spec == Init /\ [][Next]_vars

\* Threads run and the event loop runs what is ready; clients need not come, ask
\* or stop, but one that uses inference leaves some day.
Fairness == \A s \in Session :
    /\ WF_vars(RunThread(s) /\ UNCHANGED sessionVars)
    /\ WF_vars(StopReturns(s))
    /\ WF_vars(loop = Free /\ Advance(s))
    /\ WF_vars(Leave(s) /\ Kind[s] = "infer")

FairSpec == Spec /\ Fairness

-----------------------------------------------------------------------------
(* Properties *)

\* A context that a worker thread trains or infers is marked busy, so nobody
\* else is admitted to it, unless the job was killed: then it counts as done
\* while its thread goes on.
MarkedWhileUsed == \A s \in Session :
    Using(s) /\ ~done[s] /\ Kind[s] # "export" => Busy(s)

\* Two worker threads never work on the same context.
ContextExclusive == \A s, t \in Session :
    s # t /\ CtxOf[s] = CtxOf[t] => ~(Using(s) /\ Using(t))

\* A session that marked its context finds the mark when it takes it away.
MarkKept == \A s \in Session : pc[s] \in {"streaming", "closing", "waiting"} =>
    /\ Kind[s] = "train" => CtxOf[s] \in training
    /\ Kind[s] = "infer" => CtxOf[s] \in infer

\* While the thread is there no request is lost or doubled, not even one made
\* before "start": all are pending, queued, being executed or answered.
FramesKept == \A s \in Session :
    Kind[s] = "infer" /\ thread[s] # "ended" =>
        asked[s] = pending[s] + frames[s] + reports[s]
                     + (IF thread[s] = "executing" THEN 1 ELSE 0)

\* A stop gives the event loop back.
LoopReleased == \A s \in Session : loop = s ~> loop = Free

\* Every mark is dropped again: no context stays busy for ever.
MarksDropped == \A c \in Context :
    c \in training \cup infer ~> c \notin training \cup infer

\* Whatever a session takes it gives back: the event loop and its context's mark.
AllReturned == LoopReleased /\ MarksDropped
=============================================================================
