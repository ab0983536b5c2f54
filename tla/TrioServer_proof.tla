-------------------------- MODULE TrioServer_proof --------------------------
(***************************************************************************)
(* TrioServer is type correct and loses no request, for any clients,       *)
(* contexts and threads; busy marks belong to their sessions and cover the *)
(* worker threads if no other training shares the context of a client that *)
(* synchronises a dataset between the check and the mark.                  *)
(***************************************************************************)
EXTENDS TrioServer, SequenceTheorems, TLAPS

\* A job is in the queue once, and not yet on a thread.
PoolInv ==
    /\ \A i \in 1..Len(pool) : thread[pool[i]] = "queued"
    /\ \A i, j \in 1..Len(pool) : pool[i] = pool[j] => i = j

\* A session that has not been admitted has no job, one that is over has a job
\* that counts as done, and so has one whose stop or event is known.
Outside == {"new", "dataset", "refused", "crashed"}
SessionInv == \A s \in Session :
    /\ pc[s] \in Outside => thread[s] = "none"
    /\ pc[s] = "dataset" => s \in Local
    /\ pc[s] = "waiting" => Kind[s] # "infer"
    /\ pc[s] = "over" => done[s]
    /\ ev[s] => done[s]
    /\ stopped[s] => done[s]
    /\ Kind[s] # "infer" => pending[s] = 0
    /\ pending[s] <= asked[s]

IInv == TypeOK /\ PoolInv /\ SessionInv /\ FramesKept

\* The requests of an inference that its thread executes.
Executing(s) == IF thread[s] = "executing" THEN 1 ELSE 0

-----------------------------------------------------------------------------
\* Progress queues stay sequences of phases.
LEMMA EmitType ==
    ASSUME PoolTypeOK, NEW s \in Session, NEW phases \in Seq(Phase), Emit(s, phases)
    PROVE  events' \in [Session -> Seq(Phase)]
<1>1. events[s] \o phases \in Seq(Phase)
  BY ConcatProperties DEF PoolTypeOK
<1> QED BY <1>1 DEF Emit, PoolTypeOK

\* Everything begins with no job and no request.
LEMMA InitIInv == Init => IInv
<1> SUFFICES ASSUME Init PROVE IInv
  OBVIOUS
<1> USE DEF Init, PoolInit
<1>1. PoolTypeOK
  BY ReportsAssumption, EmptySeq DEF PoolTypeOK, Thread
<1>2. TypeOK
  BY <1>1, ReportsAssumption DEF TypeOK, PC
<1>3. PoolInv
  BY DEF PoolInv
<1>4. SessionInv
  BY DEF SessionInv, Outside
<1>5. FramesKept
  BY DEF FramesKept
<1> QED BY <1>2, <1>3, <1>4, <1>5 DEF IInv

-----------------------------------------------------------------------------
\* What a step of a thread may change of a job, apart from its progress queue.
\* Its pool is that of a later lemma.
Worked(s) ==
    /\ thread[s] \notin {"none", "ended"}
    /\ \E to \in Thread \ {"none", "queued"} : thread' = [thread EXCEPT ![s] = to]
    /\ \E n \in 0..Reports : reports' = [reports EXCEPT ![s] = n]
    /\ \E n \in 0..Reports : frames' = [frames EXCEPT ![s] = n]
    /\ thread'[s] # "ended" /\ Kind[s] = "infer" =>
          frames'[s] + reports'[s] + Executing(s)' = frames[s] + reports[s] + Executing(s)
    /\ \/ UNCHANGED <<done, ev, shut>>
       \/ /\ done' = [done EXCEPT ![s] = TRUE]
          /\ ev' = [ev EXCEPT ![s] = TRUE]
          /\ shut' = [shut EXCEPT ![s] = TRUE]
    /\ \E b \in BOOLEAN : hook' = [hook EXCEPT ![s] = b]
    /\ UNCHANGED killed

\* Each step of a thread changes its own job only and keeps count of requests.
LEMMA RunThreadWorks ==
    ASSUME IInv, NEW s \in Session, RunThread(s)
    PROVE  Worked(s) /\ events' \in [Session -> Seq(Phase)]
<1> USE ReportsAssumption
<1> PoolTypeOK
  BY DEF IInv, TypeOK
<1> /\ frames[s] \in 0..Reports /\ reports[s] \in 0..Reports /\ thread[s] \in Thread
    /\ Kind[s] \in {"train", "infer", "export"}
    /\ thread \in [Session -> Thread] /\ hook \in [Session -> BOOLEAN]
    /\ frames \in [Session -> 0..Reports] /\ reports \in [Session -> 0..Reports]
    /\ hook[s] \in BOOLEAN /\ events \in [Session -> Seq(Phase)]
  BY KindAssumption DEF PoolTypeOK
<1> /\ frames = [frames EXCEPT ![s] = frames[s]]
    /\ reports = [reports EXCEPT ![s] = reports[s]]
    /\ thread = [thread EXCEPT ![s] = thread[s]] /\ hook = [hook EXCEPT ![s] = hook[s]]
  OBVIOUS
<1> /\ <<>> \in Seq(Phase) /\ \A p \in Phase : <<p>> \in Seq(Phase)
  OBVIOUS
<1> {"start", "state", "inference", "done", "stopped", "error"} \subseteq Phase
  BY DEF Phase
<1>1. CASE StartThread(s)
  <2>1. thread[s] = "queued"
    BY <1>1 DEF StartThread, IInv, PoolInv, PoolTypeOK
  <2>2. Worked(s)
    BY <1>1, <2>1 DEF StartThread, Worked, Executing, Thread
  <2> QED BY <1>1, <2>2, EmitType DEF StartThread
<1>2. CASE Ready(s)
  BY <1>2 DEF Ready, Worked, Executing, Thread
<1>3. CASE Report(s)
  <2>0. /\ reports[s] + 1 \in 0..Reports /\ reports' = [reports EXCEPT ![s] = reports[s] + 1]
        /\ UNCHANGED <<thread, frames, hook>> /\ thread[s] = "running" /\ Kind[s] = "train"
    BY <1>3 DEF Report
  <2>1. Worked(s)
    BY <1>3, <2>0 DEF Report, Worked, Executing, Thread
  <2> QED BY <1>3, <2>1, EmitType DEF Report
<1>4. CASE StopTraining(s)
  <2>1. Worked(s)
    BY <1>4 DEF StopTraining, Worked, Executing, Thread
  <2> QED BY <1>4, <2>1, EmitType DEF StopTraining
<1>5. CASE EndTraining(s)
  <2>1. Worked(s)
    BY <1>5 DEF EndTraining, Worked, Executing, Thread
  <2> QED BY <1>5, <2>1, EmitType DEF EndTraining
<1>6. CASE TakeFrame(s)
  <2>1. /\ frames[s] - 1 \in 0..Reports /\ frames' = [frames EXCEPT ![s] = frames[s] - 1]
        /\ thread' = [thread EXCEPT ![s] = "executing"]
        /\ thread[s] = "running" /\ UNCHANGED <<reports, hook>>
    BY <1>6 DEF TakeFrame
  <2>2. frames'[s] + reports'[s] + Executing(s)' = frames[s] + reports[s] + Executing(s)
    BY <2>1 DEF Executing
  <2> QED BY <1>6, <2>1, <2>2 DEF TakeFrame, Worked, Thread
<1>7. CASE AnswerFrame(s)
  <2>0. /\ reports[s] + 1 \in 0..Reports /\ reports' = [reports EXCEPT ![s] = reports[s] + 1]
        /\ thread' = [thread EXCEPT ![s] = "running"]
        /\ thread[s] = "executing" /\ UNCHANGED <<frames, hook>>
    BY <1>7 DEF AnswerFrame
  <2>3. frames'[s] + reports'[s] + Executing(s)' = frames[s] + reports[s] + Executing(s)
    BY <2>0 DEF Executing
  <2>1. Worked(s)
    BY <1>7, <2>0, <2>3 DEF AnswerFrame, Worked, Thread
  <2>2. Emit(s, <<"inference">>) \/ Emit(s, <<"error">>)
    BY <1>7 DEF AnswerFrame
  <2> QED BY <2>1, <2>2, EmitType
<1>8. CASE EndInference(s)
  BY <1>8 DEF EndInference, Worked, Executing, Thread
<1>9. CASE RaiseError(s)
  <2>1. Worked(s)
    BY <1>9 DEF RaiseError, Worked, Executing, Thread
  <2> QED BY <1>9, <2>1, EmitType DEF RaiseError
<1>10. CASE Export(s)
  BY <1>10 DEF Export, Worked, Executing, Thread
<1>11. CASE StoreResult(s)
  <2>1. Worked(s)
    BY <1>11 DEF StoreResult, Worked, Executing, Thread
  <2> QED BY <1>11, <2>1, EmitType DEF StoreResult
<1>12. CASE MarkDone(s)
  BY <1>12 DEF MarkDone, Worked, Executing, Thread
<1> QED
  BY <1>1, <1>2, <1>3, <1>4, <1>5, <1>6, <1>7, <1>8, <1>9, <1>10, <1>11, <1>12
     DEF RunThread

\* A job leaves the queue for a thread and is not in it any more.
LEMMA RunThreadPool ==
    ASSUME IInv, NEW s \in Session, RunThread(s)
    PROVE  pool' \in Seq(Session) /\ PoolInv'
<1> /\ pool \in Seq(Session) /\ thread \in [Session -> Thread] /\ PoolInv
    /\ \A i \in 1..Len(pool) : pool[i] \in Session
  BY SMTT(30) DEF IInv, TypeOK, PoolTypeOK
<1> PICK to \in Thread \ {"none", "queued"} : thread' = [thread EXCEPT ![s] = to]
  BY RunThreadWorks DEF Worked
<1>1. CASE StartThread(s)
  <2>1. /\ pool # <<>> /\ s = pool[1] /\ pool' = Tail(pool)
    BY <1>1 DEF StartThread
  <2>2. /\ pool' \in Seq(Session) /\ Len(pool') = Len(pool) - 1 /\ Len(pool) \in Nat
        /\ \A i \in 1..Len(pool') : pool'[i] = pool[i + 1]
    BY <2>1, HeadTailProperties, LenProperties
  <2>3. \A i \in 1..Len(pool') : i + 1 \in 1..Len(pool) /\ pool'[i] # s
    BY <2>1, <2>2 DEF PoolInv
  <2> QED BY SMTT(30), <2>2, <2>3 DEF PoolInv
<1>2. CASE ~StartThread(s)
  <2>1. UNCHANGED pool /\ thread[s] # "queued"
    BY <1>2 DEF RunThread, Ready, Report, StopTraining, EndTraining, TakeFrame, AnswerFrame,
                EndInference, RaiseError, Export, StoreResult, MarkDone
  <2> QED BY <2>1 DEF PoolInv
<1> QED BY <1>1, <1>2

\* A step of a thread keeps the invariant.
LEMMA ThreadStep ==
    ASSUME IInv, NEW s \in Session, RunThread(s), UNCHANGED sessionVars
    PROVE  IInv'
<1> USE ReportsAssumption
<1> IInv /\ TypeOK /\ PoolTypeOK /\ SessionInv /\ FramesKept
  BY DEF IInv, TypeOK
<1>1. Worked(s) /\ events' \in [Session -> Seq(Phase)]
  BY RunThreadWorks
<1>2. pool' \in Seq(Session) /\ PoolInv'
  BY RunThreadPool
<1>3. PoolTypeOK'
  <2> /\ thread \in [Session -> Thread] /\ reports \in [Session -> 0..Reports]
      /\ frames \in [Session -> 0..Reports] /\ hook \in [Session -> BOOLEAN]
      /\ done \in [Session -> BOOLEAN] /\ ev \in [Session -> BOOLEAN]
      /\ shut \in [Session -> BOOLEAN] /\ killed \in [Session -> BOOLEAN]
    BY DEF PoolTypeOK
  <2>1. thread' \in [Session -> Thread]
    BY <1>1 DEF Worked
  <2>2. reports' \in [Session -> 0..Reports] /\ frames' \in [Session -> 0..Reports]
    BY <1>1 DEF Worked
  <2>3. hook' \in [Session -> BOOLEAN] /\ killed' \in [Session -> BOOLEAN]
    BY <1>1 DEF Worked
  <2>4. /\ done' \in [Session -> BOOLEAN] /\ ev' \in [Session -> BOOLEAN]
        /\ shut' \in [Session -> BOOLEAN]
    BY <1>1 DEF Worked
  <2> QED BY <1>1, <1>2, <2>1, <2>2, <2>3, <2>4 DEF PoolTypeOK
<1>4. TypeOK'
  BY <1>3 DEF TypeOK, sessionVars
<1>5. SessionInv'
  <2> SUFFICES ASSUME NEW u \in Session PROVE SessionInv!(u)'
    BY DEF SessionInv
  <2>1. /\ thread[s] # "none" /\ (u # s => thread'[u] = thread[u])
        /\ (done[u] => done'[u]) /\ (ev'[u] => ev[u] \/ done'[u])
    BY SMTT(30), <1>1, <1>3 DEF Worked, PoolTypeOK
  <2> QED BY <2>1 DEF SessionInv, sessionVars, Outside
<1>6. FramesKept'
  <2> SUFFICES ASSUME NEW u \in Session, Kind[u] = "infer", thread'[u] # "ended"
               PROVE  asked[u] = pending[u] + frames'[u] + reports'[u] + Executing(u)'
    BY DEF FramesKept, Executing, sessionVars
  <2>0. asked[u] \in Nat /\ pending[u] \in Nat
        /\ frames[u] \in Nat /\ reports[u] \in Nat /\ frames'[u] \in Nat /\ reports'[u] \in Nat
    BY <1>3 DEF TypeOK, PoolTypeOK
  <2>1. CASE u = s
    <3>1. asked[u] = pending[u] + frames[u] + reports[u] + Executing(u)
      BY <1>1, <2>1 DEF FramesKept, Executing, Worked
    <3>2. frames'[u] + reports'[u] + Executing(u)' = frames[u] + reports[u] + Executing(u)
      BY <1>1, <2>1 DEF Worked
    <3> QED BY <2>0, <3>1, <3>2 DEF Executing
  <2>2. CASE u # s
    <3>1. thread'[u] = thread[u] /\ frames'[u] = frames[u] /\ reports'[u] = reports[u]
      BY <1>1, <2>2 DEF Worked, PoolTypeOK
    <3> QED BY <2>0, <3>1 DEF FramesKept, Executing
  <2> QED BY <2>1, <2>2
<1> QED BY <1>2, <1>4, <1>5, <1>6 DEF IInv

-----------------------------------------------------------------------------
\* What kill and stop put into the progress queue, with or without a hook.
LEMMA StopPhases ==
    \A b \in BOOLEAN, p \in {"stopped", "stopping"} :
        (IF b THEN <<"stopped">> ELSE <<>>) \o <<p>> \in Seq(Phase)
<1> SUFFICES ASSUME NEW b \in BOOLEAN, NEW p \in {"stopped", "stopping"}
             PROVE  (IF b THEN <<"stopped">> ELSE <<>>) \o <<p>> \in Seq(Phase)
  OBVIOUS
<1> "stopped" \in Phase /\ p \in Phase
  BY DEF Phase
<1>1. <<"stopped">> \in Seq(Phase) /\ <<p>> \in Seq(Phase)
  OBVIOUS
<1> HIDE DEF Phase
<1>2. <<>> \in Seq(Phase)
  BY EmptySeq
<1> QED BY <1>1, <1>2, ConcatProperties

\* kill settles the job of its session and touches no thread, inbox or queue.
LEMMA KillSettles ==
    ASSUME IInv, NEW s \in Session, Kill(s)
    PROVE  /\ PoolTypeOK' /\ UNCHANGED <<pool, thread, reports, frames>>
           /\ done'[s] /\ \A u \in Session : (done[u] \/ ev'[u] => done'[u])
<1> /\ PoolTypeOK /\ SessionInv
  BY DEF IInv, TypeOK
<1>1. CASE done[s]
  BY <1>1 DEF Kill, poolVars, PoolTypeOK, SessionInv
<1>2. CASE ~done[s]
  <2>1. events' \in [Session -> Seq(Phase)]
    <3>1. (IF hook[s] THEN <<"stopped">> ELSE <<>>) \o <<"stopped">> \in Seq(Phase)
      BY StopPhases DEF PoolTypeOK
    <3> QED BY <1>2, <3>1, EmitType DEF Kill
  <2> QED BY ZenonT(60), <1>2, <2>1 DEF Kill, PoolTypeOK, SessionInv
<1> QED BY <1>1, <1>2

\* The beginning of stop only changes the inbox's end, the hook and the flag.
LEMMA BeginStopType ==
    ASSUME IInv, NEW s \in Session, BeginStop(s)
    PROVE  PoolTypeOK' /\ UNCHANGED <<pool, thread, reports, done, ev, frames>>
<1> PoolTypeOK
  BY DEF IInv, TypeOK
<1>1. events' \in [Session -> Seq(Phase)]
  <2>1. (IF hook[s] THEN <<"stopped">> ELSE <<>>) \o <<"stopping">> \in Seq(Phase)
    BY StopPhases DEF PoolTypeOK
  <2> QED BY <2>1, EmitType DEF BeginStop, PoolTypeOK
<1> QED BY <1>1 DEF BeginStop, PoolTypeOK

\* Arrivals that submit nothing keep the invariant.
LEMMA ArriveStep ==
    ASSUME IInv, NEW s \in Session,
           Refuse(s) \/ AwaitDataset(s) \/ Abandon(s) \/ Crash(s)
    PROVE  IInv'
<1>1. /\ UNCHANGED <<poolVars, online, hears, stopped, pending, asked, told, loop>>
      /\ training' \in {training, training \cup {CtxOf[s]}}
      /\ infer' \in {infer, infer \cup {CtxOf[s]}}
  BY DEF Refuse, AwaitDataset, Abandon, Crash, Mark
<1>2. /\ pc[s] \in Outside
      /\ \E to \in Outside : pc' = [pc EXCEPT ![s] = to] /\ (to = "dataset" => s \in Local)
  BY DEF Refuse, AwaitDataset, Abandon, Crash, Passes, Outside
<1>3. TypeOK'
  <2>1. PoolTypeOK'
    BY <1>1 DEF IInv, TypeOK, PoolTypeOK, poolVars
  <2>2. pc' \in [Session -> PC]
    BY <1>2 DEF IInv, TypeOK, PC, Outside
  <2>3. training' \subseteq Context /\ infer' \subseteq Context
    BY <1>1, CtxOfAssumption DEF IInv, TypeOK
  <2> QED BY <1>1, <2>1, <2>2, <2>3 DEF IInv, TypeOK
<1>4. SessionInv'
  BY <1>1, <1>2 DEF IInv, TypeOK, SessionInv, poolVars, PC, Outside
<1>5. PoolInv' /\ FramesKept'
  BY <1>1 DEF IInv, PoolInv, FramesKept, poolVars
<1> QED BY <1>3, <1>4, <1>5 DEF IInv

\* An admission puts a new job at the end of the queue.
LEMMA AdmitStep ==
    ASSUME IInv, NEW s \in Session, Admit(s)
    PROVE  IInv'
<1> /\ TypeOK /\ PoolTypeOK /\ SessionInv /\ PoolInv /\ FramesKept
  BY DEF IInv, TypeOK
<1>1. pc[s] \in Outside /\ thread[s] = "none"
  BY DEF Admit, Passes, Outside, SessionInv
<1>2. /\ pool' = Append(pool, s) /\ thread' = [thread EXCEPT ![s] = "queued"]
      /\ UNCHANGED <<reports, done, ev, frames, shut, hook, killed, events>>
  BY DEF Admit, Submit
<1>3. /\ pool' \in Seq(Session) /\ Len(pool) \in Nat /\ Len(pool') = Len(pool) + 1
      /\ pool'[Len(pool) + 1] = s
      /\ \A i \in 1..Len(pool) : pool'[i] = pool[i] /\ pool[i] \in Session
  BY <1>2, AppendProperties, LenProperties DEF PoolTypeOK
<1>4. PoolTypeOK'
  BY <1>2, <1>3 DEF PoolTypeOK, Thread
<1>5. TypeOK'
  BY <1>4, CtxOfAssumption DEF TypeOK, Admit, Mark, PC
<1>6. PoolInv'
  <2>1. \A i \in 1..Len(pool) : pool[i] # s
    BY <1>1 DEF PoolInv
  <2>2. \A i \in 1..Len(pool') : i \in 1..Len(pool) \/ i = Len(pool) + 1
    BY <1>3
  <2>3. \A i \in 1..Len(pool') : thread'[pool'[i]] = "queued"
    BY <1>2, <1>3, <2>1, <2>2 DEF PoolInv, PoolTypeOK
  <2>4. \A i, j \in 1..Len(pool') : pool'[i] = pool'[j] => i = j
    BY <1>3, <2>1, <2>2 DEF PoolInv
  <2> QED BY <2>3, <2>4 DEF PoolInv
<1>7. SessionInv'
  <2>1. /\ \E to \in {"waiting", "streaming"} : /\ pc' = [pc EXCEPT ![s] = to]
                                              /\ (to = "waiting" => Kind[s] = "export")
        /\ UNCHANGED <<stopped, pending, asked>>
    BY DEF Admit
  <2> QED BY <1>2, <2>1 DEF SessionInv, TypeOK, PoolTypeOK, Outside
<1>8. FramesKept'
  BY <1>1, <1>2 DEF FramesKept, Admit, PoolTypeOK
<1> QED BY <1>5, <1>6, <1>7, <1>8 DEF IInv

\* A step that kills the job or leaves it as it is, and moves the handler on.
LEMMA SettleStep ==
    ASSUME IInv, NEW s \in Session,
           NoticeClosed(s) \/ SendFails(s) \/ CloseStream(s)
    PROVE  IInv'
<1> /\ TypeOK /\ PoolTypeOK /\ SessionInv /\ PoolInv /\ FramesKept
  BY DEF IInv, TypeOK
<1>1. /\ PoolTypeOK' /\ UNCHANGED <<pool, thread, reports, frames, pending, asked>>
      /\ \A u \in Session : (done[u] \/ ev'[u] => done'[u])
      /\ done'[s]
  <2>1. CASE Kill(s)
    BY <2>1, KillSettles DEF NoticeClosed, SendFails, CloseStream
  <2>2. CASE CloseStream(s) /\ stopped[s]
    BY <2>2 DEF CloseStream, SessionInv, poolVars, PoolTypeOK
  <2> QED BY <2>1, <2>2 DEF NoticeClosed, SendFails, CloseStream
<1>2. \/ UNCHANGED pc
      \/ pc[s] = "streaming" /\ pc' = [pc EXCEPT ![s] = "closing"]
      \/ pc[s] = "closing" /\ pc' = [pc EXCEPT ![s] = IF Kind[s] = "train" THEN "waiting" ELSE "over"]
  BY DEF NoticeClosed, SendFails, CloseStream
<1>3. \/ UNCHANGED stopped
      \/ stopped' = [stopped EXCEPT ![s] = TRUE]
  BY DEF NoticeClosed, SendFails, CloseStream
<1>4. TypeOK'
  <2>1. pc' \in [Session -> PC] /\ stopped' \in [Session -> BOOLEAN]
    BY <1>2, <1>3 DEF TypeOK, PC
  <2>2. /\ hears' \in [Session -> BOOLEAN] /\ infer' \subseteq Context
        /\ UNCHANGED <<online, pending, asked, told, training, loop>>
    BY DEF TypeOK, NoticeClosed, SendFails, CloseStream
  <2> QED BY <1>1, <2>1, <2>2 DEF TypeOK
<1>5. SessionInv'
  BY <1>1, <1>2, <1>3 DEF SessionInv, TypeOK, PC, Outside
<1>6. PoolInv' /\ FramesKept'
  BY <1>1 DEF PoolInv, FramesKept
<1> QED BY <1>4, <1>5, <1>6 DEF IInv

\* A request goes to the inbox or waits, and is counted once.
LEMMA ReceiveFrameStep ==
    ASSUME IInv, NEW s \in Session, ReceiveFrame(s)
    PROVE  IInv'
<1> USE ReportsAssumption
<1> /\ TypeOK /\ PoolTypeOK /\ SessionInv /\ PoolInv /\ FramesKept
  BY DEF IInv, TypeOK
<1> /\ asked \in [Session -> 0..Reports] /\ pending \in [Session -> 0..Reports]
    /\ frames \in [Session -> 0..Reports] /\ reports \in [Session -> 0..Reports]
  BY DEF TypeOK, PoolTypeOK
<1>1. /\ Kind[s] = "infer" /\ asked[s] < Reports /\ asked' = [asked EXCEPT ![s] = asked[s] + 1]
      /\ UNCHANGED <<pool, thread, reports, done, ev, shut, hook, killed, events, pc, online,
                      hears, stopped, told, training, infer, loop>>
      /\ \/ pending' = [pending EXCEPT ![s] = pending[s] + 1] /\ UNCHANGED frames
         \/ frames' = [frames EXCEPT ![s] = Kept(s, 1)] /\ UNCHANGED pending
  BY DEF ReceiveFrame, poolVars
<1>2. thread[s] # "ended" =>
        asked[s] = pending[s] + frames[s] + reports[s] + Executing(s)
  BY <1>1 DEF FramesKept, Executing
<1>3. Executing(s) \in {0, 1}
  BY DEF Executing
<1>4. pending'[s] \in 0..Reports /\ frames'[s] \in 0..Reports
  <2>1. CASE pending' = [pending EXCEPT ![s] = pending[s] + 1] /\ UNCHANGED frames
    BY <1>1, <2>1 DEF SessionInv
  <2>2. CASE frames' = [frames EXCEPT ![s] = Kept(s, 1)] /\ UNCHANGED pending
    BY <1>1, <1>2, <1>3, <2>2 DEF Kept
  <2> QED BY <1>1, <2>1, <2>2
<1>5. /\ pending' = [pending EXCEPT ![s] = pending'[s]]
      /\ frames' = [frames EXCEPT ![s] = frames'[s]]
  BY <1>1
<1>6. pending' \in [Session -> 0..Reports] /\ frames' \in [Session -> 0..Reports]
      /\ asked' \in [Session -> 0..Reports]
  BY <1>1, <1>4, <1>5
<1>7. TypeOK'
  BY <1>1, <1>6 DEF TypeOK, PoolTypeOK
<1>8. SessionInv'
  BY <1>1, <1>5, <1>6 DEF SessionInv
<1>9. FramesKept'
  <2>1. thread[s] # "ended" =>
          asked'[s] = pending'[s] + frames'[s] + reports[s] + Executing(s)
    BY <1>1, <1>2, <1>3 DEF Kept
  <2> QED BY <1>1, <1>5, <1>6, <2>1 DEF FramesKept, Executing
<1> QED BY <1>1, <1>7, <1>8, <1>9 DEF IInv, PoolInv

\* "start" moves the waiting requests to the inbox.
LEMMA SendUpdateStep ==
    ASSUME IInv, NEW s \in Session, SendUpdate(s) \/ FlushUnsent(s)
    PROVE  IInv'
<1> USE ReportsAssumption
<1> /\ TypeOK /\ PoolTypeOK /\ SessionInv /\ PoolInv /\ FramesKept
  BY DEF IInv, TypeOK
<1> /\ asked \in [Session -> 0..Reports] /\ pending \in [Session -> 0..Reports]
    /\ frames \in [Session -> 0..Reports] /\ reports \in [Session -> 0..Reports]
    /\ Kind[s] \in {"train", "infer", "export"} /\ events[s] \in Seq(Phase)
  BY KindAssumption DEF TypeOK, PoolTypeOK
<1>1. /\ pending' = [pending EXCEPT ![s] = 0] /\ frames' = [frames EXCEPT ![s] = Released(s)]
      /\ \/ events' = [events EXCEPT ![s] = Tail(events[s])]
         \/ UNCHANGED events
      /\ events[s] # <<>> /\ pc[s] = "streaming"
      /\ \/ pc' = [pc EXCEPT ![s] = IF LastUpdate(s) THEN "closing" ELSE pc[s]]
         \/ UNCHANGED pc
      /\ UNCHANGED <<pool, thread, reports, done, ev, shut, hook, killed,
                      online, stopped, asked, training, infer, loop>>
  BY DEF SendUpdate, FlushUnsent
<1>2. thread[s] # "ended" /\ Kind[s] = "infer" =>
        asked[s] = pending[s] + frames[s] + reports[s] + Executing(s)
  BY DEF FramesKept, Executing
<1>3. Executing(s) \in {0, 1}
  BY DEF Executing
<1>4. Released(s) \in 0..Reports
  BY <1>2, <1>3 DEF Released, Kept, SessionInv
<1>5. events' \in [Session -> Seq(Phase)] /\ Head(events[s]) \in Phase
  <2>1. Tail(events[s]) \in Seq(Phase) /\ Head(events[s]) \in Phase
    BY <1>1, HeadTailProperties
  <2>2. events \in [Session -> Seq(Phase)]
    BY DEF PoolTypeOK
  <2>3. CASE UNCHANGED events
    BY <2>1, <2>2, <2>3
  <2>4. CASE events' = [events EXCEPT ![s] = Tail(events[s])]
    BY <2>1, <2>2, <2>4
  <2> QED BY <1>1, <2>1, <2>3, <2>4
<1>6. TypeOK'
  <2>1. PoolTypeOK'
    BY <1>1, <1>4, <1>5 DEF PoolTypeOK
  <2>2. pc' \in [Session -> PC] /\ pending' \in [Session -> 0..Reports]
    <3>1. pending' \in [Session -> 0..Reports]
      BY <1>1 DEF TypeOK
    <3>2. pc \in [Session -> PC] /\ "closing" \in PC
      BY DEF TypeOK, PC
    <3>3. pc' \in [Session -> PC]
      <4>1. CASE UNCHANGED pc
        BY <3>2, <4>1
      <4>2. CASE pc' = [pc EXCEPT ![s] = IF LastUpdate(s) THEN "closing" ELSE pc[s]]
        BY <3>2, <4>2
      <4> QED BY <1>1, <4>1, <4>2
    <3> QED BY <3>1, <3>3
  <2>3. told' \in [Session -> Phase \cup {"none"}] /\ hears' \in [Session -> BOOLEAN]
    <3>1. CASE SendUpdate(s)
      BY <1>5, <3>1 DEF SendUpdate, TypeOK, Phase
    <3>2. CASE FlushUnsent(s)
      BY <3>2 DEF FlushUnsent, TypeOK
    <3> QED BY <3>1, <3>2
  <2> QED BY <1>1, <2>1, <2>2, <2>3 DEF TypeOK
<1>7. SessionInv'
  BY <1>1 DEF SessionInv, TypeOK, Outside
<1>8. FramesKept'
  <2>1. thread[s] # "ended" /\ Kind[s] = "infer" =>
          asked[s] = 0 + Released(s) + reports[s] + Executing(s)
    BY <1>2, <1>3 DEF Released, Kept
  <2> HIDE DEF Released
  <2> QED BY <1>1, <2>1 DEF FramesKept, Executing
<1> QED BY <1>1, <1>6, <1>7, <1>8 DEF IInv, PoolInv

\* The remaining steps of handlers and clients.
LEMMA OtherStep ==
    ASSUME IInv, NEW s \in Session,
           ReceiveStop(s) \/ StopReturns(s) \/ Finish(s) \/ Leave(s)
    PROVE  IInv'
<1> /\ TypeOK /\ PoolTypeOK /\ SessionInv /\ PoolInv /\ FramesKept
  BY DEF IInv, TypeOK
<1>1. /\ PoolTypeOK' /\ UNCHANGED <<pool, thread, reports, done, ev, frames, pending, asked, told>>
  <2>1. CASE ReceiveStop(s)
    BY <2>1, BeginStopType DEF ReceiveStop
  <2>2. CASE StopReturns(s) \/ Finish(s) \/ Leave(s)
    BY <2>2 DEF StopReturns, Finish, Leave, poolVars, PoolTypeOK
  <2> QED BY <2>1, <2>2
<1>2. TypeOK'
  BY <1>1 DEF TypeOK, ReceiveStop, StopReturns, Finish, Leave, PC
<1>3. SessionInv'
  <2>1. /\ UNCHANGED pc \/ (pc[s] = "waiting" /\ ev[s] /\ pc' = [pc EXCEPT ![s] = "over"])
        /\ UNCHANGED stopped \/ ((ev[s] \/ done[s]) /\ stopped' = [stopped EXCEPT ![s] = TRUE])
    BY DEF ReceiveStop, StopReturns, Finish, Leave
  <2> QED BY <1>1, <2>1 DEF SessionInv, TypeOK, Outside
<1>4. PoolInv' /\ FramesKept'
  BY <1>1 DEF PoolInv, FramesKept
<1> QED BY <1>2, <1>3, <1>4 DEF IInv

LEMMA NextIInv == IInv /\ [Next]_vars => IInv'
<1> SUFFICES ASSUME IInv, [Next]_vars PROVE IInv'
  OBVIOUS
<1>1. CASE UNCHANGED vars
  BY <1>1 DEF IInv, TypeOK, PoolTypeOK, PoolInv, SessionInv, FramesKept, vars, poolVars,
              sessionVars
<1>2. ASSUME NEW s \in Session,
             (RunThread(s) /\ UNCHANGED sessionVars) \/ Handle(s) \/ StopReturns(s) \/ Leave(s)
      PROVE  IInv'
  BY <1>2, ThreadStep, ArriveStep, AdmitStep, SettleStep, ReceiveFrameStep, SendUpdateStep,
     OtherStep DEF Handle, Arrive, Advance
<1> QED BY <1>1, <1>2 DEF Next

THEOREM Invariant == Spec => []IInv
<1> QED BY InitIInv, NextIInv, PTL DEF Spec

\* The worker pool and its sessions are well typed: no inbox or counter leaves
\* its range, whatever clients, threads, stops and failures do.
THEOREM TypeCorrect == Spec => []TypeOK
<1>1. IInv => TypeOK
  BY DEF IInv
<1> QED BY <1>1, Invariant, PTL

\* No request of an inference is lost or doubled between its client and its
\* thread, for any number of clients and threads.
THEOREM RequestsKept == Spec => []FramesKept
<1>1. IInv => FramesKept
  BY DEF IInv
<1> QED BY <1>1, Invariant, PTL

-----------------------------------------------------------------------------
(* Busy marks *)

\* No other training shares the context of a client that synchronises first.
LocalAlone == \A s, t \in Session :
    s \in Local /\ Kind[t] = "train" /\ CtxOf[s] = CtxOf[t] => s = t

Holding(s) == pc[s] \in {"streaming", "closing", "waiting"} /\ Kind[s] # "export"

\* Every mark has one holder at most, and every holder its mark.
MarkInv ==
    /\ MarkKept
    /\ \A s, t \in Session :
          Holding(s) /\ Holding(t) /\ Kind[s] = Kind[t] /\ CtxOf[s] = CtxOf[t] => s = t

LEMMA InitMarkInv == Init => MarkInv
BY DEF Init, MarkInv, MarkKept, Holding

\* A session that is admitted finds no holder of its mark.
LEMMA AdmitMark ==
    ASSUME LocalAlone, IInv, MarkInv, NEW s \in Session, Admit(s)
    PROVE  MarkInv'
<1> /\ pc \in [Session -> PC] /\ SessionInv /\ MarkKept
  BY DEF IInv, TypeOK, MarkInv
<1>1. /\ \E to \in {"waiting", "streaming"} : pc' = [pc EXCEPT ![s] = to] /\ pc'[s] = to
      /\ training' = IF Kind[s] = "train" THEN training \cup {CtxOf[s]} ELSE training
      /\ infer' = IF Kind[s] = "infer" THEN infer \cup {CtxOf[s]} ELSE infer
      /\ ~Holding(s)
  BY DEF Admit, Mark, Passes, Holding
<1>2. \A t \in Session \ {s} :
        ~(Holding(t) /\ Kind[s] # "export" /\ Kind[t] = Kind[s] /\ CtxOf[t] = CtxOf[s])
  <2> SUFFICES ASSUME NEW t \in Session \ {s}, Holding(t), Kind[s] # "export",
                      Kind[t] = Kind[s], CtxOf[t] = CtxOf[s]
               PROVE  FALSE
    OBVIOUS
  <2>0. Kind[s] \in {"train", "infer"}
    BY KindAssumption
  <2>1. CASE s \in Local
    BY <2>1, ClientAssumption DEF LocalAlone
  <2>2. CASE s \notin Local
    <3>1. ~Busy(s)
      BY <2>2 DEF Admit, Passes, SessionInv
    <3> QED BY <2>0, <3>1 DEF Busy, MarkKept, Holding
  <2> QED BY <2>1, <2>2
<1>3. \A t \in Session \ {s} : (Holding(t))' <=> Holding(t)
  BY <1>1 DEF Holding
<1>4. MarkKept'
  BY <1>1 DEF MarkKept
<1>5. ASSUME NEW t \in Session, NEW u \in Session, (Holding(t))', (Holding(u))',
             Kind[t] = Kind[u], CtxOf[t] = CtxOf[u]
      PROVE  t = u
  <2>1. Kind[t] # "export"
    BY <1>5 DEF Holding
  <2>2. CASE t # s /\ u # s
    BY <1>3, <1>5, <2>2 DEF MarkInv
  <2>3. CASE t = s /\ u # s
    BY <1>2, <1>3, <1>5, <2>1, <2>3
  <2>4. CASE t # s /\ u = s
    BY <1>2, <1>3, <1>5, <2>1, <2>4
  <2> QED BY <2>2, <2>3, <2>4
<1> QED BY <1>4, <1>5 DEF MarkInv

\* Any other step keeps the mark of every other session.
LEMMA OtherMark ==
    ASSUME IInv, MarkInv, NEW s \in Session,
           \/ RunThread(s) /\ UNCHANGED sessionVars
           \/ Handle(s) /\ ~Admit(s)
           \/ StopReturns(s) \/ Leave(s)
    PROVE  MarkInv'
<1> /\ pc \in [Session -> PC] /\ SessionInv /\ MarkKept
    /\ Kind[s] \in {"train", "infer", "export"}
  BY KindAssumption DEF IInv, TypeOK, MarkInv
<1>1. CASE CloseStream(s)
  <2>1. /\ pc[s] = "closing" /\ UNCHANGED training
        /\ pc' = [pc EXCEPT ![s] = IF Kind[s] = "train" THEN "waiting" ELSE "over"]
        /\ infer' = IF Kind[s] = "infer" THEN infer \ {CtxOf[s]} ELSE infer
    BY <1>1 DEF CloseStream
  <2>2. \A t \in Session : (Holding(t))' => Holding(t)
    BY <2>1 DEF Holding
  <2>3. MarkKept'
    BY <2>1 DEF MarkInv, MarkKept, Holding
  <2> QED BY <2>2, <2>3 DEF MarkInv
<1>2. CASE Finish(s)
  <2>1. /\ pc[s] = "waiting" /\ UNCHANGED infer /\ pc' = [pc EXCEPT ![s] = "over"]
        /\ training' = IF Kind[s] = "train" THEN training \ {CtxOf[s]} ELSE training
    BY <1>2 DEF Finish
  <2>2. \A t \in Session : (Holding(t))' => Holding(t)
    BY <2>1 DEF Holding
  <2>3. MarkKept'
    BY <2>1 DEF MarkInv, MarkKept, Holding
  <2> QED BY <2>2, <2>3 DEF MarkInv
<1>3. CASE ~CloseStream(s) /\ ~Finish(s)
  <2>1. /\ training \subseteq training' /\ infer \subseteq infer'
        /\ \/ UNCHANGED pc
           \/ \E to \in Outside : pc' = [pc EXCEPT ![s] = to]
           \/ pc[s] = "streaming" /\ pc' = [pc EXCEPT ![s] = "closing"]
    BY <1>3 DEF sessionVars, Handle, Arrive, Advance, Refuse, AwaitDataset, Abandon, Crash, Mark,
                ReceiveFrame, ReceiveStop, StopReturns, NoticeClosed, SendUpdate, FlushUnsent,
                SendFails, Leave,
                Outside
  <2>2. \A t \in Session : (Holding(t))' => Holding(t)
    BY <2>1 DEF Holding, Outside
  <2>3. MarkKept'
    BY <2>1 DEF MarkKept, Outside
  <2> QED BY <2>2, <2>3 DEF MarkInv
<1> QED BY <1>1, <1>2, <1>3

LEMMA NextMarkInv == LocalAlone /\ IInv /\ MarkInv /\ [Next]_vars => MarkInv'
<1> SUFFICES ASSUME LocalAlone, IInv, MarkInv, [Next]_vars PROVE MarkInv'
  OBVIOUS
<1>1. CASE UNCHANGED vars
  BY <1>1 DEF MarkInv, MarkKept, Holding, vars, sessionVars
<1>2. ASSUME NEW s \in Session,
             (RunThread(s) /\ UNCHANGED sessionVars) \/ Handle(s) \/ StopReturns(s) \/ Leave(s)
      PROVE  MarkInv'
  BY <1>2, AdmitMark, OtherMark
<1> QED BY <1>1, <1>2 DEF Next

LEMMA Marks == Spec => [](LocalAlone => IInv /\ MarkInv)
<1>1. LocalAlone /\ IInv /\ MarkInv /\ [Next]_vars => (IInv /\ MarkInv)'
  BY NextIInv, NextMarkInv
<1>2. LocalAlone' <=> LocalAlone
  BY DEF LocalAlone
<1>3. Init => (LocalAlone => IInv /\ MarkInv)
  BY InitIInv, InitMarkInv
<1>4. (LocalAlone => IInv /\ MarkInv) /\ [Next]_vars => (LocalAlone => IInv /\ MarkInv)'
  BY <1>1, <1>2
<1> QED BY <1>3, <1>4, PTL DEF Spec

\* A session finds the mark it set when it takes it away: the check and the mark
\* are one step of the loop, but for clients that synchronise in between.
THEOREM MarksOwned == Spec => [](LocalAlone => MarkKept)
<1>1. (LocalAlone => IInv /\ MarkInv) => (LocalAlone => MarkKept)
  BY DEF MarkInv
<1> QED BY <1>1, Marks, PTL

\* A thread works only on a context that is marked, unless its job was killed.
THEOREM UseMarked == Spec => [](LocalAlone => MarkedWhileUsed)
<1>1. IInv /\ MarkInv => MarkedWhileUsed
  <2> SUFFICES ASSUME IInv, MarkInv, NEW s \in Session, Using(s), ~done[s], Kind[s] # "export"
               PROVE  Busy(s)
    BY DEF MarkedWhileUsed
  <2>1. thread[s] # "none" /\ pc[s] \in PC /\ SessionInv
    BY DEF IInv, TypeOK, Using
  <2>2. pc[s] \notin Outside /\ pc[s] # "over"
    BY <2>1 DEF SessionInv
  <2>3. pc[s] \in {"streaming", "closing", "waiting"}
    BY <2>1, <2>2 DEF PC, Outside
  <2>4. Kind[s] \in {"train", "infer"}
    BY KindAssumption
  <2> QED BY <2>3, <2>4 DEF MarkInv, MarkKept, Busy
<1>2. (LocalAlone => IInv /\ MarkInv) => (LocalAlone => MarkedWhileUsed)
  BY <1>1
<1> QED BY <1>2, Marks, PTL
=============================================================================
