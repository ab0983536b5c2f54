--------------------------- MODULE JobEngine_proof ---------------------------
(***************************************************************************)
(* JobEngine is type correct, never runs two jobs at once and implements   *)
(* JobLifecycle, every job's stream is well formed, and cleanup keeps what *)
(* is in use and takes what it owes, for every set of jobs, sessions and   *)
(* cleanup calls.                                                          *)
(***************************************************************************)
EXTENDS JobEngine, FiniteSetTheorems, SequenceTheorems, TLAPS

\* What ties the position of a job's handler or runner to the registry, the
\* state shown to users and the event loop.
Before == Handling \cup {"absent", "rejected"}
RunnerInv ==
    \A j \in Job :
        /\ pc[j] \in Busy => loop = j
        /\ pc[j] \in Before => state[j] = "queued" /\ j \notin registered
        /\ pc[j] = "ready" => state[j] = "queued" /\ j \in registered
        /\ pc[j] \in Training \cup {"starting", "judged"} =>
              state[j] = "running" /\ j \in registered
        /\ pc[j] \in {"trained", "judged"} => result[j] \in Terminal
        /\ pc[j] \in {"settled", "done"} => state[j] \in Terminal
        /\ pc[j] = "lost" => j \notin registered
        /\ pc[j] \in Before \cup {"ready", "starting", "started"} => epoch[j] = 0
        /\ pc[j] = "epochs" => epoch[j] < Epochs

\* A cleanup thread only deletes a job it saw in a terminal state.
CleanerInv == \A t \in Cleaner :
    clean[t].pc = "drop" => clean[t].cur \in Job /\ state[clean[t].cur] \in Terminal

\* A session in the loop of engine.subscribe has chosen its job.
SessionInv == \A c \in Client :
    client[c].pc \in {"waiting", "gone"} => client[c].job \in Job

IInv == TypeOK /\ RunnerInv /\ CleanerInv /\ SessionInv

-----------------------------------------------------------------------------
\* Touch keeps the cleanup threads where they are and their fields typed.
LEMMA TouchType ==
    ASSUME NEW stamps, TypeOK, Touch(stamps)
    PROVE  /\ aged' \subseteq Stamp
           /\ clean' \in [Cleaner -> Cleaning]
           /\ \A t \in Cleaner : /\ clean'[t].pc = clean[t].pc
                                 /\ clean'[t].cur = clean[t].cur
<1>1. aged' \subseteq Stamp
  BY DEF TypeOK, Touch
<1>2. ASSUME NEW t \in Cleaner
      PROVE  /\ clean'[t] \in Cleaning
             /\ clean'[t].pc = clean[t].pc /\ clean'[t].cur = clean[t].cur
  <2>1. clean[t] \in Cleaning
    BY DEF TypeOK
  <2>2. clean'[t] = [clean[t] EXCEPT !.old = @ \ stamps,
                        !.due = {j \in @ : <<"updated_at", j>> \notin stamps}]
    BY DEF Touch
  <2> QED BY <2>1, <2>2 DEF Cleaning
<1> QED BY <1>1, <1>2 DEF Touch

\* Emit keeps the queues and the histories sequences of events.
LEMMA EmitType ==
    ASSUME NEW j \in Job, NEW events \in Seq(Event), TypeOK, Emit(j, events)
    PROVE  queue' \in [Job -> Seq(Event)] /\ sent' \in [Job -> Seq(Event)]
<1>1. queue[j] \o events \in Seq(Event) /\ sent[j] \o events \in Seq(Event)
  BY DEF TypeOK
<1> QED BY <1>1 DEF TypeOK, Emit

LEMMA InitIInv == Init => IInv
<1> SUFFICES ASSUME Init PROVE IInv
  OBVIOUS
<1> USE MaxRestartsAssumption, EpochsAssumption DEF Init
<1>1. TypeOK
  <2>1. clean \in [Cleaner -> Cleaning]
    BY DEF Cleaning, CleanPC
  <2>2. client \in [Client -> SessionState]
    BY DEF SessionState
  <2>3. queue \in [Job -> Seq(Event)] /\ sent \in [Job -> Seq(Event)]
    OBVIOUS
  <2>4. 0 \in 0..Epochs /\ restarts \in 0..MaxRestarts
    OBVIOUS
  <2>5. state \in [Job -> Live \cup Terminal] /\ pc \in [Job -> PC]
    BY DEF Live, PC
  <2>6. result \in [Job -> {"none"} \cup Terminal] /\ stop \in [Job -> Stop]
    BY DEF Stop
  <2>7. epoch \in [Job -> 0..Epochs] /\ sentAt \in [Job -> 0..Epochs]
    BY <2>4
  <2> QED BY <2>1, <2>2, <2>3, <2>4, <2>5, <2>6, <2>7 DEF TypeOK
<1>2. RunnerInv
  BY DEF RunnerInv, Busy, Before, Handling, Training
<1>3. CleanerInv
  BY DEF CleanerInv
<1>4. SessionInv
  BY DEF SessionInv
<1> QED BY <1>1, <1>2, <1>3, <1>4 DEF IInv
-----------------------------------------------------------------------------
(* Types are preserved, one lemma per group of actions *)

LEMMA HandlerType ==
    ASSUME IInv, NEW j \in Job, Handler(j) PROVE TypeOK'
<1> USE DEF IInv, Handler
<1>1. CASE SubmitBundle(j)
  <2>1. {<<"mtime", j>>} \subseteq Stamp /\ Touch({<<"mtime", j>>})
    BY <1>1 DEF Stamp, SubmitBundle
  <2>2. pc' \in [Job -> PC] /\ files' \in [Job -> SUBSET File]
    BY <1>1 DEF SubmitBundle, TypeOK, PC, Busy, Handling, File
  <2> QED BY <1>1, <2>1, <2>2, TouchType DEF SubmitBundle, TypeOK
<1>2. CASE ExtractBundle(j)
  <2>1. Touch({<<"mtime", j>>})
    BY <1>2 DEF ExtractBundle
  <2>2. pc' \in [Job -> PC]
    BY <1>2 DEF ExtractBundle, TypeOK, PC, Busy, Handling
  <2>3. /\ files[j] \cup {"dir", "bundle"} \in SUBSET File
        /\ files[j] \cup {"dir"} \in SUBSET File
    BY DEF TypeOK, File
  <2>4. files' \in [Job -> SUBSET File]
    BY <1>2, <2>3 DEF ExtractBundle, TypeOK
  <2> QED BY <1>2, <2>1, <2>2, <2>4, TouchType DEF ExtractBundle, TypeOK
<1>3. CASE Register(j)
  <2>1. Touch({<<"updated_at", j>>}) /\ Emit(j, <<"queued">>)
    BY <1>3 DEF Register
  <2>2. <<"queued">> \in Seq(Event)
    BY DEF Event
  <2>3. pc' \in [Job -> PC]
    BY <1>3 DEF Register, TypeOK, PC
  <2> QED BY <1>3, <2>1, <2>2, <2>3, TouchType, EmitType DEF Register, TypeOK
<1> QED BY <1>1, <1>2, <1>3

LEMMA RunnerType ==
    ASSUME IInv, NEW j \in Job, Runner(j) PROVE TypeOK'
<1> USE DEF IInv
<1>1. CASE RunJob(j)
  BY <1>1 DEF RunJob, TypeOK, PC, Busy, Live, LoopDuringTrain
<1>2. CASE LoadDataset(j)
  <2>1. pc' \in [Job -> PC] /\ result' \in [Job -> {"none"} \cup Terminal]
    BY <1>2 DEF LoadDataset, Return, TypeOK, PC, Busy, Training, Terminal
  <2>2. CASE Emit(j, <<"started">>) /\ Touch({<<"updated_at", j>>})
    <3>1. <<"started">> \in Seq(Event)
      BY DEF Event
    <3> QED BY <1>2, <2>1, <2>2, <3>1, TouchType, EmitType DEF LoadDataset, TypeOK
  <2>3. CASE UNCHANGED <<queue, sent, aged, clean>>
    BY <1>2, <2>1, <2>3 DEF LoadDataset, TypeOK
  <2> QED BY <1>2, <2>2, <2>3 DEF LoadDataset
<1>3. CASE Prepare(j)
  <2>0. files[j] \cup {"dir", "outputs"} \in SUBSET File
    BY DEF TypeOK, File
  <2>1. /\ pc' \in [Job -> PC] /\ result' \in [Job -> {"none"} \cup Terminal]
        /\ files' \in [Job -> SUBSET File]
    <3>1. files' \in [Job -> SUBSET File]
      BY <1>3, <2>0 DEF Prepare, TypeOK
    <3>2. pc' \in [Job -> PC] /\ result' \in [Job -> {"none"} \cup Terminal]
      BY <1>3 DEF Prepare, Return, TypeOK, PC, Busy, Training, Terminal
    <3> QED BY <3>1, <3>2
  <2>2. CASE Touch({<<"mtime", j>>})
    BY <1>3, <2>1, <2>2, TouchType DEF Prepare, TypeOK
  <2>3. CASE UNCHANGED <<aged, clean>>
    BY <1>3, <2>1, <2>3 DEF Prepare, TypeOK
  <2> QED BY <1>3, <2>2, <2>3 DEF Prepare
<1>4. CASE TrainEpoch(j)
  <2>1. pc' \in [Job -> PC] /\ result' \in [Job -> {"none"} \cup Terminal]
    BY <1>4 DEF TrainEpoch, Return, TypeOK, PC, Busy, Training, Terminal
  <2>0. epoch[j] + 1 \in 0..Epochs
    BY SMTT(30), <1>4, EpochsAssumption DEF TrainEpoch, TypeOK, RunnerInv
  <2>2. epoch' \in [Job -> 0..Epochs]
    BY <1>4, <2>0 DEF TrainEpoch, TypeOK
  <2>3. CASE Emit(j, <<"epoch">>) /\ Touch({<<"updated_at", j>>})
    <3>1. <<"epoch">> \in Seq(Event)
      BY DEF Event
    <3> QED BY <1>4, <2>1, <2>2, <2>3, <3>1, TouchType, EmitType DEF TrainEpoch, TypeOK
  <2>4. CASE UNCHANGED <<queue, sent, aged, clean>>
    BY <1>4, <2>1, <2>2, <2>4 DEF TrainEpoch, TypeOK
  <2> QED BY <1>4, <2>3, <2>4 DEF TrainEpoch
<1>5. CASE SaveSnapshot(j)
  <2>0. /\ files[j] \cup {"dir", "snapshot"} \in SUBSET File
        /\ files[j] \cup {"dir"} \in SUBSET File
    BY DEF TypeOK, File
  <2>1. /\ pc' \in [Job -> PC] /\ result' \in [Job -> {"none"} \cup Terminal]
        /\ files' \in [Job -> SUBSET File]
    <3>1. files' \in [Job -> SUBSET File]
      BY <1>5, <2>0 DEF SaveSnapshot, TypeOK
    <3>2. pc' \in [Job -> PC] /\ result' \in [Job -> {"none"} \cup Terminal]
      BY <1>5 DEF SaveSnapshot, Return, TypeOK, PC, Busy, Training, Terminal
    <3> QED BY <3>1, <3>2
  <2>2. Touch({<<"mtime", j>>})
    BY <1>5 DEF SaveSnapshot
  <2> QED BY <1>5, <2>1, <2>2, TouchType DEF SaveSnapshot, TypeOK
<1>6. CASE Judge(j)
  BY <1>6 DEF Judge, Verdict, TypeOK, PC, Busy, Terminal
<1>7. CASE SetState(j)
  BY <1>7 DEF SetState, TypeOK, RunnerInv, PC, Busy
<1>8. CASE EmitTerminal(j)
  <2>1. Touch({<<"updated_at", j>>}) /\ Emit(j, <<state[j]>>)
    BY <1>8 DEF EmitTerminal, TerminalEvents
  <2>2. <<state[j]>> \in Seq(Event)
    BY <1>8 DEF EmitTerminal, RunnerInv, Event
  <2>3. pc' \in [Job -> PC]
    BY <1>8 DEF EmitTerminal, TypeOK, PC
  <2> QED BY <1>8, <2>1, <2>2, <2>3, TouchType, EmitType DEF EmitTerminal, TypeOK
<1> QED BY <1>1, <1>2, <1>3, <1>4, <1>5, <1>6, <1>7, <1>8 DEF Runner

LEMMA CleanupType ==
    ASSUME IInv, NEW t \in Cleaner, Cleanup(t) PROVE TypeOK'
<1> USE DEF IInv
<1>0. clean[t] \in Cleaning /\ clean[t].todo \in SUBSET Job /\ registered \in SUBSET Job
  BY DEF TypeOK, Cleaning
<1>a. {"jobs", "drop", "track", "dirs", "rm", "returned", "raised"} \subseteq CleanPC
  BY DEF CleanPC
<1>b. ASSUME NEW r \in Cleaning, clean' = [clean EXCEPT ![t] = r]
      PROVE  clean' \in [Cleaner -> Cleaning]
  BY <1>b DEF TypeOK
<1>c. ASSUME NEW to \in CleanPC, Step(t, to)
      PROVE  clean' \in [Cleaner -> Cleaning]
  <2>1. clean' = [clean EXCEPT ![t] = [clean[t] EXCEPT !.pc = to]]
    BY <1>c DEF Step, TypeOK
  <2>2. [clean[t] EXCEPT !.pc = to] \in Cleaning
    BY <1>0 DEF Cleaning
  <2> QED BY <1>b, <2>1, <2>2
<1>1. CASE BeginCleanup(t)
  <2>1. PICK retention \in Retentions :
          LET old == IF retention = "zero" THEN Stamp ELSE aged IN
          clean' = [clean EXCEPT ![t] =
            [@ EXCEPT !.pc = "jobs", !.todo = registered, !.old = old,
                      !.due = {j \in registered : /\ state[j] \in Terminal
                                                  /\ <<"updated_at", j>> \in old}]]
    BY <1>1 DEF BeginCleanup
  <2> DEFINE old == IF retention = "zero" THEN Stamp ELSE aged
             due == {j \in registered : /\ state[j] \in Terminal
                                        /\ <<"updated_at", j>> \in old}
             r == [clean[t] EXCEPT !.pc = "jobs", !.todo = registered,
                                   !.old = old, !.due = due]
  <2>2. old \in SUBSET Stamp /\ due \in SUBSET Job
    BY DEF TypeOK
  <2>3. clean' = [clean EXCEPT ![t] = r]
    BY <2>1 DEF TypeOK
  <2>4. r \in Cleaning
    <3> HIDE DEF old, due
    <3> QED BY <1>0, <1>a, <2>2 DEF Cleaning
  <2>5. clean' \in [Cleaner -> Cleaning]
    <3> HIDE DEF r
    <3> QED BY <1>b, <2>3, <2>4
  <2> QED BY SMTT(30), <1>1, <2>5 DEF BeginCleanup, TypeOK, jobVars
<1>2. CASE DropJob(t)
  BY <1>a, <1>c, <1>2 DEF DropJob, Deleted, TypeOK
<1>3. CASE BeginTrack(t)
  <2>1. clean' = [clean EXCEPT ![t] = [clean[t] EXCEPT !.pc = "track", !.seen = registered]]
    BY <1>3 DEF BeginTrack
  <2>2. [clean[t] EXCEPT !.pc = "track", !.seen = registered] \in Cleaning
    BY <1>0, <1>a DEF Cleaning
  <2> QED BY <1>3, <1>b, <2>1, <2>2 DEF BeginTrack, TypeOK, jobVars
<1>4. CASE EndTrack(t)
  <2>1. clean' \in [Cleaner -> Cleaning]
    <3>1. CASE Cardinality(registered) = Cardinality(clean[t].seen)
      <4> DEFINE dirs == UntrackedDirs
      <4>1. dirs \in SUBSET Job
        BY DEF UntrackedDirs
      <4>2. clean' = [clean EXCEPT ![t] = [clean[t] EXCEPT !.pc = "dirs", !.todo = dirs]]
        BY <1>4, <3>1 DEF EndTrack
      <4>3. [clean[t] EXCEPT !.pc = "dirs", !.todo = dirs] \in Cleaning
        BY <1>0, <1>a, <4>1 DEF Cleaning
      <4> QED BY <1>b, <4>2, <4>3
    <3>2. CASE ~(Cardinality(registered) = Cardinality(clean[t].seen))
      BY <1>4, <3>2, <1>a, <1>c DEF EndTrack
    <3> QED BY <3>1, <3>2
  <2> QED BY <1>4, <2>1 DEF EndTrack, TypeOK, jobVars
<1>5. CASE RemoveDir(t)
  BY <1>a, <1>c, <1>5 DEF RemoveDir, TypeOK
<1>6. CASE EndCleanup(t)
  BY <1>a, <1>c, <1>6 DEF EndCleanup, TypeOK, jobVars
<1>7. ASSUME NEW j \in Job, ExamineJob(t, j) PROVE TypeOK'
  <2> DEFINE rest == clean[t].todo \ {j}
  <2>1. rest \in SUBSET Job
    BY <1>0
  <2>2. /\ [clean[t] EXCEPT !.pc = "drop", !.todo = rest, !.cur = j] \in Cleaning
        /\ [clean[t] EXCEPT !.todo = rest] \in Cleaning
    BY <1>0, <1>a, <2>1 DEF Cleaning
  <2>3. \/ clean' = [clean EXCEPT ![t] =
                [clean[t] EXCEPT !.pc = "drop", !.todo = rest, !.cur = j]]
        \/ clean' = [clean EXCEPT ![t] = [clean[t] EXCEPT !.todo = rest]]
    <3>1. CASE Removable(t, j)
      BY <1>0, <1>7, <3>1 DEF ExamineJob, TypeOK, Cleaning
    <3>2. CASE ~(Removable(t, j))
      BY <1>0, <1>7, <3>2 DEF ExamineJob, TypeOK, Cleaning
    <3> QED BY <3>1, <3>2
  <2>4. clean' \in [Cleaner -> Cleaning]
    BY <1>b, <2>2, <2>3
  <2> QED BY <1>7, <2>4 DEF ExamineJob, TypeOK
<1>8. ASSUME NEW j \in Job, CheckDir(t, j) PROVE TypeOK'
  <2> DEFINE rest == clean[t].todo \ {j}
  <2>1. rest \in SUBSET Job
    BY <1>0
  <2>2. /\ [clean[t] EXCEPT !.pc = "rm", !.todo = rest, !.cur = j] \in Cleaning
        /\ [clean[t] EXCEPT !.todo = rest] \in Cleaning
    BY <1>0, <1>a, <2>1 DEF Cleaning
  <2>3. \/ clean' = [clean EXCEPT ![t] =
                [clean[t] EXCEPT !.pc = "rm", !.todo = rest, !.cur = j]]
        \/ clean' = [clean EXCEPT ![t] = [clean[t] EXCEPT !.todo = rest]]
    <3>1. CASE "dir" \in files[j] /\ <<"mtime", j>> \in clean[t].old
      BY <1>0, <1>8, <3>1 DEF CheckDir, TypeOK, Cleaning
    <3>2. CASE ~("dir" \in files[j] /\ <<"mtime", j>> \in clean[t].old)
      BY <1>0, <1>8, <3>2 DEF CheckDir, TypeOK, Cleaning
    <3> QED BY <3>1, <3>2
  <2>4. clean' \in [Cleaner -> Cleaning]
    BY <1>b, <2>2, <2>3
  <2> QED BY <1>8, <2>4 DEF CheckDir, TypeOK, jobVars
<1> QED BY <1>1, <1>2, <1>3, <1>4, <1>5, <1>6, <1>7, <1>8 DEF Cleanup

LEMMA SocketType ==
    ASSUME IInv, NEW c \in Client, Socket(c) PROVE TypeOK'
<1> USE DEF IInv
<1>0. client[c] \in SessionState
  BY DEF TypeOK
<1>1. CASE Disconnect(c)
  BY <1>0, <1>1 DEF Disconnect, TypeOK, jobVars, SessionState
<1>2. CASE Deliver(c)
  <2> DEFINE j == client[c].job
  <2>1. j \in Job /\ queue[j] \in Seq(Event) /\ queue[j] # <<>>
    BY <1>2 DEF Deliver, SessionInv, TypeOK
  <2>2. Head(queue[j]) \in Event /\ Tail(queue[j]) \in Seq(Event)
    BY <2>1
  <2>3. queue' \in [Job -> Seq(Event)]
    BY <1>2, <2>1, <2>2 DEF Deliver, TypeOK
  <2>4. client' \in [Client -> SessionState]
    <3> DEFINE told == IF Head(queue[j]) \in Terminal THEN "told" ELSE client[c].pc
               cut == [client[c] EXCEPT !.pc = "cut"]
               next == [client[c] EXCEPT !.got = Append(client[c].got, Head(queue[j])),
                                         !.pc = told]
    <3>1. cut \in SessionState
      BY <1>0 DEF SessionState
    <3>2. Append(client[c].got, Head(queue[j])) \in Seq(Event)
      BY <1>0, <2>2 DEF SessionState
    <3>3. next \in SessionState
      BY <1>0, <3>2 DEF SessionState
    <3>4. client' = [client EXCEPT ![c] = IF client[c].pc = "gone" THEN cut ELSE next]
      <4>1. CASE client[c].pc = "gone"
        BY <1>2, <4>1 DEF Deliver
      <4>2. CASE client[c].pc # "gone"
        BY <1>0, <1>2, <4>2 DEF Deliver, TypeOK, SessionState
      <4> QED BY <4>1, <4>2
    <3> QED
      <4> HIDE DEF cut, next
      <4> QED BY <3>1, <3>3, <3>4 DEF TypeOK
  <2> QED BY <1>2, <2>3, <2>4 DEF Deliver, TypeOK
<1>3. ASSUME NEW j \in Job, Attach(c, j) PROVE TypeOK'
  BY <1>0, <1>3 DEF Attach, TypeOK, jobVars, SessionState
<1> QED BY <1>1, <1>2, <1>3 DEF Socket
LEMMA StopType ==
    ASSUME IInv, NEW j \in Job, StopCall(j) PROVE TypeOK'
BY DEF IInv, StopCall, SendStop, DispatchStop, HandedToThread, ThreadStop,
       SetStopEvent, TypeOK, jobVars, Stop

LEMMA AgeType == ASSUME IInv, Age PROVE TypeOK'
BY DEF IInv, Age, TypeOK, jobVars

LEMMA RestartType == ASSUME IInv, Restart PROVE TypeOK'
<1> USE DEF IInv
<1>1. pc' \in [Job -> PC] /\ stop' \in [Job -> Stop]
  BY DEF Restart, TypeOK, PC, Stop
<1>2. clean' \in [Cleaner -> Cleaning]
  <2>1. ASSUME NEW t \in Cleaner
        PROVE  /\ clean[t] \in Cleaning
               /\ [clean[t] EXCEPT !.pc = "raised"] \in Cleaning
    BY DEF TypeOK, Cleaning, CleanPC
  <2>2. clean' = [t \in Cleaner |-> IF clean[t].pc = "called" THEN clean[t]
                                    ELSE [clean[t] EXCEPT !.pc = "raised"]]
    BY DEF Restart
  <2> QED BY <2>1, <2>2
<1>3. client' \in [Client -> SessionState]
  BY ZenonT(60) DEF Restart, TypeOK, SessionState
<1>4. restarts' \in 0..MaxRestarts
  BY MaxRestartsAssumption DEF Restart, TypeOK
<1> QED BY <1>1, <1>2, <1>3, <1>4 DEF Restart, TypeOK

-----------------------------------------------------------------------------
(* The rest of the invariant is preserved *)

\* The runner and the handler of a job move it along its path; whoever moves
\* holds the loop, so no other job is busy meanwhile.
LEMMA JobStep ==
    ASSUME IInv, NEW j \in Job, Handler(j) \/ Runner(j) PROVE RunnerInv'
<1> USE DEF IInv, TypeOK, RunnerInv, Before, Busy, Handling, Training
<1>1. CASE SubmitBundle(j)
  BY <1>1, NoJobAssumption DEF SubmitBundle
<1>2. CASE ExtractBundle(j)
  BY <1>2, NoJobAssumption DEF ExtractBundle
<1>3. CASE Register(j)
  BY <1>3, NoJobAssumption DEF Register
<1>4. CASE RunJob(j)
  BY <1>4, NoJobAssumption DEF RunJob, TaskDue, LoopDuringTrain
<1>5. CASE LoadDataset(j)
  BY <1>5, NoJobAssumption DEF LoadDataset, Return, Terminal
<1>6. CASE Prepare(j)
  BY <1>6, NoJobAssumption, EpochsAssumption DEF Prepare, Return, Terminal
<1>7. CASE TrainEpoch(j)
  <2>1. CASE StopRequested(j) \/ UNCHANGED epoch
    BY <1>7, <2>1, NoJobAssumption DEF TrainEpoch, Return, Terminal
  <2>2. CASE ~StopRequested(j) /\ epoch' = [epoch EXCEPT ![j] = @ + 1]
    <3>1. epoch'[j] = epoch[j] + 1 /\ epoch[j] \in Nat /\ Epochs \in Nat
      BY <2>2, EpochsAssumption
    <3> QED BY SMTT(30), <1>7, <2>2, <3>1 DEF TrainEpoch, Return, MoreEpochs, Terminal
  <2> QED BY <1>7, <2>1, <2>2 DEF TrainEpoch
<1>8. CASE SaveSnapshot(j)
  BY <1>8, NoJobAssumption DEF SaveSnapshot, Return, Terminal
<1>9. CASE Judge(j)
  BY <1>9, NoJobAssumption DEF Judge, Verdict, Terminal
<1>10. CASE SetState(j)
  BY <1>10, NoJobAssumption DEF SetState
<1>11. CASE EmitTerminal(j)
  BY <1>11, NoJobAssumption DEF EmitTerminal
<1> QED BY <1>1, <1>2, <1>3, <1>4, <1>5, <1>6, <1>7, <1>8, <1>9, <1>10, <1>11
        DEF Handler, Runner

\* Cleanup only deletes jobs that have ended.
LEMMA CleanupStep ==
    ASSUME IInv, NEW t \in Cleaner, Cleanup(t) PROVE RunnerInv' /\ CleanerInv'
<1> USE DEF IInv, TypeOK
<1>0. clean[t] \in Cleaning
  OBVIOUS
<1>1. CASE DropJob(t)
  <2>1. RunnerInv'
    BY ZenonT(60), <1>1 DEF DropJob, Deleted, RunnerInv, CleanerInv, Terminal, Training
  <2>2. clean'[t].pc \in {"jobs", "raised"} /\ state' = state
    BY <1>1 DEF DropJob, Step, Cleaning
  <2>3. \A u \in Cleaner \ {t} : clean'[u] = clean[u]
    BY <1>1 DEF DropJob, Step
  <2>4. CleanerInv'
    BY <2>2, <2>3 DEF CleanerInv
  <2> QED BY <2>1, <2>4
<1>2. ASSUME NEW j \in Job, ExamineJob(t, j) PROVE RunnerInv' /\ CleanerInv'
  <2>1. RunnerInv'
    BY <1>2 DEF ExamineJob, RunnerInv
  <2>2. /\ clean'[t].pc = "drop" => clean'[t].cur = j /\ state[j] \in Terminal
        /\ state' = state
    <3>1. CASE Removable(t, j)
      <4>1. clean'[t] = [clean[t] EXCEPT !.pc = "drop",
                              !.todo = clean[t].todo \ {j}, !.cur = j]
        BY <1>2, <3>1 DEF ExamineJob
      <4> QED BY <1>0, <1>2, <3>1, <4>1 DEF ExamineJob, Removable, Cleaning
    <3>2. CASE ~Removable(t, j)
      <4>1. clean'[t] = [clean[t] EXCEPT !.todo = clean[t].todo \ {j}]
        BY <1>2, <3>2 DEF ExamineJob
      <4> QED BY <1>0, <1>2, <4>1 DEF ExamineJob, Cleaning
    <3> QED BY <3>1, <3>2
  <2>3. \A u \in Cleaner \ {t} : clean'[u] = clean[u]
    BY <1>2 DEF ExamineJob
  <2>4. CleanerInv'
    BY <2>2, <2>3 DEF CleanerInv
  <2> QED BY <2>1, <2>4
<1>3. ASSUME NEW j \in Job, CheckDir(t, j) PROVE RunnerInv' /\ CleanerInv'
  BY <1>3 DEF CheckDir, jobVars, RunnerInv, CleanerInv, Cleaning
<1>4. CASE BeginCleanup(t) \/ BeginTrack(t) \/ EndTrack(t) \/ RemoveDir(t) \/ EndCleanup(t)
  <2>1. RunnerInv'
    BY ZenonT(60), <1>4 DEF BeginCleanup, BeginTrack, EndTrack, RemoveDir, EndCleanup, jobVars,
                RunnerInv
  <2>2. clean'[t].pc # "drop" /\ state' = state
    <3>1. CASE BeginCleanup(t)
      <4>1. PICK retention \in Retentions :
              LET old == IF retention = "zero" THEN Stamp ELSE aged IN
              clean' = [clean EXCEPT ![t] =
                [@ EXCEPT !.pc = "jobs", !.todo = registered, !.old = old,
                          !.due = {j \in registered : /\ state[j] \in Terminal
                                                      /\ <<"updated_at", j>> \in old}]]
        BY <3>1 DEF BeginCleanup
      <4> DEFINE old == IF retention = "zero" THEN Stamp ELSE aged
                 due == {j \in registered : /\ state[j] \in Terminal
                                            /\ <<"updated_at", j>> \in old}
      <4>2. clean'[t] = [clean[t] EXCEPT !.pc = "jobs", !.todo = registered,
                                         !.old = old, !.due = due]
        BY <4>1
      <4>3. clean'[t].pc = "jobs"
        <5> HIDE DEF old, due
        <5> QED BY <1>0, <4>2 DEF Cleaning
      <4> QED BY <3>1, <4>3 DEF BeginCleanup, jobVars
    <3>2. CASE BeginTrack(t) \/ RemoveDir(t) \/ EndCleanup(t)
      <4>1. CASE BeginTrack(t)
        BY <1>0, <4>1 DEF BeginTrack, jobVars, Cleaning
      <4>2. CASE RemoveDir(t) \/ EndCleanup(t)
        BY <1>0, <4>2 DEF RemoveDir, EndCleanup, jobVars, Step, Cleaning
      <4> QED BY <3>2, <4>1, <4>2
    <3>3. CASE EndTrack(t)
      <4>1. \/ clean'[t] = [clean[t] EXCEPT !.pc = "dirs", !.todo = UntrackedDirs]
            \/ clean'[t] = [clean[t] EXCEPT !.pc = "raised"]
        BY <3>3 DEF EndTrack, Step
      <4> QED BY <1>0, <3>3, <4>1 DEF EndTrack, jobVars, Cleaning
    <3> QED BY <1>4, <3>1, <3>2, <3>3
  <2>3. \A u \in Cleaner \ {t} : clean'[u] = clean[u]
    BY <1>4 DEF BeginCleanup, BeginTrack, EndTrack, RemoveDir, EndCleanup, Step
  <2> QED BY <2>1, <2>2, <2>3 DEF CleanerInv
<1> QED BY <1>1, <1>2, <1>3, <1>4 DEF Cleanup

LEMMA NextIInv == IInv /\ [Next]_vars => IInv'
<1> SUFFICES ASSUME IInv, [Next]_vars PROVE IInv'
  OBVIOUS
<1>1. ASSUME NEW j \in Job, Handler(j) \/ Runner(j) PROVE IInv'
  <2>1. TypeOK' /\ RunnerInv'
    BY <1>1, HandlerType, RunnerType, JobStep
  <2>2. \A i \in Job : state[i] \in Terminal => state'[i] = state[i]
    BY <1>1 DEF Handler, Runner, SubmitBundle, ExtractBundle, Register, RunJob,
       LoadDataset, Prepare, TrainEpoch, SaveSnapshot, Judge, SetState,
       EmitTerminal, TaskDue, IInv, TypeOK, RunnerInv, Training, Terminal
  <2>3. /\ client' = client
        /\ \A t \in Cleaner : /\ clean'[t].pc = clean[t].pc
                              /\ clean'[t].cur = clean[t].cur
    <3>1. client' = client /\ (clean' = clean \/ \E stamps : Touch(stamps))
      BY <1>1 DEF Handler, Runner, SubmitBundle, ExtractBundle, Register, RunJob,
         LoadDataset, Prepare, TrainEpoch, SaveSnapshot, Judge, SetState,
         EmitTerminal
    <3> QED BY <3>1, TouchType DEF IInv
  <2> QED BY <2>1, <2>2, <2>3 DEF IInv, CleanerInv, SessionInv
<1>2. ASSUME NEW t \in Cleaner, Cleanup(t) PROVE IInv'
  <2>1. client' = client
    BY <1>2 DEF Cleanup, BeginCleanup, DropJob, BeginTrack, EndTrack, RemoveDir,
       EndCleanup, ExamineJob, CheckDir
  <2> QED BY <1>2, <2>1, CleanupType, CleanupStep DEF IInv, SessionInv
<1>3. ASSUME NEW j \in Job, StopCall(j) PROVE IInv'
  <2>1. UNCHANGED <<registered, state, pc, result, epoch, loop, clean, client>>
    BY <1>3 DEF StopCall, SendStop, DispatchStop, ThreadStop, jobVars
  <2> QED BY <1>3, <2>1, StopType DEF IInv, RunnerInv, CleanerInv, SessionInv
<1>4. ASSUME NEW c \in Client, Socket(c) PROVE IInv'
  <2>1. UNCHANGED <<registered, state, pc, result, epoch, loop, clean>>
    BY <1>4 DEF Socket, Disconnect, Deliver, Attach, jobVars
  <2>2. SessionInv'
    <3>0. client[c] \in SessionState
      BY DEF IInv, TypeOK
    <3>1. CASE Disconnect(c)
      BY <3>0, <3>1 DEF Disconnect, SessionInv, IInv, TypeOK, SessionState
    <3>2. CASE Deliver(c)
      <4>1. client'[c].job = client[c].job
        <5>1. CASE client[c].pc = "gone"
          BY <3>0, <3>2, <5>1 DEF Deliver, IInv, TypeOK, SessionState
        <5>2. CASE client[c].pc # "gone"
          BY <3>0, <3>2, <5>2 DEF Deliver, IInv, TypeOK, SessionState
        <5> QED BY <5>1, <5>2
      <4>2. \A d \in Client \ {c} : client'[d] = client[d]
        BY <3>2 DEF Deliver, IInv, TypeOK
      <4> QED BY <3>2, <4>1, <4>2 DEF Deliver, SessionInv, IInv
    <3>3. CASE \E j \in Job : Attach(c, j)
      BY <3>0, <3>3 DEF Attach, SessionInv, IInv, TypeOK, SessionState
    <3> QED BY <1>4, <3>1, <3>2, <3>3 DEF Socket
  <2> QED BY <1>4, <2>1, <2>2, SocketType DEF IInv, RunnerInv, CleanerInv
<1>5. CASE Age
  <2>1. UNCHANGED <<registered, state, pc, result, epoch, loop, clean, client>>
    BY <1>5 DEF Age, jobVars
  <2> QED BY <1>5, <2>1, AgeType DEF IInv, RunnerInv, CleanerInv, SessionInv
<1>6. CASE Restart
  <2>1. RunnerInv'
    BY <1>6, NoJobAssumption DEF Restart, RunnerInv, IInv, TypeOK, PC, Busy, Before,
       Handling, Training
  <2>2. CleanerInv'
    BY <1>6 DEF Restart, CleanerInv, IInv, TypeOK, Cleaning
  <2>3. SessionInv'
    BY <1>6 DEF Restart, SessionInv, IInv, TypeOK, SessionState
  <2> QED BY <1>6, <2>1, <2>2, <2>3, RestartType DEF IInv
<1>7. CASE UNCHANGED vars
  BY <1>7 DEF vars, jobVars, IInv, TypeOK, RunnerInv, CleanerInv, SessionInv
<1> QED BY <1>1, <1>2, <1>3, <1>4, <1>5, <1>6, <1>7 DEF Next

\* The inductive invariant holds in every reachable state.
THEOREM Invariant == Spec => []IInv
<1>1. Init => IInv
  BY InitIInv
<1>2. IInv /\ [Next]_vars => IInv'
  BY NextIInv
<1> QED BY <1>1, <1>2, PTL DEF Spec

\* Type correctness of the engine's state for all parameters.
THEOREM TypeCorrect == Spec => []TypeOK
<1>1. IInv => TypeOK
  BY DEF IInv
<1> QED BY <1>1, Invariant, PTL

\* At most one job is ever running: a running job holds the event loop, which
\* has one holder.
THEOREM NeverTwoRunning == Spec => []OneRunning
<1>1. IInv => OneRunning
  <2> SUFFICES ASSUME IInv, NEW i \in Job, NEW j \in Job, Running(i), Running(j)
               PROVE  i = j
    BY DEF OneRunning
  <2>1. ASSUME NEW k \in Job, Running(k) PROVE pc[k] \in Busy
    BY <2>1 DEF IInv, TypeOK, RunnerInv, Running, PC, Before, Handling, Busy,
                Training, Terminal
  <2>2. loop = i /\ loop = j
    BY <2>1 DEF IInv, RunnerInv
  <2> QED BY <2>2
<1> QED BY <1>1, Invariant, PTL

-----------------------------------------------------------------------------
(* JobEngine implements JobLifecycle *)

\* A step that leaves registry, states and the kind of position of every job
\* alone is a stutter of the lifecycle.
LEMMA Stutter ==
    ASSUME UNCHANGED <<registered, state>>,
           \A j \in Job : (pc'[j] \in Before) <=> (pc[j] \in Before)
    PROVE  UNCHANGED life
BY DEF life, Before

LEMMA StepSimulation == IInv /\ [Next]_vars => [Lifecycle!Next]_life
<1> SUFFICES ASSUME IInv, [Next]_vars PROVE [Lifecycle!Next]_life
  OBVIOUS
<1> USE DEF IInv
<1>1. ASSUME NEW j \in Job, Handler(j) PROVE [Lifecycle!Next]_life
  <2>1. CASE SubmitBundle(j) \/ ExtractBundle(j)
    BY <2>1, Stutter DEF SubmitBundle, ExtractBundle, TypeOK, Before, Handling
  <2>2. CASE Register(j)
    <3>1. life[j] = "unknown" /\ life' = [life EXCEPT ![j] = "queued"]
      BY <2>2 DEF Register, life, TypeOK, RunnerInv, Before, Handling
    <3> QED BY <3>1 DEF Lifecycle!Next, Lifecycle!Accept
  <2> QED BY <1>1, <2>1, <2>2 DEF Handler
<1>2. ASSUME NEW j \in Job, Runner(j) PROVE [Lifecycle!Next]_life
  <2>1. CASE RunJob(j)
    <3>1. life[j] = "queued" /\ life' = [life EXCEPT ![j] = "running"]
      BY <2>1 DEF RunJob, TaskDue, life, TypeOK, RunnerInv, Before, Handling
    <3>2. \A i \in Job : life[i] # "running"
      <4>1. \A i \in Job : pc[i] \notin Busy
        BY <2>1, NoJobAssumption DEF RunJob, RunnerInv
      <4> QED BY <4>1 DEF life, TypeOK, RunnerInv, Before, Handling, Busy, PC,
                          Training, Terminal
    <3> QED BY <3>1, <3>2 DEF Lifecycle!Next, Lifecycle!Start
  <2>2. CASE SetState(j)
    <3>1. life[j] = "running" /\ life' = [life EXCEPT ![j] = result[j]]
      BY <2>2 DEF SetState, life, TypeOK, RunnerInv, Before, Handling
    <3>2. result[j] \in Lifecycle!Ended
      BY <2>2 DEF SetState, RunnerInv, Terminal, Lifecycle!Ended
    <3> QED BY <3>1, <3>2 DEF Lifecycle!Next, Lifecycle!End
  <2>3. CASE LoadDataset(j) \/ Prepare(j) \/ TrainEpoch(j) \/ SaveSnapshot(j)
             \/ Judge(j) \/ EmitTerminal(j)
    BY SMTT(30), <2>3, Stutter DEF LoadDataset, Prepare, TrainEpoch, SaveSnapshot, Judge,
       EmitTerminal, Return, TypeOK, Before, Handling
  <2> QED BY <1>2, <2>1, <2>2, <2>3 DEF Runner
<1>3. ASSUME NEW t \in Cleaner, Cleanup(t) PROVE [Lifecycle!Next]_life
  <2>1. CASE DropJob(t) /\ clean[t].cur \in registered
    <3> DEFINE j == clean[t].cur
    <3>1. j \in Job /\ state[j] \in Terminal /\ pc[j] \notin Before
      BY <2>1 DEF DropJob, CleanerInv, RunnerInv
    <3>2. life[j] = state[j] /\ life' = [life EXCEPT ![j] = "forgotten"]
      BY <2>1, <3>1 DEF DropJob, Deleted, life, Before
    <3> QED BY <3>1, <3>2 DEF Lifecycle!Next, Lifecycle!Forget, Lifecycle!Ended,
                              Terminal
  <2>2. CASE ~(DropJob(t) /\ clean[t].cur \in registered)
    <3>1. UNCHANGED <<registered, state, pc>>
      BY <1>3, <2>2 DEF Cleanup, BeginCleanup, DropJob, BeginTrack, EndTrack,
         RemoveDir, EndCleanup, ExamineJob, CheckDir, jobVars
    <3> QED BY <3>1, Stutter
  <2> QED BY <2>1, <2>2
<1>4. ASSUME NEW j \in Job, StopCall(j) PROVE [Lifecycle!Next]_life
  BY <1>4, Stutter DEF StopCall, SendStop, DispatchStop, ThreadStop, jobVars
<1>5. ASSUME NEW c \in Client, Socket(c) PROVE [Lifecycle!Next]_life
  BY <1>5, Stutter DEF Socket, Disconnect, Deliver, Attach, jobVars
<1>6. CASE Age
  BY <1>6, Stutter DEF Age, jobVars
<1>7. CASE Restart
  <2>1. life' = [j \in Job |-> IF life[j] = "unknown" THEN "unknown" ELSE "forgotten"]
    <3>1. \A j \in Job : pc'[j] \in Before <=> pc[j] \in Before
      <4> SUFFICES ASSUME NEW j \in Job
                   PROVE  pc'[j] \in Before <=> pc[j] \in Before
        OBVIOUS
      <4>1. pc'[j] = IF pc[j] \in Handling THEN "rejected"
                     ELSE IF pc[j] \in Busy \cup {"ready"} THEN "lost" ELSE pc[j]
        BY <1>7 DEF Restart
      <4> QED BY <4>1 DEF Busy, Before, Handling, Training
    <3>2. \A j \in Job : life'[j] = IF pc[j] \in Before THEN "unknown" ELSE "forgotten"
      BY <1>7, <3>1 DEF Restart, life, Before
    <3>3. \A j \in Job : life[j] = "unknown" <=> pc[j] \in Before
      BY DEF life, Before, TypeOK, Live, Terminal
    <3> QED BY <3>2, <3>3 DEF life
  <2> QED BY <2>1 DEF Lifecycle!Next, Lifecycle!ProcessDies
<1>8. CASE UNCHANGED vars
  BY <1>8, Stutter DEF vars, jobVars
<1> QED BY <1>1, <1>2, <1>3, <1>4, <1>5, <1>6, <1>7, <1>8 DEF Next

\* Cleanup, stops and restarts included, a user sees each job go through
\* queued, running, one terminal state and removal, one running job at a time.
THEOREM Refinement == Spec => ImplementsLifecycle
<1>1. Init => Lifecycle!Init
  BY DEF Init, life, Lifecycle!Init
<1>2. IInv /\ [Next]_vars => [Lifecycle!Next]_life
  BY StepSimulation
<1> QED BY <1>1, <1>2, Invariant, PTL DEF Spec, ImplementsLifecycle, Lifecycle!Spec

-----------------------------------------------------------------------------
(* The stream of events of a job is well formed, for any epochs and jobs. *)

SentEpochs(j) == {n \in DOMAIN sent[j] : sent[j][n] = "epoch"}

\* What a runner has sent and trained where it is.  "completed" is only within
\* reach of one that has trained every epoch.
StreamInv ==
    \A j \in Job :
        /\ IsFiniteSet(SentEpochs(j)) /\ Cardinality(SentEpochs(j)) = epoch[j]
        /\ pc[j] # "done" => \A n \in DOMAIN sent[j] : sent[j][n] \notin Terminal
        /\ pc[j] = "done" =>
             /\ sent[j] # <<>> /\ sent[j][Len(sent[j])] = state[j]
             /\ \A n \in DOMAIN sent[j] : sent[j][n] \in Terminal => n = Len(sent[j])
        /\ pc[j] = "saving" => epoch[j] = Epochs
        /\ pc[j] \in {"trained", "judged"} /\ result[j] = "completed" => epoch[j] = Epochs
        /\ pc[j] \in {"settled", "done"} /\ state[j] = "completed" => epoch[j] = Epochs

-----------------------------------------------------------------------------
\* An event is put behind those that were sent.
LEMMA EmitOne ==
    ASSUME TypeOK, NEW j \in Job, NEW e \in Event, Emit(j, <<e>>)
    PROVE  /\ DOMAIN sent[j] = 1..Len(sent[j]) /\ Len(sent[j]) \in Nat
           /\ DOMAIN sent'[j] = 1..Len(sent[j]) + 1 /\ Len(sent'[j]) = Len(sent[j]) + 1
           /\ sent'[j][Len(sent[j]) + 1] = e
           /\ \A n \in DOMAIN sent[j] : sent'[j][n] = sent[j][n]
           /\ \A i \in Job \ {j} : sent'[i] = sent[i]
<1>1. sent[j] \in Seq(Event) /\ <<e>> \in Seq(Event) /\ Len(<<e>>) = 1
  BY DEF TypeOK
<1>2. sent'[j] = sent[j] \o <<e>> /\ \A i \in Job \ {j} : sent'[i] = sent[i]
  BY DEF Emit, TypeOK
<1>3. /\ sent[j] \o <<e>> \in Seq(Event) /\ Len(sent[j] \o <<e>>) = Len(sent[j]) + 1
      /\ \A n \in 1..Len(sent[j]) : (sent[j] \o <<e>>)[n] = sent[j][n]
      /\ (sent[j] \o <<e>>)[Len(sent[j]) + 1] = e
  BY <1>1, ConcatProperties
<1> QED BY <1>1, <1>2, <1>3

\* The reports of epochs are counted by the epochs trained.
LEMMA EmitCounts ==
    ASSUME TypeOK, StreamInv, NEW j \in Job, NEW e \in Event, Emit(j, <<e>>),
           epoch' = IF e = "epoch" THEN [epoch EXCEPT ![j] = @ + 1] ELSE epoch
    PROVE  \A i \in Job : IsFiniteSet(SentEpochs(i)') /\ Cardinality(SentEpochs(i)') = epoch'[i]
<1>1. \A i \in Job : /\ IsFiniteSet(SentEpochs(i)) /\ Cardinality(SentEpochs(i)) = epoch[i]
                     /\ epoch[i] \in Nat
  BY EpochsAssumption DEF StreamInv, TypeOK
<1>2. ASSUME NEW i \in Job \ {j}
      PROVE  IsFiniteSet(SentEpochs(i)') /\ Cardinality(SentEpochs(i)') = epoch'[i]
  <2>1. SentEpochs(i)' = SentEpochs(i)
    BY EmitOne DEF SentEpochs
  <2>2. epoch'[i] = epoch[i]
    BY DEF TypeOK
  <2> QED BY <1>1, <2>1, <2>2
<1>3. CASE e = "epoch"
  <2>1. SentEpochs(j)' = SentEpochs(j) \cup {Len(sent[j]) + 1}
    BY <1>3, EmitOne DEF SentEpochs
  <2>2. Len(sent[j]) + 1 \notin SentEpochs(j)
    <3>1. SentEpochs(j) \subseteq 1..Len(sent[j]) /\ Len(sent[j]) \in Nat
      BY EmitOne DEF SentEpochs
    <3> QED BY <3>1
  <2>3. IsFiniteSet(SentEpochs(j)') /\ Cardinality(SentEpochs(j)') = epoch[j] + 1
    <3>1. /\ IsFiniteSet(SentEpochs(j) \cup {Len(sent[j]) + 1})
          /\ Cardinality(SentEpochs(j) \cup {Len(sent[j]) + 1}) = Cardinality(SentEpochs(j)) + 1
      <4>1. IsFiniteSet(SentEpochs(j))
        BY <1>1
      <4> HIDE DEF SentEpochs
      <4> QED BY <2>2, <4>1, FS_AddElement
    <3> QED BY <1>1, <2>1, <3>1
  <2>4. epoch'[j] = epoch[j] + 1
    BY <1>3 DEF TypeOK
  <2> QED BY <1>2, <2>3, <2>4
<1>4. CASE e # "epoch"
  <2>1. SentEpochs(j)' = SentEpochs(j)
    BY <1>4, EmitOne DEF SentEpochs
  <2> QED BY <1>1, <1>2, <1>4, <2>1
<1> QED BY <1>3, <1>4

\* An event that is not the last leaves the stream open.
LEMMA EmitOpen ==
    ASSUME TypeOK, StreamInv, NEW j \in Job, pc[j] # "done",
           NEW e \in Event \ Terminal, Emit(j, <<e>>)
    PROVE  \A n \in DOMAIN sent'[j] : sent'[j][n] \notin Terminal
<1>1. \A n \in 1..Len(sent[j]) : sent'[j][n] \notin Terminal
  BY EmitOne DEF StreamInv
<1> QED BY <1>1, EmitOne

\* A step that sends nothing leaves the counts as they are.
LEMMA Silent ==
    ASSUME StreamInv, sent' = sent, epoch' = epoch
    PROVE  \A i \in Job : IsFiniteSet(SentEpochs(i)') /\ Cardinality(SentEpochs(i)') = epoch'[i]
<1>1. \A i \in Job : SentEpochs(i)' = SentEpochs(i)
  BY DEF SentEpochs
<1> QED BY <1>1 DEF StreamInv

LEMMA StreamJob ==
    ASSUME IInv, StreamInv, NEW j \in Job, Handler(j) \/ Runner(j)
    PROVE  StreamInv'
<1> USE DEF IInv
<1>1. CASE SubmitBundle(j)
  BY <1>1, Silent DEF SubmitBundle, StreamInv, TypeOK
<1>2. CASE ExtractBundle(j)
  BY SMTT(30), <1>2, Silent DEF ExtractBundle, StreamInv, TypeOK
<1>3. CASE Register(j)
  <2>1. Emit(j, <<"queued">>) /\ "queued" \in Event \ Terminal /\ pc[j] # "done"
    BY <1>3 DEF Register, Event, Terminal
  <2>2. \A n \in DOMAIN sent'[j] : sent'[j][n] \notin Terminal
    BY <2>1, EmitOpen
  <2>3. \A i \in Job : IsFiniteSet(SentEpochs(i)') /\ Cardinality(SentEpochs(i)') = epoch'[i]
    BY <1>3, <2>1, EmitCounts DEF Register
  <2>4. \A i \in Job \ {j} : sent'[i] = sent[i]
    BY <2>1, EmitOne
  <2> QED BY SMTT(30), <1>3, <2>2, <2>3, <2>4 DEF Register, StreamInv, TypeOK
<1>4. CASE RunJob(j)
  BY <1>4, Silent DEF RunJob, TaskDue, StreamInv, TypeOK
<1>5. CASE LoadDataset(j)
  <2>1. CASE pc' = [pc EXCEPT ![j] = "started"] /\ Emit(j, <<"started">>) /\ UNCHANGED result
    <3>1. "started" \in Event \ Terminal /\ pc[j] # "done"
      BY <1>5 DEF LoadDataset, Event, Terminal
    <3>2. \A n \in DOMAIN sent'[j] : sent'[j][n] \notin Terminal
      BY <2>1, <3>1, EmitOpen
    <3>3. \A i \in Job : IsFiniteSet(SentEpochs(i)') /\ Cardinality(SentEpochs(i)') = epoch'[i]
      BY <1>5, <2>1, <3>1, EmitCounts DEF LoadDataset
    <3>4. \A i \in Job \ {j} : sent'[i] = sent[i]
      BY <2>1, <3>1, EmitOne
    <3> QED BY SMTT(30), <1>5, <2>1, <3>2, <3>3, <3>4 DEF LoadDataset, StreamInv, TypeOK
  <2>2. CASE Return(j, "failed") /\ UNCHANGED <<queue, sent, aged, clean>>
    BY <1>5, <2>2, Silent DEF LoadDataset, Return, StreamInv, TypeOK
  <2> QED BY <1>5, <2>1, <2>2 DEF LoadDataset
<1>6. CASE Prepare(j)
  <2>1. sent' = sent /\ epoch' = epoch /\ state' = state
    BY <1>6 DEF Prepare
  <2>2. \/ pc' = [pc EXCEPT ![j] = "epochs"] /\ result' = result
        \/ \E r \in {"stopped", "failed"} : Return(j, r)
    BY <1>6 DEF Prepare
  <2>3. CASE pc' = [pc EXCEPT ![j] = "epochs"] /\ result' = result
    BY SMTT(30), <1>6, <2>1, <2>3, Silent DEF Prepare, StreamInv, TypeOK
  <2>4. CASE \E r \in {"stopped", "failed"} : Return(j, r)
    <3>1. pc'[j] = "trained" /\ result'[j] # "completed" /\ pc[j] = "started"
      BY <1>6, <2>4 DEF Prepare, Return, TypeOK
    <3>2. \A i \in Job \ {j} : pc'[i] = pc[i] /\ result'[i] = result[i]
      BY <2>4 DEF Return, TypeOK
    <3> QED BY <2>1, <3>1, <3>2, Silent DEF StreamInv
  <2> QED BY <2>2, <2>3, <2>4
<1>7. CASE TrainEpoch(j)
  <2>1. CASE \E r \in {"stopped", "failed"} : Return(j, r) /\ UNCHANGED <<epoch, queue, sent, aged, clean>>
    <3>1. /\ pc'[j] = "trained" /\ result'[j] # "completed" /\ pc[j] = "epochs"
          /\ state' = state
      BY <1>7, <2>1 DEF TrainEpoch, Return, TypeOK
    <3>2. \A i \in Job \ {j} : pc'[i] = pc[i] /\ result'[i] = result[i]
      BY <2>1 DEF Return, TypeOK
    <3> QED BY <2>1, <3>1, <3>2, Silent DEF StreamInv
  <2>2. CASE /\ epoch' = [epoch EXCEPT ![j] = @ + 1]
             /\ pc' = [pc EXCEPT ![j] = IF MoreEpochs(epoch'[j]) THEN @ ELSE "saving"]
             /\ Emit(j, <<"epoch">>) /\ UNCHANGED result
    <3>1. "epoch" \in Event \ Terminal /\ pc[j] = "epochs" /\ state' = state
      BY <1>7 DEF TrainEpoch, Event, Terminal
    <3>2. \A n \in DOMAIN sent'[j] : sent'[j][n] \notin Terminal
      BY <2>2, <3>1, EmitOpen
    <3>3. \A i \in Job : IsFiniteSet(SentEpochs(i)') /\ Cardinality(SentEpochs(i)') = epoch'[i]
      BY <2>2, <3>1, EmitCounts
    <3>4. \A i \in Job \ {j} : sent'[i] = sent[i] /\ pc'[i] = pc[i] /\ epoch'[i] = epoch[i]
      BY <2>2, <3>1, EmitOne DEF TypeOK
    <3>5. pc'[j] \in {"epochs", "saving"} /\ (pc'[j] = "saving" => epoch'[j] = Epochs)
      <4>1. epoch[j] \in Nat /\ epoch[j] < Epochs /\ Epochs \in Nat /\ epoch'[j] = epoch[j] + 1
        BY <2>2, <3>1, EpochsAssumption DEF TypeOK, RunnerInv
      <4>2. pc'[j] = IF epoch'[j] < Epochs THEN "epochs" ELSE "saving"
        BY <2>2, <3>1 DEF MoreEpochs, TypeOK
      <4> QED BY <4>1, <4>2
    <3> QED BY <2>2, <3>1, <3>2, <3>3, <3>4, <3>5 DEF StreamInv
  <2> QED BY <1>7, <2>1, <2>2 DEF TrainEpoch
<1>8. CASE SaveSnapshot(j)
  <2>1. sent' = sent /\ epoch' = epoch /\ state' = state /\ \E r \in Terminal : Return(j, r)
    BY <1>8 DEF SaveSnapshot, Terminal
  <2> QED BY SMTT(30), <1>8, <2>1, Silent DEF SaveSnapshot, Return, StreamInv, TypeOK
<1>9. CASE Judge(j)
  BY <1>9, Silent DEF Judge, Verdict, StreamInv, TypeOK
<1>10. CASE SetState(j)
  BY <1>10, Silent DEF SetState, StreamInv, TypeOK
<1>11. CASE EmitTerminal(j)
  <2>1. Emit(j, <<state[j]>>) /\ state[j] \in Terminal /\ state[j] \in Event /\ pc[j] = "settled"
    BY <1>11 DEF EmitTerminal, TerminalEvents, RunnerInv, Event
  <2>2. state[j] # "epoch" /\ epoch' = epoch /\ state' = state /\ result' = result
    BY <1>11, <2>1 DEF EmitTerminal, Terminal
  <2>3. \A i \in Job : IsFiniteSet(SentEpochs(i)') /\ Cardinality(SentEpochs(i)') = epoch'[i]
    BY <2>1, <2>2, EmitCounts
  <2>4. \A i \in Job \ {j} : sent'[i] = sent[i] /\ pc'[i] = pc[i]
    BY <1>11, <2>1, EmitOne DEF EmitTerminal
  <2>5. /\ sent'[j] # <<>> /\ sent'[j][Len(sent'[j])] = state[j]
        /\ \A n \in DOMAIN sent'[j] : sent'[j][n] \in Terminal => n = Len(sent'[j])
    <3>1. \A n \in 1..Len(sent[j]) : sent'[j][n] \notin Terminal
      BY <2>1, EmitOne DEF StreamInv
    <3> QED BY <2>1, <3>1, EmitOne
  <2>6. pc'[j] = "done"
    BY <1>11 DEF EmitTerminal, TypeOK
  <2> QED BY <2>1, <2>2, <2>3, <2>4, <2>5, <2>6 DEF StreamInv
<1> QED BY <1>1, <1>2, <1>3, <1>4, <1>5, <1>6, <1>7, <1>8, <1>9, <1>10, <1>11
        DEF Handler, Runner

\* Nobody else sends, and a restart ends no job.
LEMMA StreamOther ==
    ASSUME IInv, StreamInv, UNCHANGED <<state, result, epoch, sent>>,
           UNCHANGED pc \/ Restart
    PROVE  StreamInv'
<1>1. \A j \in Job : pc'[j] = pc[j] \/ (pc'[j] \in {"rejected", "lost"} /\ pc[j] # "done")
  <2>1. CASE Restart
    <3>1. \A j \in Job : pc'[j] = IF pc[j] \in Handling THEN "rejected"
                                  ELSE IF pc[j] \in Busy \cup {"ready"} THEN "lost" ELSE pc[j]
      BY <2>1 DEF Restart
    <3> QED BY <3>1 DEF Handling, Busy, Training
  <2> QED BY <2>1
<1> QED BY <1>1, Silent DEF StreamInv

\* Every job's stream is well formed in every reachable state: the epochs that
\* were trained are those that were reported, and one terminal event ends it.
THEOREM Streams == Spec => []StreamWellFormed
<1>1. Init => StreamInv
  <2> SUFFICES ASSUME Init PROVE StreamInv
    OBVIOUS
  <2>1. \A j \in Job : SentEpochs(j) = {}
    BY DEF Init, SentEpochs
  <2>2. IsFiniteSet({}) /\ Cardinality({}) = 0
    BY FS_EmptySet
  <2>3. \A j \in Job : pc[j] = "absent" /\ epoch[j] = 0 /\ sent[j] = <<>>
    BY DEF Init
  <2>4. \A j \in Job : \A n \in DOMAIN sent[j] : sent[j][n] \notin Terminal
    BY <2>3
  <2> QED BY <2>1, <2>2, <2>3, <2>4 DEF StreamInv
<1>2. IInv /\ StreamInv /\ [Next]_vars => StreamInv'
  <2> SUFFICES ASSUME IInv, StreamInv, [Next]_vars PROVE StreamInv'
    OBVIOUS
  <2>1. CASE \E j \in Job : Handler(j) \/ Runner(j)
    BY <2>1, StreamJob
  <2>2. CASE \E j \in Job : StopCall(j)
    BY <2>2, StreamOther DEF StopCall, SendStop, DispatchStop, ThreadStop, jobVars
  <2>3. CASE \E t \in Cleaner : Cleanup(t)
    <3>1. UNCHANGED <<state, result, epoch, sent, pc>>
      BY ZenonT(60), <2>3 DEF Cleanup, BeginCleanup, DropJob, BeginTrack, EndTrack, RemoveDir,
         EndCleanup, ExamineJob, CheckDir, jobVars
    <3> QED BY <3>1, StreamOther
  <2>4. CASE \E c \in Client : Socket(c)
    BY <2>4, StreamOther DEF Socket, Disconnect, Deliver, Attach, jobVars
  <2>5. CASE Age \/ Restart \/ UNCHANGED vars
    BY <2>5, StreamOther DEF Age, Restart, vars, jobVars
  <2> QED BY <2>1, <2>2, <2>3, <2>4, <2>5 DEF Next
<1>3. IInv /\ StreamInv => StreamWellFormed
  <2> SUFFICES ASSUME IInv, StreamInv, NEW j \in Job
               PROVE  /\ \A n \in DOMAIN sent[j] : sent[j][n] \in Terminal =>
                           n = Len(sent[j]) /\ sent[j][n] = state[j]
                      /\ pc[j] = "done" => sent[j][Len(sent[j])] \in Terminal
                      /\ pc[j] = "done" /\ state[j] = "completed" =>
                           Cardinality(SentEpochs(j)) = Epochs
    BY DEF StreamWellFormed, SentEpochs
  <2>1. pc[j] = "done" => state[j] \in Terminal
    BY DEF IInv, RunnerInv
  <2> QED BY <2>1 DEF StreamInv
<1> QED BY <1>1, <1>2, <1>3, Invariant, PTL DEF Spec

-----------------------------------------------------------------------------
(* What cleanup takes and leaves, for any number of cleanups at once. Cleanup *)
(* with long retentions alone takes no workspace of a live job and no         *)
(* snapshot of a completed one; the condition is needed, for with a zero      *)
(* retention the engine loses both. And a cleanup that returns has removed    *)
(* what it owed, whatever the retentions.                                     *)

\* A directory without a job, now and for good.
Gone(j) == j \notin registered /\ pc[j] \notin Handling \cup {"absent"}

Modified(j) == <<"mtime", j>>

\* A directory that may still get a job is young for every cleanup.
DirInv ==
    \A j \in Job :
        /\ pc[j] = "absent" => files[j] = {}
        /\ pc[j] \in Handling =>
              Modified(j) \notin aged /\ \A t \in Cleaner : Modified(j) \notin clean[t].old

\* A cleanup that found a directory without a job removes it only if it never
\* gets one.
SweepInv ==
    \A t \in Cleaner :
        /\ clean[t].pc \in {"dirs", "rm"} =>
              \A j \in clean[t].todo :
                 pc[j] # "absent" /\ (Gone(j) \/ Modified(j) \notin clean[t].old)
        /\ clean[t].pc = "rm" => clean[t].cur \in Job /\ Gone(clean[t].cur)

\* What a job is about to be registered or completed with.
FileInv ==
    \A j \in Job :
        /\ pc[j] = "extracted" => "bundle" \in files[j]
        /\ pc[j] = "judged" /\ result[j] = "completed" => "snapshot" \in files[j]

WInv == DirInv /\ SweepInv /\ FileInv /\ LiveWorkspaceKept /\ SnapshotAvailable

-----------------------------------------------------------------------------
\* Time stamps are only taken away from what a cleanup holds for old.
LEMMA TouchOld ==
    ASSUME TypeOK, NEW stamps, Touch(stamps)
    PROVE  /\ aged' = aged \ stamps
           /\ \A t \in Cleaner : /\ clean'[t].pc = clean[t].pc
                                 /\ clean'[t].cur = clean[t].cur
                                 /\ clean'[t].todo = clean[t].todo
                                 /\ clean'[t].old = clean[t].old \ stamps
<1>1. ASSUME NEW t \in Cleaner
      PROVE  /\ clean'[t].pc = clean[t].pc /\ clean'[t].cur = clean[t].cur
             /\ clean'[t].todo = clean[t].todo /\ clean'[t].old = clean[t].old \ stamps
  <2>1. clean[t] \in Cleaning
    BY DEF TypeOK
  <2>2. clean'[t] = [clean[t] EXCEPT !.old = @ \ stamps,
                        !.due = {j \in @ : <<"updated_at", j>> \notin stamps}]
    BY DEF Touch
  <2> QED BY <2>1, <2>2 DEF Cleaning
<1> QED BY <1>1 DEF Touch

\* What a step of a handler or runner does to directories and states.
LEMMA JobMoves ==
    ASSUME IInv, DirInv, NEW j \in Job, Handler(j) \/ Runner(j), NEW i \in Job
    PROVE  /\ files[i] \subseteq files'[i]
           /\ Gone(i) => Gone(i)'
           /\ pc'[i] = "absent" => pc[i] = "absent" /\ files'[i] = files[i]
           /\ pc'[i] = "extracted" => pc[i] = "extracted" \/ "bundle" \in files'[i]
           /\ pc'[i] = "judged" /\ result'[i] = "completed" =>
                (pc[i] = "judged" /\ result[i] = "completed") \/ "snapshot" \in files'[i]
           /\ i \in registered' /\ state'[i] \in Live =>
                (i \in registered /\ state[i] \in Live) \/ pc[i] = "extracted"
           /\ i \in registered' /\ state'[i] = "completed" =>
                (i \in registered /\ state[i] = "completed")
                \/ (pc[i] = "judged" /\ result[i] = "completed")
           /\ pc'[i] \in Handling => pc[i] \in Handling \/ Touch({Modified(i)})
<1> USE DEF IInv, TypeOK, RunnerInv, Gone, Handling, Before, Live
<1>1. CASE SubmitBundle(j)
  <2>1. pc[j] = "absent" /\ files[j] = {} /\ Touch({Modified(j)})
    BY <1>1 DEF SubmitBundle, DirInv, Modified
  <2> QED BY <1>1, <2>1 DEF SubmitBundle
<1>2. CASE ExtractBundle(j)
  BY <1>2 DEF ExtractBundle, Modified
<1>3. CASE Register(j)
  BY <1>3 DEF Register
<1>4. CASE RunJob(j)
  BY <1>4 DEF RunJob, TaskDue
<1>5. CASE LoadDataset(j)
  BY SMTT(30), <1>5 DEF LoadDataset, Return
<1>6. CASE Prepare(j)
  BY SMTT(30), <1>6 DEF Prepare, Return
<1>7. CASE TrainEpoch(j)
  BY SMTT(30), <1>7 DEF TrainEpoch, Return
<1>8. CASE SaveSnapshot(j)
  BY SMTT(30), <1>8 DEF SaveSnapshot, Return
<1>9. CASE Judge(j)
  BY <1>9 DEF Judge, Verdict
<1>10. CASE SetState(j)
  BY <1>10 DEF SetState, Terminal
<1>11. CASE EmitTerminal(j)
  BY <1>11 DEF EmitTerminal
<1> QED BY <1>1, <1>2, <1>3, <1>4, <1>5, <1>6, <1>7, <1>8, <1>9, <1>10, <1>11
        DEF Handler, Runner

LEMMA JobWorkspace ==
    ASSUME IInv, WInv, NEW j \in Job, Handler(j) \/ Runner(j)
    PROVE  WInv'
<1> USE DEF IInv, WInv
<1>1. \/ clean' = clean /\ aged' = aged
      \/ \E stamps : Touch(stamps)
  BY DEF Handler, Runner, SubmitBundle, ExtractBundle, Register, RunJob, LoadDataset,
     Prepare, TrainEpoch, SaveSnapshot, Judge, SetState, EmitTerminal
<1>2. /\ aged' \subseteq aged
      /\ \A t \in Cleaner : /\ clean'[t].pc = clean[t].pc
                            /\ clean'[t].cur = clean[t].cur
                            /\ clean'[t].todo = clean[t].todo
                            /\ clean'[t].old \subseteq clean[t].old
  BY <1>1, TouchOld
<1>3. DirInv'
  <2>1. ASSUME NEW i \in Job, pc'[i] \in Handling
        PROVE  Modified(i) \notin aged' /\ \A t \in Cleaner : Modified(i) \notin clean'[t].old
    <3>1. CASE pc[i] \in Handling
      BY <1>2, <3>1 DEF DirInv
    <3>2. CASE Touch({Modified(i)})
      BY <3>2, TouchOld
    <3> QED BY <2>1, <3>1, <3>2, JobMoves
  <2>2. \A i \in Job : pc'[i] = "absent" => files'[i] = {}
    BY JobMoves DEF DirInv
  <2> QED BY <2>1, <2>2 DEF DirInv, Modified
<1>4. SweepInv'
  <2>1. \A i \in Job : /\ Gone(i) => Gone(i)'
                       /\ pc[i] # "absent" => pc'[i] # "absent"
    BY JobMoves
  <2>2. \A t \in Cleaner : clean[t].todo \subseteq Job
    BY DEF TypeOK, Cleaning
  <2> QED BY <1>2, <2>1, <2>2 DEF SweepInv, Modified
<1>5. FileInv' /\ LiveWorkspaceKept'
  <2>1. registered' \subseteq Job
    BY HandlerType, RunnerType DEF TypeOK
  <2> QED BY <2>1, JobMoves DEF FileInv, LiveWorkspaceKept
<1>6. SnapshotAvailable'
  <2>1. registered' \subseteq Job
    BY HandlerType, RunnerType DEF TypeOK
  <2> QED BY ZenonT(60), <1>2, <2>1, JobMoves DEF FileInv, SnapshotAvailable
<1> QED BY <1>3, <1>4, <1>5, <1>6

\* What a cleanup that is not the one of this step holds is untouched, and what
\* this one holds is found again under other names.
LEMMA CleanupWorkspace ==
    ASSUME IInv, WInv, "zero" \notin Retentions, NEW t \in Cleaner, Cleanup(t)
    PROVE  WInv'
<1> USE DEF IInv, WInv
<1>0. /\ clean[t] \in Cleaning /\ clean[t].todo \subseteq Job
      /\ UNCHANGED <<state, pc, result, aged>>
      /\ registered' \subseteq registered
      /\ \A u \in Cleaner \ {t} : clean'[u] = clean[u]
  <2>1. clean[t] \in Cleaning /\ clean[t].todo \subseteq Job
    BY DEF TypeOK, Cleaning
  <2>2. /\ UNCHANGED <<state, pc, result, aged>>
        /\ registered' \subseteq registered
    BY DEF Cleanup, BeginCleanup, DropJob, Deleted, BeginTrack, EndTrack, RemoveDir,
       EndCleanup, ExamineJob, CheckDir, jobVars
  <2>3. \E r : clean' = [clean EXCEPT ![t] = r]
    BY DEF Cleanup, BeginCleanup, DropJob, BeginTrack, EndTrack, RemoveDir, EndCleanup,
       ExamineJob, CheckDir, Step, TypeOK
  <2>4. \A u \in Cleaner \ {t} : clean'[u] = clean[u]
    BY <2>3 DEF TypeOK
  <2> QED BY <2>1, <2>2, <2>4
<1>1. \A j \in Job : Gone(j) => Gone(j)'
  BY <1>0 DEF Gone
\* A step that leaves files and registry alone and holds nothing to drop.
<1>2. ASSUME files' = files, registered' = registered, clean[t].pc # "drop",
             \/ clean'[t].old = clean[t].old
             \/ clean'[t].old = aged,
             clean'[t].pc \in {"dirs", "rm"} =>
               \A j \in clean'[t].todo :
                  pc[j] # "absent" /\ (Gone(j) \/ Modified(j) \notin clean'[t].old),
             clean'[t].pc = "rm" => clean'[t].cur \in Job /\ Gone(clean'[t].cur)
      PROVE  WInv'
  <2>1. DirInv'
    BY <1>0, <1>2 DEF DirInv, Modified
  <2>2. SweepInv'
    <3>1. \A j : Gone(j)' = Gone(j)
      BY <1>0, <1>2 DEF Gone
    <3> QED BY <1>0, <1>2, <3>1 DEF SweepInv, Modified
  <2>3. FileInv' /\ LiveWorkspaceKept'
    BY <1>0, <1>2 DEF FileInv, LiveWorkspaceKept
  <2>4. SnapshotAvailable'
    BY <1>0, <1>2 DEF SnapshotAvailable
  <2> QED BY <2>1, <2>2, <2>3, <2>4
<1>3. CASE BeginCleanup(t)
  <2>1. PICK retention \in Retentions :
          LET old == IF retention = "zero" THEN Stamp ELSE aged IN
          clean' = [clean EXCEPT ![t] =
            [@ EXCEPT !.pc = "jobs", !.todo = registered, !.old = old,
                      !.due = {j \in registered : /\ state[j] \in Terminal
                                                  /\ <<"updated_at", j>> \in old}]]
    BY <1>3 DEF BeginCleanup
  <2> DEFINE old == IF retention = "zero" THEN Stamp ELSE aged
             due == {j \in registered : state[j] \in Terminal /\ <<"updated_at", j>> \in old}
  <2>2. clean'[t] = [clean[t] EXCEPT !.pc = "jobs", !.todo = registered, !.old = old, !.due = due]
    BY <2>1 DEF TypeOK
  <2>3. old = aged
    OBVIOUS
  <2>4. clean'[t].pc = "jobs" /\ clean'[t].old = aged
    <3> HIDE DEF old, due
    <3> QED BY <1>0, <2>2, <2>3 DEF Cleaning
  <2> QED BY SMTT(30), <1>2, <1>3, <2>4 DEF BeginCleanup, jobVars
<1>4. CASE BeginTrack(t)
  <2>1. clean'[t] = [clean[t] EXCEPT !.pc = "track", !.seen = registered]
    BY <1>4 DEF BeginTrack, TypeOK
  <2>2. clean'[t].pc = "track" /\ clean'[t].old = clean[t].old
    BY <1>0, <2>1 DEF Cleaning
  <2> QED BY <1>2, <1>4, <2>2 DEF BeginTrack, jobVars
<1>5. CASE EndTrack(t)
  <2>1. /\ clean'[t].old = clean[t].old
        /\ \/ clean'[t].pc = "dirs" /\ clean'[t].todo = UntrackedDirs
           \/ clean'[t].pc = "raised"
    <3>1. \/ clean'[t] = [clean[t] EXCEPT !.pc = "dirs", !.todo = UntrackedDirs]
          \/ clean'[t] = [clean[t] EXCEPT !.pc = "raised"]
      BY <1>5 DEF EndTrack, Step, TypeOK
    <3> QED BY <1>0, <3>1 DEF Cleaning
  <2>2. \A j \in UntrackedDirs :
          pc[j] # "absent" /\ (Gone(j) \/ Modified(j) \notin clean[t].old)
    BY DEF UntrackedDirs, DirInv, Gone
  <2> QED BY <1>2, <1>5, <2>1, <2>2 DEF EndTrack, jobVars
<1>6. CASE EndCleanup(t)
  <2>1. clean'[t] = [clean[t] EXCEPT !.pc = "returned"]
    BY <1>6 DEF EndCleanup, Step, TypeOK
  <2>2. clean'[t].pc = "returned" /\ clean'[t].old = clean[t].old
    BY <1>0, <2>1 DEF Cleaning
  <2> QED BY <1>2, <1>6, <2>2 DEF EndCleanup, jobVars
<1>7. ASSUME NEW j \in Job, CheckDir(t, j) PROVE WInv'
  <2>1. \/ /\ <<"mtime", j>> \in clean[t].old
           /\ clean'[t] = [clean[t] EXCEPT !.pc = "rm", !.todo = clean[t].todo \ {j}, !.cur = j]
        \/ clean'[t] = [clean[t] EXCEPT !.todo = clean[t].todo \ {j}]
    <3>1. CASE "dir" \in files[j] /\ <<"mtime", j>> \in clean[t].old
      BY <1>7, <3>1 DEF CheckDir, TypeOK
    <3>2. CASE ~("dir" \in files[j] /\ <<"mtime", j>> \in clean[t].old)
      BY <1>7, <3>2 DEF CheckDir, TypeOK
    <3> QED BY <3>1, <3>2
  <2>2. /\ clean'[t].old = clean[t].old /\ clean'[t].todo = clean[t].todo \ {j}
        /\ \/ clean'[t].pc = "rm" /\ clean'[t].cur = j /\ <<"mtime", j>> \in clean[t].old
           \/ clean'[t].pc = "dirs"
    <3>1. clean[t].pc = "dirs"
      BY <1>7 DEF CheckDir
    <3>2. CASE clean'[t] = [clean[t] EXCEPT !.pc = "rm", !.todo = clean[t].todo \ {j}, !.cur = j]
      <4>1. /\ clean'[t].old = clean[t].old /\ clean'[t].todo = clean[t].todo \ {j}
            /\ clean'[t].pc = "rm" /\ clean'[t].cur = j
        BY <1>0, <3>2 DEF Cleaning
      <4>2. <<"mtime", j>> \in clean[t].old
        <5>1. clean[t].pc # "rm"
          BY <3>1
        <5>2. CASE clean'[t] = [clean[t] EXCEPT !.todo = clean[t].todo \ {j}]
          BY <1>0, <3>1, <4>1, <5>2 DEF Cleaning
        <5> QED BY <2>1, <5>2
      <4> QED BY <4>1, <4>2
    <3>3. CASE clean'[t] = [clean[t] EXCEPT !.todo = clean[t].todo \ {j}]
      BY <1>0, <3>1, <3>3 DEF Cleaning
    <3> QED BY <2>1, <3>2, <3>3
  <2>3. /\ clean[t].pc = "dirs" /\ j \in clean[t].todo
        /\ UNCHANGED <<files, registered>>
    BY <1>7 DEF CheckDir, jobVars
  <2>4. <<"mtime", j>> \in clean[t].old => Gone(j)
    BY <2>3 DEF SweepInv, Modified
  <2> QED BY <1>2, <2>2, <2>3, <2>4 DEF SweepInv
<1>8. CASE RemoveDir(t)
  <2> DEFINE k == clean[t].cur
  <2>1. k \in Job /\ Gone(k) /\ files' = [files EXCEPT ![k] = {}] /\ registered' = registered
    BY <1>8 DEF RemoveDir, SweepInv
  <2>2. clean'[t].pc = "dirs" /\ clean'[t].old = clean[t].old /\ clean'[t].todo = clean[t].todo
    <3>1. clean'[t] = [clean[t] EXCEPT !.pc = "dirs"]
      BY <1>8 DEF RemoveDir, Step, TypeOK
    <3> QED BY <1>0, <3>1 DEF Cleaning
  <2>3. \A j : Gone(j)' = Gone(j)
    BY <1>0, <2>1 DEF Gone
  <2>4. \A j \in Job : j # k => files'[j] = files[j]
    BY <2>1 DEF TypeOK
  <2> HIDE DEF k
  <2>5. DirInv'
    BY <1>0, <2>1, <2>2, <2>4 DEF DirInv, Modified, TypeOK
  <2>6. SweepInv'
    BY <1>0, <1>8, <2>2, <2>3 DEF SweepInv, Modified, RemoveDir
  <2>7. FileInv'
    <3>1. pc[k] # "extracted" /\ pc[k] # "judged"
      BY <2>1 DEF Gone, RunnerInv, Handling, Training
    <3> QED BY <1>0, <2>4, <3>1 DEF FileInv
  <2>8. LiveWorkspaceKept' /\ SnapshotAvailable'
    <3>1. registered \subseteq Job /\ k \notin registered
      BY <2>1 DEF TypeOK, Gone
    <3>2. LiveWorkspaceKept'
      BY <1>0, <2>1, <2>4, <3>1 DEF LiveWorkspaceKept
    <3>3. clean[t].pc # "drop"
      BY <1>8 DEF RemoveDir
    <3>4. SnapshotAvailable'
      BY <1>0, <2>1, <2>4, <3>1, <3>3 DEF SnapshotAvailable
    <3> QED BY <3>2, <3>4
  <2> QED BY <2>5, <2>6, <2>7, <2>8
<1>9. ASSUME NEW k \in Job, ExamineJob(t, k) PROVE WInv'
  <2>1. CASE ~Removable(t, k)
    <3>1. clean'[t] = [clean[t] EXCEPT !.todo = clean[t].todo \ {k}]
      BY <1>9, <2>1 DEF ExamineJob, TypeOK
    <3>2. clean'[t].pc = "jobs" /\ clean'[t].old = clean[t].old /\ clean[t].pc = "jobs"
      BY <1>0, <1>9, <3>1 DEF Cleaning, ExamineJob
    <3> QED BY <1>2, <1>9, <2>1, <3>2 DEF ExamineJob
  <2>2. CASE Removable(t, k)
    <3>1. /\ state[k] \in Terminal /\ files' = [files EXCEPT ![k] = {}]
          /\ registered' = registered /\ clean[t].pc = "jobs"
      BY <1>9, <2>2 DEF ExamineJob, Removable
    <3>2. clean'[t].pc = "drop" /\ clean'[t].cur = k /\ clean'[t].old = clean[t].old
      <4>1. clean'[t] = [clean[t] EXCEPT !.pc = "drop", !.todo = clean[t].todo \ {k}, !.cur = k]
        BY <1>9, <2>2 DEF ExamineJob, TypeOK
      <4> QED BY <1>0, <4>1 DEF Cleaning
    <3>3. \A j : Gone(j)' = Gone(j)
      BY <1>0, <3>1 DEF Gone
    <3>4. (\A j \in Job : j # k => files'[j] = files[j]) /\ files'[k] = {}
      BY <3>1 DEF TypeOK
    <3>5. DirInv'
      BY <1>0, <3>2, <3>4 DEF DirInv, Modified
    <3>6. SweepInv'
      BY <1>0, <3>2, <3>3 DEF SweepInv, Modified
    <3>7. FileInv'
      <4>1. pc[k] # "extracted" /\ pc[k] # "judged"
        BY <3>1 DEF RunnerInv, Before, Handling, Training, Terminal
      <4> QED BY <1>0, <3>4, <4>1 DEF FileInv
    <3>8. LiveWorkspaceKept'
      <4>1. registered \subseteq Job /\ state[k] \notin Live
        BY <3>1 DEF TypeOK, Terminal, Live
      <4> QED BY <1>0, <3>1, <3>4, <4>1 DEF LiveWorkspaceKept
    <3>9. SnapshotAvailable'
      <4>1. ASSUME NEW j \in registered, state[j] = "completed",
                   \A u \in Cleaner : ~(clean'[u].pc = "drop" /\ clean'[u].cur = j)
            PROVE  "snapshot" \in files'[j]
        <5>1. j \in Job /\ j # k
          BY <3>2, <4>1 DEF TypeOK
        <5>2. \A u \in Cleaner : ~(clean[u].pc = "drop" /\ clean[u].cur = j)
          BY <1>0, <3>1, <4>1
        <5>3. "snapshot" \in files[j]
          BY <4>1, <5>2 DEF SnapshotAvailable
        <5> QED BY <3>4, <5>1, <5>3
      <4> QED BY <1>0, <3>1, <4>1 DEF SnapshotAvailable
    <3> QED BY <3>5, <3>6, <3>7, <3>8, <3>9
  <2> QED BY <2>1, <2>2
<1>10. CASE DropJob(t)
  <2>1. /\ files' = files /\ clean[t].pc = "drop"
        /\ registered' = registered \ {clean[t].cur}
    BY <1>10 DEF DropJob, Deleted
  <2>2. clean'[t].pc \in {"jobs", "raised"} /\ clean'[t].old = clean[t].old
    <3>1. \/ clean'[t] = [clean[t] EXCEPT !.pc = "jobs"]
          \/ clean'[t] = [clean[t] EXCEPT !.pc = "raised"]
      BY <1>10 DEF DropJob, Step, TypeOK
    <3> QED BY <1>0, <3>1 DEF Cleaning
  <2>3. DirInv'
    BY <1>0, <2>1, <2>2 DEF DirInv, Modified
  <2>4. SweepInv'
    <3>1. \A u \in Cleaner : clean[u].todo \subseteq Job
      BY DEF TypeOK, Cleaning
    <3> QED BY <1>0, <1>1, <2>2, <3>1 DEF SweepInv, Modified
  <2>5. FileInv' /\ LiveWorkspaceKept'
    BY <1>0, <2>1 DEF FileInv, LiveWorkspaceKept
  <2>6. SnapshotAvailable'
    BY <1>0, <2>1, <2>2 DEF SnapshotAvailable
  <2> QED BY <2>3, <2>4, <2>5, <2>6
<1> QED BY <1>3, <1>4, <1>5, <1>6, <1>7, <1>8, <1>9, <1>10 DEF Cleanup

\* A restart leaves directories without jobs, and cleanups that are over.
LEMMA RestartWorkspace ==
    ASSUME IInv, WInv, Restart
    PROVE  WInv'
<1> USE DEF IInv, WInv
<1>1. /\ registered' = {} /\ UNCHANGED <<state, result, files, aged>>
      /\ \A j \in Job : pc'[j] = IF pc[j] \in Handling THEN "rejected"
                                 ELSE IF pc[j] \in Busy \cup {"ready"} THEN "lost" ELSE pc[j]
  BY DEF Restart
<1>2. ASSUME NEW t \in Cleaner
      PROVE  clean'[t].old = clean[t].old /\ clean'[t].pc \in {"called", "raised"}
  <2>1. clean[t] \in Cleaning
    BY DEF TypeOK
  <2>2. clean'[t] = IF clean[t].pc = "called" THEN clean[t]
                    ELSE [clean[t] EXCEPT !.pc = "raised"]
    BY DEF Restart
  <2>3. CASE clean[t].pc = "called"
    BY <2>2, <2>3
  <2>4. CASE clean[t].pc # "called"
    BY <2>1, <2>2, <2>4 DEF Cleaning
  <2> QED BY <2>3, <2>4
<1>3. \A j \in Job : /\ pc'[j] \notin Handling
                     /\ pc'[j] \notin {"extracted", "judged"}
                     /\ pc'[j] = "absent" => pc[j] = "absent"
  BY <1>1 DEF Handling, Busy, Training
<1>4. DirInv' /\ FileInv'
  BY <1>1, <1>3 DEF DirInv, FileInv
<1>5. SweepInv'
  BY <1>2 DEF SweepInv
<1> QED BY <1>1, <1>4, <1>5 DEF LiveWorkspaceKept, SnapshotAvailable

\* Stops, sessions and pauses touch no directory.
LEMMA OtherWorkspace ==
    ASSUME IInv, WInv,
           UNCHANGED <<registered, state, pc, result, files, clean>>,
           aged' = aged \/ Age
    PROVE  WInv'
<1> USE DEF IInv, WInv
<1>1. \A j : Gone(j)' = Gone(j)
  BY DEF Gone
<1>2. DirInv'
  BY DEF DirInv, Modified, Age
<1>3. SweepInv'
  BY <1>1 DEF SweepInv, Modified
<1> QED BY <1>2, <1>3 DEF FileInv, LiveWorkspaceKept, SnapshotAvailable

LEMMA NextWorkspace ==
    "zero" \notin Retentions => (IInv /\ WInv /\ [Next]_vars => WInv')
<1> SUFFICES ASSUME "zero" \notin Retentions, IInv, WInv, [Next]_vars PROVE WInv'
  OBVIOUS
<1>1. CASE \E j \in Job : Handler(j) \/ Runner(j)
  BY <1>1, JobWorkspace
<1>2. CASE \E j \in Job : StopCall(j)
  BY <1>2, OtherWorkspace DEF StopCall, SendStop, DispatchStop, ThreadStop, jobVars
<1>3. CASE \E t \in Cleaner : Cleanup(t)
  BY <1>3, CleanupWorkspace
<1>4. CASE \E c \in Client : Socket(c)
  BY <1>4, OtherWorkspace DEF Socket, Disconnect, Deliver, Attach, jobVars
<1>5. CASE Age \/ UNCHANGED vars
  BY <1>5, OtherWorkspace DEF Age, vars, jobVars
<1>6. CASE Restart
  BY <1>6, RestartWorkspace
<1> QED BY <1>1, <1>2, <1>3, <1>4, <1>5, <1>6 DEF Next

LEMMA InitWorkspace == Init => WInv
<1> SUFFICES ASSUME Init PROVE WInv
  OBVIOUS
<1>1. /\ \A j \in Job : pc[j] = "absent" /\ files[j] = {}
      /\ \A t \in Cleaner : clean[t].pc = "called"
      /\ registered = {}
  BY DEF Init
<1>2. DirInv /\ FileInv
  BY <1>1 DEF DirInv, FileInv, Handling
<1> QED BY <1>1, <1>2 DEF WInv, SweepInv, LiveWorkspaceKept, SnapshotAvailable

\* Cleanups with a long retention, however many and whenever they run, leave the
\* workspace of every queued or running job alone (engine.cleanup_jobs).
THEOREM WorkspacesKept ==
    "zero" \notin Retentions => (Spec => []LiveWorkspaceKept)
<1> SUFFICES ASSUME "zero" \notin Retentions PROVE Spec => []LiveWorkspaceKept
  OBVIOUS
<1>1. IInv /\ WInv /\ [Next]_vars => WInv'
  BY NextWorkspace
<1>2. WInv => LiveWorkspaceKept
  BY DEF WInv
<1> QED BY InitWorkspace, <1>1, <1>2, Invariant, PTL DEF Spec

\* ... and the snapshot of a completed job is there as long as the job is listed,
\* but for the cleanup that is about to take the job from the list.
THEOREM SnapshotsKept ==
    "zero" \notin Retentions => (Spec => []SnapshotAvailable)
<1> SUFFICES ASSUME "zero" \notin Retentions PROVE Spec => []SnapshotAvailable
  OBVIOUS
<1>1. IInv /\ WInv /\ [Next]_vars => WInv'
  BY NextWorkspace
<1>2. WInv => SnapshotAvailable
  BY DEF WInv
<1> QED BY InitWorkspace, <1>1, <1>2, Invariant, PTL DEF Spec

-----------------------------------------------------------------------------
(* What cleanup owes *)

\* What a cleanup owes it will still look at, has removed, or is about to take
\* from the registry, unless it raised.
Owed(t, j) ==
    \/ clean[t].pc = "raised"
    \/ clean[t].pc \in {"jobs", "drop"} /\ j \in clean[t].todo
    \/ files[j] = {} /\ (j \notin registered \/ (clean[t].pc = "drop" /\ clean[t].cur = j))

DueInv ==
    \A t \in Cleaner :
        /\ clean[t].pc = "called" => clean[t].due = {}
        /\ \A j \in clean[t].due : /\ j \in Job /\ state[j] \in Terminal
                                   /\ <<"updated_at", j>> \in clean[t].old
                                   /\ Owed(t, j)

-----------------------------------------------------------------------------
\* A write of a time stamp takes its job from what a cleanup owes.
LEMMA TouchDue ==
    ASSUME TypeOK, NEW stamps, Touch(stamps), NEW t \in Cleaner
    PROVE  /\ clean'[t].pc = clean[t].pc /\ clean'[t].cur = clean[t].cur
           /\ clean'[t].todo = clean[t].todo
           /\ clean'[t].old = clean[t].old \ stamps
           /\ clean'[t].due = {j \in clean[t].due : <<"updated_at", j>> \notin stamps}
<1>1. clean[t] \in Cleaning
  BY DEF TypeOK
<1>2. clean'[t] = [clean[t] EXCEPT !.old = @ \ stamps,
                      !.due = {j \in @ : <<"updated_at", j>> \notin stamps}]
  BY DEF Touch
<1> QED BY <1>1, <1>2 DEF Cleaning

\* Handlers and runners are done with a job that has ended.
LEMMA EndedStays ==
    ASSUME IInv, NEW j \in Job, Handler(j) \/ Runner(j), NEW i \in Job, state[i] \in Terminal
    PROVE  /\ state'[i] = state[i] /\ files'[i] = files[i]
           /\ i \in registered' => i \in registered
<1> USE DEF IInv, TypeOK, RunnerInv, Handling, Before, Training, Terminal
<1>1. CASE Handler(j)
  BY <1>1 DEF Handler, SubmitBundle, ExtractBundle, Register
<1>2. CASE RunJob(j) \/ LoadDataset(j) \/ Judge(j) \/ SetState(j) \/ EmitTerminal(j)
  BY <1>2 DEF RunJob, TaskDue, LoadDataset, Judge, SetState, EmitTerminal
<1>3. CASE Prepare(j)
  BY <1>3 DEF Prepare, Return
<1>4. CASE TrainEpoch(j) \/ SaveSnapshot(j)
  BY <1>4 DEF TrainEpoch, SaveSnapshot, Return
<1> QED BY <1>1, <1>2, <1>3, <1>4 DEF Runner

LEMMA JobDue ==
    ASSUME IInv, DueInv, NEW j \in Job, Handler(j) \/ Runner(j)
    PROVE  DueInv'
<1>1. \/ clean' = clean
      \/ \E stamps : Touch(stamps)
  BY DEF Handler, Runner, SubmitBundle, ExtractBundle, Register, RunJob, LoadDataset,
     Prepare, TrainEpoch, SaveSnapshot, Judge, SetState, EmitTerminal
<1>2. ASSUME NEW t \in Cleaner
      PROVE  /\ clean'[t].pc = clean[t].pc /\ clean'[t].cur = clean[t].cur
             /\ clean'[t].todo = clean[t].todo
             /\ clean'[t].due \subseteq clean[t].due
             /\ \A i \in clean'[t].due :
                  <<"updated_at", i>> \in clean[t].old => <<"updated_at", i>> \in clean'[t].old
  <2>1. CASE clean' = clean
    BY <2>1
  <2>2. ASSUME NEW stamps, Touch(stamps)
        PROVE  /\ clean'[t].pc = clean[t].pc /\ clean'[t].cur = clean[t].cur
               /\ clean'[t].todo = clean[t].todo
               /\ clean'[t].due \subseteq clean[t].due
               /\ \A i \in clean'[t].due :
                    <<"updated_at", i>> \in clean[t].old => <<"updated_at", i>> \in clean'[t].old
    BY <2>2, TouchDue DEF IInv
  <2> QED BY <1>1, <2>1, <2>2
<1> QED BY <1>2, EndedStays DEF DueInv, Owed

\* Another cleanup only removes: what was removed stays so.
LEMMA CleanupDue ==
    ASSUME IInv, DueInv, NEW t \in Cleaner, Cleanup(t)
    PROVE  DueInv'
<1> USE DEF IInv
<1>0. /\ clean[t] \in Cleaning
      /\ state' = state /\ registered' \subseteq registered
      /\ \A j \in Job : files'[j] \in {files[j], {}}
      /\ \A u \in Cleaner \ {t} : clean'[u] = clean[u]
  <2>1. clean[t] \in Cleaning
    BY DEF TypeOK
  <2>2. state' = state /\ registered' \subseteq registered
    BY DEF Cleanup, BeginCleanup, DropJob, Deleted, BeginTrack, EndTrack, RemoveDir,
       EndCleanup, ExamineJob, CheckDir, jobVars
  <2>3. files' = files \/ \E k : files' = [files EXCEPT ![k] = {}]
    BY DEF Cleanup, BeginCleanup, DropJob, BeginTrack, EndTrack, RemoveDir,
       EndCleanup, ExamineJob, CheckDir, jobVars
  <2>4. \A j \in Job : files'[j] \in {files[j], {}}
    BY <2>3 DEF TypeOK
  <2>5. \E r : clean' = [clean EXCEPT ![t] = r]
    BY DEF Cleanup, BeginCleanup, DropJob, BeginTrack, EndTrack, RemoveDir, EndCleanup,
       ExamineJob, CheckDir, Step, TypeOK
  <2>6. \A u \in Cleaner \ {t} : clean'[u] = clean[u]
    BY <2>5 DEF TypeOK
  <2> QED BY <2>1, <2>2, <2>4, <2>6
<1>1. ASSUME NEW u \in Cleaner \ {t}
      PROVE  /\ clean'[u].pc = "called" => clean'[u].due = {}
             /\ \A j \in clean'[u].due : /\ j \in Job /\ state'[j] \in Terminal
                                         /\ <<"updated_at", j>> \in clean'[u].old
                                         /\ Owed(u, j)'
  BY <1>0 DEF DueInv, Owed
<1> DEFINE Paid == /\ clean'[t].pc # "called"
                   /\ \A j \in clean'[t].due : /\ j \in Job /\ state[j] \in Terminal
                                               /\ <<"updated_at", j>> \in clean'[t].old
                                               /\ Owed(t, j)'
<1>2. Paid => DueInv'
  BY <1>0, <1>1 DEF DueInv
\* A step behind the first loop: everything owed is removed already.
<1>3. ASSUME clean[t].pc \notin {"called", "drop", "raised"},
             clean[t].pc = "jobs" => clean[t].todo = {},
             clean'[t].pc # "called",
             clean'[t].due = clean[t].due, clean'[t].old = clean[t].old
      PROVE  Paid
  <2>1. ASSUME NEW j \in clean[t].due
        PROVE  /\ j \in Job /\ state[j] \in Terminal /\ <<"updated_at", j>> \in clean[t].old
               /\ files[j] = {} /\ j \notin registered
    BY <1>3, <2>1 DEF DueInv, Owed
  <2> QED BY <1>0, <1>3, <2>1 DEF Owed
<1>4. CASE BeginCleanup(t)
  <2>1. PICK retention \in Retentions :
          LET old == IF retention = "zero" THEN Stamp ELSE aged IN
          clean' = [clean EXCEPT ![t] =
            [@ EXCEPT !.pc = "jobs", !.todo = registered, !.old = old,
                      !.due = {j \in registered : /\ state[j] \in Terminal
                                                  /\ <<"updated_at", j>> \in old}]]
    BY <1>4 DEF BeginCleanup
  <2> DEFINE old == IF retention = "zero" THEN Stamp ELSE aged
             due == {j \in registered : state[j] \in Terminal /\ <<"updated_at", j>> \in old}
  <2>2. clean'[t] = [clean[t] EXCEPT !.pc = "jobs", !.todo = registered, !.old = old, !.due = due]
    BY <2>1 DEF TypeOK
  <2>3. /\ clean'[t].pc = "jobs" /\ clean'[t].todo = registered
        /\ clean'[t].old = old /\ clean'[t].due = due
    <3> HIDE DEF old, due
    <3> QED BY <1>0, <2>2 DEF Cleaning
  <2>4. Paid
    BY <2>3 DEF Owed, TypeOK
  <2> HIDE DEF Paid
  <2> QED BY SMTT(30), <1>2, <2>4
<1>5. ASSUME NEW k \in Job, ExamineJob(t, k) PROVE DueInv'
  <2>0. clean[t].pc = "jobs" /\ k \in clean[t].todo /\ registered' = registered
    BY <1>5 DEF ExamineJob
  <2>1. CASE Removable(t, k)
    <3>1. clean'[t] = [clean[t] EXCEPT !.pc = "drop", !.todo = clean[t].todo \ {k}, !.cur = k]
      BY <1>5, <2>1 DEF ExamineJob, TypeOK
    <3>2. /\ clean'[t].pc = "drop" /\ clean'[t].cur = k /\ clean'[t].todo = clean[t].todo \ {k}
          /\ clean'[t].due = clean[t].due /\ clean'[t].old = clean[t].old
      BY <1>0, <3>1 DEF Cleaning
    <3>3. files'[k] = {}
      BY <1>5, <2>1 DEF ExamineJob, TypeOK
    <3>4. ASSUME NEW j \in clean[t].due
          PROVE  /\ j \in Job /\ state[j] \in Terminal /\ <<"updated_at", j>> \in clean[t].old
                 /\ Owed(t, j)'
      <4>1. /\ j \in Job /\ state[j] \in Terminal /\ <<"updated_at", j>> \in clean[t].old
            /\ j \in clean[t].todo \/ (files[j] = {} /\ j \notin registered)
        BY <2>0, <3>4 DEF DueInv, Owed
      <4> QED BY <1>0, <2>0, <3>2, <3>3, <4>1 DEF Owed
    <3>5. Paid
      BY <3>2, <3>4
    <3> HIDE DEF Paid
    <3> QED BY <1>2, <3>5
  <2>2. CASE ~Removable(t, k)
    <3>1. clean'[t] = [clean[t] EXCEPT !.todo = clean[t].todo \ {k}]
      BY <1>5, <2>2 DEF ExamineJob, TypeOK
    <3>2. /\ clean'[t].pc = "jobs" /\ clean'[t].todo = clean[t].todo \ {k}
          /\ clean'[t].due = clean[t].due /\ clean'[t].old = clean[t].old
      BY <1>0, <2>0, <3>1 DEF Cleaning
    <3>3. ASSUME NEW j \in clean[t].due
          PROVE  /\ j \in Job /\ state[j] \in Terminal /\ <<"updated_at", j>> \in clean[t].old
                 /\ Owed(t, j)'
      <4>1. /\ j \in Job /\ state[j] \in Terminal /\ <<"updated_at", j>> \in clean[t].old
            /\ j \in clean[t].todo \/ (files[j] = {} /\ j \notin registered)
        BY <2>0, <3>3 DEF DueInv, Owed
      <4>2. j # k
        BY <2>2, <4>1 DEF Removable
      <4> QED BY <1>0, <2>0, <3>2, <4>1, <4>2 DEF Owed
    <3>4. Paid
      BY <3>2, <3>3
    <3> HIDE DEF Paid
    <3> QED BY <1>2, <3>4
  <2> QED BY <2>1, <2>2
<1>6. CASE DropJob(t)
  <2>1. /\ clean[t].pc = "drop" /\ registered' = registered \ {clean[t].cur}
        /\ files' = files
    BY <1>6 DEF DropJob, Deleted
  <2>2. \/ clean'[t] = [clean[t] EXCEPT !.pc = "jobs"]
        \/ clean'[t] = [clean[t] EXCEPT !.pc = "raised"]
    BY <1>6 DEF DropJob, Step, TypeOK
  <2>3. /\ clean'[t].pc \in {"jobs", "raised"} /\ clean'[t].todo = clean[t].todo
        /\ clean'[t].due = clean[t].due /\ clean'[t].old = clean[t].old
    BY <1>0, <2>2 DEF Cleaning
  <2>4. Paid
    BY <2>1, <2>3 DEF DueInv, Owed
  <2> HIDE DEF Paid
  <2> QED BY <1>2, <2>4
<1>7. CASE BeginTrack(t)
  <2>1. clean'[t] = [clean[t] EXCEPT !.pc = "track", !.seen = registered]
    BY <1>7 DEF BeginTrack, TypeOK
  <2>2. /\ clean'[t].pc = "track" /\ clean'[t].due = clean[t].due
        /\ clean'[t].old = clean[t].old
    BY <1>0, <2>1 DEF Cleaning
  <2>3. Paid
    <3> HIDE DEF Paid
    <3> QED BY <1>3, <1>7, <2>2 DEF BeginTrack
  <2> HIDE DEF Paid
  <2> QED BY <1>2, <2>3
<1>8. CASE EndTrack(t) \/ RemoveDir(t) \/ EndCleanup(t)
  <2>1. \E to \in {"dirs", "raised", "returned"} :
          \/ clean'[t] = [clean[t] EXCEPT !.pc = to]
          \/ clean'[t] = [clean[t] EXCEPT !.pc = to, !.todo = UntrackedDirs]
    BY <1>8 DEF EndTrack, RemoveDir, EndCleanup, Step, TypeOK
  <2>2. /\ clean'[t].pc # "called" /\ clean'[t].due = clean[t].due
        /\ clean'[t].old = clean[t].old
    BY <1>0, <2>1 DEF Cleaning
  <2>3. clean[t].pc \in {"track", "rm", "dirs"}
    BY <1>8 DEF EndTrack, RemoveDir, EndCleanup
  <2>4. Paid
    <3> HIDE DEF Paid
    <3> QED BY <1>3, <2>2, <2>3
  <2> HIDE DEF Paid
  <2> QED BY <1>2, <2>4
<1>9. ASSUME NEW k \in Job, CheckDir(t, k) PROVE DueInv'
  <2>1. \/ clean'[t] = [clean[t] EXCEPT !.pc = "rm", !.todo = clean[t].todo \ {k}, !.cur = k]
        \/ clean'[t] = [clean[t] EXCEPT !.todo = clean[t].todo \ {k}]
    BY <1>9 DEF CheckDir, TypeOK
  <2>2. clean[t].pc = "dirs"
    BY <1>9 DEF CheckDir
  <2>3. /\ clean'[t].pc # "called" /\ clean'[t].due = clean[t].due
        /\ clean'[t].old = clean[t].old
    BY <1>0, <2>1, <2>2 DEF Cleaning
  <2>4. Paid
    <3> HIDE DEF Paid
    <3> QED BY <1>3, <2>2, <2>3
  <2> HIDE DEF Paid
  <2> QED BY <1>2, <2>4
<1> QED BY <1>4, <1>5, <1>6, <1>7, <1>8, <1>9 DEF Cleanup

\* A restart ends every cleanup that was called.
LEMMA RestartDue ==
    ASSUME IInv, DueInv, Restart
    PROVE  DueInv'
<1>1. ASSUME NEW t \in Cleaner
      PROVE  \/ clean'[t] = clean[t] /\ clean[t].pc = "called"
             \/ /\ clean'[t].pc = "raised"
                /\ clean'[t].due = clean[t].due /\ clean'[t].old = clean[t].old
  <2>1. clean[t] \in Cleaning
    BY DEF IInv, TypeOK
  <2>2. clean'[t] = IF clean[t].pc = "called" THEN clean[t]
                    ELSE [clean[t] EXCEPT !.pc = "raised"]
    BY DEF Restart
  <2>3. CASE clean[t].pc = "called"
    BY <2>2, <2>3
  <2>4. CASE clean[t].pc # "called"
    BY <2>1, <2>2, <2>4 DEF Cleaning
  <2> QED BY <2>3, <2>4
<1>2. state' = state
  BY DEF Restart
<1> QED BY <1>1, <1>2 DEF DueInv, Owed

\* Stops, sessions and pauses change nothing a cleanup owes.
LEMMA OtherDue ==
    ASSUME DueInv, UNCHANGED <<registered, state, files, clean>>
    PROVE  DueInv'
BY DEF DueInv, Owed

\* A cleanup that returns normally has removed every job that had ended and was
\* old when it began, whatever ran beside it (engine.cleanup_jobs).
THEOREM CleanupKeepsWord == Spec => []CleanupComplete
<1>1. Init => DueInv
  BY DEF Init, DueInv
<1>2. IInv /\ DueInv /\ [Next]_vars => DueInv'
  <2> SUFFICES ASSUME IInv, DueInv, [Next]_vars PROVE DueInv'
    OBVIOUS
  <2>1. CASE \E j \in Job : Handler(j) \/ Runner(j)
    BY <2>1, JobDue
  <2>2. CASE \E t \in Cleaner : Cleanup(t)
    BY <2>2, CleanupDue
  <2>3. CASE \E j \in Job : StopCall(j)
    BY <2>3, OtherDue DEF StopCall, SendStop, DispatchStop, ThreadStop, jobVars
  <2>4. CASE \E c \in Client : Socket(c)
    BY <2>4, OtherDue DEF Socket, Disconnect, Deliver, Attach, jobVars
  <2>5. CASE Age \/ UNCHANGED vars
    BY <2>5, OtherDue DEF Age, vars, jobVars
  <2>6. CASE Restart
    BY <2>6, RestartDue
  <2> QED BY <2>1, <2>2, <2>3, <2>4, <2>5, <2>6 DEF Next
<1>3. DueInv => CleanupComplete
  BY DEF DueInv, Owed, CleanupComplete
<1> QED BY <1>1, <1>2, <1>3, Invariant, PTL DEF Spec
=============================================================================
