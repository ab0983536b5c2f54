------------------------------ MODULE MCServed ------------------------------
(* What must happen, for TLC: the sessions of MCTrioServer under its fairness *)
(* or an on-prem job under that of JobEngine, chosen at the start. The states *)
(* of the part that was not chosen stay as they are, where its fairness owes  *)
(* nothing, so each part runs as it does alone.                               *)
EXTENDS MCTrioServer

VARIABLES
  part,    \* "sessions" or "jobs"
  jRegistered, jState, jPc, jResult, jEpoch, jQueue, jSent, jFiles, jLoop, jStop, jSentAt,
  jAged, jClean, jClient, jRestarts

jVars == <<jRegistered, jState, jPc, jResult, jEpoch, jQueue, jSent, jFiles, jLoop, jStop,
           jSentAt, jAged, jClean, jClient, jRestarts>>

\* One job, one dashboard, one restart and, on a job of its own, one cleanup.
J == INSTANCE JobEngine WITH
  Job <- {"j1"}, Client <- {"d1"}, Cleaner <- {"k1"}, Epochs <- 1, Retentions <- {"long"},
  MaxRestarts <- 1, NoJob <- "none",
  registered <- jRegistered, state <- jState, pc <- jPc, result <- jResult, epoch <- jEpoch,
  queue <- jQueue, sent <- jSent, files <- jFiles, loop <- jLoop, stop <- jStop,
  sentAt <- jSentAt, aged <- jAged, clean <- jClean, client <- jClient, restarts <- jRestarts

ServedInit == part \in {"sessions", "jobs"} /\ Init /\ J!Init

ServedNext ==
  /\ part' = part
  /\ \/ part = "sessions" /\ Next
        /\ UNCHANGED jVars
     \/ part = "jobs" /\ J!Next
        /\ UNCHANGED vars

\* A cleanup may be called at once, so its fairness is of the part with the jobs.
ServedSpec ==
  /\ ServedInit /\ [][ServedNext]_<<part, vars, jVars>>
  /\ Fairness
  /\ \A j \in {"j1"} :
       /\ WF_jVars(J!ExtractBundle(j) \/ J!Register(j))
       /\ SF_jVars(J!RunJob(j))
       /\ WF_jVars(J!Runner(j) /\ jLoop = j)
       /\ SF_jVars(J!DispatchStop(j)) /\ WF_jVars(J!ThreadStop(j))
  /\ WF_jVars(part = "jobs" /\ J!Cleanup("k1"))
  /\ SF_jVars(J!Deliver("d1"))

-----------------------------------------------------------------------------
\* Jobs: every accepted job ends and its dashboard is told.
EndsAndTells == J!EndsAndTells

\* Jobs: a stop is answered, and honoured if it came in time.
StopServed == J!StopServed
=============================================================================
