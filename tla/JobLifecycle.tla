---------------------------- MODULE JobLifecycle ----------------------------
(***************************************************************************)
(* What the job registry promises its users, without threads, files or     *)
(* events: a job is queued, runs, reaches one of three terminal states and *)
(* may then be forgotten.  At most one job runs at a time.  Only the death *)
(* of the process forgets a job that has not ended.                        *)
(***************************************************************************)
CONSTANT Job

VARIABLE life

Ended == {"completed", "failed", "stopped"}

TypeOK == life \in [Job -> {"unknown", "queued", "running", "forgotten"} \cup Ended]

Init == life = [j \in Job |-> "unknown"]

Accept(j) == /\ life[j] = "unknown"
             /\ life' = [life EXCEPT ![j] = "queued"]

Start(j) == /\ life[j] = "queued"
            /\ \A i \in Job : life[i] # "running"
            /\ life' = [life EXCEPT ![j] = "running"]

End(j) == /\ life[j] = "running"
          /\ \E outcome \in Ended : life' = [life EXCEPT ![j] = outcome]

Forget(j) == /\ life[j] \in Ended
             /\ life' = [life EXCEPT ![j] = "forgotten"]

ProcessDies == life' = [j \in Job |-> IF life[j] = "unknown" THEN "unknown"
                                      ELSE "forgotten"]

Next == (\E j \in Job : Accept(j) \/ Start(j) \/ End(j) \/ Forget(j)) \/ ProcessDies

Spec == Init /\ [][Next]_life
=============================================================================
