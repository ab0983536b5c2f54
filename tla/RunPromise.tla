----------------------------- MODULE RunPromise -----------------------------
(* What a talk relies on when it starts a run of the model in a thread: the   *)
(* run says things until it is told to stop, builds at most once, and ends    *)
(* once, with at most the closing of a tag after the stop.                    *)
EXTENDS Naturals

CONSTANT Thread

VARIABLES phase,    \* of each run: "ready", "running" or "ended"
          said,     \* how many pieces of text its talk has been given
          built,    \* how many builds were recorded for it
          stopped   \* whether its talk has told it to stop

vars == <<phase, said, built, stopped>>

Init == /\ phase = [r \in Thread |-> "ready"]
        /\ said = [r \in Thread |-> 0]
        /\ built = [r \in Thread |-> 0]
        /\ stopped = [r \in Thread |-> FALSE]

Begin(r) == /\ phase[r] = "ready"
            /\ phase' = [phase EXCEPT ![r] = "running"]
            /\ UNCHANGED <<said, built, stopped>>

Say(r) == /\ phase[r] = "running" /\ ~stopped[r]
          /\ said' = [said EXCEPT ![r] = @ + 1]
          /\ UNCHANGED <<phase, built, stopped>>

Build(r) == /\ phase[r] = "running" /\ ~stopped[r] /\ built[r] = 0
            /\ built' = [built EXCEPT ![r] = 1]
            /\ UNCHANGED <<phase, said, stopped>>

End(r) == /\ phase[r] = "running"
          /\ phase' = [phase EXCEPT ![r] = "ended"]
          /\ said' \in {said, [said EXCEPT ![r] = @ + 1]}
          /\ UNCHANGED <<built, stopped>>

Stop(r) == /\ phase[r] # "ready"
           /\ stopped' = [stopped EXCEPT ![r] = TRUE]
           /\ UNCHANGED <<phase, said, built>>

Next == \E r \in Thread : Begin(r) \/ Say(r) \/ Build(r) \/ End(r) \/ Stop(r)

Spec == Init /\ [][Next]_vars
=============================================================================
