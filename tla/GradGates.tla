----------------------------- MODULE GradGates -----------------------------
(* The steps of a training of the API service: while it goes well, operations *)
(* whose gradients are small are updated only every 2nd, 4th ... step, and a  *)
(* closed gate also cuts what lies before it.                                 *)
EXTENDS Integers, FiniteSets

CONSTANTS
  Ops,        \* operations of a network, in the order they run
  Succ,       \* [1..Ops -> the operations that take what one gives]; the last is the head
  MaxPeriod,  \* max_period, a power of two
  HeadKeep,   \* as many trainable operations are always open
  MaxStep     \* bound on the steps

VARIABLES
  trainable,  \* the operations with parameters in the graph that is trained
  accurate,   \* the last epoch's accuracy is above the threshold
  step,       \* _train_step
  period,     \* operation -> it is updated every so many steps
  gates,      \* the operations that are open in this step
  phase,      \* "build", "backward", "step"
  since       \* operation -> steps since it last had a gradient

vars == <<trainable, accurate, step, period, gates, phase, since>>
Op == 1..Ops

Init ==
  /\ trainable = {} /\ accurate = FALSE /\ step = 0
  /\ period = [i \in Op |-> 1] /\ gates = Op /\ phase = "epoch"
  /\ since = [i \in Op |-> 0]

\* The trainable operations that run last.
Heads == {i \in trainable : Cardinality({j \in trainable : j > i}) < HeadKeep}
HeadsKept(p) == [i \in Op |-> IF i \in Heads THEN 1 ELSE p[i]]

\* A training begins, perhaps of another graph with as many operations: what the
\* context has learned of them stays.
Train(set) ==
  /\ phase = "epoch"
  /\ trainable' = set /\ accurate' = FALSE
  /\ phase' = "build"
  /\ since' = [i \in Op |-> IF set # trainable THEN 0 ELSE since[i]]
  /\ UNCHANGED <<step, period, gates>>

\* An epoch ends with an accuracy, and there is another one.
Epoch(acc) ==
  /\ phase = "epoch" /\ trainable # {}
  /\ accurate' = acc
  /\ phase' = "build"
  /\ UNCHANGED <<trainable, step, period, gates, since>>

BuildGradGates ==
  /\ phase = "build"
  /\ period' = IF accurate THEN HeadsKept(period) ELSE period
  /\ gates' = IF accurate THEN {i \in Op : i \in trainable => step % period'[i] = 0} ELSE Op
  /\ phase' = "backward"
  /\ UNCHANGED <<trainable, accurate, step, since>>

\* The gradient comes from the head through open gates only: the largest set of open
\* operations that are the head or give to one of the set, for they give to later ones.
Reached ==
  UNION {R \in SUBSET gates : \A i \in R : i = Ops \/ Succ[i] \cap R # {}}
Learning == Reached \cap trainable

\* Fault: periods grow by one, so that they do not divide each other.
PeriodIncremented(p) == IF p + 1 > MaxPeriod THEN MaxPeriod ELSE p + 1
Doubled(p) == IF 2 * p > MaxPeriod THEN MaxPeriod ELSE 2 * p
Halved(p) == IF p \div 2 < 1 THEN 1 ELSE p \div 2

\* Small and large are relative to the others, and averages that the model leaves open.
UpdatePolicy(small, large) ==
  /\ phase = "backward"
  /\ period' = IF accurate /\ Learning # {}
               THEN HeadsKept([i \in Op |-> IF i \in small THEN Doubled(period[i])
                                            ELSE IF i \in large THEN Halved(period[i])
                                            ELSE period[i]])
               ELSE period
  /\ since' = [i \in Op |-> IF i \in Learning THEN 0 ELSE since[i] + 1]
  /\ phase' = "step"
  /\ UNCHANGED <<trainable, accurate, step, gates>>

OptStep ==
  /\ phase = "step" /\ step < MaxStep
  /\ step' = step + 1
  /\ phase' \in {"build", "epoch"}
  /\ UNCHANGED <<trainable, accurate, period, gates, since>>

Next ==
  \/ \E set \in (SUBSET Op) \ {{}} : Train(set)
  \/ \E acc \in BOOLEAN : Epoch(acc)
  \/ BuildGradGates
  \/ \E small \in SUBSET trainable : \E large \in SUBSET (trainable \ small) : UpdatePolicy(small, large)
  \/ OptStep

Spec == Init /\ [][Next]_vars
-----------------------------------------------------------------------------
GradGatesTypeOK ==
  /\ trainable \subseteq Op /\ accurate \in BOOLEAN /\ step \in 0..MaxStep
  /\ gates \subseteq Op /\ phase \in {"epoch", "build", "backward", "step"}
  /\ \A i \in Op : period[i] \in 1..MaxPeriod /\ since[i] \in Nat

\* However gates close, every operation from which open ones lead to the head has a
\* gradient at least every MaxPeriod steps: gates that cut others open together.
EveryOpLearns == \A i \in trainable : since[i] < MaxPeriod
=============================================================================
