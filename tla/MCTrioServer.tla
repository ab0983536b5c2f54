---------------------------- MODULE MCTrioServer ----------------------------
(* TrioServer with trainings t1 and t2, inferences i1 and i2 and an export e1 *)
(* for TLC; all work on the context c1, except that i2 may use c2.           *)
EXTENDS TrioServer

CONSTANTS t1, t2, i1, i2, e1, c1, c2

MCKind == [s \in Session |-> IF s \in {t1, t2} THEN "train"
                             ELSE IF s = e1 THEN "export" ELSE "infer"]
OneContext  == [s \in Session |-> c1]
TwoContexts == [s \in Session |-> IF s = i2 THEN c2 ELSE c1]
=============================================================================
