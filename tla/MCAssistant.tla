----------------------------- MODULE MCAssistant -----------------------------
(* The assistants for TLC: two tabs of one account and a question without a   *)
(* chat of another, with caps small enough to be met; or the rounds of two    *)
(* runs of the model; or two talks of the API service; or the summary of a    *)
(* graph, chosen at the start.                                                *)
EXTENDS Assistant, TLC

CONSTANTS x1, x2, o1, ann, bob, g1, g2, NoNode

\* The tabs of one account are interchangeable, and so are the graphs.
Alike == Permutations({x1, x2}) \cup Permutations({g1, g2})

MCOwner == [t \in Talk |-> IF t = o1 THEN bob ELSE ann]
MCLimit == [user5m |-> 1, userHour |-> 1, userDay |-> 2, globalDay |-> 2,
            buildsHour |-> 1, buildsDay |-> 2, buildsGlobal |-> 2, interval |-> 1,
            softTokens |-> 2, hardTokens |-> 3, retained |-> 3]
MCMaxTools == [r1 |-> 2, r2 |-> 0]

VARIABLES
  part,    \* the component that runs
  gScene, gSummary

gVars == <<gScene, gSummary>>

Part == {"talk", "run", "summary", "api talk"}

\* An input and three more nodes with every choice of their edges; 5 is no node.
Edges == << {{2}, {2, 3}, {3, 4}, {2, 3, 4}},
            {{}, {2}, {3}, {4}, {2, 3}, {3, 4}, {2, 4}, {3, 5}},
            {{}, {2}, {4}, {2, 4}},
            {{}, {2}, {3}} >>

Scenes == UNION {
  LET nodes == <<"input_1d", "dense_layer", third, fourth>>
      links == UNION {{[from |-> n, to |-> t, port |-> IF nodes[n] = "activation" THEN 0 ELSE 1] :
                         t \in out[n]} : n \in 1..4}
  IN {[nodes |-> nodes, edges |-> IF fourth = "load_dataset" THEN {} ELSE links,
       outputs |-> links]} :
    third \in {"dense_layer", "activation"}, fourth \in {"dense_layer", "load_dataset"},
    out \in {f \in [1..4 -> UNION {Edges[n] : n \in 1..4}] : \A n \in 1..4 : f[n] \in Edges[n]}}

G == INSTANCE GraphSummary WITH
  Scene <- Scenes, MaxOther <- 1, None <- NoNode, scene <- gScene, summary <- gSummary

AssistInit ==
  /\ part \in Part
  /\ Init /\ M!Init /\ G!Init /\ T!Init

AssistNext ==
  /\ part' = part
  /\ \/ part = "talk" /\ Next
        /\ UNCHANGED <<mVars, gVars, tVars>>
     \/ part = "run" /\ M!Next
        /\ UNCHANGED <<vars, gVars, tVars>>
     \/ part = "summary" /\ G!Next
        /\ UNCHANGED <<vars, mVars, tVars>>
     \/ part = "api talk" /\ T!Next
        /\ UNCHANGED <<vars, mVars, gVars>>

AssistSpec == AssistInit /\ [][AssistNext]_<<part, vars, mVars, gVars, tVars>>
-----------------------------------------------------------------------------
\* Graph summary: what is reached is in a chain; of the rest the first are listed.
AllShown == G!AllShown
=============================================================================
