---------------------------- MODULE GraphSummary ----------------------------
(* The text a model is given in place of a project's graph                   *)
(* (axon/graph_summary.py): chains of nodes from every input and every        *)
(* dataset, branches up to the node they join at, layers with the activation  *)
(* plugged into them, and the first of the rest by name.  A text is a         *)
(* sequence of nodes and nested sequences; the wording of a node is left out. *)
EXTENDS Integers, SequencesExt

CONSTANTS
    Scene,      \* what clients may send: records of nodes, edges and outputs
    MaxOther,   \* so many of the nodes no chain shows are listed (20 in the code)
    None        \* no tag, and no summary yet

VARIABLES
    scene,      \* the scene summarised last
    summary     \* what the call returned, with the nodes it marked as seen

vars == <<scene, summary>>

Inputs == {"input_1d", "input_image_small"}

TypeOf(s, n) == IF n \in DOMAIN s.nodes THEN s.nodes[n] ELSE ""

(* The edges, or those the nodes list themselves when there are none.        *)
Links(s) == IF s.edges # {} THEN s.edges ELSE s.outputs

(* The targets of the edges out of n in the order of their ports; an edge out *)
(* of an activation ends here: activations are shown with the layer they feed.*)
Outputs(s, n) ==
    LET out == SetToSortSeq({e \in Links(s) : e.from = n /\ TypeOf(s, e.to) # "activation"},
                            LAMBDA d, e : \/ d.to < e.to
                                          \/ d.to = e.to /\ d.port <= e.port)
    IN [i \in DOMAIN out |-> out[i].to]

(* The activation at a layer's port 0: of several, the last in tag order.     *)
ActivationOf(s, n) ==
    LET into == {e.from : e \in {d \in Links(s) :
                     d.to = n /\ d.port = 0 /\ TypeOf(s, d.from) = "activation"}}
    IN IF into = {} THEN None ELSE Max(into)

RECURSIVE Distances(_, _, _)
(* How far the nodes behind the frontier are, level by level.                 *)
Distances(out, frontier, found) ==
    LET here == {n \in frontier : n \in DOMAIN out /\ n \notin DOMAIN found.at}
    IN IF here = {} THEN found.at
       ELSE Distances(out, UNION {Range(out[n]) : n \in here},
                [at |-> [n \in DOMAIN found.at \cup here |->
                            IF n \in here THEN found.depth ELSE found.at[n]],
                 depth |-> found.depth + 1])

ReachableDistances(out, start) == Distances(out, {start}, [at |-> <<>>, depth |-> 0])

(* The nearest node all branches reach: by the sum of the distances, then the *)
(* longest of them, then the tag.                                             *)
FirstCommonJoin(out, starts) ==
    LET reach == [i \in DOMAIN starts |-> ReachableDistances(out, starts[i])]
        common == {n \in DOMAIN out : \A i \in DOMAIN starts : n \in DOMAIN reach[i]}
        score == [n \in common |->
                    LET dist == [i \in DOMAIN starts |-> reach[i][n]]
                    IN <<FoldLeft(+, 0, dist), Max(Range(dist)), n>>]
        before(a, b) == \/ a[1] < b[1]
                        \/ a[1] = b[1] /\ a[2] < b[2]
                        \/ a[1] = b[1] /\ a[2] = b[2] /\ a[3] <= b[3]
    IN IF common = {} THEN None
       ELSE CHOOSE m \in common : \A n \in common : before(score[m], score[n])

(* What the walk looks up: the outputs, activations and joins of every node.  *)
Indexes(s) ==
    LET out == [n \in DOMAIN s.nodes |-> Outputs(s, n)]
    IN [out |-> out,
        activation |-> [n \in DOMAIN s.nodes |-> ActivationOf(s, n)],
        join |-> [n \in DOMAIN s.nodes |->
                    IF Len(out[n]) > 1 THEN FirstCommonJoin(out, out[n]) ELSE None]]

Node(x, n) == [kind |-> "node", tag |-> n, plugged |-> x.activation[n]]
Arrow(base, tail) == IF tail = <<>> THEN base ELSE base \o tail
Split(branches) == <<[kind |-> "split", branches |-> branches]>>

(* Fault: what follows the join is left out.                                  *)
JoinedOnly(base, branches, tail) == base \o Split(branches)
Joined(base, branches, tail) == Arrow(base \o Split(branches), tail)

RECURSIVE Render(_, _, _, _, _)
(* The branches one after the other, each with what those before it saw.      *)
RenderAll(x, starts, stop, seen, active) ==
    FoldLeft(LAMBDA done, n :
                LET branch == Render(x, n, stop, done.seen, active)
                IN [text |-> Append(done.text, branch.text), seen |-> branch.seen],
             [text |-> <<>>, seen |-> seen], starts)

(* The chain from a node up to the node `stop`, which is left to the caller.  *)
Render(x, n, stop, seen, active) ==
    CASE n = stop \/ n \notin DOMAIN x.out -> [text |-> <<>>, seen |-> seen]
      [] n # stop /\ n \in DOMAIN x.out /\ n \in active ->
            [text |-> <<[kind |-> "cycle", tag |-> n]>>, seen |-> seen]
      [] OTHER ->
            LET starts == x.out[n]
                join == x.join[n]
                at == IF join = None THEN stop ELSE join
                branches == RenderAll(x, starts, at,
                    seen \cup {n} \cup ({x.activation[n]} \ {None}), active \cup {n})
                tail == Render(x, join, stop, branches.seen, active \cup {n})
            IN CASE Len(starts) = 0 -> [text |-> <<Node(x, n)>>, seen |-> branches.seen]
                 [] Len(starts) = 1 -> [text |-> Arrow(<<Node(x, n)>>, branches.text[1]),
                                        seen |-> branches.seen]
                 [] Len(starts) > 1 /\ join # None ->
                        [text |-> Joined(<<Node(x, n)>>, branches.text, tail.text),
                         seen |-> tail.seen]
                 [] OTHER -> [text |-> <<Node(x, n)>> \o Split(branches.text),
                              seen |-> branches.seen]

Roots(s, types) == SetToSortSeq({n \in DOMAIN s.nodes : s.nodes[n] \in types}, <)

(* disconnected[:20]                                                          *)
First(rest) == SubSeq(rest, 1, IF Len(rest) < MaxOther THEN Len(rest) ELSE MaxOther)

(* Every input, then every dataset; of what neither reaches the first are     *)
(* listed, in the order of their tags, and the others are not shown at all.   *)
SummarizeGraph(s) ==
    LET x == Indexes(s)
        inputs == Roots(s, Inputs)
        starts == inputs \o Roots(s, {"load_dataset"})
        chains == RenderAll(x, starts, None, {}, {})
    IN [inference |-> SubSeq(chains.text, 1, Len(inputs)),
        training |-> SubSeq(chains.text, Len(inputs) + 1, Len(starts)),
        seen |-> chains.seen,
        other |-> First(SetToSortSeq(DOMAIN s.nodes \ chains.seen, <))]

-----------------------------------------------------------------------------
Init == scene = None /\ summary = None

Summarize ==
    /\ summary = None
    /\ \E s \in Scene : scene' = s /\ summary' = SummarizeGraph(s)

Next == Summarize
Spec == Init /\ [][Next]_vars
-----------------------------------------------------------------------------
RECURSIVE NodesIn(_)
NodesIn(text) ==
    UNION {CASE part.kind = "node" -> {part.tag, part.plugged} \ {None}
             [] part.kind = "cycle" -> {}
             [] part.kind = "split" -> UNION {NodesIn(b) : b \in Range(part.branches)} :
           part \in Range(text)}

(* The nodes behind the roots, found without walking chains.                  *)
RECURSIVE Closure(_, _)
Closure(s, found) ==
    LET more == found \cup {e.to : e \in {d \in Links(s) :
                    d.from \in found /\ TypeOf(s, d.to) \notin {"activation", ""}}}
    IN IF more = found THEN found ELSE Closure(s, more)

(* No node that an input or a dataset reaches is lost between a chain, its    *)
(* branches and the node they join at: the chains show exactly those nodes,   *)
(* with the activations of those layers.  Cutting a branch at a join relies   *)
(* on some caller rendering that join, through nested splits and cycles       *)
(* (test_branch_join_concat_is_not_dropped).  Of the other nodes only so many *)
(* are listed: they are such nodes, once each, all when they are few enough,  *)
(* and none left out comes before one that is listed.                         *)
AllShown ==
    summary # None =>
        LET roots == Range(Roots(scene, Inputs \cup {"load_dataset"}))
            reached == Closure(scene, roots)
            plugged == {ActivationOf(scene, n) : n \in reached} \ {None}
            shown == UNION {NodesIn(chain) :
                             chain \in Range(summary.inference) \cup Range(summary.training)}
            rest == DOMAIN scene.nodes \ shown
            listed == Range(summary.other)
        IN /\ shown = reached \cup plugged
           /\ listed \subseteq rest /\ Cardinality(listed) = Len(summary.other)
           /\ IF Cardinality(rest) <= MaxOther THEN listed = rest
              ELSE /\ Cardinality(listed) = MaxOther
                   /\ \A n \in listed, m \in rest \ listed : n < m
=============================================================================
