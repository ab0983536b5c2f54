------------------------------ MODULE GraphRun ------------------------------
(* A step of a network in the API service. graph_core runs a graph page by    *)
(* page, graph_variations in topological order, and for a training fuse_core  *)
(* makes one traced module of it. A value is its rank and the term it is.     *)
EXTENDS Integers, SequencesExt, FiniteSetsExt

CONSTANT
  Graph   \* [node: Seq([type, act, page, emit, order]), head, loss, rank, shaped]:
          \* emit is a set of [to, port], rank that of a batch, shaped if it is made 2D

VARIABLES
  graph,   \* the graph that runs
  page,    \* the page that execute_graph is at
  ready,   \* the nodes it runs there
  executed,
  inbox,   \* what has come to the ports
  sent,    \* what comes to them on the next page
  out,     \* what the nodes gave
  answer   \* what the other executors give, when this one is done

vars == <<graph, page, ready, executed, inbox, sent, out, answer>>

Port == {1, 2}
Node(g) == DOMAIN g.node
LastPage(g) == Max({g.node[n].page : n \in Node(g)})

Made(rank, op, n, act, xs) ==
  [rank |-> rank, of |-> [op |-> op, by |-> n, act |-> act, xs |-> xs]]
Failed  == Made(0, "error", 0, "none", <<>>)
Nothing == Made(0, "nothing", 0, "none", <<>>)
NoGraph == [node |-> <<>>, head |-> 0, loss |-> "mse", rank |-> 2, shaped |-> FALSE]
NoAnswer == [compiled |-> <<>>, fused |-> Nothing, legacy |-> Nothing]
Boxes(g) == [n \in Node(g) |-> [p \in Port |-> <<>>]]
Terms(xs) == [i \in DOMAIN xs |-> xs[i].of]

Into(g, n, p) == {m \in Node(g) : [to |-> n, port |-> p] \in g.node[m].emit}
Wired(g, n) == {p \in Port : Into(g, n, p) # {}}

\* "expect": the builder counts the edges of a port.
Expect(g, n, p) == Cardinality(Into(g, n, p))

Init ==
  /\ graph = NoGraph /\ page = 0 /\ ready = {} /\ executed = {}
  /\ inbox = <<>> /\ sent = <<>> /\ out = <<>> /\ answer = NoAnswer
-----------------------------------------------------------------------------
(* The nodes *)
Dim4(v) == [v EXCEPT !.rank = IF @ = 3 THEN 4 ELSE @]

\* A softmax that cross entropy looks at is left to the loss.
Bypassed(g, n) == n = g.head /\ g.loss = "cross_entropy"

MergeInputs(xs) ==
  IF Len(xs) = 1 THEN xs[1]
  ELSE IF \E i, j \in DOMAIN xs : xs[i].rank # xs[j].rank THEN Failed
  ELSE Made(xs[1].rank, "sum", 0, "none",
            SetToSortSeq(Range(Terms(xs)), LAMBDA s, t : s.by < t.by))

Softmax(g, n, x) == IF Bypassed(g, n) \/ x = Failed THEN x
                    ELSE Made(x.rank, "softmax", n, "none", <<x.of>>)

Cat(n, xs) == IF \E i, j \in DOMAIN xs : xs[i].rank # xs[j].rank THEN Failed
              ELSE Made(xs[1].rank, "concat", n, "none", Terms(xs))

InputNode(g, n) == Made(IF g.rank = 3 THEN 4 ELSE IF g.shaped THEN 3 ELSE 2, "input", n, "none", <<>>)
Dense(n, act, x) == Made(2, "dense", n, act, <<x.of>>)
Flatten(n, x) == Made(2, "flatten", n, "none", <<x.of>>)
Conv2d(n, act, x) == IF Dim4(x).rank = 4 THEN Made(4, "conv2d", n, act, <<x.of>>) ELSE Failed
MaxPool2d(n, x) == IF Dim4(x).rank = 4 THEN Made(4, "maxpool2d", n, "none", <<x.of>>) ELSE Failed
Reshape2D(n, x) == CASE x.rank = 2 -> Made(3, "reshape", n, "none", <<x.of>>)
                     [] x.rank = 3 -> Failed
                     [] OTHER -> x

\* What a node makes of its ports. A classifier is a placeholder for the client.
Apply(g, n, ins) ==
  LET type == g.node[n].type
      act == g.node[n].act
      order == g.node[n].order
      x == ins[1][1]
  IN CASE type = "InputNode"      -> InputNode(g, n)
       [] type = "dense"          -> Dense(n, act, x)
       [] type = "conv2d"         -> Conv2d(n, act, x)
       [] type = "maxpool2d"      -> MaxPool2d(n, x)
       [] type = "SoftmaxNode"    -> Softmax(g, n, MergeInputs(ins[1]))
       [] type = "Flatten"        -> Flatten(n, x)
       [] type = "Reshape2D"      -> Reshape2D(n, x)
       [] type = "Concat"         -> Cat(n, [i \in DOMAIN order |-> ins[order[i]][1]])
       [] type = "ClassifierNode" -> Nothing

Deliver(boxes, g, n, v) ==
  [m \in Node(g) |-> [p \in Port |->
     IF v # Nothing /\ [to |-> m, port |-> p] \in g.node[n].emit
     THEN Append(boxes[m][p], v) ELSE boxes[m][p]]]

IsReady(g, n, boxes) == \A p \in Port : Len(boxes[n][p]) >= Expect(g, n, p)
-----------------------------------------------------------------------------
(* graph_core: page by page; a set is run in any order. *)
CapAppend(box, want, values) ==
  IF Len(box) >= want THEN box
  ELSE box \o SubSeq(values, 1, Min({want - Len(box), Len(values)}))

Ready(g, k, boxes, done) ==
  {n \in Node(g) \ done : g.node[n].page <= k /\ IsReady(g, n, boxes)}

Choose(g) ==
  /\ graph = NoGraph
  /\ graph' = g
  /\ inbox' = Boxes(g) /\ sent' = Boxes(g)
  /\ out' = [n \in Node(g) |-> Nothing]
  /\ ready' = Ready(g, 0, Boxes(g), {})
  /\ UNCHANGED <<page, executed, answer>>

NextPage ==
  /\ graph # NoGraph /\ ready = {} /\ page < LastPage(graph)
  /\ page' = page + 1
  /\ inbox' = [n \in Node(graph) |-> [p \in Port |->
                 CapAppend(inbox[n][p], Expect(graph, n, p), sent[n][p])]]
  /\ sent' = Boxes(graph)
  /\ ready' = Ready(graph, page', inbox', executed)
  /\ UNCHANGED <<graph, executed, out, answer>>

\* What a node gives reaches the next page, if there is one; an error ends the run.
RunNode(n) ==
  LET v == Apply(graph, n, inbox[n])
  IN /\ n \in ready
     /\ out' = [out EXCEPT ![n] = v]
     /\ executed' = executed \cup {n}
     /\ sent' = IF page < LastPage(graph) THEN Deliver(sent, graph, n, v) ELSE sent
     /\ ready' = IF v = Failed THEN {} ELSE ready \ {n}
     /\ page' = IF v = Failed THEN LastPage(graph) ELSE page
     /\ UNCHANGED <<graph, inbox, answer>>
-----------------------------------------------------------------------------
(* graph_variations *)
TopoSort(g) ==
  LET indeg(done, n) == {m \in Node(g) \ done : \E p \in Port : m \in Into(g, n, p)}
      nodes == [i \in 1..Len(g.node) |-> i]
      step(s, i) ==
        IF s.queue = <<>> THEN s
        ELSE LET n == Head(s.queue)
                 done == Range(s.order) \cup {n}
                 next(m) == /\ \E p \in Port : n \in Into(g, m, p)
                            /\ indeg(done, m) = {}
             IN [order |-> Append(s.order, n),
                 queue |-> Tail(s.queue) \o SelectSeq(nodes, next)]
  IN FoldLeft(step, [order |-> <<>>, queue |-> SelectSeq(nodes, LAMBDA n : indeg({}, n) = {})],
              nodes).order

\* CompiledGraph.run: in this order, each as soon as its ports have what they expect.
Compiled(g) ==
  FoldLeft(LAMBDA s, n :
             IF ~IsReady(g, n, s.boxes) THEN s
             ELSE LET v == Apply(g, n, s.boxes[n])
                  IN [boxes |-> Deliver(s.boxes, g, n, v), out |-> [s.out EXCEPT ![n] = v]],
           [boxes |-> Boxes(g), out |-> [n \in Node(g) |-> Nothing]], TopoSort(g))

\* GraphModule: what came to the last node, or the input when nothing did.
Legacy(g) ==
  LET run == Compiled(g)
      boxes == run.boxes[Last(TopoSort(g))]
      ports == {p \in Port : boxes[p] # <<>>}
  IN IF \E n \in Node(g) : run.out[n] = Failed THEN Failed
     ELSE IF ports = {} THEN Made(g.rank, "input", 0, "none", <<>>)
     ELSE Last(boxes[Min(ports)])
-----------------------------------------------------------------------------
(* fuse_core *)
\* Fault: ports are taken by their names.
InPortsByName(g, n) == SetToSortSeq(Wired(g, n), <)
\* The ports of a concatenation are taken as the node says, the others by their names.
InPorts(g, n) ==
  LET order == IF g.node[n].type = "Concat" THEN g.node[n].order ELSE <<>>
  IN order \o SetToSortSeq(Wired(g, n) \ Range(order), <)

InSrcs(g, n) == FlattenSeq([i \in DOMAIN InPorts(g, n) |->
                              SetToSortSeq(Into(g, n, InPorts(g, n)[i]), <)])

ActId(act) == IF act \in {"relu", "sigmoid", "tanh"} THEN act ELSE "none"

\* The operation that a node left behind in the warm-up; a placeholder left none.
ApplyOp(g, n, xs) ==
  LET type == g.node[n].type
      act == ActId(g.node[n].act)
      x == xs[1]
  IN CASE type = "InputNode" -> Dim4(InputNode(g, n))
       [] \E i \in DOMAIN xs : xs[i] = Failed -> Failed
       [] type = "dense"     -> IF x.rank = 2 THEN Dense(n, act, x) ELSE Failed
       [] type = "conv2d"    -> IF x.rank = 4 THEN Conv2d(n, act, x) ELSE Failed
       [] type = "maxpool2d" -> IF x.rank = 2 THEN Failed
                                ELSE Made(x.rank, type, n, "none", <<x.of>>)
       [] type = "SoftmaxNode" -> Softmax(g, n, x)
       [] type = "Flatten"     -> Flatten(n, x)
       [] type = "Reshape2D"   -> IF x.rank = 3 THEN x ELSE Reshape2D(n, x)
       [] type = "Concat"      -> Cat(n, xs)
       [] type = "ClassifierNode" -> x

Fused(g) ==
  FoldLeft(LAMBDA vals, n :
             LET srcs == InSrcs(g, n)
             IN [vals EXCEPT ![n] = ApplyOp(g, n, [i \in DOMAIN srcs |-> vals[srcs[i]]])],
           [n \in Node(g) |-> Nothing], TopoSort(g))[g.head]

\* The warm-up is over: the same batch through the other executors.
Finished == graph # NoGraph /\ ready = {} /\ page = LastPage(graph)
Erred == \E n \in Node(graph) : out[n] = Failed

Trace ==
  /\ Finished /\ ~Erred /\ answer = NoAnswer
  /\ answer' = [compiled |-> Compiled(graph).out, fused |-> Fused(graph), legacy |-> Legacy(graph)]
  /\ UNCHANGED <<graph, page, ready, executed, inbox, sent, out>>

Next ==
  \/ \E g \in Graph : Choose(g)
  \/ NextPage
  \/ \E n \in ready : RunNode(n)
  \/ Trace

Spec == Init /\ [][Next]_vars
-----------------------------------------------------------------------------
\* Boxes never hold more than what is expected; what is done was ready once.
GraphRunTypeOK ==
  /\ ready \subseteq Node(graph) /\ executed \subseteq Node(graph)
  /\ graph # NoGraph =>
       /\ page \in 0..LastPage(graph)
       /\ \A n \in Node(graph), p \in Port : Len(inbox[n][p]) <= Expect(graph, n, p)

\* Every port takes one edge, as those of the builder do unless they are made to take more.
Single(g) == \A n \in Node(g), p \in Port : Cardinality(Into(g, n, p)) <= 1

NoGelu(g) == \A n \in Node(g) : g.node[n].act # "gelu"

\* The network has an operation that needs what eager nodes do to the shape of their input.
Reshapes(g) ==
  \E n \in Node(g) :
    \/ g.node[n].type = "Reshape2D"
    \/ g.node[n].type = "dense" /\ inbox[n][1][1].rank # 2

\* Whatever order nodes run in, the executors agree on what a network makes of a batch.
ExecutorsAgree ==
  answer # NoAnswer /\ Single(graph) =>
    /\ executed = Node(graph)
    /\ answer.compiled = out
    /\ LET head == out[graph.head]
           last == Last(TopoSort(graph))
       IN /\ answer.fused # Failed /\ NoGelu(graph) => answer.fused.of = head.of
          /\ ~Reshapes(graph) => answer.fused # Failed
          /\ graph.node[last].type = "ClassifierNode" /\ last \in Node(graph)
               /\ graph.head \in Into(graph, last, 1) => answer.legacy = head
=============================================================================
