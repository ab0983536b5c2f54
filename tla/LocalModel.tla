----------------------------- MODULE LocalModel -----------------------------
(* The model of a training without a server. onnx_compiler makes an ONNX      *)
(* graph of a network of the builder, node by node (onnx_node_handlers), and  *)
(* keeps the shapes by itself; train_task exports what was trained and puts   *)
(* back the softmax that the loss had taken; infer_once feeds it, and         *)
(* export_yolk packs it behind a runner that reads it from its own file.      *)
(*                                                                            *)
(* Shapes are without the batch. A value is its shape and the term it is;     *)
(* what only changes the layout leaves the term alone.                        *)
EXTENDS Integers, SequencesExt, FiniteSetsExt

CONSTANTS
  Graph,  \* [node, conns, pages, loss]: a flat graph has no pages
  Core,   \* the runners there may be
  Magic   \* the 16 bytes at the end of a packed file

VARIABLES
  graph,
  todo,    \* the nodes not yet compiled, in order
  nodes,   \* ctx.onnx_nodes
  shape,   \* ctx.tensor_shapes
  route,   \* ctx.tensor_routing
  box,     \* ctx.input_deliveries
  stage,
  output,  \* the tensor that the model gives
  file     \* the packed executable

vars == <<graph, todo, nodes, shape, route, box, stage, output, file>>

Port == <<"a", "b", "layer_in", "model_in", "pred_in">>   \* sorted
Input == <<0, "input">>
NoGraph == [node |-> <<>>, conns |-> <<>>, pages |-> <<>>, loss |-> "mse"]

Node(g) == DOMAIN g.node
Size(s) == FoldLeft(LAMBDA a, b : a * b, 1, s)
Known(t, default) == IF t \in DOMAIN shape THEN shape[t] ELSE default
Ignored == {"TrainInput", "RunModel"}
CrossEntropy(g) == g.loss = "cross_entropy"
OutputSoftmax(g, n) == g.node[n].type = "SoftmaxNode" /\ g.node[n].role = "output"
Without(x, f) == [k \in DOMAIN f \ {x} |-> f[k]]

Init ==
  /\ graph = NoGraph /\ todo = <<>> /\ nodes = <<>> /\ shape = <<>> /\ route = <<>>
  /\ box = <<>> /\ stage = "none" /\ output = Input /\ file = <<>>

-----------------------------------------------------------------------------
(* normalize_flat_graph_to_syntax_tree *)

Targets(g, n) ==
  LET from == SelectSeq(g.conns, LAMBDA c : c.from = n) IN [i \in DOMAIN from |-> from[i].to]

TopoOrder(g) ==
  LET indeg(n) == Len(SelectSeq(g.conns, LAMBDA c : c.to = n))
      arrive(s, m) == [s EXCEPT !.indeg[m] = @ - 1,
                                !.queue = IF s.indeg[m] = 1 THEN Append(@, m) ELSE @]
      visit(s, i) == IF s.queue = <<>> THEN s
                     ELSE LET n == Head(s.queue)
                          IN FoldLeft(arrive, [s EXCEPT !.queue = Tail(@), !.order = Append(@, n)],
                                      Targets(g, n))
      all == [i \in 1..Len(g.node) |-> i]
  IN FoldLeft(visit, [order |-> <<>>, indeg |-> [n \in Node(g) |-> indeg(n)],
                      queue |-> SelectSeq(all, LAMBDA n : indeg(n) = 0)], all).order

Depth(g, order) ==
  LET deepen(d, n) == FoldLeft(LAMBDA e, m : [e EXCEPT ![m] = Max({@, e[n] + 1})], d, Targets(g, n))
  IN FoldLeft(deepen, [n \in Node(g) |-> 0], order)

Normalized(g) ==
  LET order == TopoOrder(g)
      depth == Depth(g, order)
  IN [d \in 1..Max({depth[n] : n \in Node(g)}) + 1 |-> SelectSeq(order, LAMBDA n : depth[n] = d - 1)]

Pages(g) == IF g.pages = <<>> THEN Normalized(g) ELSE g.pages

\* _find_final_node_id: the last that is not there for the training.
FinalNode(g) ==
  LET order == FlattenSeq(Pages(g))
      kept  == SelectSeq(order, LAMBDA n : g.node[n].type \notin Ignored)
  IN IF kept = <<>> THEN Head(Last(Pages(g))) ELSE Last(kept)

-----------------------------------------------------------------------------
(* onnx_node_handlers: what a node adds *)

Op(op, in, out, by, args) == [op |-> op, in |-> in, out |-> out, by |-> by, args |-> args]
Adds(ops, shapes, routes) == [ok |-> TRUE, ops |-> ops, shapes |-> shapes, routes |-> routes]
Refusal == [ok |-> FALSE, ops |-> <<>>, shapes |-> <<>>, routes |-> <<>>]
Routed(ports, t) == [p \in ports |-> t]
Is(t, s) == [u \in {t} |-> s]
And(f, g) == [x \in DOMAIN f \cup DOMAIN g |-> IF x \in DOMAIN f THEN f[x] ELSE g[x]]

\* first_input: a node with nothing at its ports reads the input of the network.
FirstInput(n, ports) ==
  LET full == SelectSeq(ports, LAMBDA p : box[n][p] # <<>>)
  IN IF full = <<>> THEN Input ELSE Head(box[n][Head(full)])
LayerIn(n) == FirstInput(n, <<"layer_in", "model_in">>)

Activations == {"relu", "sigmoid", "tanh", "softmax"}

\* add_activation, after the operations that made t of shape s.
Activated(n, act, ops, t, s, more) ==
  CASE act = "none" -> Adds(ops, And(Is(t, s), more), Routed({"layer_out"}, t))
    [] act \in Activations ->
         Adds(Append(ops, Op(act, <<t>>, <<n, "act">>, n, <<>>)),
              And(Is(<<n, "act">>, s), And(Is(t, s), more)), Routed({"layer_out"}, <<n, "act">>))
    [] OTHER -> Refusal

CompileInput(n, node) ==
  LET s == IF node.rows > 0 /\ node.cols > 0 THEN <<1, node.rows, node.cols>> ELSE <<node.size>>
  IN Adds(<<>>, Is(Input, s), Routed({"input_out"}, Input))

\* The features are the last dimension, whatever the rank.
CompileDense(n, node) ==
  LET x == LayerIn(n)
  IN Activated(n, node.act, <<Op("Gemm", <<x>>, <<n, "out">>, n, <<Last(Known(x, <<784>>)), node.size>>)>>,
               <<n, "out">>, <<node.size>>, <<>>)

Side(f) == Max({0} \cup {r \in 1..f : r * r <= f})
Extent(h, node) ==
  IF node.keep THEN (h + node.stride - 1) \div node.stride
  ELSE (h - node.kernel) \div node.stride + 1
Spatial(s, node) == <<node.size, Extent(s[2], node), Extent(s[3], node)>>

\* Flat features are made a square first.
CompileConv2d(n, node) ==
  LET x == LayerIn(n)
      f == Known(x, <<784>>)
      side == Side(f[1])
      square == <<1, side, side>>
      flat == Len(f) = 1
      in == IF flat THEN <<n, "square">> ELSE x
      s  == IF flat THEN square ELSE f
      ops == (IF flat THEN <<Op("Reshape", <<x>>, in, n, square)>> ELSE <<>>)
             \o <<Op("Conv", <<in>>, <<n, "out">>, n, <<s[1], node.size, node.kernel, node.stride, node.keep>>)>>
  IN IF flat /\ side * side # f[1] THEN Refusal
     ELSE Activated(n, node.act, ops, <<n, "out">>, Spatial(s, node), IF flat THEN Is(in, s) ELSE <<>>)

CompileMaxPool2d(n, node) ==
  LET x == FirstInput(n, <<"layer_in">>)
      s == Known(x, <<1, 28, 28>>)
  IN IF Len(s) # 3 THEN Refusal
     ELSE Adds(<<Op("MaxPool", <<x>>, <<n, "out">>, n, <<node.kernel>>)>>,
               Is(<<n, "out">>, <<s[1], s[2] \div node.kernel, s[3] \div node.kernel>>),
               Routed({"layer_out"}, <<n, "out">>))

CompileDropout(n, node) ==
  LET x == LayerIn(n)
  IN Adds(<<Op("Dropout", <<x>>, <<n, "out">>, n, <<>>)>>, Is(<<n, "out">>, Known(x, <<784>>)),
          Routed({"layer_out"}, <<n, "out">>))

\* Cross entropy takes the values before the softmax: it is left out of the model.
CompileSoftmax(n, node) ==
  LET x == LayerIn(n)
      s == Known(x, <<10>>)
      ports == {"soft_out", "layer_out"}
  IN IF CrossEntropy(graph) /\ OutputSoftmax(graph, n) THEN Adds(<<>>, Is(x, s), Routed(ports, x))
     ELSE Adds(<<Op("softmax", <<x>>, <<n, "out">>, n, <<>>)>>, Is(<<n, "out">>, s),
               Routed(ports, <<n, "out">>))

CompileFlatten(n, node) ==
  LET x == LayerIn(n)
  IN Adds(<<Op("Flatten", <<x>>, <<n, "out">>, n, <<>>)>>,
          Is(<<n, "out">>, <<Size(Known(x, <<1, 28, 28>>))>>), Routed({"layer_out"}, <<n, "out">>))

\* A side that is not given is what is left, rounded down.
Rectangle(f, node) ==
  LET root == Side(f)
      unset(k) == k <= 0
  IN CASE unset(node.rows) /\ unset(node.cols) -> <<1, root, f \div Max({1, root})>>
       [] unset(node.rows) /\ ~unset(node.cols) -> <<1, f \div node.cols, node.cols>>
       [] unset(node.cols) /\ ~unset(node.rows) -> <<1, node.rows, f \div node.rows>>
       [] OTHER -> <<1, node.rows, node.cols>>

CompileReshape2D(n, node) ==
  LET x == LayerIn(n)
      f == Size(Known(x, <<784>>))
      s == Rectangle(f, node)
  IN IF node.rows > 0 /\ node.cols > 0 /\ Size(s) # f THEN Refusal
     ELSE Adds(<<Op("Reshape", <<x>>, <<n, "out">>, n, s)>>, Is(<<n, "out">>, s),
               Routed({"layer_out"}, <<n, "out">>))

AtPorts(n, ports) == FlattenSeq([i \in DOMAIN ports |-> box[n][ports[i]]])

\* The sum of the first dimensions; the others are those of the first.
Joined(ss) ==
  <<FoldLeft(LAMBDA a, s : a + s[1], 0, ss)>> \o (IF Len(ss[1]) = 3 THEN Tail(ss[1]) ELSE <<>>)

CompileConcat(n, node) ==
  LET xs == AtPorts(n, IF node.order # <<>> THEN node.order ELSE Port)
  IN IF xs = <<>> THEN Refusal
     ELSE Adds(<<Op("Concat", xs, <<n, "out">>, n, <<>>)>>,
               Is(<<n, "out">>, Joined([i \in DOMAIN xs |-> Known(xs[i], <<0>>)])),
               Routed({"layer_out"}, <<n, "out">>))

\* A chain of sums of two; the last bears the name, and its shape is that of the first.
CompileAdd(n, node) ==
  LET xs == AtPorts(n, Port)
      part(i) == IF i = 1 THEN xs[1] ELSE IF i = Len(xs) THEN <<n, "out">> ELSE <<n, i>>
  IN IF xs = <<>> THEN Refusal
     ELSE Adds([i \in 1..Len(xs) - 1 |-> Op("Add", <<part(i), xs[i + 1]>>, part(i + 1), n, <<>>)],
               IF Len(xs) = 1 THEN <<>> ELSE Is(<<n, "out">>, Known(xs[1], <<64>>)),
               Routed({"layer_out"}, part(Len(xs))))

CompilePass(n) ==
  Adds(<<>>, <<>>, Routed({"model_out", "layer_out"}, FirstInput(n, <<"model_in", "layer_in", "pred_in">>)))

Handled(n) ==
  LET node == graph.node[n]
  IN CASE node.type = "InputNode"   -> CompileInput(n, node)
       [] node.type = "dense"       -> CompileDense(n, node)
       [] node.type = "conv2d"      -> CompileConv2d(n, node)
       [] node.type = "maxpool2d"   -> CompileMaxPool2d(n, node)
       [] node.type = "dropout"     -> CompileDropout(n, node)
       [] node.type = "SoftmaxNode" -> CompileSoftmax(n, node)
       [] node.type = "Flatten"     -> CompileFlatten(n, node)
       [] node.type = "Reshape2D"   -> CompileReshape2D(n, node)
       [] node.type = "Concat"      -> CompileConcat(n, node)
       [] node.type = "Add"         -> CompileAdd(n, node)
       [] node.type \in {"ClassifierNode", "RunModel"} -> CompilePass(n)
       [] node.type = "TrainInput"  -> Adds(<<>>, <<>>, <<>>)
       [] OTHER                     -> Refusal

-----------------------------------------------------------------------------
(* build_onnx_model_from_graph *)

Choose(g) ==
  /\ stage = "none"
  /\ graph' = g /\ stage' = "compiling" /\ todo' = FlattenSeq(Pages(g))
  /\ box' = [n \in Node(g) |-> [p \in Range(Port) |-> <<>>]]
  /\ UNCHANGED <<nodes, shape, route, output, file>>

\* deliver_outputs: what a port gives reaches every connection of it.
Delivered(n, routes) ==
  LET given(m, p) == SelectSeq(graph.conns, LAMBDA c : c.from = n /\ c.to = m /\ c.port = p
                                                       /\ c.out \in DOMAIN routes)
  IN [m \in Node(graph) |-> [p \in Range(Port) |->
        box[m][p] \o [i \in DOMAIN given(m, p) |-> routes[given(m, p)[i].out]]]]

CompileNode ==
  /\ stage = "compiling" /\ todo # <<>>
  /\ LET n == Head(todo)
         a == Handled(n)
     IN IF a.ok
        THEN /\ nodes' = nodes \o a.ops
             /\ shape' = And(a.shapes, shape)
             /\ route' = And(Is(n, a.routes), route)
             /\ box' = Delivered(n, a.routes)
             /\ todo' = Tail(todo)
             /\ UNCHANGED stage
        ELSE stage' = "refused" /\ UNCHANGED <<todo, nodes, shape, route, box>>
  /\ UNCHANGED <<graph, output, file>>

Trainable == \E i \in DOMAIN nodes : nodes[i].op \in {"Gemm", "Conv"}

\* The model gives what the final node routes; without a layer there is nothing to train.
Finish ==
  /\ stage = "compiling" /\ todo = <<>>
  /\ LET routes == route[FinalNode(graph)]
         ports  == SelectSeq(<<"layer_out", "soft_out", "model_out", "input_out">>,
                             LAMBDA p : p \in DOMAIN routes)
     IN output' = IF ports = <<>> THEN Input ELSE routes[Head(ports)]
  /\ stage' = IF Trainable THEN "compiled" ELSE "refused"
  /\ UNCHANGED <<graph, todo, nodes, shape, route, box, file>>

\* _restore_visual_output_softmax_for_inference, on every export of what is trained. It looks
\* for the softmax in the pages of the request: a flat graph has none.
Export ==
  /\ stage = "compiled"
  /\ stage' = "exported"
  /\ IF CrossEntropy(graph) /\ \E n \in Range(FlattenSeq(graph.pages)) : OutputSoftmax(graph, n)
     THEN /\ nodes' = Append(nodes, Op("softmax", <<output>>, Append(output, "visual"), 0, <<>>))
          /\ output' = Append(output, "visual")
     ELSE UNCHANGED <<nodes, output>>
  /\ UNCHANGED <<graph, todo, shape, route, box, file>>

\* _pack_executable: the lengths tell the runner where the parts are.
Pack(core) ==
  /\ stage = "exported"
  /\ Magic \in Range(core)
  /\ stage' = "packed"
  /\ LET meta == <<1>> \o Known(Input, <<1>>)
     IN file' = core \o nodes \o meta \o <<Len(meta), Len(nodes), Magic>>
  /\ UNCHANGED <<graph, todo, nodes, shape, route, box, output>>

Next ==
  \/ \E g \in Graph : Choose(g)
  \/ CompileNode \/ Finish \/ Export
  \/ \E core \in Core : Pack(core)

Spec == Init /\ [][Next]_vars

-----------------------------------------------------------------------------
(* What ONNX Runtime makes of a model: its operators have shapes of their own. *)

Value(s, op, by, xs) == [shape |-> s, of |-> [op |-> op, by |-> by, xs |-> xs]]
Bad == Value(<<>>, "bad", 0, <<>>)
Pooled(h, k) == (h - k) \div k + 1
Seam(ss) == \A i \in DOMAIN ss : Len(ss[i]) = Len(ss[1]) /\ Tail(ss[i]) = Tail(ss[1])
Broadcast(s, t) ==
  IF Len(s) # Len(t) \/ \E i \in DOMAIN s : s[i] # t[i] /\ 1 \notin {s[i], t[i]} THEN {}
  ELSE {[i \in DOMAIN s |-> Max({s[i], t[i]})]}

\* A layer's weights make it itself, a sum or a concatenation is of its terms alone.
Ran(o, xs) ==
  LET s == xs[1].shape
      a == o.args
      terms == [i \in DOMAIN xs |-> xs[i].of]
      window(h) == IF a[5] THEN (h + a[4] - 1) \div a[4] ELSE (h - a[3]) \div a[4] + 1
  IN CASE Bad \in Range(xs) -> Bad
       [] o.op = "Gemm" /\ Len(s) = 1 /\ s[1] = a[1] -> Value(<<a[2]>>, "Gemm", o.by, terms)
       [] o.op = "Conv" /\ Len(s) = 3 /\ s[1] = a[1] /\ (a[5] \/ (s[2] >= a[3] /\ s[3] >= a[3])) ->
            Value(<<a[2], window(s[2]), window(s[3])>>, "Conv", o.by, terms)
       [] o.op = "MaxPool" /\ Len(s) = 3 /\ s[2] >= a[1] /\ s[3] >= a[1] ->
            Value(<<s[1], Pooled(s[2], a[1]), Pooled(s[3], a[1])>>, "MaxPool", o.by, terms)
       [] o.op = "Reshape" /\ Size(a) = Size(s) -> [xs[1] EXCEPT !.shape = a]
       [] o.op = "Flatten" -> [xs[1] EXCEPT !.shape = <<Size(s)>>]
       [] o.op = "Dropout" -> xs[1]
       [] o.op \in Activations -> Value(s, o.op, 0, terms)
       [] o.op = "Concat" /\ Seam([i \in DOMAIN xs |-> xs[i].shape]) ->
            Value(<<FoldLeft(LAMBDA c, x : c + x.shape[1], 0, xs)>> \o Tail(s), "Concat", 0, terms)
       [] o.op = "Add" /\ Broadcast(s, xs[2].shape) # {} ->
            Value(CHOOSE t \in Broadcast(s, xs[2].shape) : TRUE, "Add", 0, terms)
       [] OTHER -> Bad

Tensors(ops, in) ==
  FoldLeft(LAMBDA v, o :
             And(Is(o.out, Ran(o, [i \in DOMAIN o.in |-> IF o.in[i] \in DOMAIN v THEN v[o.in[i]] ELSE Bad])), v),
           Is(Input, Value(in, "input", 0, <<>>)), ops)

\* _shape_input: as many values as the input has are given its shape, others are a row.
Fed(s, k) == IF Size(s) = k THEN s ELSE <<k>>

\* infer_once.run_inference on k values.
Answer(k) ==
  LET in == Known(Input, <<1>>) IN IF Fed(in, k) = in THEN Tensors(nodes, Fed(in, k))[output] ELSE Bad

\* extract_payload and process_input of the runner: from the end of its own file.
Runner(k) ==
  LET len   == Len(file)
      lens  == [meta |-> file[len - 2], model |-> file[len - 1]]
      start == len - 3 - lens.meta - lens.model
      model == SubSeq(file, start + 1, start + lens.model)
      meta  == SubSeq(file, start + lens.model + 1, len - 3)
  IN IF Size(meta) = k THEN Tensors(model, Tail(meta))[output] ELSE Bad

-----------------------------------------------------------------------------
(* What is drawn: every node takes what its connections bring, in their ports' order. *)

Sources(g, n) ==
  LET at(p) == SelectSeq(g.conns, LAMBDA c : c.to = n /\ c.port = p)
      ports == IF g.node[n].order # <<>> THEN g.node[n].order ELSE Port
  IN FlattenSeq([i \in DOMAIN ports |-> at(ports[i])])

Layered(act, v) == IF act = "none" THEN v ELSE Value(v.shape, act, 0, <<v.of>>)

Meant(g, n, xs) ==
  LET node == g.node[n]
      x == xs[1]
      terms == [i \in DOMAIN xs |-> xs[i].of]
      square == IF Len(x.shape) = 1 THEN <<1, Side(x.shape[1]), Side(x.shape[1])>> ELSE x.shape
  IN CASE node.type = "InputNode" ->
            Value(IF node.rows > 0 THEN <<1, node.rows, node.cols>> ELSE <<node.size>>, "input", 0, <<>>)
       [] node.type = "dense" -> Layered(node.act, Value(<<node.size>>, "Gemm", n, terms))
       [] node.type = "conv2d" -> Layered(node.act, Value(Spatial(square, node), "Conv", n, terms))
       [] node.type = "maxpool2d" ->
            Value(<<x.shape[1], x.shape[2] \div node.kernel, x.shape[3] \div node.kernel>>, "MaxPool", n, terms)
       [] node.type = "SoftmaxNode" -> Value(x.shape, "softmax", 0, terms)
       [] node.type = "Flatten" -> [x EXCEPT !.shape = <<Size(x.shape)>>]
       [] node.type = "Reshape2D" -> [x EXCEPT !.shape = Rectangle(Size(x.shape), node)]
       [] node.type = "Concat" ->
            Value(<<FoldLeft(LAMBDA c, y : c + y.shape[1], 0, xs)>> \o Tail(x.shape), "Concat", 0, terms)
       [] node.type = "Add" ->
            FoldLeft(LAMBDA v, y : Value(v.shape, "Add", 0, <<v.of, y.of>>), x, Tail(xs))
       [] OTHER -> x

Drawn(g) ==
  FoldLeft(LAMBDA v, n :
             And(Is(n, Meant(g, n, [i \in DOMAIN Sources(g, n) |-> v[Sources(g, n)[i].from]])), v),
           <<>>, SelectSeq(FlattenSeq(Pages(g)), LAMBDA n : g.node[n].type \notin Ignored))

-----------------------------------------------------------------------------
LocalModelTypeOK ==
  /\ stage \in {"none", "compiling", "refused", "compiled", "exported", "packed"}
  /\ Range(todo) \subseteq Node(graph)
  /\ DOMAIN route \subseteq Node(graph) /\ DOMAIN box = Node(graph)

\* One connection brings what a layer reads, and the softmax of the output, if there is one,
\* is what a network of pages ends with.
Usual(g) ==
  /\ \A n \in Node(g) :
       LET type == g.node[n].type
       IN type \notin Ignored \cup {"InputNode", "Concat", "Add"} => Len(Sources(g, n)) = 1
  /\ \A n \in Node(g) : OutputSoftmax(g, n) =>
       /\ g.pages # <<>>
       /\ n = FinalNode(g) \/ \A i \in DOMAIN g.conns :
            g.conns[i].from = n => g.conns[i].to = FinalNode(g) /\ g.node[FinalNode(g)].type = "ClassifierNode"

\* What ONNX Runtime may refuse of what was compiled: a dense layer on an image, things of
\* several shapes put together, a side that does not divide, a window larger than its image.
Odd(g) ==
  LET at == Tensors(nodes, Known(Input, <<1>>))
      of(o) == [i \in DOMAIN o.in |-> at[o.in[i]].shape]
      odd(o) == CASE o.op = "Gemm" -> Len(of(o)[1]) # 1
                  [] o.op \in {"Concat", "Add"} -> \E i \in DOMAIN o.in : of(o)[i] # of(o)[1]
                  [] o.op = "Reshape" -> Size(o.args) # Size(of(o)[1])
                  [] o.op \in {"Conv", "MaxPool"} -> 
                       LET k == o.args[IF o.op = "Conv" THEN 3 ELSE 1]
                       IN \E i \in {2, 3} : of(o)[1][i] < k
                  [] OTHER -> FALSE
  IN \E i \in DOMAIN nodes : odd(nodes[i])

\* Whatever the network, the shapes that the compiler keeps are those that the runtime finds,
\* so that nothing but the odd is refused later, when it is trained.
ShapesTrue ==
  stage \notin {"none", "refused"} /\ Input \in DOMAIN shape /\ ~Odd(graph) =>
    LET at == Tensors(nodes, shape[Input])
    IN \A t \in DOMAIN shape : t \in DOMAIN at => at[t] # Bad /\ at[t].shape = shape[t]

\* An exported model answers what was drawn, the softmax of the output once, and its packed
\* runner the same.
AnswersAsDrawn ==
  stage \in {"exported", "packed"} /\ Usual(graph) /\ ~Odd(graph) =>
    LET k == Size(Known(Input, <<1>>))
    IN /\ Answer(k) = Drawn(graph)[FinalNode(graph)]
       /\ stage = "packed" => Runner(k) = Answer(k)

LocalModelHolds == ShapesTrue /\ AnswersAsDrawn
=============================================================================
