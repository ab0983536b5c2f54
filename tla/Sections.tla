------------------------------ MODULE Sections ------------------------------
(* What a training hands to later ones in the API service: chains of layers   *)
(* are registered by dataset and shapes when a training ends, kept for all    *)
(* once two users have trained them well, and loaded before the next one.     *)
EXTENDS Integers, SequencesExt, FiniteSetsExt

CONSTANTS
  Context,       \* contexts of users
  Owner,         \* [Context -> the user]
  Graph,         \* networks: [layer: Seq([kind, shape, bias]), edge: set of <<from, to>>]
  Dataset,       \* datasets that the server has
  Unknown,       \* the name of one it has not
  MaxTrainings,  \* trainings, together
  MaxEpochs      \* epochs of one

VARIABLES
  stage,    \* what the training of a context does
  graph,    \* its network
  stamp,    \* and its dataset
  modules,  \* the layers of a context: node -> [form, of], of being whose weight it has
  optim,    \* its optimizer: tensors, and the nodes that still have the layers it was made for
  plans,    \* what partition made of the network when it was built last
  accuracy, \* the best of the last training: 0 none, 1 low, 2 enough to be kept
  epochs,
  ram,      \* sections: key -> [states, users, accuracy]
  bins,     \* those that are kept (module_cache)
  at,       \* which of its plans a context matches or registers
  tried,    \* how many lengths of that chain had nothing
  longest,  \* its longest prefix that was registered when its matching began; no action reads it
  trainings

vars == <<stage, graph, stamp, modules, optim, plans, accuracy, epochs, ram, bins,
          at, tried, longest, trainings>>

Enough == 2
NoGraph == [layer |-> <<>>, edge |-> {}]
Fresh == "fresh"
NoOptimizer == [tensors |-> 0, nodes |-> {}]

Init ==
  /\ stage = [c \in Context |-> "idle"]
  /\ graph = [c \in Context |-> NoGraph]
  /\ stamp = [c \in Context |-> Unknown]
  /\ modules = [c \in Context |-> <<>>]
  /\ optim = [c \in Context |-> NoOptimizer]
  /\ plans = [c \in Context |-> <<>>]
  /\ accuracy = [c \in Context |-> 0]
  /\ epochs = [c \in Context |-> 0]
  /\ ram = <<>> /\ bins = <<>>
  /\ at = [c \in Context |-> 0]
  /\ tried = [c \in Context |-> 0]
  /\ longest = [c \in Context |-> 0]
  /\ trainings = 0
-----------------------------------------------------------------------------
(* partition *)
ParamNodes(g) == {n \in DOMAIN g.layer : g.layer[n].kind \in {"dense", "conv2d"}}
Succ(g, n) == {m \in ParamNodes(g) : <<n, m>> \in g.edge}
Pred(g, n) == {m \in ParamNodes(g) : <<m, n>> \in g.edge}

Starts(g) == {n \in ParamNodes(g) :
                \/ Cardinality(Pred(g, n)) # 1
                \/ \E p \in Pred(g, n) : Cardinality(Succ(g, p)) # 1}

\* Nodes in the order of their names.
Ascending(nodes, n) ==
  LET first[i \in 0..n] ==
        IF i = 0 THEN <<>> ELSE IF i \in nodes THEN Append(first[i - 1], i) ELSE first[i - 1]
  IN first[n]

\* A chain goes on where nothing forks or joins.
Follows(g, n) == {m \in Succ(g, n) : Succ(g, n) = {m} /\ Pred(g, m) = {n}}
Extended(g, chain) ==
  LET next == Follows(g, Last(chain)) \ Range(chain)
  IN IF next = {} THEN chain ELSE Append(chain, CHOOSE m \in next : TRUE)
Chain(g, s) ==
  LET chain[i \in 0..Len(g.layer)] == IF i = 0 THEN <<s>> ELSE Extended(g, chain[i - 1])
  IN chain[Len(g.layer)]

\* Chains from where they start, those of convolutions first; what is in none stands alone.
Convs(g) == {n \in ParamNodes(g) : g.layer[n].kind = "conv2d"}
Partition(g) ==
  LET n == Len(g.layer)
      starts == Ascending(Starts(g) \cap Convs(g), n) \o Ascending(Starts(g) \ Convs(g), n)
      chains == [i \in DOMAIN starts |-> Chain(g, starts[i])]
      covered == UNION {Range(chains[i]) : i \in DOMAIN chains}
      alone == Ascending(ParamNodes(g) \ covered, n)
  IN chains \o [i \in DOMAIN alone |-> <<alone[i]>>]
-----------------------------------------------------------------------------
(* section_registry *)
Key(dataset, states) ==
  [dataset |-> dataset, kinds |-> [i \in DOMAIN states |-> states[i].form.kind],
   shapes |-> [i \in DOMAIN states |-> states[i].form.shape]]

Put(store, key, section) == [k \in DOMAIN store \cup {key} |-> IF k = key THEN section ELSE store[k]]

\* Fault: short prefixes are tried first.
TriedShortFirst(n) == [i \in 1..n |-> IF i = 1 THEN n ELSE i - 1]
\* All layers, then ever shorter prefixes.
Tried(n) == [i \in 1..n |-> n + 1 - i]

\* What is kept goes before what is only in memory.
Held(key) == IF key \in DOMAIN bins THEN <<bins[key]>>
             ELSE IF key \in DOMAIN ram THEN <<ram[key]>> ELSE <<>>

\* Layers are loaded in order until one does not take its state, as a bias is missing or
\* there is one more: it has taken the weight by then.
ApplySection(mods, plan, states) ==
  LET fits(i) == states[i].form = mods[plan[i]].form
      loaded == {i \in DOMAIN states : \A j \in 1..i - 1 : fits(j)}
  IN [m \in DOMAIN mods |->
        IF \E i \in loaded : plan[i] = m
        THEN [mods[m] EXCEPT !.of = states[CHOOSE i \in loaded : plan[i] = m].of] ELSE mods[m]]

States(mods, plan) == [i \in DOMAIN plan |-> mods[plan[i]]]

Bumped(section, user, acc) ==
  [section EXCEPT !.users = @ \cup {user}, !.accuracy = IF acc > @ THEN acc ELSE @]
Kept(section) == Cardinality(section.users) >= 2 /\ section.accuracy >= Enough

-----------------------------------------------------------------------------
(* A training: on a thread from Build to EndTraining, on the event loop before and after. *)
\* What is registered is registered without giving the event loop up.
Registering == \E c \in Context : stage[c] \in {"register", "persist"}

\* ws_train; without the dataset the training ends before it resets anything.
Start(c, g, d) ==
  /\ stage[c] = "idle" /\ ~Registering /\ trainings < MaxTrainings
  /\ stage' = [stage EXCEPT ![c] = IF d = Unknown THEN "ended" ELSE "build"]
  /\ graph' = [graph EXCEPT ![c] = g]
  /\ stamp' = [stamp EXCEPT ![c] = d]
  /\ accuracy' = [accuracy EXCEPT ![c] = IF d = Unknown THEN @ ELSE 0]
  /\ epochs' = [epochs EXCEPT ![c] = 0]
  /\ trainings' = trainings + 1
  /\ UNCHANGED <<modules, optim, plans, ram, bins, at, tried, longest>>

\* A node keeps its layer while this has the kind and the shape, whatever its bias.
Keeps(mods, g, n) ==
  /\ n \in DOMAIN mods
  /\ n \in ParamNodes(g) => /\ mods[n].form.kind = g.layer[n].kind
                            /\ mods[n].form.shape = g.layer[n].shape
Built(mods, g) ==
  [n \in DOMAIN mods \cup ParamNodes(g) |->
     IF Keeps(mods, g, n) THEN mods[n] ELSE [form |-> g.layer[n], of |-> Fresh]]

Plan(c) == plans[c][at[c]]
\* Under what the first n layers of its chain would be registered.
Prefix(c, n) == Key(stamp[c], SubSeq(States(modules[c], Plan(c)), 1, n))
Longest(c) == Max({0} \cup {n \in DOMAIN Plan(c) : Prefix(c, n) \in DOMAIN ram})

\* The next chain is matched; after the last the training goes on.
MatchNext(c, i) ==
  LET more == i \in DOMAIN plans'[c]
  IN /\ stage' = [stage EXCEPT ![c] = IF more THEN "match" ELSE "train"]
     /\ at' = [at EXCEPT ![c] = i]
     /\ tried' = [tried EXCEPT ![c] = 0]
     /\ longest' = [longest EXCEPT ![c] = IF more THEN Longest(c)' ELSE 0]

\* The first step builds the layers.
Build(c) ==
  LET g == graph[c]
  IN /\ stage[c] = "build"
     /\ plans' = [plans EXCEPT ![c] = Partition(g)]
     /\ modules' = [modules EXCEPT ![c] = Built(@, g)]
     /\ optim' = [optim EXCEPT ![c].nodes = {n \in @ : Keeps(modules[c], g, n)}]
     /\ UNCHANGED <<graph, stamp, accuracy, epochs, ram, bins, trainings>>
     /\ MatchNext(c, 1)

\* match_best_section, one length of one chain: what is kept of a section and what is in
\* memory are the same weights, so the two lookups are one.
Length(c) == Tried(Len(Plan(c)))[tried[c] + 1]
Found(c) == Held(Prefix(c, Length(c)))

Hit(c) ==
  /\ stage[c] = "match" /\ Found(c) # <<>>
  /\ modules' = [modules EXCEPT ![c] = ApplySection(@, Plan(c), Found(c)[1].states)]
  /\ UNCHANGED <<graph, stamp, optim, plans, accuracy, epochs, ram, bins, trainings>>
  /\ MatchNext(c, at[c] + 1)

Miss(c) ==
  /\ stage[c] = "match" /\ Found(c) = <<>>
  /\ UNCHANGED <<graph, stamp, modules, optim, plans, accuracy, epochs, ram, bins, trainings>>
  /\ IF tried[c] + 1 < Len(Plan(c))
     THEN tried' = [tried EXCEPT ![c] = @ + 1] /\ UNCHANGED <<stage, at, longest>>
     ELSE MatchNext(c, at[c] + 1)

\* The optimizer is made for all layers of the context, and made anew when the number
\* of their tensors is another one: for layers of the same number it is taken as it is.
Tensors(mods) ==
  MapThenSumSet(LAMBDA n : IF mods[n].form.bias THEN 2 ELSE 1, DOMAIN mods)
Optimizer(c) ==
  IF optim[c].tensors = Tensors(modules[c]) THEN optim[c]
  ELSE [tensors |-> Tensors(modules[c]), nodes |-> DOMAIN modules[c]]

\* An epoch changes the layers of the network that the optimizer was made for.
Epoch(c, acc) ==
  /\ stage[c] = "train" /\ epochs[c] < MaxEpochs
  /\ epochs' = [epochs EXCEPT ![c] = @ + 1]
  /\ optim' = [optim EXCEPT ![c] = Optimizer(c)]
  /\ modules' = [modules EXCEPT ![c] = [n \in DOMAIN @ |->
       IF n \in ParamNodes(graph[c]) \cap Optimizer(c).nodes THEN [@[n] EXCEPT !.of = Owner[c]] ELSE @[n]]]
  /\ accuracy' = [accuracy EXCEPT ![c] = IF acc > @ THEN acc ELSE @]
  /\ UNCHANGED <<stage, graph, stamp, plans, ram, bins, at, tried, longest, trainings>>

\* The last epoch, a stop or an error. The best weights are put back, but the snapshot
\* of them shares its tensors with the layers: it holds what these hold now.
EndTraining(c) ==
  /\ stage[c] = "train"
  /\ stage' = [stage EXCEPT ![c] = "ended"]
  /\ UNCHANGED <<graph, stamp, modules, optim, plans, accuracy, epochs, ram, bins,
                 at, tried, longest, trainings>>

\* The next chain is registered; after the last the context is free.
RegisterNext(c, i) ==
  /\ stage' = [stage EXCEPT ![c] = IF i \in DOMAIN plans'[c] THEN "register" ELSE "idle"]
  /\ at' = [at EXCEPT ![c] = i]
  /\ UNCHANGED <<graph, stamp, modules, optim, accuracy, epochs, tried, longest, trainings>>

\* Back on the event loop; plans are made only if there never were any.
Register(c) ==
  /\ stage[c] = "ended" /\ ~Registering
  /\ plans' = [plans EXCEPT ![c] = IF @ = <<>> THEN Partition(graph[c]) ELSE @]
  /\ RegisterNext(c, 1)
  /\ UNCHANGED <<ram, bins>>

\* Of a chain whose layers are not all there nothing is registered.
Skip(c) ==
  /\ stage[c] = "register" /\ ~(Range(Plan(c)) \subseteq DOMAIN modules[c])
  /\ UNCHANGED <<plans, ram, bins>>
  /\ RegisterNext(c, at[c] + 1)

\* What is registered of a chain: a section that is there keeps its weights.
FullKey(c) == Key(stamp[c], States(modules[c], Plan(c)))
Section(c) ==
  Bumped(IF FullKey(c) \in DOMAIN ram THEN ram[FullKey(c)]
         ELSE [states |-> States(modules[c], Plan(c)), users |-> {}, accuracy |-> 0],
         Owner[c], accuracy[c])

\* In memory first; a matching thread may look before it is kept.
Remember(c) ==
  /\ stage[c] = "register" /\ Range(Plan(c)) \subseteq DOMAIN modules[c]
  /\ ram' = Put(ram, FullKey(c), Section(c))
  /\ UNCHANGED <<plans, bins>>
  /\ IF Kept(Section(c))
     THEN /\ stage' = [stage EXCEPT ![c] = "persist"]
          /\ UNCHANGED <<graph, stamp, modules, optim, accuracy, epochs, at, tried, longest, trainings>>
     ELSE RegisterNext(c, at[c] + 1)

Persist(c) ==
  /\ stage[c] = "persist"
  /\ bins' = Put(bins, FullKey(c), ram[FullKey(c)])
  /\ UNCHANGED <<plans, ram>>
  /\ RegisterNext(c, at[c] + 1)

Next ==
  \E c \in Context :
    \/ \E g \in Graph, d \in Dataset \cup {Unknown} : Start(c, g, d)
    \/ Build(c) \/ Hit(c) \/ Miss(c) \/ EndTraining(c)
    \/ Register(c) \/ Skip(c) \/ Remember(c) \/ Persist(c)
    \/ \E acc \in 1..Enough : Epoch(c, acc)

Spec == Init /\ [][Next]_vars
-----------------------------------------------------------------------------
SectionsTypeOK ==
  \A c \in Context :
    /\ stage[c] \in {"idle", "build", "match", "train", "ended", "register", "persist"}
    /\ stage[c] \in {"match", "register", "persist"} => at[c] \in DOMAIN plans[c]
    /\ stage[c] = "match" => tried[c] \in 0..Len(Plan(c)) - 1
    /\ \A n \in DOMAIN modules[c] : modules[c][n].of \in Range(Owner) \cup {Fresh}
    /\ optim[c].nodes \subseteq DOMAIN modules[c]
    /\ stage[c] \in {"match", "train"} => ParamNodes(graph[c]) \subseteq DOMAIN modules[c]

\* Plans divide the layers of a network into its longest chains without forks and joins.
PlansAreChains ==
  \A g \in Graph :
    LET ps == Partition(g)
        linked(m, n) == Succ(g, m) = {n} /\ Pred(g, n) = {m}
    IN /\ \A n \in ParamNodes(g) : \E i \in DOMAIN ps : n \in Range(ps[i])
       /\ \A i, j \in DOMAIN ps : i # j => Range(ps[i]) \cap Range(ps[j]) = {}
       /\ \A i \in DOMAIN ps : \A k \in 1..Len(ps[i]) - 1 : linked(ps[i][k], ps[i][k + 1])
       /\ \A i, j \in DOMAIN ps : ~linked(Last(ps[i]), Head(ps[j]))

\* What is registered under a key has its shapes, and what is kept has the weights of what is
\* in memory, so a thread that matches meanwhile gets the same from either. But for the chain
\* that is about to be persisted, a section is kept, as it is in memory, if and only if two
\* users trained such layers and one of them well.
StoreConsistent ==
  LET pending == {FullKey(c) : c \in {x \in Context : stage[x] = "persist"}}
  IN /\ \A k \in DOMAIN ram : Key(k.dataset, ram[k].states) = k
     /\ \A k \in DOMAIN bins : k \in DOMAIN ram /\ bins[k].states = ram[k].states
     /\ \A k \in DOMAIN ram \ pending : k \in DOMAIN bins <=> Kept(ram[k])
     /\ \A k \in DOMAIN bins \ pending : bins[k] = ram[k]

\* When the matching of a chain ends, it has loaded one section of its dataset, at least as long
\* as the longest that was registered when it began, up to the first layer that has a bias when
\* that had none, or none when it had one; or nothing, and then none was. Other layers stay.
Loads ==
  \A c \in Context : stage[c] = "match" /\ at'[c] # at[c] =>
    LET before == States(modules[c], Plan(c))
        after == States(modules'[c], Plan(c))
        loaded(n) == ram[Prefix(c, n)].states
        takes(n, k) == k <= n /\ \A j \in 1..k - 1 : loaded(n)[j].form = before[j].form
    IN /\ \A m \in DOMAIN modules[c] \ Range(Plan(c)) : modules'[c][m] = modules[c][m]
       /\ \/ longest[c] = 0 /\ after = before
          \/ \E n \in DOMAIN before :
               /\ n >= longest[c] /\ Prefix(c, n) \in DOMAIN ram
               /\ \A k \in DOMAIN before :
                    after[k] = IF takes(n, k) THEN [before[k] EXCEPT !.of = loaded(n)[k].of]
                               ELSE before[k]

\* model_core.py:1211: "if weights were injected, optimizers must reset". Of the step that ends
\* the matching, when the weights of the last chain were.
OptimizersReset == [][\A c \in Context :
  stage[c] = "match" /\ stage'[c] = "train" /\ modules'[c] # modules[c]
    => optim'[c] = NoOptimizer]_vars

SectionsHold == PlansAreChains /\ []StoreConsistent /\ [][Loads]_vars
=============================================================================
