--------------------------- MODULE Sections_proof ---------------------------
(* Proofs about the sections and the gates of the API service, and about      *)
(* inference without a server.                                               *)
EXTENDS MCRuntimes, FiniteSetTheorems, SequenceTheorems, WellFoundedInduction, TLAPS

-----------------------------------------------------------------------------
(* Induction over numbers, for sets instead of formulas. *)
(* A set of naturals that is not empty has a least element.                   *)
LEMMA Least == ASSUME NEW some, some \subseteq Nat, some # {} PROVE \E n \in some : \A m \in some : n <= m
<1> DEFINE R == OpToRel(<, Nat)
<1>1. IsWellFoundedOn(R, Nat)
      BY NatLessThanWellFounded
<1>2. \A m, n \in Nat : <<m, n>> \in R <=> m < n
      BY DEF OpToRel
<1> HIDE DEF R
<1>3. PICK n \in some : \A m \in some : <<m, n>> \notin R
      BY <1>1, WFMin
<1>4. ASSUME NEW m \in some PROVE n <= m
  <2>1. m \in Nat /\ n \in Nat
        OBVIOUS
  <2>2. ~(m < n)
        BY <1>2, <1>3, <2>1, Zenon
  <2> QED BY <2>1, <2>2
<1> QED BY <1>4

(* A set of naturals that has 0 and, with each, the next has all.             *)
LEMMA AllNat ==
  ASSUME NEW some, 0 \in some, \A n \in Nat : n \in some => n + 1 \in some PROVE Nat \subseteq some
<1> SUFFICES ASSUME NEW k \in Nat, k \notin some PROVE FALSE
    OBVIOUS
<1> DEFINE out == {n \in Nat : n \notin some}
<1>1. PICK n \in out : \A m \in out : n <= m
  <2>1. out \subseteq Nat /\ out # {}
        OBVIOUS
  <2> HIDE DEF out
  <2> QED BY <2>1, Least
<1>2. n # 0 /\ n - 1 \in Nat /\ n - 1 + 1 = n
      OBVIOUS
<1>3. n - 1 \in some
      BY <1>1, <1>2
<1> QED BY <1>2, <1>3

-----------------------------------------------------------------------------
(* The nodes of a set in their order. *)
AscendingUpTo(nodes, f, n) ==
  f = [i \in 0..n |-> IF i = 0 THEN <<>>
                      ELSE IF i \in nodes THEN Append(f[i - 1], i) ELSE f[i - 1]]

(* What Ascending computes step by step exists.                               *)
LEMMA AscendingSteps ==
  ASSUME NEW size \in Nat, NEW nodes
  PROVE  \E f : AscendingUpTo(nodes, f, size) /\ S!Ascending(nodes, size) = f[size]
<1> DEFINE Has == {n \in Nat : \E f : AscendingUpTo(nodes, f, n)}
<1>1. 0 \in Has
  <2>1. AscendingUpTo(nodes, [i \in 0..0 |-> <<>>], 0)
        BY DEF AscendingUpTo
  <2> QED BY <2>1
<1>2. ASSUME NEW n \in Nat, n \in Has PROVE n + 1 \in Has
  <2>1. PICK f : AscendingUpTo(nodes, f, n)
        BY <1>2
  <2> DEFINE last == IF n + 1 \in nodes THEN Append(f[n], n + 1) ELSE f[n]
             g == [i \in 0..n + 1 |-> IF i = n + 1 THEN last ELSE f[i]]
  <2>2. \A i \in 0..n : g[i] = f[i]
        OBVIOUS
  <2>3. \A i \in 0..n + 1 : g[i] = IF i = 0 THEN <<>>
                      ELSE IF i \in nodes THEN Append(g[i - 1], i) ELSE g[i - 1]
    <3> TAKE i \in 0..n + 1
    <3>1. CASE i = n + 1
          BY <3>1
    <3>2. CASE i # n + 1
      <4>1. i \in 0..n /\ (i # 0 => i - 1 \in 0..n)
            BY <3>2
      <4>2. f[i] = IF i = 0 THEN <<>>
                   ELSE IF i \in nodes THEN Append(f[i - 1], i) ELSE f[i - 1]
            BY <2>1, <4>1 DEF AscendingUpTo
      <4> QED BY <2>2, <4>1, <4>2
    <3> QED BY <3>1, <3>2
  <2>4. g = [i \in 0..n + 1 |-> g[i]]
        OBVIOUS
  <2> HIDE DEF g
  <2>5. AscendingUpTo(nodes, g, n + 1)
        BY <2>3, <2>4 DEF AscendingUpTo
  <2> QED BY <2>5
<1>3. size \in Has
  <2> HIDE DEF Has
  <2> QED BY <1>1, <1>2, AllNat
<1> DEFINE first == CHOOSE f : AscendingUpTo(nodes, f, size)
<1>4. AscendingUpTo(nodes, first, size)
      BY <1>3, Zenon
<1>5. S!Ascending(nodes, size) = first[size]
      BY Zenon DEF S!Ascending, AscendingUpTo
<1> QED BY <1>4, <1>5

(* They are listed once each, in ascending order.                             *)
LEMMA AscendingLists ==
  ASSUME NEW size \in Nat, NEW nodes, NEW s, s = S!Ascending(nodes, size)
  PROVE  /\ s \in Seq(nodes \cap 1..size)
         /\ \A n \in nodes \cap 1..size : \E k \in 1..Len(s) : s[k] = n
         /\ \A a, b \in 1..Len(s) : a < b => s[a] < s[b]
<1>1. PICK f : AscendingUpTo(nodes, f, size) /\ s = f[size]
      BY AscendingSteps
<1> DEFINE Lists(t, n) == /\ t \in Seq(nodes \cap 1..n)
                          /\ \A m \in nodes \cap 1..n : \E k \in 1..Len(t) : t[k] = m
                          /\ \A a, b \in 1..Len(t) : a < b => t[a] < t[b]
           Fine == {n \in Nat : n <= size => Lists(f[n], n)}
<1>2. 0 \in Fine
  <2>1. f[0] = <<>>
        BY <1>1 DEF AscendingUpTo
  <2>2. nodes \cap 1..0 = {}
        OBVIOUS
  <2>3. <<>> \in Seq(nodes \cap 1..0) /\ Len(<<>>) = 0
        OBVIOUS
  <2>4. Lists(f[0], 0)
        BY <2>1, <2>2, <2>3
  <2> QED BY <2>4
<1>3. ASSUME NEW n \in Nat, n \in Fine PROVE n + 1 \in Fine
  <2> SUFFICES ASSUME n + 1 <= size PROVE Lists(f[n + 1], n + 1)
      OBVIOUS
  <2>1. n + 1 \in 0..size /\ (n + 1) - 1 = n /\ n + 1 # 0
        OBVIOUS
  <2>2. f[n + 1] = IF n + 1 \in nodes THEN Append(f[n], n + 1) ELSE f[n]
        BY <1>1, <2>1, Zenon DEF AscendingUpTo
  <2>3. Lists(f[n], n)
        BY <1>3
  <2>4. CASE n + 1 \notin nodes
    <3>1. nodes \cap 1..n + 1 = nodes \cap 1..n
          BY <2>4
    <3>2. f[n + 1] = f[n]
          BY <2>2, <2>4
    <3> QED BY <2>3, <3>1, <3>2
  <2>5. CASE n + 1 \in nodes
    <3> DEFINE t == f[n]
               u == f[n + 1]
    <3>1. nodes \cap 1..n + 1 = (nodes \cap 1..n) \cup {n + 1}
          BY <2>5
    <3>2. u = Append(t, n + 1)
          BY <2>2, <2>5
    <3>3. t \in Seq((nodes \cap 1..n) \cup {n + 1}) /\ t \in Seq(nodes \cap 1..n)
          BY <2>3
    <3>4. u \in Seq(nodes \cap 1..n + 1) /\ Len(u) = Len(t) + 1 /\ Len(t) \in Nat
          BY <3>1, <3>2, <3>3
    <3>5. u[Len(t) + 1] = n + 1 /\ \A k \in 1..Len(t) : u[k] = t[k]
          BY <3>2, <3>3
    <3>6. ASSUME NEW m \in nodes \cap 1..n + 1 PROVE \E k \in 1..Len(u) : u[k] = m
      <4>1. CASE m = n + 1
        <5>1. Len(t) + 1 \in 1..Len(u)
              BY <3>4
        <5> QED BY <3>5, <4>1, <5>1
      <4>2. CASE m # n + 1
        <5>1. PICK k \in 1..Len(t) : t[k] = m
              BY <2>3, <3>1, <4>2
        <5> HIDE DEF t, u
        <5> QED BY <3>4, <3>5, <5>1
      <4> QED BY <4>1, <4>2
    <3>7. \A k \in 1..Len(t) : t[k] \in 1..n
          BY <3>3
    <3> HIDE DEF t, u
    <3>8. \A a, b \in 1..Len(t) : a < b => t[a] < t[b]
          BY <2>3 DEF t
    <3>9. ASSUME NEW a \in 1..Len(u), NEW b \in 1..Len(u), a < b PROVE u[a] < u[b]
      <4>1. CASE b = Len(t) + 1
        <5>1. a \in 1..Len(t)
              BY <3>4, <3>9, <4>1
        <5> QED BY <3>5, <3>7, <4>1, <5>1
      <4>2. CASE b # Len(t) + 1
        <5>1. a \in 1..Len(t) /\ b \in 1..Len(t)
              BY SMTT(30), <3>4, <3>9, <4>2
        <5> QED BY <3>5, <3>8, <3>9, <5>1
      <4> QED BY <4>1, <4>2
    <3> QED BY <3>4, <3>6, <3>9 DEF u
  <2> QED BY <2>4, <2>5
<1>4. size \in Fine
  <2> HIDE DEF Fine
  <2> QED BY <1>2, <1>3, AllNat
<1> QED BY <1>1, <1>4

-----------------------------------------------------------------------------
(* Chains *)
Linked(g, m, n) == S!Succ(g, m) = {n} /\ S!Pred(g, n) = {m}
Rank(g) == CHOOSE rank \in [DOMAIN g.layer -> DOMAIN g.layer] :
             \A m, n \in DOMAIN g.layer : <<m, n>> \in g.edge => rank[m] < rank[n]

(* The layers of a network are numbered, and every link leads to a higher rank. *)
LEMMA NetworkIs ==
  ASSUME NEW g \in Network
  PROVE  /\ Len(g.layer) \in Nat /\ DOMAIN g.layer = 1..Len(g.layer)
         /\ S!ParamNodes(g) \subseteq 1..Len(g.layer)
         /\ Rank(g) \in [1..Len(g.layer) -> 1..Len(g.layer)]
         /\ \A m, n \in S!ParamNodes(g) : Linked(g, m, n) => Rank(g)[m] < Rank(g)[n]
<1> DEFINE nodes == DOMAIN g.layer
           Orders(rank) == \A m, n \in nodes : <<m, n>> \in g.edge => rank[m] < rank[n]
<1>1. g.layer \in Seq({g.layer[n] : n \in nodes}) /\ \E rank \in [nodes -> nodes] : Orders(rank)
      BY NetworkAssumption
<1>2. Len(g.layer) \in Nat /\ nodes = 1..Len(g.layer)
      BY <1>1
<1>3. S!ParamNodes(g) \subseteq nodes
      BY DEF S!ParamNodes
<1>4. Rank(g) \in [nodes -> nodes] /\ Orders(Rank(g))
      BY <1>1, Zenon DEF Rank
<1>5. ASSUME NEW m \in S!ParamNodes(g), NEW n \in S!ParamNodes(g), Linked(g, m, n)
      PROVE  Rank(g)[m] < Rank(g)[n]
  <2>1. n \in S!Succ(g, m)
        BY <1>5 DEF Linked
  <2>2. <<m, n>> \in g.edge
        BY <2>1 DEF S!Succ
  <2> QED BY <1>3, <1>4, <2>2
<1> QED BY <1>2, <1>3, <1>4, <1>5

(* A chain starts at a layer to which nothing is linked.                      *)
LEMMA StartsAre ==
  ASSUME NEW g \in Network, NEW n \in S!ParamNodes(g)
  PROVE  n \in S!Starts(g) <=> \A p \in S!ParamNodes(g) : ~Linked(g, p, n)
<1> DEFINE layers == S!ParamNodes(g)
<1>1. IsFiniteSet(layers)
  <2>1. IsFiniteSet(1..Len(g.layer)) /\ layers \subseteq 1..Len(g.layer)
        BY NetworkIs, FS_Interval
  <2> QED BY <2>1, FS_Subset
<1>2. ASSUME NEW some, some \subseteq layers PROVE S!Cardinality(some) = 1 <=> \E x : some = {x}
  <2>1. S!Cardinality(some) = Cardinality(some)
        BY Zenon DEF S!Cardinality, Cardinality
  <2>2. IsFiniteSet(some)
        BY <1>1, <1>2, FS_Subset
  <2> QED BY <2>1, <2>2, FS_Singleton
<1>3. \A m : S!Succ(g, m) \subseteq layers /\ S!Pred(g, m) \subseteq layers
      BY DEF S!Succ, S!Pred
<1>4. n \in S!Starts(g) <=>
        \/ S!Cardinality(S!Pred(g, n)) # 1
        \/ \E p \in S!Pred(g, n) : S!Cardinality(S!Succ(g, p)) # 1
      BY DEF S!Starts
<1>5. \A p \in S!Pred(g, n) : n \in S!Succ(g, p)
      BY DEF S!Succ, S!Pred
<1>6. S!Cardinality(S!Pred(g, n)) = 1 <=> \E x : S!Pred(g, n) = {x}
      BY <1>2, <1>3
<1>7. \A p : S!Cardinality(S!Succ(g, p)) = 1 <=> \E x : S!Succ(g, p) = {x}
      BY <1>2, <1>3
<1>8. ASSUME n \notin S!Starts(g) PROVE \E p \in layers : Linked(g, p, n)
  <2>1. PICK p : S!Pred(g, n) = {p}
        BY <1>4, <1>6, <1>8
  <2>2. PICK x : S!Succ(g, p) = {x}
        BY <1>4, <1>7, <1>8, <2>1
  <2> QED BY <1>3, <1>5, <2>1, <2>2 DEF Linked
<1>9. ASSUME NEW p \in layers, Linked(g, p, n) PROVE n \notin S!Starts(g)
      BY <1>4, <1>6, <1>7, <1>9 DEF Linked
<1> QED BY <1>8, <1>9

ChainUpTo(g, s, f, n) ==
  f = [i \in 0..n |-> IF i = 0 THEN <<s>> ELSE S!Extended(g, f[i - 1])]

(* What Chain computes step by step exists.                                   *)
LEMMA ChainSteps ==
  ASSUME NEW g \in Network, NEW s
  PROVE  \E f : ChainUpTo(g, s, f, Len(g.layer)) /\ S!Chain(g, s) = f[Len(g.layer)]
<1> DEFINE size == Len(g.layer)
           Has == {n \in Nat : \E f : ChainUpTo(g, s, f, n)}
<1>0. size \in Nat
      BY NetworkIs
<1>1. 0 \in Has
  <2>1. ChainUpTo(g, s, [i \in 0..0 |-> <<s>>], 0)
        BY DEF ChainUpTo
  <2> QED BY <2>1
<1>2. ASSUME NEW n \in Nat, n \in Has PROVE n + 1 \in Has
  <2>1. PICK f : ChainUpTo(g, s, f, n)
        BY <1>2
  <2> DEFINE h == [i \in 0..n + 1 |-> IF i = n + 1 THEN S!Extended(g, f[n]) ELSE f[i]]
  <2>2. \A i \in 0..n : h[i] = f[i]
        OBVIOUS
  <2>3. \A i \in 0..n + 1 : h[i] = IF i = 0 THEN <<s>> ELSE S!Extended(g, h[i - 1])
    <3> TAKE i \in 0..n + 1
    <3>1. CASE i = n + 1
          BY <3>1
    <3>2. CASE i # n + 1
      <4>1. i \in 0..n /\ (i # 0 => i - 1 \in 0..n)
            BY <3>2
      <4>2. f[i] = IF i = 0 THEN <<s>> ELSE S!Extended(g, f[i - 1])
            BY <2>1, <4>1 DEF ChainUpTo
      <4> QED BY <2>2, <4>1, <4>2
    <3> QED BY <3>1, <3>2
  <2>4. h = [i \in 0..n + 1 |-> h[i]]
        OBVIOUS
  <2> HIDE DEF h
  <2>5. ChainUpTo(g, s, h, n + 1)
        BY <2>3, <2>4 DEF ChainUpTo
  <2> QED BY <2>5
<1>3. size \in Has
  <2> HIDE DEF Has, size
  <2> QED BY <1>0, <1>1, <1>2, AllNat
<1> DEFINE chain == CHOOSE f : ChainUpTo(g, s, f, size)
<1>4. ChainUpTo(g, s, chain, size)
      BY <1>3, Zenon
<1>5. S!Chain(g, s) = chain[size]
      BY Zenon DEF S!Chain, ChainUpTo
<1> QED BY <1>4, <1>5

(* Layers that follow each other from s on, without a repetition.             *)
IsChain(g, s, chain) ==
  /\ chain \in Seq(S!ParamNodes(g)) /\ Len(chain) >= 1 /\ chain[1] = s
  /\ \A k \in 1..Len(chain) - 1 : Linked(g, chain[k], chain[k + 1])
  /\ \A a, b \in 1..Len(chain) : a < b => Rank(g)[chain[a]] < Rank(g)[chain[b]]
Whole(g, chain) == \A n \in S!ParamNodes(g) : ~Linked(g, chain[Len(chain)], n)

(* A chain that is extended is one, and longer unless it has ended.           *)
LEMMA ChainGrows ==
  ASSUME NEW g \in Network, NEW s, NEW c, IsChain(g, s, c)
  PROVE  LET d == S!Extended(g, c)
         IN  IsChain(g, s, d) /\ (Whole(g, c) => d = c) /\ (~Whole(g, c) => Len(d) = Len(c) + 1)
<1> DEFINE layers == S!ParamNodes(g)
           l == c[Len(c)]
           R == Rank(g)
           d == S!Extended(g, c)
           next == S!Follows(g, S!Last(c)) \ S!Range(c)
<1>1. /\ c \in Seq(layers) /\ Len(c) \in Nat /\ Len(c) >= 1 /\ c[1] = s /\ DOMAIN c = 1..Len(c)
      /\ \A k \in 1..Len(c) - 1 : Linked(g, c[k], c[k + 1])
      /\ \A a, b \in 1..Len(c) : a < b => R[c[a]] < R[c[b]]
      BY DEF IsChain
<1>2. l \in layers /\ \A k \in 1..Len(c) : c[k] \in layers
      BY <1>1
<1>3. \A m : m \in S!Follows(g, l) <=> m \in layers /\ Linked(g, l, m)
      BY DEF S!Follows, S!Succ, Linked
<1>4. S!Last(c) = l
      BY Zenon DEF S!Last
<1>5. ASSUME NEW m \in layers, Linked(g, l, m) PROVE \A k \in 1..Len(c) : R[c[k]] < R[m]
  <2> TAKE k \in 1..Len(c)
  <2>1. R[l] < R[m]
        BY <1>2, <1>5, NetworkIs
  <2>2. R[c[k]] \in Nat /\ R[l] \in Nat /\ R[m] \in Nat
        BY <1>2, NetworkIs
  <2>3. R[c[k]] <= R[l]
        BY <1>1, <2>2
  <2> QED BY <2>1, <2>2, <2>3
<1>6. ASSUME NEW m \in layers, Linked(g, l, m) PROVE m \notin S!Range(c)
  <2>1. R[m] \in Nat
        BY NetworkIs
  <2> QED BY <1>1, <1>5, <1>6, <2>1 DEF S!Range
<1>7. \A m : m \in next <=> m \in layers /\ Linked(g, l, m)
      BY <1>3, <1>4, <1>6
<1>8. d = IF next = {} THEN c ELSE Append(c, CHOOSE m \in next : TRUE)
      BY Zenon DEF S!Extended
<1>9. CASE Whole(g, c)
  <2>1. next = {}
        BY <1>7, <1>9 DEF Whole
  <2> QED BY <1>8, <1>9, <2>1
<1>10. CASE ~Whole(g, c)
  <2>1. next # {}
        BY <1>7, <1>10 DEF Whole
  <2> DEFINE m == CHOOSE x \in next : TRUE
  <2>2. m \in next
        BY <2>1
  <2>3. m \in layers /\ Linked(g, l, m) /\ d = Append(c, m)
        BY <1>7, <1>8, <2>1, <2>2
  <2> HIDE DEF m, d, l, R
  <2>4. /\ d \in Seq(layers) /\ Len(d) = Len(c) + 1 /\ d[Len(c) + 1] = m
        /\ \A k \in 1..Len(c) : d[k] = c[k]
        BY <1>1, <2>3
  <2>5. ASSUME NEW k \in 1..Len(d) - 1 PROVE Linked(g, d[k], d[k + 1])
    <3>1. CASE k = Len(c)
          BY <1>1, <2>3, <2>4, <3>1 DEF l
    <3>2. CASE k # Len(c)
      <4>0. Len(c) \in Nat /\ Len(d) - 1 = Len(c)
            BY <1>1, <2>4
      <4>1. k \in 1..Len(c) - 1 /\ k \in 1..Len(c) /\ k + 1 \in 1..Len(c)
        <5>1. k \in 1..Len(c)
              BY <4>0
        <5> QED BY <3>2, <4>0, <5>1
      <4>2. Linked(g, c[k], c[k + 1]) /\ d[k] = c[k] /\ d[k + 1] = c[k + 1]
            BY <1>1, <2>4, <4>1
      <4> QED BY <4>2
    <3> QED BY <3>1, <3>2
  <2>6. ASSUME NEW a \in 1..Len(d), NEW b \in 1..Len(d), a < b PROVE R[d[a]] < R[d[b]]
    <3>1. a \in 1..Len(c)
          BY <1>1, <2>4, <2>6
    <3>2. CASE b = Len(c) + 1
          BY <1>5, <2>3, <2>4, <3>1, <3>2
    <3>3. CASE b # Len(c) + 1
      <4>1. b \in 1..Len(c)
            BY <1>1, <2>4, <3>3
      <4> QED BY <1>1, <2>4, <2>6, <3>1, <4>1
    <3> QED BY <3>2, <3>3
  <2>7. IsChain(g, s, d)
    <3>1. d[1] = s /\ Len(d) >= 1
          BY <1>1, <2>4
    <3> QED BY <2>4, <2>5, <2>6, <3>1 DEF IsChain, R
  <2> QED BY <1>10, <2>4, <2>7 DEF d
<1> QED BY <1>9, <1>10

(* The chain of a layer is one, and the longest.                              *)
LEMMA ChainIs ==
  ASSUME NEW g \in Network, NEW s \in S!ParamNodes(g)
  PROVE  IsChain(g, s, S!Chain(g, s)) /\ Whole(g, S!Chain(g, s))
<1> DEFINE size == Len(g.layer)
           layers == S!ParamNodes(g)
           R == Rank(g)
<1>1. PICK f : ChainUpTo(g, s, f, size) /\ S!Chain(g, s) = f[size]
      BY ChainSteps
<1>2. size \in Nat /\ R \in [1..size -> 1..size] /\ layers \subseteq 1..size
      BY NetworkIs
<1> DEFINE Fine == {n \in Nat : n <= size =>
                      IsChain(g, s, f[n]) /\ (Whole(g, f[n]) \/ Len(f[n]) = n + 1)}
<1> HIDE DEF size
<1>3. 0 \in Fine
  <2>1. f[0] = <<s>>
        BY <1>1, <1>2 DEF ChainUpTo
  <2> DEFINE c == <<s>>
  <2>2. c \in Seq(layers) /\ Len(c) = 1 /\ c[1] = s
        OBVIOUS
  <2> HIDE DEF c
  <2>3. IsChain(g, s, c)
        BY <2>2 DEF IsChain
  <2> QED BY <2>1, <2>2, <2>3 DEF c
<1>4. ASSUME NEW n \in Nat, n \in Fine PROVE n + 1 \in Fine
  <2> SUFFICES ASSUME n + 1 <= size
               PROVE  IsChain(g, s, f[n + 1]) /\ (Whole(g, f[n + 1]) \/ Len(f[n + 1]) = n + 1 + 1)
      OBVIOUS
  <2>1. n + 1 \in 0..size /\ (n + 1) - 1 = n /\ n + 1 # 0
        BY <1>2
  <2>2. f[n + 1] = S!Extended(g, f[n])
        BY <1>1, <2>1, Zenon DEF ChainUpTo
  <2>3. IsChain(g, s, f[n]) /\ (Whole(g, f[n]) \/ Len(f[n]) = n + 1)
        BY <1>2, <1>4
  <2> QED BY <2>2, <2>3, ChainGrows
<1>5. size \in Fine
  <2> HIDE DEF Fine
  <2> QED BY <1>2, <1>3, <1>4, AllNat
<1> DEFINE c == f[size]
<1>6. IsChain(g, s, c) /\ (Whole(g, c) \/ Len(c) = size + 1)
      BY <1>2, <1>5
<1> HIDE DEF c
<1>7. ASSUME Len(c) = size + 1 PROVE FALSE
  <2>1. /\ \A k \in 1..size + 1 : c[k] \in layers
        /\ \A a, b \in 1..size + 1 : a < b => R[c[a]] < R[c[b]]
        BY <1>6, <1>7 DEF IsChain
  <2> DEFINE High == {n \in Nat : n <= size => R[c[n + 1]] >= n + 1}
  <2>2. \A k \in 1..size + 1 : R[c[k]] \in 1..size
        BY <1>2, <2>1
  <2> HIDE DEF R
  <2>3. 0 \in High
        BY <1>2, <2>2
  <2>4. ASSUME NEW n \in Nat, n \in High PROVE n + 1 \in High
    <3> SUFFICES ASSUME n + 1 <= size PROVE R[c[n + 1 + 1]] >= n + 1 + 1
        OBVIOUS
    <3>1. n + 1 \in 1..size + 1 /\ n + 1 + 1 \in 1..size + 1
          BY <1>2
    <3>2. R[c[n + 1]] < R[c[n + 1 + 1]] /\ R[c[n + 1]] >= n + 1
          BY <1>2, <2>1, <2>4, <3>1
    <3> QED BY <2>2, <3>1, <3>2
  <2>5. size \in High
    <3> HIDE DEF High
    <3> QED BY <1>2, <2>3, <2>4, AllNat
  <2>6. size + 1 \in 1..size + 1
        BY <1>2
  <2> QED BY SMTT(30), <1>2, <2>2, <2>5, <2>6
<1> QED BY <1>1, <1>6, <1>7 DEF c

(* Every layer is in the chain of one that starts one.                        *)
LEMMA ChainsCover ==
  ASSUME NEW g \in Network, NEW n \in S!ParamNodes(g)
  PROVE  \E s \in S!Starts(g) : \E k \in 1..Len(S!Chain(g, s)) : S!Chain(g, s)[k] = n
<1> DEFINE layers == S!ParamNodes(g)
           R == Rank(g)
           C(s) == S!Chain(g, s)
           In(m) == \E s \in S!Starts(g) : \E k \in 1..Len(C(s)) : C(s)[k] = m
           Left == {R[m] : m \in {x \in layers : ~In(x)}}
<1> SUFFICES ASSUME ~In(n) PROVE FALSE
    OBVIOUS
<1>1. R \in [1..Len(g.layer) -> 1..Len(g.layer)] /\ layers \subseteq 1..Len(g.layer)
      BY NetworkIs
<1>2. S!Starts(g) \subseteq layers
      BY DEF S!Starts
<1>3. \A s \in layers : IsChain(g, s, C(s)) /\ Whole(g, C(s))
      BY ChainIs
<1> HIDE DEF layers, R, C
<1>4. PICK r \in Left : \A q \in Left : r <= q
  <2>1. Left \subseteq Nat /\ Left # {}
        BY <1>1 DEF layers
  <2> HIDE DEF Left
  <2> QED BY <2>1, Least
<1>5. PICK m \in layers : ~In(m) /\ R[m] = r
      OBVIOUS
<1>6. m \notin S!Starts(g)
  <2> SUFFICES ASSUME m \in S!Starts(g) PROVE In(m)
      BY <1>5
  <2>1. 1 \in 1..Len(C(m)) /\ C(m)[1] = m
        BY <1>3, <1>5 DEF IsChain
  <2> QED BY <2>1
<1>7. PICK p \in layers : Linked(g, p, m)
      BY <1>5, <1>6, StartsAre DEF layers
<1>8. R[p] < R[m]
      BY <1>5, <1>7, NetworkIs DEF layers, R
<1>9. In(p)
  <2> SUFFICES ASSUME ~In(p) PROVE FALSE
      OBVIOUS
  <2>1. R[p] \in Left
        OBVIOUS
  <2>2. R[p] \in Nat /\ R[m] \in Nat
        BY <1>1, <1>5, <1>7
  <2>3. r <= R[p]
        BY <1>4, <2>1
  <2> QED BY <1>5, <1>8, <2>2, <2>3
<1>10. PICK s \in S!Starts(g) : \E k \in 1..Len(C(s)) : C(s)[k] = p
      BY <1>9
<1>101. PICK k \in 1..Len(C(s)) : C(s)[k] = p
      BY <1>10
<1>11. IsChain(g, s, C(s)) /\ Whole(g, C(s)) /\ Len(C(s)) \in Nat
      BY <1>2, <1>3 DEF IsChain
<1>12. k # Len(C(s))
      BY <1>5, <1>7, <1>101, <1>11 DEF Whole, layers
<1>13. k \in 1..Len(C(s)) - 1 /\ k + 1 \in 1..Len(C(s))
      BY <1>11, <1>12
<1>14. C(s)[k + 1] = m
      BY <1>7, <1>101, <1>11, <1>13 DEF IsChain, Linked
<1>15. In(m)
      BY <1>13, <1>14
<1> QED BY <1>5, <1>15

(* Chains that share a layer start at the same one.                           *)
LEMMA ChainsApart ==
  ASSUME NEW g \in Network, NEW s \in S!Starts(g), NEW t \in S!Starts(g),
         NEW a \in 1..Len(S!Chain(g, s)), NEW b \in 1..Len(S!Chain(g, t)),
         S!Chain(g, s)[a] = S!Chain(g, t)[b]
  PROVE  s = t
<1> DEFINE layers == S!ParamNodes(g)
           c == S!Chain(g, s)
           d == S!Chain(g, t)
           Same == {n \in Nat : \A k \in 1..Len(d) : n + 1 <= Len(c) /\ c[n + 1] = d[k] => s = t}
<1>1. s \in layers /\ t \in layers
      BY DEF S!Starts
<1>2. IsChain(g, s, c) /\ IsChain(g, t, d)
      BY <1>1, ChainIs
<1>3. /\ Len(c) \in Nat /\ Len(d) \in Nat /\ c[1] = s /\ d[1] = t
      /\ (\A k \in 1..Len(c) : c[k] \in layers) /\ (\A k \in 1..Len(d) : d[k] \in layers)
      /\ (\A k \in 1..Len(c) - 1 : Linked(g, c[k], c[k + 1]))
      /\ (\A k \in 1..Len(d) - 1 : Linked(g, d[k], d[k + 1]))
      BY <1>2 DEF IsChain
<1>4. (\A p \in layers : ~Linked(g, p, s)) /\ (\A p \in layers : ~Linked(g, p, t))
      BY <1>1, StartsAre
<1> HIDE DEF c, d, layers
<1>5. 0 \in Same
  <2> SUFFICES ASSUME NEW k \in 1..Len(d), c[1] = d[k] PROVE s = t
      OBVIOUS
  <2>1. CASE k = 1
        BY <1>3, <2>1
  <2>2. CASE k # 1
    <3>1. k - 1 \in 1..Len(d) - 1 /\ k - 1 \in 1..Len(d) /\ k - 1 + 1 = k
          BY <1>3, <2>2
    <3>2. Linked(g, d[k - 1], s) /\ d[k - 1] \in layers
          BY <1>3, <3>1
    <3> QED BY <1>4, <3>2
  <2> QED BY <2>1, <2>2
<1>6. ASSUME NEW n \in Nat, n \in Same PROVE n + 1 \in Same
  <2> SUFFICES ASSUME NEW k \in 1..Len(d), n + 1 + 1 <= Len(c), c[n + 1 + 1] = d[k] PROVE s = t
      OBVIOUS
  <2>1. n + 1 \in 1..Len(c) - 1 /\ n + 1 \in 1..Len(c)
        BY <1>3
  <2>2. Linked(g, c[n + 1], d[k]) /\ c[n + 1] \in layers
        BY <1>3, <2>1
  <2>3. CASE k = 1
        BY <1>3, <1>4, <2>2, <2>3
  <2>4. CASE k # 1
    <3>1. k - 1 \in 1..Len(d) - 1 /\ k - 1 \in 1..Len(d) /\ k - 1 + 1 = k
          BY <1>3, <2>4
    <3>2. Linked(g, d[k - 1], d[k])
          BY <1>3, <3>1
    <3>3. c[n + 1] = d[k - 1]
          BY <2>2, <3>2 DEF Linked
    <3>4. n + 1 <= Len(c)
          BY <1>3, <2>1
    <3> QED BY <1>6, <3>1, <3>3, <3>4
  <2> QED BY <2>3, <2>4
<1>7. a - 1 \in Same
  <2>1. a - 1 \in Nat
        BY <1>3 DEF c
  <2> HIDE DEF Same
  <2> QED BY <2>1, <1>5, <1>6, AllNat
<1>8. a - 1 + 1 = a /\ a <= Len(c) /\ b \in 1..Len(d) /\ c[a] = d[b]
      BY <1>3 DEF c, d
<1> QED BY <1>7, <1>8

(* The plans are the chains of those layers, one each.                        *)
LEMMA PartitionIs ==
  ASSUME NEW g \in Network, NEW ps, ps = S!Partition(g)
  PROVE  /\ Len(ps) \in Nat /\ DOMAIN ps = 1..Len(ps)
         /\ \A i \in 1..Len(ps) : ps[i][1] \in S!Starts(g) /\ ps[i] = S!Chain(g, ps[i][1])
         /\ \A i, j \in 1..Len(ps) : ps[i][1] = ps[j][1] => i = j
         /\ \A s \in S!Starts(g) : \E i \in 1..Len(ps) : ps[i][1] = s
<1> DEFINE size == Len(g.layer)
           layers == S!ParamNodes(g)
           u == S!Ascending(S!Starts(g) \cap S!Convs(g), size)
           v == S!Ascending(S!Starts(g) \ S!Convs(g), size)
           starts == u \o v
           chains == [i \in DOMAIN starts |-> S!Chain(g, starts[i])]
           covered == UNION {S!Range(chains[i]) : i \in DOMAIN chains}
           alone == S!Ascending(layers \ covered, size)
           one == [i \in DOMAIN alone |-> <<alone[i]>>]
<1>1. size \in Nat /\ S!Starts(g) \subseteq layers /\ layers \subseteq 1..size
      BY NetworkIs DEF S!Starts
<1>2. ps = chains \o one
      BY Zenon DEF S!Partition
<1>3. /\ u \in Seq((S!Starts(g) \cap S!Convs(g)) \cap 1..size)
      /\ \A n \in (S!Starts(g) \cap S!Convs(g)) \cap 1..size : \E k \in 1..Len(u) : u[k] = n
      /\ \A a, b \in 1..Len(u) : a < b => u[a] < u[b]
      BY <1>1, AscendingLists
<1>4. /\ v \in Seq((S!Starts(g) \ S!Convs(g)) \cap 1..size)
      /\ \A n \in (S!Starts(g) \ S!Convs(g)) \cap 1..size : \E k \in 1..Len(v) : v[k] = n
      /\ \A a, b \in 1..Len(v) : a < b => v[a] < v[b]
      BY <1>1, AscendingLists
<1> HIDE DEF u, v
<1>5. /\ Len(u) \in Nat /\ Len(v) \in Nat
      /\ \A k \in 1..Len(u) : u[k] \in S!Starts(g) /\ u[k] \in S!Convs(g) /\ u[k] \in Nat
      /\ \A k \in 1..Len(v) : v[k] \in S!Starts(g) /\ v[k] \notin S!Convs(g) /\ v[k] \in Nat
      BY SMTT(30), <1>3, <1>4
<1>6. /\ starts \in Seq(S!Starts(g)) /\ Len(starts) = Len(u) + Len(v)
      /\ \A k \in 1..Len(u) : starts[k] = u[k]
      /\ \A k \in 1..Len(v) : starts[Len(u) + k] = v[k]
  <2>1. u \in Seq(S!Starts(g)) /\ v \in Seq(S!Starts(g))
        BY SMTT(30), <1>3, <1>4
  <2> QED BY <2>1
<1> HIDE DEF starts
<1>51. /\ \A a, b \in 1..Len(u) : u[a] = u[b] => a = b
       /\ \A a, b \in 1..Len(v) : v[a] = v[b] => a = b
  <2>1. /\ \A a, b \in 1..Len(u) : a < b => u[a] < u[b]
        /\ \A a, b \in 1..Len(v) : a < b => v[a] < v[b]
        BY <1>3, <1>4
  <2> QED BY <1>5, <2>1
<1>7. \A s \in S!Starts(g) : \E k \in 1..Len(starts) : starts[k] = s
  <2> TAKE s \in S!Starts(g)
  <2>1. CASE s \in S!Convs(g)
    <3>1. PICK k \in 1..Len(u) : u[k] = s
          BY <1>1, <1>3, <2>1
    <3>2. k \in 1..Len(starts)
          BY <1>5, <1>6
    <3> QED BY <1>6, <3>1, <3>2
  <2>2. CASE s \notin S!Convs(g)
    <3>1. PICK k \in 1..Len(v) : v[k] = s
          BY <1>1, <1>4, <2>2
    <3>2. Len(u) + k \in 1..Len(starts)
          BY <1>5, <1>6
    <3> QED BY <1>6, <3>1, <3>2
  <2> QED BY <2>1, <2>2
<1>8. ASSUME NEW i \in 1..Len(starts), NEW j \in 1..Len(starts), starts[i] = starts[j] PROVE i = j
  <2>1. \A k \in 1..Len(starts) :
          \/ k \in 1..Len(u) /\ starts[k] = u[k]
          \/ k - Len(u) \in 1..Len(v) /\ starts[k] = v[k - Len(u)]
    <3> TAKE k \in 1..Len(starts)
    <3>1. CASE k <= Len(u)
          BY <1>5, <1>6, <3>1
    <3>2. CASE ~(k <= Len(u))
      <4>1. k - Len(u) \in 1..Len(v) /\ Len(u) + (k - Len(u)) = k
            BY <1>5, <1>6, <3>2
      <4> QED BY <1>6, <4>1
    <3> QED BY <3>1, <3>2
  <2>2. CASE i \in 1..Len(u) /\ j \in 1..Len(u) /\ u[i] = u[j]
        BY <1>51, <2>2
  <2>3. CASE i - Len(u) \in 1..Len(v) /\ j - Len(u) \in 1..Len(v) /\ v[i - Len(u)] = v[j - Len(u)]
    <3>1. i - Len(u) = j - Len(u)
          BY <1>51, <2>3
    <3> QED BY <1>5, <3>1
  <2> QED BY <1>5, <2>1, <2>2, <2>3, <1>8
<1>9. DOMAIN starts = 1..Len(starts) /\ DOMAIN chains = 1..Len(starts) /\ Len(starts) \in Nat
      BY <1>5, <1>6
<1>10. layers \ covered = {}
  <2> SUFFICES ASSUME NEW n \in layers PROVE n \in covered
      OBVIOUS
  <2>1. PICK s \in S!Starts(g) : \E k \in 1..Len(S!Chain(g, s)) : S!Chain(g, s)[k] = n
        BY ChainsCover
  <2>11. PICK k \in 1..Len(S!Chain(g, s)) : S!Chain(g, s)[k] = n
        BY <2>1
  <2>2. PICK i \in 1..Len(starts) : starts[i] = s
        BY <1>7
  <2>3. chains[i] = S!Chain(g, s) /\ i \in DOMAIN chains
        BY <1>9, <2>2
  <2>4. k \in DOMAIN S!Chain(g, s)
    <3>1. S!Chain(g, s) \in Seq(layers)
          BY <1>1, ChainIs DEF IsChain
    <3> QED BY <2>11, <3>1
  <2>5. n \in S!Range(chains[i])
        BY <2>11, <2>3, <2>4 DEF S!Range
  <2> HIDE DEF chains
  <2> QED BY <2>3, <2>5
<1>11. alone = <<>>
  <2> DEFINE none == {}
  <2>1. alone = S!Ascending(none, size)
        BY <1>10, Zenon
  <2>2. S!Ascending(none, size) \in Seq(none \cap 1..size)
        BY <1>1, AscendingLists
  <2>3. \A s \in Seq({}) : s = <<>>
        OBVIOUS
  <2> QED BY <2>1, <2>2, <2>3
<1>12. ps = chains
  <2>1. one = <<>>
    <3>1. one \in [1..0 -> {}]
          BY <1>11
    <3> HIDE DEF one
    <3>2. one \in Seq({})
          BY <3>1, SeqDef
    <3> QED BY <3>2
  <2>2. chains \in Seq({S!Chain(g, s) : s \in S!Starts(g)})
    <3>1. \A i \in 1..Len(starts) : starts[i] \in S!Starts(g)
          BY <1>6
    <3> QED BY <1>9, <3>1
  <2> HIDE DEF chains, one
  <2>3. chains \o <<>> = chains
        BY <2>2
  <2> QED BY <1>2, <2>1, <2>3
<1>13. Len(ps) = Len(starts) /\ DOMAIN ps = 1..Len(starts)
      BY <1>9, <1>12
<1>14. ASSUME NEW i \in 1..Len(starts)
       PROVE  ps[i] = S!Chain(g, starts[i]) /\ ps[i][1] = starts[i] /\ starts[i] \in S!Starts(g)
  <2>1. ps[i] = S!Chain(g, starts[i]) /\ starts[i] \in S!Starts(g)
        BY <1>6, <1>9, <1>12
  <2>2. starts[i] \in layers
        BY <1>1, <2>1
  <2>3. S!Chain(g, starts[i])[1] = starts[i]
        BY <2>2, ChainIs DEF IsChain
  <2> QED BY <2>1, <2>3
<1> HIDE DEF chains
<1> QED BY <1>7, <1>8, <1>9, <1>13, <1>14

(* Layers of two plans are different ones, those of one follow each other.    *)
Divides(g, ps) ==
  /\ Len(ps) \in Nat /\ DOMAIN ps = 1..Len(ps)
  /\ \A i \in 1..Len(ps) :
       /\ ps[i][1] \in S!Starts(g) /\ IsChain(g, ps[i][1], ps[i]) /\ Whole(g, ps[i])
       /\ DOMAIN ps[i] = 1..Len(ps[i])
       /\ \A a, b \in 1..Len(ps[i]) : ps[i][a] = ps[i][b] => a = b
  /\ \A i, j \in 1..Len(ps) : i # j => S!Range(ps[i]) \cap S!Range(ps[j]) = {}
LEMMA PlansAre == ASSUME NEW g \in Network PROVE Divides(g, S!Partition(g))
<1> DEFINE ps == S!Partition(g)
<1>1. /\ Len(ps) \in Nat /\ DOMAIN ps = 1..Len(ps)
      /\ \A i \in 1..Len(ps) : ps[i][1] \in S!Starts(g) /\ ps[i] = S!Chain(g, ps[i][1])
      /\ \A i, j \in 1..Len(ps) : ps[i][1] = ps[j][1] => i = j
      BY PartitionIs
<1> HIDE DEF ps
<1>2. S!Starts(g) \subseteq S!ParamNodes(g)
      BY DEF S!Starts
<1>3. \A i \in 1..Len(ps) : IsChain(g, ps[i][1], ps[i]) /\ Whole(g, ps[i])
      BY <1>1, <1>2, ChainIs
<1>4. \A i \in 1..Len(ps) : ps[i] \in Seq(S!ParamNodes(g))
      BY <1>3 DEF IsChain
<1>5. ASSUME NEW i \in 1..Len(ps), NEW a \in 1..Len(ps[i]), NEW b \in 1..Len(ps[i]),
             ps[i][a] = ps[i][b]
      PROVE  a = b
  <2> DEFINE R == Rank(g)
  <2>1. \A x, y \in 1..Len(ps[i]) : x < y => R[ps[i][x]] < R[ps[i][y]]
        BY <1>3 DEF IsChain
  <2>2. R[ps[i][a]] \in Nat
    <3>1. ps[i][a] \in S!ParamNodes(g)
          BY <1>4
    <3> QED BY <3>1, NetworkIs
  <2>3. a \in Nat /\ b \in Nat
        BY <1>4
  <2> HIDE DEF R
  <2>4. ~(a < b) /\ ~(b < a)
        BY <1>5, <2>1, <2>2
  <2> QED BY <2>3, <2>4
<1>6. ASSUME NEW i \in 1..Len(ps), NEW j \in 1..Len(ps), i # j
      PROVE  S!Range(ps[i]) \cap S!Range(ps[j]) = {}
  <2> SUFFICES ASSUME NEW n, n \in S!Range(ps[i]), n \in S!Range(ps[j]) PROVE FALSE
      OBVIOUS
  <2>1. PICK a \in 1..Len(ps[i]) : ps[i][a] = n
        BY <1>4 DEF S!Range
  <2>2. PICK b \in 1..Len(ps[j]) : ps[j][b] = n
        BY <1>4 DEF S!Range
  <2>3. ps[i][1] = ps[j][1]
        BY <1>1, <2>1, <2>2, ChainsApart
  <2> QED BY <1>1, <1>6, <2>3
<1>7. \A i \in 1..Len(ps) : DOMAIN ps[i] = 1..Len(ps[i])
      BY <1>4
<1>8. Divides(g, ps)
      BY <1>1, <1>3, <1>5, <1>6, <1>7, Zenon DEF Divides
<1> QED BY <1>8 DEF ps

(* Plans divide the layers of any network into its longest chains without forks and joins. *)
THEOREM Plans == S!PlansAreChains
<1> SUFFICES ASSUME NEW g \in Network, NEW ps, ps = S!Partition(g)
             PROVE  /\ \A n \in S!ParamNodes(g) : \E i \in DOMAIN ps : n \in S!Range(ps[i])
                    /\ \A i, j \in DOMAIN ps : i # j => S!Range(ps[i]) \cap S!Range(ps[j]) = {}
                    /\ \A i \in DOMAIN ps :
                         \A k \in 1..Len(ps[i]) - 1 : Linked(g, ps[i][k], ps[i][k + 1])
                    /\ \A i, j \in DOMAIN ps : ~Linked(g, S!Last(ps[i]), Head(ps[j]))
    BY Zenon DEF S!PlansAreChains, Linked
<1>1. /\ Len(ps) \in Nat /\ DOMAIN ps = 1..Len(ps)
      /\ \A i \in 1..Len(ps) :
           /\ ps[i][1] \in S!Starts(g) /\ IsChain(g, ps[i][1], ps[i]) /\ Whole(g, ps[i])
           /\ DOMAIN ps[i] = 1..Len(ps[i])
           /\ \A a, b \in 1..Len(ps[i]) : ps[i][a] = ps[i][b] => a = b
      /\ \A i, j \in 1..Len(ps) : i # j => S!Range(ps[i]) \cap S!Range(ps[j]) = {}
      BY PlansAre, Zenon DEF Divides
<1>2. ASSUME NEW n \in S!ParamNodes(g) PROVE \E i \in DOMAIN ps : n \in S!Range(ps[i])
  <2>1. PICK s \in S!Starts(g) : \E k \in 1..Len(S!Chain(g, s)) : S!Chain(g, s)[k] = n
        BY ChainsCover
  <2>11. PICK k \in 1..Len(S!Chain(g, s)) : S!Chain(g, s)[k] = n
        BY <2>1
  <2>2. PICK i \in 1..Len(ps) : ps[i][1] = s /\ ps[i] = S!Chain(g, s)
        BY PartitionIs
  <2> QED BY <1>1, <2>11, <2>2 DEF S!Range
<1>3. ASSUME NEW i \in DOMAIN ps, NEW k \in 1..Len(ps[i]) - 1 PROVE Linked(g, ps[i][k], ps[i][k + 1])
      BY <1>1, <1>3 DEF IsChain
<1>4. ASSUME NEW i \in DOMAIN ps, NEW j \in DOMAIN ps PROVE ~Linked(g, S!Last(ps[i]), Head(ps[j]))
  <2>1. S!Last(ps[i]) = ps[i][Len(ps[i])]
        BY Zenon DEF S!Last
  <2>2. ps[j] \in Seq(S!ParamNodes(g)) /\ ps[j] # <<>>
        BY <1>1 DEF IsChain
  <2>3. Head(ps[j]) = ps[j][1] /\ ps[j][1] \in S!ParamNodes(g)
        BY <2>2
  <2> QED BY <1>1, <2>1, <2>3 DEF Whole
<1> QED BY <1>1, <1>2, <1>3, <1>4

-----------------------------------------------------------------------------
(* The registry *)
Whose == S!Range(NetOwner) \cup {S!Fresh}
IsLayer(l) == l = [form |-> l.form, of |-> l.of] /\ l.of \in Whose
AreLayers(mods) ==
  mods = [n \in DOMAIN mods |-> mods[n]] /\ \A n \in DOMAIN mods : IsLayer(mods[n])
IsSection(section) ==
  /\ section = [states |-> section.states, users |-> section.users, accuracy |-> section.accuracy]
  /\ IsFiniteSet(section.users) /\ section.accuracy \in Int
  /\ \A i \in DOMAIN section.states : IsLayer(section.states[i])
(* What is in memory and what is kept of it, but for keys that are pending. *)
Consistent(r, b, pending) ==
  /\ \A k \in DOMAIN r : IsSection(r[k]) /\ S!Key(k.dataset, r[k].states) = k
  /\ \A k \in DOMAIN b : k \in DOMAIN r /\ b[k].states = r[k].states
  /\ \A k \in DOMAIN r \ pending : k \in DOMAIN b <=> S!Kept(r[k])
  /\ \A k \in DOMAIN b \ pending : b[k] = r[k]

(* A section that gains a user or accuracy is kept if it was.                 *)
LEMMA BumpedIs ==
  ASSUME NEW section, IsSection(section), NEW user, NEW acc \in Int
  PROVE  LET bumped == S!Bumped(section, user, acc)
         IN  /\ IsSection(bumped) /\ bumped.states = section.states
             /\ S!Kept(section) => S!Kept(bumped)
<1> DEFINE bumped == S!Bumped(section, user, acc)
           more == section.users \cup {user}
           best == IF acc > section.accuracy THEN acc ELSE section.accuracy
<1>1. bumped = [states |-> section.states, users |-> more, accuracy |-> best]
  <2>1. section = [states |-> section.states, users |-> section.users, accuracy |-> section.accuracy]
        BY DEF IsSection
  <2>2. bumped = [section EXCEPT !.users = more, !.accuracy = best]
        BY <2>1, Zenon DEF S!Bumped
  <2> HIDE DEF more, best, bumped
  <2> QED BY <2>1, <2>2
<1>2. IsFiniteSet(more) /\ Cardinality(more) >= Cardinality(section.users)
  <2>1. IsFiniteSet(section.users)
        BY DEF IsSection
  <2>2. /\ IsFiniteSet(more)
        /\ Cardinality(more) = IF user \in section.users THEN Cardinality(section.users)
                               ELSE Cardinality(section.users) + 1
        BY <2>1, FS_AddElement
  <2>3. Cardinality(section.users) \in Nat
        BY <2>1, FS_CardinalityType
  <2> QED BY <2>2, <2>3
<1>3. best \in Int /\ best >= section.accuracy /\ section.accuracy \in Int
      BY DEF IsSection
<1>4. Cardinality(section.users) \in Nat /\ Cardinality(more) \in Nat
      BY <1>2, FS_CardinalityType DEF IsSection
<1>5. S!Cardinality(section.users) = Cardinality(section.users) /\ S!Cardinality(more) = Cardinality(more)
      BY Zenon DEF S!Cardinality, Cardinality
<1> HIDE DEF bumped, more, best
<1>6. bumped.states = section.states /\ bumped.users = more /\ bumped.accuracy = best
      BY <1>1
<1>7. IsSection(bumped)
      BY <1>1, <1>2, <1>3, <1>6 DEF IsSection
<1>8. S!Kept(section) => S!Kept(bumped)
      BY <1>2, <1>3, <1>4, <1>5, <1>6 DEF S!Kept, S!Enough
<1> QED BY <1>6, <1>7, <1>8 DEF bumped

(* A section that is made or gains a user goes to memory; what is kept of it is due. *)
LEMMA RememberedIs ==
  ASSUME NEW r, NEW b, Consistent(r, b, {}), NEW dataset, NEW user, NEW acc \in Int,
         NEW states, \A i \in DOMAIN states : IsLayer(states[i])
  PROVE  LET key == S!Key(dataset, states)
             new == S!Bumped(IF key \in DOMAIN r THEN r[key]
                             ELSE [states |-> states, users |-> {}, accuracy |-> 0], user, acc)
         IN  Consistent(S!Put(r, key, new), b, IF S!Kept(new) THEN {key} ELSE {})
<1> DEFINE key == S!Key(dataset, states)
           old == IF key \in DOMAIN r THEN r[key]
                  ELSE [states |-> states, users |-> {}, accuracy |-> 0]
           new == S!Bumped(old, user, acc)
           s == S!Put(r, key, new)
           pending == IF S!Kept(new) THEN {key} ELSE {}
<1>1. IsSection(old) /\ S!Key(key.dataset, old.states) = key
  <2>1. CASE key \in DOMAIN r
        BY <2>1 DEF Consistent
  <2>2. CASE key \notin DOMAIN r
    <3> DEFINE first == [states |-> states, users |-> {}, accuracy |-> 0]
    <3>1. old = first
          BY <2>2
    <3>2. first.states = states /\ first.users = {} /\ first.accuracy = 0
          BY Zenon
    <3>3. IsSection(first)
          BY <3>2, FS_EmptySet DEF IsSection
    <3>4. key.dataset = dataset
          BY DEF S!Key
    <3> HIDE DEF first, old
    <3> QED BY <3>1, <3>2, <3>3, <3>4
  <2> QED BY <2>1, <2>2
<1>2. key \in DOMAIN r => old = r[key]
      OBVIOUS
<1> HIDE DEF old, key
<1>3. IsSection(new) /\ new.states = old.states /\ (S!Kept(old) => S!Kept(new))
      BY <1>1, BumpedIs
<1> HIDE DEF new
<1>4. /\ DOMAIN s = DOMAIN r \cup {key}
      /\ \A k \in DOMAIN s : s[k] = IF k = key THEN new ELSE r[k]
      BY Zenon DEF S!Put
<1> HIDE DEF s
<1>5. \A k \in DOMAIN s : IsSection(s[k]) /\ S!Key(k.dataset, s[k].states) = k
      BY <1>1, <1>3, <1>4 DEF Consistent
<1>6. \A k \in DOMAIN b : k \in DOMAIN s /\ b[k].states = s[k].states
      BY <1>2, <1>3, <1>4 DEF Consistent
<1>7. ~S!Kept(new) => key \notin DOMAIN b
      BY <1>2, <1>3 DEF Consistent
<1>8. \A k \in DOMAIN s \ pending : k \in DOMAIN b <=> S!Kept(s[k])
      BY <1>4, <1>7 DEF Consistent
<1>9. \A k \in DOMAIN b \ pending : b[k] = s[k]
      BY <1>4, <1>7 DEF Consistent
<1> HIDE DEF pending
<1>10. Consistent(s, b, pending)
      BY <1>5, <1>6, <1>8, <1>9, Zenon DEF Consistent
<1> QED BY <1>10, Zenon DEF s, new, old, key, pending

(* What was due is kept as it is in memory.                                   *)
LEMMA PersistedIs ==
  ASSUME NEW r, NEW b, NEW key, Consistent(r, b, {key}), key \in DOMAIN r, S!Kept(r[key])
  PROVE  Consistent(r, S!Put(b, key, r[key]), {})
<1> DEFINE t == S!Put(b, key, r[key])
<1>1. /\ DOMAIN t = DOMAIN b \cup {key}
      /\ \A k \in DOMAIN t : t[k] = IF k = key THEN r[key] ELSE b[k]
      BY Zenon DEF S!Put
<1> HIDE DEF t
<1>2. \A k \in DOMAIN t : k \in DOMAIN r /\ t[k] = r[k]
      BY <1>1 DEF Consistent
<1>3. \A k \in DOMAIN r : k \in DOMAIN t <=> S!Kept(r[k])
      BY <1>1 DEF Consistent
<1>4. Consistent(r, t, {})
      BY <1>2, <1>3 DEF Consistent
<1> QED BY <1>4 DEF t

-----------------------------------------------------------------------------
(* What is loaded *)
(* What is found under a key, kept or in memory, has the weights that are in memory. *)
LEMMA HeldIs ==
  ASSUME NEW pending, Consistent(sRam, sBins, pending), NEW key
  PROVE  /\ S!Held(key) # <<>> <=> key \in DOMAIN sRam
         /\ S!Held(key) # <<>> => S!Held(key)[1].states = sRam[key].states
<1>1. \A x : <<x>> # <<>> /\ <<x>>[1] = x
      OBVIOUS
<1>2. CASE key \in DOMAIN sBins
  <2>1. S!Held(key) = <<sBins[key]>>
        BY <1>2, Zenon DEF S!Held
  <2> QED BY <1>1, <1>2, <2>1 DEF Consistent
<1>3. CASE key \notin DOMAIN sBins /\ key \in DOMAIN sRam
  <2>1. S!Held(key) = <<sRam[key]>>
        BY <1>3, Zenon DEF S!Held
  <2> QED BY <1>1, <1>3, <2>1
<1>4. CASE key \notin DOMAIN sBins /\ key \notin DOMAIN sRam
      BY <1>4, Zenon DEF S!Held
<1> QED BY <1>2, <1>3, <1>4

(* A section has as many layers as the prefix that it is found under.         *)
LEMMA StatesAre ==
  ASSUME NEW pending, Consistent(sRam, sBins, pending), NEW some, NEW d, NEW before \in Seq(some),
         NEW n \in 1..Len(before), S!Key(d, SubSeq(before, 1, n)) \in DOMAIN sRam
  PROVE  LET states == sRam[S!Key(d, SubSeq(before, 1, n))].states
         IN  DOMAIN states = 1..n /\ \A i \in 1..n : IsLayer(states[i])
<1> DEFINE sub == SubSeq(before, 1, n)
           key == S!Key(d, sub)
           st == sRam[key].states
<1>1. S!Key(key.dataset, st) = key /\ \A i \in DOMAIN st : IsLayer(st[i])
      BY DEF Consistent, IsSection
<1>2. DOMAIN sub = 1..n
      OBVIOUS
<1>3. key.kinds = [i \in DOMAIN sub |-> sub[i].form.kind]
      BY DEF S!Key
<1> HIDE DEF key, sub, st
<1>4. key.kinds = [i \in DOMAIN st |-> st[i].form.kind]
  <2>1. S!Key(key.dataset, st).kinds = [i \in DOMAIN st |-> st[i].form.kind]
        BY DEF S!Key
  <2> QED BY <1>1, <2>1
<1>5. DOMAIN st = DOMAIN sub
      BY <1>3, <1>4
<1> QED BY <1>1, <1>2, <1>5 DEF st, key, sub

(* The largest of some numbers is one of them.                                *)
LEMMA Largest == ASSUME NEW n \in Nat, NEW some, some \subseteq 0..n, some # {} PROVE S!Max(some) \in some
<1> DEFINE left == {n - x : x \in some}
<1>0. \A x \in some : x \in Nat /\ n - x \in Nat
      OBVIOUS
<1>1. left \subseteq Nat /\ left # {}
  <2>1. left \subseteq Nat
        BY <1>0
  <2>2. PICK x : x \in some
        OBVIOUS
  <2>3. n - x \in left
        BY <2>2
  <2> QED BY <2>1, <2>3
<1> HIDE DEF left
<1>2. PICK l \in left : \A m \in left : l <= m
      BY <1>1, Least
<1>3. PICK x \in some : l = n - x
      BY DEF left
<1>4. ASSUME NEW y \in some PROVE x >= y
  <2>1. n - y \in left
        BY DEF left
  <2>2. n - x <= n - y
        BY <1>2, <1>3, <2>1
  <2> QED BY <1>0, <2>2
<1>5. \E y \in some : \A z \in some : y >= z
      BY <1>4
<1> QED BY <1>5, Zenon DEF S!Max

(* Which layers of a chain take their state: all up to the first that does not fit. *)
Takes(states, before, k) ==
  k \in DOMAIN states /\ \A j \in 1..k - 1 : states[j].form = before[j].form
Taken(states, before, k) ==
  IF Takes(states, before, k) THEN [before[k] EXCEPT !.of = states[k].of] ELSE before[k]

(* A chain of layers takes a section, all others stay.                        *)
LEMMA AppliedIs ==
  ASSUME NEW mods, AreLayers(mods), NEW plan \in Seq(DOMAIN mods),
         \A a, b \in 1..Len(plan) : plan[a] = plan[b] => a = b,
         NEW states, \A i \in DOMAIN states : i \in 1..Len(plan) /\ IsLayer(states[i])
  PROVE  LET after == S!ApplySection(mods, plan, states)
             before == S!States(mods, plan)
         IN /\ AreLayers(after) /\ DOMAIN after = DOMAIN mods
            /\ \A m \in DOMAIN mods \ S!Range(plan) : after[m] = mods[m]
            /\ \A k \in 1..Len(plan) : after[plan[k]] = Taken(states, before, k)
<1> DEFINE before == S!States(mods, plan)
           after == S!ApplySection(mods, plan, states)
           fits(i) == states[i].form = mods[plan[i]].form
           loaded == {i \in DOMAIN states : \A j \in 1..i - 1 : fits(j)}
           chosen(m) == CHOOSE i \in loaded : plan[i] = m
<1>1. Len(plan) \in Nat /\ DOMAIN plan = 1..Len(plan) /\ \A i \in 1..Len(plan) : plan[i] \in DOMAIN mods
      OBVIOUS
<1>2. \A i \in 1..Len(plan) : before[i] = mods[plan[i]]
      BY <1>1 DEF S!States
<1>3. after = [m \in DOMAIN mods |-> IF \E i \in loaded : plan[i] = m
                                     THEN [mods[m] EXCEPT !.of = states[chosen(m)].of] ELSE mods[m]]
      BY Zenon DEF S!ApplySection
<1> HIDE DEF before, after, fits
<1>4. loaded \subseteq DOMAIN states
      OBVIOUS
<1>5. ASSUME NEW k \in 1..Len(plan) PROVE k \in loaded <=> Takes(states, before, k)
  <2>1. \A j \in 1..k - 1 : j \in 1..Len(plan) /\ before[j] = mods[plan[j]]
        BY <1>1, <1>2
  <2> QED BY <2>1 DEF Takes, fits
<1> HIDE DEF loaded
<1>6. ASSUME NEW m \in DOMAIN mods, NEW i \in loaded, plan[i] = m
      PROVE  after[m] = [mods[m] EXCEPT !.of = states[i].of]
  <2>1. chosen(m) \in loaded /\ plan[chosen(m)] = m
        BY <1>6
  <2> HIDE DEF chosen
  <2>2. i \in 1..Len(plan) /\ chosen(m) \in 1..Len(plan)
        BY <1>4, <2>1
  <2>3. chosen(m) = i
        BY <1>6, <2>1, <2>2
  <2> QED BY <1>3, <1>6, <2>3
<1> HIDE DEF chosen
<1>7. ASSUME NEW m \in DOMAIN mods, \A i \in loaded : plan[i] # m PROVE after[m] = mods[m]
      BY <1>3, <1>7
<1>8. DOMAIN after = DOMAIN mods /\ after = [m \in DOMAIN after |-> after[m]]
      BY <1>3
<1>9. ASSUME NEW m \in DOMAIN mods PROVE IsLayer(after[m])
  <2>1. mods[m] = [form |-> mods[m].form, of |-> mods[m].of] /\ mods[m].of \in Whose
        BY DEF AreLayers, IsLayer
  <2>2. CASE \E i \in loaded : plan[i] = m
    <3>1. PICK i \in loaded : plan[i] = m
          BY <2>2
    <3>2. after[m] = [mods[m] EXCEPT !.of = states[i].of] /\ IsLayer(states[i])
          BY <1>4, <1>6, <3>1
    <3>3. after[m] = [form |-> mods[m].form, of |-> states[i].of] /\ states[i].of \in Whose
          BY <2>1, <3>2 DEF IsLayer
    <3> QED BY <3>3 DEF IsLayer
  <2>3. CASE \A i \in loaded : plan[i] # m
    <3>1. after[m] = mods[m]
          BY <1>7, <2>3
    <3> QED BY <2>1, <3>1 DEF IsLayer
  <2> QED BY <2>2, <2>3
<1>10. AreLayers(after)
      BY <1>8, <1>9 DEF AreLayers
<1>11. ASSUME NEW m \in DOMAIN mods \ S!Range(plan) PROVE after[m] = mods[m]
  <2>1. \A i \in loaded : plan[i] # m
        BY <1>1, <1>4 DEF S!Range
  <2> QED BY <1>7, <2>1
<1>12. ASSUME NEW k \in 1..Len(plan) PROVE after[plan[k]] = Taken(states, before, k)
  <2>1. plan[k] \in DOMAIN mods /\ before[k] = mods[plan[k]]
        BY <1>1, <1>2
  <2>2. CASE k \in loaded
    <3>1. after[plan[k]] = [before[k] EXCEPT !.of = states[k].of]
          BY <1>6, <2>1, <2>2
    <3> QED BY <1>5, <2>2, <3>1, Zenon DEF Taken
  <2>3. CASE k \notin loaded
    <3>1. \A i \in loaded : plan[i] # plan[k]
          BY <1>4, <2>3
    <3>2. after[plan[k]] = before[k]
          BY <1>7, <2>1, <3>1
    <3> QED BY <1>5, <2>3, <3>2, Zenon DEF Taken
  <2> QED BY <2>2, <2>3
<1> QED BY <1>8, <1>10, <1>11, <1>12 DEF after, before

-----------------------------------------------------------------------------
(* The sections of a server *)
Stages == {"idle", "build", "match", "train", "ended", "register", "persist"}
OnLoop == {"register", "persist"}
Pending == {S!FullKey(c) : c \in {x \in NetContext : sStage[x] = "persist"}}

(* Of the prefixes that are not tried yet, one at least is as long as the longest that was there. *)
MatchInv(c) ==
  /\ sPlans[c] = S!Partition(sGraph[c])
  /\ sTried[c] \in Nat /\ sTried[c] < Len(S!Plan(c))
  /\ sLongest[c] \in Nat /\ sLongest[c] <= Len(S!Plan(c)) - sTried[c]
  /\ sLongest[c] # 0 => S!Prefix(c, sLongest[c]) \in DOMAIN sRam

ContextInv(c) ==
  /\ sStage[c] # "idle" => sGraph[c] \in Network
  /\ AreLayers(sModules[c])
  /\ sOptim[c] = [tensors |-> sOptim[c].tensors, nodes |-> sOptim[c].nodes]
  /\ sOptim[c].nodes \subseteq DOMAIN sModules[c]
  /\ sStage[c] \in {"match", "train"} => S!ParamNodes(sGraph[c]) \subseteq DOMAIN sModules[c]
  /\ Len(sPlans[c]) \in Nat /\ DOMAIN sPlans[c] = 1..Len(sPlans[c])
  /\ sStage[c] \in {"match", "register", "persist"} => sAt[c] \in DOMAIN sPlans[c]
  /\ sStage[c] = "match" => MatchInv(c)
  /\ sStage[c] = "persist" => S!FullKey(c) \in DOMAIN sRam /\ S!Kept(sRam[S!FullKey(c)])

SectionsTypes ==
  /\ sStage \in [NetContext -> Stages]
  /\ DOMAIN sGraph = NetContext /\ DOMAIN sStamp = NetContext /\ DOMAIN sModules = NetContext
  /\ DOMAIN sOptim = NetContext /\ DOMAIN sPlans = NetContext /\ sAccuracy \in [NetContext -> Int]
  /\ DOMAIN sAt = NetContext /\ DOMAIN sTried = NetContext /\ DOMAIN sLongest = NetContext

(* One context at a time registers. *)
OneBusy == \A x, y \in NetContext : sStage[x] \in OnLoop /\ sStage[y] \in OnLoop => x = y

SectionsInv ==
  /\ SectionsTypes /\ OneBusy
  /\ \A c \in NetContext : ContextInv(c)
  /\ Consistent(sRam, sBins, Pending)

(* What a step of another context leaves. *)
Same(x) ==
  /\ sStage'[x] = sStage[x] /\ sGraph'[x] = sGraph[x] /\ sStamp'[x] = sStamp[x]
  /\ sModules'[x] = sModules[x] /\ sOptim'[x] = sOptim[x] /\ sPlans'[x] = sPlans[x]
  /\ sAt'[x] = sAt[x] /\ sTried'[x] = sTried[x] /\ sLongest'[x] = sLongest[x]
OthersSame(c) == \A x \in NetContext \ {c} : Same(x)

LEMMA SectionsStart == S!Init => SectionsInv
<1> SUFFICES ASSUME S!Init PROVE SectionsInv
    OBVIOUS
<1>1. /\ sStage = [c \in NetContext |-> "idle"]
      /\ sGraph = [c \in NetContext |-> S!NoGraph]
      /\ sStamp = [c \in NetContext |-> Absence]
      /\ sModules = [c \in NetContext |-> <<>>]
      /\ sOptim = [c \in NetContext |-> S!NoOptimizer]
      /\ sPlans = [c \in NetContext |-> <<>>]
      /\ sAccuracy = [c \in NetContext |-> 0]
      /\ sAt = [c \in NetContext |-> 0] /\ sTried = [c \in NetContext |-> 0]
      /\ sLongest = [c \in NetContext |-> 0]
      /\ sRam = <<>> /\ sBins = <<>>
      BY Zenon DEF S!Init
<1>2. DOMAIN <<>> = {} /\ Len(<<>>) = 0 /\ 1..0 = {}
      OBVIOUS
<1>3. AreLayers(<<>>)
  <2>1. <<>> = [n \in DOMAIN <<>> |-> <<>>[n]]
        OBVIOUS
  <2> QED BY <1>2, <2>1 DEF AreLayers
<1>4. S!NoOptimizer = [tensors |-> 0, nodes |-> {}]
      BY DEF S!NoOptimizer
<1>5. Consistent(sRam, sBins, Pending)
      BY <1>1, <1>2 DEF Consistent
<1>6. SectionsTypes /\ OneBusy
      BY <1>1 DEF SectionsTypes, OneBusy, Stages, OnLoop
<1>7. ASSUME NEW c \in NetContext PROVE ContextInv(c)
  <2>1. /\ sStage[c] = "idle" /\ sModules[c] = <<>> /\ sPlans[c] = <<>>
        /\ sOptim[c] = [tensors |-> 0, nodes |-> {}]
        BY <1>1, <1>4
  <2> QED BY <1>2, <1>3, <2>1 DEF ContextInv
<1> QED BY <1>5, <1>6, <1>7 DEF SectionsInv

(* A context stays as it should while another takes a step.                   *)
LEMMA OthersStay ==
  ASSUME SectionsInv, NEW x \in NetContext, Same(x), DOMAIN sRam \subseteq DOMAIN sRam',
         sRam' = sRam \/ sStage[x] # "persist"
  PROVE  ContextInv(x)'
<1>1. S!Plan(x)' = S!Plan(x) /\ S!FullKey(x)' = S!FullKey(x)
      BY DEF Same, S!Plan, S!FullKey
<1>2. \A n : S!Prefix(x, n)' = S!Prefix(x, n)
      BY DEF Same, S!Plan, S!Prefix
<1>3. ContextInv(x)
      BY DEF SectionsInv
<1>4. sStage'[x] = "match" => MatchInv(x)'
      BY <1>1, <1>2, <1>3 DEF Same, ContextInv, MatchInv
<1> QED BY <1>1, <1>3, <1>4 DEF Same, ContextInv

(* What is due stays due while no context takes a section to the store.       *)
LEMMA PendingStays ==
  ASSUME SectionsInv, NEW c \in NetContext, sStage[c] # "persist", sStage'[c] # "persist", OthersSame(c)
  PROVE  Pending' = Pending
<1>1. ASSUME NEW x \in NetContext
      PROVE  /\ sStage'[x] = "persist" <=> sStage[x] = "persist"
             /\ sStage[x] = "persist" => S!FullKey(x)' = S!FullKey(x)
      BY DEF OthersSame, Same, S!FullKey, S!Plan
<1> QED BY <1>1 DEF Pending

(* A step of one context, that neither remembers nor persists.                *)
LEMMA StepOfOne ==
  ASSUME SectionsInv, NEW c \in NetContext, SectionsTypes', OthersSame(c), ContextInv(c)',
         sRam' = sRam, sBins' = sBins, sStage[c] # "persist", sStage'[c] # "persist",
         sStage'[c] \in OnLoop => \A x \in NetContext \ {c} : sStage[x] \notin OnLoop
  PROVE  SectionsInv'
<1>1. \A x \in NetContext : ContextInv(x)'
  <2>1. ASSUME NEW x \in NetContext \ {c} PROVE ContextInv(x)'
        BY <2>1, OthersStay DEF OthersSame
  <2> QED BY <2>1
<1>2. OneBusy'
      BY DEF OneBusy, OthersSame, Same, SectionsInv
<1>3. Consistent(sRam, sBins, Pending)'
  <2>1. Pending' = Pending
        BY PendingStays
  <2> QED BY <2>1 DEF SectionsInv, Consistent
<1> QED BY <1>1, <1>2, <1>3 DEF SectionsInv

LEMMA SectionsStarted ==
  ASSUME SectionsInv, NEW c \in NetContext, NEW g \in Network, NEW d, S!Start(c, g, d)
  PROVE  SectionsInv'
<1>1. /\ sStage[c] = "idle" /\ sStage' = [sStage EXCEPT ![c] = IF d = Absence THEN "ended" ELSE "build"]
      /\ sGraph' = [sGraph EXCEPT ![c] = g] /\ sStamp' = [sStamp EXCEPT ![c] = d]
      /\ sAccuracy' = [sAccuracy EXCEPT ![c] = IF d = Absence THEN @ ELSE 0]
      /\ sModules' = sModules /\ sOptim' = sOptim /\ sPlans' = sPlans /\ sRam' = sRam /\ sBins' = sBins
      /\ sAt' = sAt /\ sTried' = sTried /\ sLongest' = sLongest
      BY Zenon DEF S!Start
<1>2. SectionsTypes
      BY DEF SectionsInv
<1>3. SectionsTypes' /\ sStage'[c] \in {"ended", "build"} /\ sGraph'[c] = g
      BY <1>1, <1>2 DEF SectionsTypes, Stages
<1>4. OthersSame(c)
      BY <1>1, <1>2 DEF SectionsTypes, OthersSame, Same
<1>5. ContextInv(c)'
  <2>1. ContextInv(c)
        BY DEF SectionsInv
  <2> QED BY <1>1, <1>3, <2>1 DEF ContextInv
<1> QED BY <1>1, <1>3, <1>4, <1>5, StepOfOne DEF OnLoop

(* The layers of a network are built, and those that are there kept.           *)
LEMMA BuiltIs ==
  ASSUME NEW mods, AreLayers(mods), NEW g
  PROVE  LET built == S!Built(mods, g)
         IN AreLayers(built) /\ DOMAIN built = DOMAIN mods \cup S!ParamNodes(g)
<1> DEFINE built == S!Built(mods, g)
<1>1. built = [n \in DOMAIN mods \cup S!ParamNodes(g) |->
                 IF S!Keeps(mods, g, n) THEN mods[n] ELSE [form |-> g.layer[n], of |-> S!Fresh]]
      BY Zenon DEF S!Built
<1>2. ASSUME NEW n \in DOMAIN mods \cup S!ParamNodes(g) PROVE IsLayer(built[n])
  <2>1. CASE S!Keeps(mods, g, n)
    <3>1. n \in DOMAIN mods /\ built[n] = mods[n]
          BY <1>1, <2>1, Zenon DEF S!Keeps
    <3> QED BY <3>1 DEF AreLayers
  <2>2. CASE ~S!Keeps(mods, g, n)
    <3> DEFINE l == [form |-> g.layer[n], of |-> S!Fresh]
    <3>1. built[n] = l
          BY <1>1, <2>2
    <3>2. l.form = g.layer[n] /\ l.of = S!Fresh
          BY Zenon
    <3>3. l.of \in Whose
          BY <3>2 DEF Whose
    <3> QED BY <3>1, <3>2, <3>3 DEF IsLayer
  <2> QED BY <2>1, <2>2
<1>3. DOMAIN built = DOMAIN mods \cup S!ParamNodes(g) /\ built = [n \in DOMAIN built |-> built[n]]
      BY <1>1
<1> HIDE DEF built
<1>4. AreLayers(built)
      BY <1>2, <1>3 DEF AreLayers
<1> QED BY <1>3, <1>4 DEF built

(* The longest prefix that is registered is noted when a chain is to be matched. *)
LEMMA MatchNextIs ==
  ASSUME NEW c \in NetContext, NEW i \in Nat \ {0}, SectionsTypes, S!MatchNext(c, i),
         sGraph'[c] \in Network, sPlans'[c] = S!Partition(sGraph'[c])
  PROVE  /\ sStage' \in [NetContext -> Stages] /\ sStage'[c] \in {"match", "train"}
         /\ DOMAIN sAt' = NetContext /\ DOMAIN sTried' = NetContext /\ DOMAIN sLongest' = NetContext
         /\ sStage'[c] = "match" => sAt'[c] \in DOMAIN sPlans'[c] /\ MatchInv(c)'
         /\ sAt'[c] = i
         /\ \A x \in NetContext \ {c} : /\ sStage'[x] = sStage[x] /\ sAt'[x] = sAt[x]
                                       /\ sTried'[x] = sTried[x] /\ sLongest'[x] = sLongest[x]
<1> DEFINE more == i \in DOMAIN sPlans'[c]
<1>1. /\ sStage' = [sStage EXCEPT ![c] = IF more THEN "match" ELSE "train"]
      /\ sAt' = [sAt EXCEPT ![c] = i]
      /\ sTried' = [sTried EXCEPT ![c] = 0]
      /\ sLongest' = [sLongest EXCEPT ![c] = IF more THEN S!Longest(c)' ELSE 0]
      BY Zenon DEF S!MatchNext
<1> HIDE DEF more
<1>2. /\ sStage' \in [NetContext -> Stages] /\ sStage'[c] = IF more THEN "match" ELSE "train"
      /\ DOMAIN sAt' = NetContext /\ DOMAIN sTried' = NetContext /\ DOMAIN sLongest' = NetContext
      /\ sAt'[c] = i /\ sTried'[c] = 0 /\ (more => sLongest'[c] = S!Longest(c)')
      /\ \A x \in NetContext \ {c} : /\ sStage'[x] = sStage[x] /\ sAt'[x] = sAt[x]
                                    /\ sTried'[x] = sTried[x] /\ sLongest'[x] = sLongest[x]
      BY <1>1 DEF SectionsTypes, Stages
<1>3. ASSUME more PROVE sAt'[c] \in DOMAIN sPlans'[c] /\ MatchInv(c)'
  <2>1. sAt'[c] \in DOMAIN sPlans'[c] /\ S!Plan(c)' = sPlans'[c][i]
        BY <1>2, <1>3 DEF S!Plan, more
  <2>2. Len(S!Plan(c)') \in Nat /\ Len(S!Plan(c)') > 0 /\ DOMAIN S!Plan(c)' = 1..Len(S!Plan(c)')
    <3>1. Divides(sGraph'[c], sPlans'[c])
          BY PlansAre
    <3> QED BY <1>3, <2>1, <3>1 DEF Divides, IsChain, more
  <2> DEFINE known == {n \in DOMAIN S!Plan(c)' : S!Prefix(c, n)' \in DOMAIN sRam'}
             some == {0} \cup known
             top == Len(S!Plan(c)')
  <2>3. S!Longest(c)' = S!Max(some)
        BY Zenon DEF S!Longest
  <2>4. some \subseteq 0..top /\ some # {}
        BY <2>2
  <2> HIDE DEF known, some, top
  <2>5. S!Max(some) \in some
        BY <2>2, <2>4, Largest DEF top
  <2>6. sLongest'[c] \in some
        BY <1>2, <1>3, <2>3, <2>5
  <2>7. sLongest'[c] \in 0..top
        BY <2>4, <2>6
  <2>8. sLongest'[c] # 0 => S!Prefix(c, sLongest[c])' \in DOMAIN sRam'
    <3> SUFFICES ASSUME sLongest'[c] # 0 PROVE S!Prefix(c, sLongest[c])' \in DOMAIN sRam'
        OBVIOUS
    <3>1. sLongest'[c] \in known
          BY <2>6 DEF some
    <3> QED BY <3>1 DEF known, S!Prefix
  <2> QED BY <1>2, <2>1, <2>2, <2>7, <2>8 DEF MatchInv, top
<1> QED BY <1>2, <1>3

LEMMA SectionsBuilt ==
  ASSUME SectionsInv, NEW c \in NetContext, S!Build(c)
  PROVE  SectionsInv'
<1> DEFINE g == sGraph[c]
           built == S!Built(sModules[c], g)
           left == {n \in sOptim[c].nodes : S!Keeps(sModules[c], g, n)}
<1>1. /\ sStage[c] = "build"
      /\ sPlans' = [sPlans EXCEPT ![c] = S!Partition(g)]
      /\ sModules' = [sModules EXCEPT ![c] = S!Built(@, g)]
      /\ sOptim' = [sOptim EXCEPT ![c].nodes = {n \in @ : S!Keeps(sModules[c], g, n)}]
      /\ sGraph' = sGraph /\ sStamp' = sStamp /\ sAccuracy' = sAccuracy /\ sRam' = sRam /\ sBins' = sBins
      /\ S!MatchNext(c, 1)
      BY Zenon DEF S!Build
<1>2. SectionsTypes /\ g \in Network /\ AreLayers(sModules[c])
      BY <1>1 DEF SectionsInv, ContextInv
<1> HIDE DEF g
<1>3. AreLayers(built) /\ DOMAIN built = DOMAIN sModules[c] \cup S!ParamNodes(g)
      BY <1>2, BuiltIs
<1> HIDE DEF built
<1>4. sModules' = [sModules EXCEPT ![c] = built] /\ sOptim' = [sOptim EXCEPT ![c].nodes = left]
      BY <1>1, Zenon DEF built
<1> HIDE DEF left
<1>5. /\ DOMAIN sOptim' = NetContext
      /\ sOptim'[c] = [tensors |-> sOptim[c].tensors, nodes |-> left]
      /\ \A x \in NetContext \ {c} : sOptim'[x] = sOptim[x]
  <2>1. DOMAIN sOptim = NetContext /\ sOptim[c] = [tensors |-> sOptim[c].tensors, nodes |-> sOptim[c].nodes]
        BY DEF SectionsInv, SectionsTypes, ContextInv
  <2> QED BY <1>4, <2>1
<1>6. left \subseteq DOMAIN built
  <2>1. left \subseteq sOptim[c].nodes /\ sOptim[c].nodes \subseteq DOMAIN sModules[c]
        BY DEF left, SectionsInv, ContextInv
  <2> QED BY <1>3, <2>1
<1>7. /\ DOMAIN sModules' = NetContext /\ DOMAIN sPlans' = NetContext
      /\ sModules'[c] = built /\ sPlans'[c] = S!Partition(g) /\ sGraph'[c] = g
      /\ \A x \in NetContext \ {c} : sModules'[x] = sModules[x] /\ sPlans'[x] = sPlans[x]
      BY <1>1, <1>2, <1>4 DEF SectionsTypes, g
<1>8. /\ sStage' \in [NetContext -> Stages] /\ sStage'[c] \in {"match", "train"}
      /\ DOMAIN sAt' = NetContext /\ DOMAIN sTried' = NetContext /\ DOMAIN sLongest' = NetContext
      /\ sStage'[c] = "match" => sAt'[c] \in DOMAIN sPlans'[c] /\ MatchInv(c)'
      /\ \A x \in NetContext \ {c} : /\ sStage'[x] = sStage[x] /\ sAt'[x] = sAt[x]
                                    /\ sTried'[x] = sTried[x] /\ sLongest'[x] = sLongest[x]
      BY <1>1, <1>2, <1>7, MatchNextIs
<1>9. SectionsTypes'
      BY <1>1, <1>2, <1>5, <1>7, <1>8 DEF SectionsTypes
<1>10. OthersSame(c)
      BY <1>1, <1>5, <1>7, <1>8 DEF OthersSame, Same
<1>11. ContextInv(c)'
  <2>1. Len(sPlans'[c]) \in Nat /\ DOMAIN sPlans'[c] = 1..Len(sPlans'[c])
        BY <1>2, <1>7, PlansAre DEF Divides
  <2>2. sOptim'[c] = [tensors |-> sOptim'[c].tensors, nodes |-> sOptim'[c].nodes] /\ sOptim'[c].nodes = left
        BY <1>5
  <2>3. AreLayers(sModules[c])' /\ S!ParamNodes(sGraph[c])' \subseteq DOMAIN sModules'[c]
        BY <1>3, <1>7 DEF AreLayers, IsLayer
  <2> QED BY <1>2, <1>6, <1>7, <1>8, <2>1, <2>2, <2>3 DEF ContextInv
<1> QED BY <1>1, <1>8, <1>9, <1>10, <1>11, StepOfOne DEF OnLoop

(* The chain that is matched, and the length of it that is tried next.        *)
LEMMA TryIs ==
  ASSUME SectionsInv, NEW c \in NetContext, sStage[c] = "match"
  PROVE  LET plan == S!Plan(c)
             n == S!Length(c)
         IN /\ plan \in Seq(DOMAIN sModules[c]) /\ sAt[c] \in Nat \ {0}
            /\ \A a, b \in 1..Len(plan) : plan[a] = plan[b] => a = b
            /\ n = Len(plan) - sTried[c] /\ n \in 1..Len(plan) /\ sLongest[c] \in 0..n
            /\ S!Found(c) # <<>> <=> S!Prefix(c, n) \in DOMAIN sRam
            /\ S!Found(c) # <<>> =>
                 LET states == S!Found(c)[1].states
                 IN /\ states = sRam[S!Prefix(c, n)].states /\ DOMAIN states = 1..n
                    /\ \A i \in 1..n : IsLayer(states[i])
<1> DEFINE plan == S!Plan(c)
           n == S!Length(c)
           g == sGraph[c]
           before == S!States(sModules[c], plan)
<1>1. /\ g \in Network /\ S!ParamNodes(g) \subseteq DOMAIN sModules[c] /\ MatchInv(c)
      /\ sAt[c] \in DOMAIN sPlans[c] /\ AreLayers(sModules[c])
      BY DEF SectionsInv, ContextInv
<1>2. Divides(g, sPlans[c])
      BY <1>1, PlansAre DEF MatchInv
<1>3. plan = sPlans[c][sAt[c]]
      BY DEF S!Plan
<1>4. /\ plan \in Seq(S!ParamNodes(g)) /\ DOMAIN plan = 1..Len(plan) /\ Len(plan) \in Nat
      /\ \A a, b \in 1..Len(plan) : plan[a] = plan[b] => a = b
      /\ sAt[c] \in Nat \ {0}
      BY <1>1, <1>2, <1>3 DEF Divides, IsChain
<1>5. plan \in Seq(DOMAIN sModules[c])
      BY <1>1, <1>4
<1>6. sTried[c] \in Nat /\ sTried[c] < Len(plan) /\ sLongest[c] \in Nat /\ sLongest[c] <= Len(plan) - sTried[c]
      BY <1>1 DEF MatchInv
<1>7. n = S!Tried(Len(plan))[sTried[c] + 1]
      BY Zenon DEF S!Length
<1> HIDE DEF plan, n
<1>8. n = Len(plan) - sTried[c] /\ n \in 1..Len(plan) /\ sLongest[c] \in 0..n
  <2>1. sTried[c] + 1 \in 1..Len(plan)
        BY <1>4, <1>6
  <2>2. n = Len(plan) + 1 - (sTried[c] + 1)
        BY <1>7, <2>1 DEF S!Tried
  <2> QED BY <1>4, <1>6, <2>2
<1>9. before \in Seq({sModules[c][m] : m \in DOMAIN sModules[c]}) /\ Len(before) = Len(plan)
      BY <1>4, <1>5 DEF S!States
<1>10. S!Prefix(c, n) = S!Key(sStamp[c], SubSeq(before, 1, n))
      BY Zenon DEF S!Prefix, plan
<1>11. S!Found(c) = S!Held(S!Prefix(c, n))
      BY Zenon DEF S!Found, n
<1>12. Consistent(sRam, sBins, Pending)
      BY DEF SectionsInv
<1> HIDE DEF before
<1>13. /\ S!Found(c) # <<>> <=> S!Prefix(c, n) \in DOMAIN sRam
       /\ S!Found(c) # <<>> => S!Found(c)[1].states = sRam[S!Prefix(c, n)].states
      BY <1>11, <1>12, HeldIs
<1>14. ASSUME S!Prefix(c, n) \in DOMAIN sRam
       PROVE  /\ DOMAIN sRam[S!Prefix(c, n)].states = 1..n
              /\ \A i \in 1..n : IsLayer(sRam[S!Prefix(c, n)].states[i])
  <2> DEFINE values == {sModules[c][m] : m \in DOMAIN sModules[c]}
  <2>1. before \in Seq(values) /\ n \in 1..Len(before)
        BY <1>8, <1>9
  <2> HIDE DEF values
  <2>2. S!Key(sStamp[c], SubSeq(before, 1, n)) \in DOMAIN sRam
        BY <1>10, <1>14
  <2> DEFINE states == sRam[S!Key(sStamp[c], SubSeq(before, 1, n))].states
  <2>3. DOMAIN states = 1..n /\ \A i \in 1..n : IsLayer(states[i])
        BY <1>12, <2>1, <2>2, StatesAre, Zenon
  <2>4. sRam[S!Prefix(c, n)].states = states
        BY <1>10
  <2> HIDE DEF states
  <2> QED BY <2>3, <2>4
<1> QED BY <1>4, <1>5, <1>8, <1>13, <1>14 DEF plan, n

(* A step of the matching that goes on to the next chain.                     *)
LEMMA MatchedOne ==
  ASSUME SectionsInv, NEW c \in NetContext, sStage[c] = "match", S!MatchNext(c, sAt[c] + 1),
         DOMAIN sModules' = NetContext, \A x \in NetContext \ {c} : sModules'[x] = sModules[x],
         NEW after, AreLayers(after), DOMAIN after = DOMAIN sModules[c], sModules'[c] = after,
         UNCHANGED <<sGraph, sStamp, sOptim, sPlans, sAccuracy, sEpochs, sRam, sBins, sTrainings>>
  PROVE  SectionsInv' /\ sAt'[c] = sAt[c] + 1
<1>1. /\ SectionsTypes /\ ContextInv(c) /\ MatchInv(c) /\ sGraph[c] \in Network
      BY DEF SectionsInv, ContextInv
<1>2. sAt[c] + 1 \in Nat \ {0}
      BY TryIs
<1>3. sGraph'[c] \in Network /\ sPlans'[c] = S!Partition(sGraph'[c])
      BY <1>1 DEF MatchInv
<1>4. /\ sStage' \in [NetContext -> Stages] /\ sStage'[c] \in {"match", "train"}
      /\ DOMAIN sAt' = NetContext /\ DOMAIN sTried' = NetContext /\ DOMAIN sLongest' = NetContext
      /\ sStage'[c] = "match" => sAt'[c] \in DOMAIN sPlans'[c] /\ MatchInv(c)'
      /\ sAt'[c] = sAt[c] + 1
      /\ \A x \in NetContext \ {c} : /\ sStage'[x] = sStage[x] /\ sAt'[x] = sAt[x]
                                    /\ sTried'[x] = sTried[x] /\ sLongest'[x] = sLongest[x]
      BY <1>1, <1>2, <1>3, MatchNextIs
<1>6. SectionsTypes'
      BY <1>1, <1>4 DEF SectionsTypes
<1>7. OthersSame(c)
      BY <1>4 DEF OthersSame, Same
<1>8. ContextInv(c)'
  <2>1. AreLayers(sModules[c])'
        BY DEF AreLayers, IsLayer
  <2>2. /\ sOptim[c].nodes \subseteq DOMAIN sModules'[c]
        /\ S!ParamNodes(sGraph[c]) \subseteq DOMAIN sModules'[c]
        BY <1>1 DEF ContextInv
  <2> QED BY <1>1, <1>3, <1>4, <2>1, <2>2 DEF ContextInv
<1> QED BY <1>4, <1>6, <1>7, <1>8, StepOfOne DEF OnLoop

LEMMA SectionsHit ==
  ASSUME SectionsInv, NEW c \in NetContext, S!Hit(c)
  PROVE  LET plan == S!Plan(c)
             before == S!States(sModules[c], plan)
             states == sRam[S!Prefix(c, S!Length(c))].states
         IN /\ SectionsInv' /\ S!Prefix(c, S!Length(c)) \in DOMAIN sRam
            /\ \A m \in DOMAIN sModules[c] \ S!Range(plan) : sModules'[c][m] = sModules[c][m]
            /\ \A k \in 1..Len(plan) : sModules'[c][plan[k]] = Taken(states, before, k)
            /\ DOMAIN states = 1..S!Length(c)
<1> DEFINE plan == S!Plan(c)
           states == S!Found(c)[1].states
           after == S!ApplySection(sModules[c], plan, states)
<1>1. /\ sStage[c] = "match" /\ S!Found(c) # <<>> /\ S!MatchNext(c, sAt[c] + 1)
      /\ sModules' = [sModules EXCEPT ![c] = S!ApplySection(@, S!Plan(c), S!Found(c)[1].states)]
      /\ UNCHANGED <<sGraph, sStamp, sOptim, sPlans, sAccuracy, sEpochs, sRam, sBins, sTrainings>>
      BY Zenon DEF S!Hit
<1>2. /\ plan \in Seq(DOMAIN sModules[c])
      /\ \A a, b \in 1..Len(plan) : plan[a] = plan[b] => a = b
      /\ S!Length(c) \in 1..Len(plan) /\ S!Prefix(c, S!Length(c)) \in DOMAIN sRam
      /\ states = sRam[S!Prefix(c, S!Length(c))].states /\ DOMAIN states = 1..S!Length(c)
      /\ \A i \in 1..S!Length(c) : IsLayer(states[i])
      BY <1>1, TryIs
<1>3. AreLayers(sModules[c]) /\ DOMAIN sModules = NetContext
      BY DEF SectionsInv, SectionsTypes, ContextInv
<1>4. sModules' = [sModules EXCEPT ![c] = after]
      BY <1>1, Zenon
<1>5. \A i \in DOMAIN states : i \in 1..Len(plan) /\ IsLayer(states[i])
  <2>1. Len(plan) \in Nat
        BY <1>2
  <2> HIDE DEF plan, states
  <2> QED BY <1>2, <2>1
<1> HIDE DEF plan, states
<1>6. /\ AreLayers(after) /\ DOMAIN after = DOMAIN sModules[c]
      /\ \A m \in DOMAIN sModules[c] \ S!Range(plan) : after[m] = sModules[c][m]
      /\ \A k \in 1..Len(plan) : after[plan[k]] = Taken(states, S!States(sModules[c], plan), k)
      BY <1>2, <1>3, <1>5, AppliedIs
<1> HIDE DEF after
<1>7. /\ DOMAIN sModules' = NetContext /\ sModules'[c] = after
      /\ \A x \in NetContext \ {c} : sModules'[x] = sModules[x]
      BY <1>3, <1>4
<1>8. SectionsInv'
      BY <1>1, <1>6, <1>7, MatchedOne
<1> QED BY <1>2, <1>6, <1>7, <1>8 DEF plan

LEMMA SectionsMissed ==
  ASSUME SectionsInv, NEW c \in NetContext, S!Miss(c)
  PROVE  /\ SectionsInv' /\ sModules' = sModules
         /\ sAt'[c] # sAt[c] => sLongest[c] = 0
<1> DEFINE len == Len(S!Plan(c))
<1>1. /\ sStage[c] = "match" /\ S!Found(c) = <<>>
      /\ UNCHANGED <<sGraph, sStamp, sModules, sOptim, sPlans, sAccuracy, sEpochs, sRam, sBins, sTrainings>>
      /\ IF sTried[c] + 1 < len
         THEN /\ sTried' = [sTried EXCEPT ![c] = @ + 1]
              /\ sStage' = sStage /\ sAt' = sAt /\ sLongest' = sLongest
         ELSE S!MatchNext(c, sAt[c] + 1)
      BY Zenon DEF S!Miss
<1>2. /\ SectionsTypes /\ ContextInv(c) /\ MatchInv(c)
      BY <1>1 DEF SectionsInv, ContextInv
<1>3. len \in Nat /\ sTried[c] \in Nat /\ sTried[c] < len /\ sLongest[c] \in Nat
  <2>1. S!Plan(c) \in Seq(DOMAIN sModules[c])
        BY <1>1, TryIs
  <2> QED BY <1>2, <2>1 DEF MatchInv
<1>4. sLongest[c] <= len - (sTried[c] + 1)
  <2>1. /\ S!Length(c) = len - sTried[c] /\ sLongest[c] \in 0..S!Length(c)
        /\ S!Prefix(c, S!Length(c)) \notin DOMAIN sRam
        BY <1>1, TryIs
  <2>2. sLongest[c] # 0 => S!Prefix(c, sLongest[c]) \in DOMAIN sRam
        BY <1>2 DEF MatchInv
  <2>3. sLongest[c] # S!Length(c)
    <3>1. S!Length(c) # 0
          BY <1>3, <2>1
    <3> QED BY <2>1, <2>2, <3>1
  <2> QED BY <1>3, <2>1, <2>3
<1>5. CASE sTried[c] + 1 < len
  <2>1. /\ SectionsTypes' /\ OthersSame(c) /\ sTried'[c] = sTried[c] + 1
        BY <1>1, <1>2, <1>5 DEF SectionsTypes, OthersSame, Same
  <2>2. S!Plan(c)' = S!Plan(c) /\ S!Prefix(c, sLongest[c])' = S!Prefix(c, sLongest[c])
        BY <1>1, <1>5 DEF S!Plan, S!Prefix
  <2> HIDE DEF len
  <2>3. MatchInv(c)'
        BY <1>1, <1>2, <1>3, <1>4, <1>5, <2>1, <2>2 DEF MatchInv, len
  <2>4. ContextInv(c)'
        BY <1>1, <1>2, <1>5, <2>3 DEF ContextInv
  <2>5. SectionsInv'
        BY <1>1, <1>5, <2>1, <2>4, StepOfOne DEF OnLoop
  <2> QED BY <1>1, <1>5, <2>5
<1>6. CASE ~(sTried[c] + 1 < len)
  <2>1. sLongest[c] = 0
        BY <1>3, <1>4, <1>6
  <2>2. /\ DOMAIN sModules' = NetContext
        /\ \A x \in NetContext \ {c} : sModules'[x] = sModules[x]
        BY <1>1, <1>2 DEF SectionsTypes
  <2> DEFINE mods == sModules[c]
  <2>3. AreLayers(mods) /\ DOMAIN mods = DOMAIN sModules[c] /\ sModules'[c] = mods
        BY <1>1, <1>2 DEF ContextInv
  <2>4. S!MatchNext(c, sAt[c] + 1)
        BY <1>1, <1>6
  <2> HIDE DEF mods, len
  <2>5. SectionsInv'
        BY <1>1, <2>2, <2>3, <2>4, MatchedOne
  <2> QED BY <1>1, <2>1, <2>5
<1> QED BY <1>5, <1>6

LEMMA SectionsEnded ==
  ASSUME SectionsInv, NEW c \in NetContext, S!EndTraining(c)
  PROVE  SectionsInv'
<1>1. /\ sStage[c] = "train" /\ sStage' = [sStage EXCEPT ![c] = "ended"]
      /\ sGraph' = sGraph /\ sStamp' = sStamp /\ sModules' = sModules /\ sOptim' = sOptim
      /\ sPlans' = sPlans /\ sAccuracy' = sAccuracy /\ sRam' = sRam /\ sBins' = sBins
      /\ sAt' = sAt /\ sTried' = sTried /\ sLongest' = sLongest
      BY Zenon DEF S!EndTraining
<1>2. SectionsTypes /\ ContextInv(c)
      BY DEF SectionsInv
<1>3. SectionsTypes' /\ sStage'[c] = "ended" /\ OthersSame(c)
      BY <1>1, <1>2 DEF SectionsTypes, Stages, OthersSame, Same
<1>4. ContextInv(c)'
      BY <1>1, <1>2, <1>3 DEF ContextInv
<1> QED BY <1>1, <1>3, <1>4, StepOfOne DEF OnLoop

LEMMA SectionsTrained ==
  ASSUME SectionsInv, NEW c \in NetContext, NEW acc \in Int, S!Epoch(c, acc)
  PROVE  SectionsInv'
<1> DEFINE made == S!Optimizer(c)
           learn == S!ParamNodes(sGraph[c]) \cap made.nodes
           after == [n \in DOMAIN sModules[c] |->
                       IF n \in learn THEN [sModules[c][n] EXCEPT !.of = NetOwner[c]] ELSE sModules[c][n]]
<1>1. /\ sStage[c] = "train" /\ sStage' = sStage /\ sGraph' = sGraph /\ sStamp' = sStamp
      /\ sPlans' = sPlans /\ sRam' = sRam /\ sBins' = sBins
      /\ sAt' = sAt /\ sTried' = sTried /\ sLongest' = sLongest
      /\ sOptim' = [sOptim EXCEPT ![c] = made]
      /\ sModules' = [sModules EXCEPT ![c] = [n \in DOMAIN @ |->
             IF n \in learn THEN [@[n] EXCEPT !.of = NetOwner[c]] ELSE @[n]]]
      /\ sAccuracy' = [sAccuracy EXCEPT ![c] = IF acc > @ THEN acc ELSE @]
      BY Zenon DEF S!Epoch
<1>2. SectionsTypes /\ ContextInv(c) /\ AreLayers(sModules[c])
      BY DEF SectionsInv, ContextInv
<1>3. made = [tensors |-> made.tensors, nodes |-> made.nodes] /\ made.nodes \subseteq DOMAIN sModules[c]
  <2>1. made = sOptim[c] \/ made = [tensors |-> S!Tensors(sModules[c]), nodes |-> DOMAIN sModules[c]]
        BY Zenon DEF S!Optimizer
  <2>2. sOptim[c] = [tensors |-> sOptim[c].tensors, nodes |-> sOptim[c].nodes]
        /\ sOptim[c].nodes \subseteq DOMAIN sModules[c]
        BY <1>2 DEF ContextInv
  <2> HIDE DEF made
  <2> QED BY <2>1, <2>2
<1> HIDE DEF learn, made
<1>4. /\ DOMAIN sModules' = NetContext /\ sModules'[c] = after
      /\ \A x \in NetContext \ {c} : sModules'[x] = sModules[x]
      BY <1>1, <1>2 DEF SectionsTypes
<1>5. AreLayers(after) /\ DOMAIN after = DOMAIN sModules[c]
  <2>1. NetOwner[c] \in Whose
        BY NetworkAssumption DEF Whose, S!Range
  <2>2. ASSUME NEW n \in DOMAIN sModules[c] PROVE IsLayer(after[n])
    <3>1. sModules[c][n] = [form |-> sModules[c][n].form, of |-> sModules[c][n].of]
          /\ sModules[c][n].of \in Whose
          BY <1>2 DEF AreLayers, IsLayer
    <3>2. CASE n \in learn
      <4>1. after[n] = [form |-> sModules[c][n].form, of |-> NetOwner[c]]
            BY <3>1, <3>2
      <4> QED BY <2>1, <4>1 DEF IsLayer
    <3>3. CASE n \notin learn
          BY <3>1, <3>3 DEF IsLayer
    <3> QED BY <3>2, <3>3
  <2>3. DOMAIN after = DOMAIN sModules[c] /\ after = [n \in DOMAIN after |-> after[n]]
        OBVIOUS
  <2> HIDE DEF after
  <2> QED BY <2>2, <2>3 DEF AreLayers
<1> HIDE DEF after
<1>6. /\ DOMAIN sOptim' = NetContext /\ sOptim'[c] = made
      /\ \A x \in NetContext \ {c} : sOptim'[x] = sOptim[x]
      BY <1>1, <1>2 DEF SectionsTypes
<1>7. SectionsTypes'
      BY <1>1, <1>2, <1>4, <1>6 DEF SectionsTypes
<1>8. OthersSame(c)
      BY <1>1, <1>4, <1>6 DEF OthersSame, Same
<1>9. ContextInv(c)'
  <2>1. AreLayers(sModules[c])'
        BY <1>4, <1>5 DEF AreLayers, IsLayer
  <2>2. /\ sOptim'[c] = [tensors |-> sOptim'[c].tensors, nodes |-> sOptim'[c].nodes]
        /\ sOptim'[c].nodes \subseteq DOMAIN sModules'[c]
        /\ S!ParamNodes(sGraph[c]) \subseteq DOMAIN sModules'[c]
        BY <1>1, <1>2, <1>3, <1>4, <1>5, <1>6 DEF ContextInv
  <2> QED BY <1>1, <1>2, <2>1, <2>2 DEF ContextInv
<1> QED BY <1>1, <1>7, <1>8, <1>9, StepOfOne DEF OnLoop

(* The next chain is registered, or the context is free.                      *)
LEMMA RegisterNextIs ==
  ASSUME SectionsInv, NEW c \in NetContext, NEW i, S!RegisterNext(c, i)
  PROVE  /\ sStage' \in [NetContext -> Stages] /\ sStage'[c] \in {"register", "idle"}
         /\ DOMAIN sAt' = NetContext
         /\ sStage'[c] = "register" => sAt'[c] \in DOMAIN sPlans'[c]
         /\ \A x \in NetContext \ {c} : sStage'[x] = sStage[x] /\ sAt'[x] = sAt[x]
         /\ sGraph' = sGraph /\ sStamp' = sStamp /\ sModules' = sModules /\ sOptim' = sOptim
         /\ sAccuracy' = sAccuracy /\ sTried' = sTried /\ sLongest' = sLongest
<1> DEFINE more == i \in DOMAIN sPlans'[c]
<1>1. /\ sStage' = [sStage EXCEPT ![c] = IF more THEN "register" ELSE "idle"]
      /\ sAt' = [sAt EXCEPT ![c] = i]
      /\ sGraph' = sGraph /\ sStamp' = sStamp /\ sModules' = sModules /\ sOptim' = sOptim
      /\ sAccuracy' = sAccuracy /\ sTried' = sTried /\ sLongest' = sLongest
      BY Zenon DEF S!RegisterNext
<1>2. SectionsTypes
      BY DEF SectionsInv
<1> HIDE DEF more
<1>3. sStage'[c] = (IF more THEN "register" ELSE "idle") /\ sAt'[c] = i
      BY <1>1, <1>2 DEF SectionsTypes
<1>4. more => sAt'[c] \in DOMAIN sPlans'[c]
      BY <1>3 DEF more
<1> QED BY <1>1, <1>2, <1>3, <1>4 DEF SectionsTypes, Stages

LEMMA SectionsRegistered ==
  ASSUME SectionsInv, NEW c \in NetContext, S!Register(c)
  PROVE  SectionsInv'
<1> DEFINE ps == IF sPlans[c] = <<>> THEN S!Partition(sGraph[c]) ELSE sPlans[c]
<1>1. /\ sStage[c] = "ended" /\ ~S!Registering /\ S!RegisterNext(c, 1)
      /\ sPlans' = [sPlans EXCEPT ![c] = IF @ = <<>> THEN S!Partition(sGraph[c]) ELSE @]
      /\ sRam' = sRam /\ sBins' = sBins
      BY Zenon DEF S!Register
<1>2. SectionsTypes /\ ContextInv(c)
      BY DEF SectionsInv
<1>3. \A x \in NetContext : sStage[x] \notin OnLoop
      BY <1>1 DEF S!Registering, OnLoop
<1>4. Len(ps) \in Nat /\ DOMAIN ps = 1..Len(ps)
  <2>1. CASE sPlans[c] = <<>>
    <3>1. Divides(sGraph[c], S!Partition(sGraph[c]))
          BY <1>1, <1>2, PlansAre DEF ContextInv
    <3> QED BY <2>1, <3>1 DEF Divides
  <2>2. CASE sPlans[c] # <<>>
        BY <1>2, <2>2 DEF ContextInv
  <2> QED BY <2>1, <2>2
<1>5. sPlans' = [sPlans EXCEPT ![c] = ps]
      BY <1>1, Zenon
<1> HIDE DEF ps
<1>6. DOMAIN sPlans' = NetContext /\ sPlans'[c] = ps /\ \A x \in NetContext \ {c} : sPlans'[x] = sPlans[x]
      BY <1>2, <1>5 DEF SectionsTypes
<1>7. /\ sStage' \in [NetContext -> Stages] /\ sStage'[c] \in {"register", "idle"}
      /\ DOMAIN sAt' = NetContext
      /\ sStage'[c] = "register" => sAt'[c] \in DOMAIN sPlans'[c]
      /\ \A x \in NetContext \ {c} : sStage'[x] = sStage[x] /\ sAt'[x] = sAt[x]
      /\ sGraph' = sGraph /\ sStamp' = sStamp /\ sModules' = sModules /\ sOptim' = sOptim
      /\ sAccuracy' = sAccuracy /\ sTried' = sTried /\ sLongest' = sLongest
      BY <1>1, RegisterNextIs
<1>8. SectionsTypes' /\ OthersSame(c)
      BY <1>2, <1>6, <1>7 DEF SectionsTypes, OthersSame, Same
<1>9. ContextInv(c)'
      BY <1>1, <1>2, <1>4, <1>6, <1>7 DEF ContextInv
<1> QED BY <1>1, <1>3, <1>7, <1>8, <1>9, StepOfOne

LEMMA SectionsSkipped ==
  ASSUME SectionsInv, NEW c \in NetContext, S!Skip(c)
  PROVE  SectionsInv'
<1>1. /\ sStage[c] = "register" /\ S!RegisterNext(c, sAt[c] + 1)
      /\ sPlans' = sPlans /\ sRam' = sRam /\ sBins' = sBins
      BY Zenon DEF S!Skip
<1>2. SectionsTypes /\ ContextInv(c)
      BY DEF SectionsInv
<1>3. /\ sStage' \in [NetContext -> Stages] /\ sStage'[c] \in {"register", "idle"}
      /\ DOMAIN sAt' = NetContext
      /\ sStage'[c] = "register" => sAt'[c] \in DOMAIN sPlans'[c]
      /\ \A x \in NetContext \ {c} : sStage'[x] = sStage[x] /\ sAt'[x] = sAt[x]
      /\ sGraph' = sGraph /\ sStamp' = sStamp /\ sModules' = sModules /\ sOptim' = sOptim
      /\ sAccuracy' = sAccuracy /\ sTried' = sTried /\ sLongest' = sLongest
      BY <1>1, RegisterNextIs
<1>4. SectionsTypes' /\ OthersSame(c)
      BY <1>1, <1>2, <1>3 DEF SectionsTypes, OthersSame, Same
<1>5. ContextInv(c)'
      BY <1>1, <1>2, <1>3 DEF ContextInv
<1>6. \A x \in NetContext \ {c} : sStage[x] \notin OnLoop
      BY <1>1 DEF SectionsInv, OneBusy, OnLoop
<1> QED BY <1>1, <1>3, <1>4, <1>5, <1>6, StepOfOne

(* A section goes to memory, and is due to be kept if it is good enough.      *)
LEMMA SectionsRemembered ==
  ASSUME SectionsInv, NEW c \in NetContext, S!Remember(c)
  PROVE  SectionsInv'
<1> DEFINE key == S!FullKey(c)
           new == S!Section(c)
           states == S!States(sModules[c], S!Plan(c))
<1>1. /\ sStage[c] = "register" /\ S!Range(S!Plan(c)) \subseteq DOMAIN sModules[c]
      /\ sRam' = S!Put(sRam, key, new) /\ sPlans' = sPlans /\ sBins' = sBins
      /\ IF S!Kept(new)
         THEN /\ sStage' = [sStage EXCEPT ![c] = "persist"]
              /\ sGraph' = sGraph /\ sStamp' = sStamp /\ sModules' = sModules /\ sOptim' = sOptim
              /\ sAccuracy' = sAccuracy /\ sAt' = sAt /\ sTried' = sTried /\ sLongest' = sLongest
         ELSE S!RegisterNext(c, sAt[c] + 1)
      BY Zenon DEF S!Remember
<1>2. SectionsTypes /\ ContextInv(c)
      BY DEF SectionsInv
<1>3. \A x \in NetContext \ {c} : sStage[x] \notin OnLoop
      BY <1>1 DEF SectionsInv, OneBusy, OnLoop
<1>4. key = S!Key(sStamp[c], states)
      BY Zenon DEF S!FullKey
<1>5. new = S!Bumped(IF key \in DOMAIN sRam THEN sRam[key]
                     ELSE [states |-> states, users |-> {}, accuracy |-> 0], NetOwner[c], sAccuracy[c])
      BY Zenon DEF S!Section
<1>6. \A i \in DOMAIN states : IsLayer(states[i])
      BY <1>1, <1>2 DEF S!States, S!Range, ContextInv, AreLayers
<1>7. sAccuracy[c] \in Int
      BY <1>2 DEF SectionsTypes
<1> HIDE DEF key, new, states
<1>8. Consistent(sRam, sBins, {})
  <2>1. Pending = {}
        BY <1>1, <1>3 DEF Pending, OnLoop
  <2> QED BY <2>1 DEF SectionsInv
<1>9. Consistent(S!Put(sRam, key, new), sBins, IF S!Kept(new) THEN {key} ELSE {})
      BY <1>4, <1>5, <1>6, <1>7, <1>8, RememberedIs
<1>10. DOMAIN sRam' = DOMAIN sRam \cup {key} /\ sRam'[key] = new
       BY <1>1 DEF S!Put
<1>11. /\ sStage' \in [NetContext -> Stages] /\ DOMAIN sAt' = NetContext
       /\ sStage'[c] \in {"register", "idle", "persist"} /\ (sStage'[c] = "persist" <=> S!Kept(new))
       /\ sStage'[c] \in {"register", "persist"} => sAt'[c] \in DOMAIN sPlans'[c]
       /\ S!Kept(new) => sAt' = sAt
       /\ \A x \in NetContext \ {c} : sStage'[x] = sStage[x] /\ sAt'[x] = sAt[x]
       /\ sGraph' = sGraph /\ sStamp' = sStamp /\ sModules' = sModules /\ sOptim' = sOptim
       /\ sAccuracy' = sAccuracy /\ sTried' = sTried /\ sLongest' = sLongest
  <2>1. CASE S!Kept(new)
    <3>1. sAt[c] \in DOMAIN sPlans[c]
          BY <1>1, <1>2 DEF ContextInv
    <3> QED BY <1>1, <1>2, <2>1, <3>1 DEF SectionsTypes, Stages
  <2>2. CASE ~S!Kept(new)
        BY <1>1, <2>2, RegisterNextIs
  <2> QED BY <2>1, <2>2
<1>12. SectionsTypes' /\ OthersSame(c)
       BY <1>1, <1>2, <1>11 DEF SectionsTypes, OthersSame, Same
<1>13. S!Kept(new) => S!FullKey(c)' = key
       BY <1>1, <1>11 DEF key, S!FullKey, S!Plan
<1>14. ContextInv(c)'
  <2>1. sStage'[c] = "persist" => S!FullKey(c)' \in DOMAIN sRam' /\ S!Kept(sRam'[S!FullKey(c)'])
        BY <1>10, <1>11, <1>13
  <2> QED BY <1>1, <1>2, <1>11, <2>1 DEF ContextInv
<1>15. \A x \in NetContext : ContextInv(x)'
  <2>1. ASSUME NEW x \in NetContext \ {c} PROVE ContextInv(x)'
    <3>1. Same(x) /\ sStage[x] # "persist"
          BY <1>3, <1>12 DEF OthersSame, OnLoop
    <3> QED BY <1>10, <3>1, OthersStay
  <2> QED BY <1>14, <2>1
<1>16. OneBusy'
       BY <1>3, <1>12 DEF OneBusy, OthersSame, Same
<1>17. Pending' = IF S!Kept(new) THEN {key} ELSE {}
       BY <1>3, <1>11, <1>12, <1>13 DEF Pending, OthersSame, Same, OnLoop
<1>18. Consistent(sRam, sBins, Pending)'
       BY <1>1, <1>9, <1>17 DEF Consistent
<1> QED BY <1>12, <1>15, <1>16, <1>18 DEF SectionsInv

(* What was due is kept.                                                      *)
LEMMA SectionsPersisted ==
  ASSUME SectionsInv, NEW c \in NetContext, S!Persist(c)
  PROVE  SectionsInv'
<1> DEFINE key == S!FullKey(c)
<1>1. /\ sStage[c] = "persist" /\ S!RegisterNext(c, sAt[c] + 1)
      /\ sBins' = S!Put(sBins, key, sRam[key]) /\ sPlans' = sPlans /\ sRam' = sRam
      BY Zenon DEF S!Persist
<1>2. SectionsTypes /\ ContextInv(c)
      BY DEF SectionsInv
<1>3. \A x \in NetContext \ {c} : sStage[x] \notin OnLoop
      BY <1>1 DEF SectionsInv, OneBusy, OnLoop
<1>4. key \in DOMAIN sRam /\ S!Kept(sRam[key])
      BY <1>1, <1>2 DEF ContextInv
<1>5. Consistent(sRam, sBins, {key})
  <2>1. Pending = {key}
        BY <1>1, <1>3 DEF Pending, OnLoop
  <2> QED BY <2>1 DEF SectionsInv
<1> HIDE DEF key
<1>6. Consistent(sRam, S!Put(sBins, key, sRam[key]), {})
      BY <1>4, <1>5, PersistedIs
<1>7. /\ sStage' \in [NetContext -> Stages] /\ sStage'[c] \in {"register", "idle"}
      /\ DOMAIN sAt' = NetContext
      /\ sStage'[c] = "register" => sAt'[c] \in DOMAIN sPlans'[c]
      /\ \A x \in NetContext \ {c} : sStage'[x] = sStage[x] /\ sAt'[x] = sAt[x]
      /\ sGraph' = sGraph /\ sStamp' = sStamp /\ sModules' = sModules /\ sOptim' = sOptim
      /\ sAccuracy' = sAccuracy /\ sTried' = sTried /\ sLongest' = sLongest
      BY <1>1, RegisterNextIs
<1>8. SectionsTypes' /\ OthersSame(c)
      BY <1>1, <1>2, <1>7 DEF SectionsTypes, OthersSame, Same
<1>9. ContextInv(c)'
      BY <1>1, <1>2, <1>7 DEF ContextInv
<1>10. \A x \in NetContext : ContextInv(x)'
  <2>1. ASSUME NEW x \in NetContext \ {c} PROVE ContextInv(x)'
        BY <1>1, <1>8, OthersStay DEF OthersSame
  <2> QED BY <1>9, <2>1
<1>11. OneBusy'
       BY <1>3, <1>8 DEF OneBusy, OthersSame, Same
<1>12. Pending' = {}
       BY <1>3, <1>7 DEF Pending, OnLoop
<1>13. Consistent(sRam, sBins, Pending)'
  <2>1. Consistent(sRam', sBins', {})
        BY <1>1, <1>6 DEF Consistent
  <2> QED BY <1>12, <2>1 DEF Consistent
<1> QED BY <1>8, <1>10, <1>11, <1>13 DEF SectionsInv

(* A step of the sections leaves what they promise.                           *)
LEMMA SectionsStep == SectionsInv /\ [S!Next]_(S!vars) => SectionsInv'
<1> SUFFICES ASSUME SectionsInv, [S!Next]_(S!vars) PROVE SectionsInv'
    OBVIOUS
<1>1. CASE S!Next
  <2>1. PICK c \in NetContext :
          \/ \E g \in Network, d \in Data \cup {Absence} : S!Start(c, g, d)
          \/ S!Build(c) \/ S!Hit(c) \/ S!Miss(c) \/ S!EndTraining(c)
          \/ S!Register(c) \/ S!Skip(c) \/ S!Remember(c) \/ S!Persist(c)
          \/ \E acc \in 1..S!Enough : S!Epoch(c, acc)
        BY <1>1, Zenon DEF S!Next
  <2>2. CASE \E g \in Network, d \in Data \cup {Absence} : S!Start(c, g, d)
        BY <2>2, SectionsStarted
  <2>3. CASE S!Build(c)
        BY <2>3, SectionsBuilt
  <2>4. CASE S!Hit(c)
        BY <2>4, SectionsHit
  <2>5. CASE S!Miss(c)
        BY <2>5, SectionsMissed
  <2>6. CASE S!EndTraining(c)
        BY <2>6, SectionsEnded
  <2>7. CASE S!Register(c)
        BY <2>7, SectionsRegistered
  <2>8. CASE S!Skip(c)
        BY <2>8, SectionsSkipped
  <2>9. CASE S!Remember(c)
        BY <2>9, SectionsRemembered
  <2>10. CASE S!Persist(c)
        BY <2>10, SectionsPersisted
  <2>11. CASE \E acc \in 1..S!Enough : S!Epoch(c, acc)
    <3>1. PICK acc \in 1..S!Enough : S!Epoch(c, acc)
          BY <2>11
    <3>2. acc \in Int
          BY DEF S!Enough
    <3> QED BY <3>1, <3>2, SectionsTrained
  <2> QED BY <2>1, <2>2, <2>3, <2>4, <2>5, <2>6, <2>7, <2>8, <2>9, <2>10, <2>11
<1>2. CASE UNCHANGED S!vars
  <2>1. /\ sStage' = sStage /\ sGraph' = sGraph /\ sStamp' = sStamp /\ sModules' = sModules
        /\ sOptim' = sOptim /\ sPlans' = sPlans /\ sAccuracy' = sAccuracy /\ sRam' = sRam
        /\ sBins' = sBins /\ sAt' = sAt /\ sTried' = sTried /\ sLongest' = sLongest
        BY <1>2, Zenon DEF S!vars
  <2>2. SectionsTypes' /\ OneBusy'
        BY <2>1 DEF SectionsInv, SectionsTypes, OneBusy
  <2>3. \A x \in NetContext : ContextInv(x)'
        BY <2>1, OthersStay DEF Same
  <2>4. Consistent(sRam, sBins, Pending)'
    <3>1. \A x \in NetContext : S!FullKey(x)' = S!FullKey(x) /\ sStage'[x] = sStage[x]
          BY <2>1 DEF S!FullKey, S!Plan
    <3>2. Pending' = Pending
          BY <3>1 DEF Pending
    <3> QED BY <2>1, <3>2 DEF SectionsInv, Consistent
  <2> QED BY <2>2, <2>3, <2>4 DEF SectionsInv
<1> QED BY <1>1, <1>2

(* What is registered is kept as it should be, and of the types it has.       *)
LEMMA SectionsFine == SectionsInv => S!StoreConsistent /\ S!SectionsTypeOK
<1> SUFFICES ASSUME SectionsInv PROVE S!StoreConsistent /\ S!SectionsTypeOK
    OBVIOUS
<1>1. S!StoreConsistent
  <2>1. Consistent(sRam, sBins, Pending)
        BY DEF SectionsInv
  <2> QED BY <2>1, Zenon DEF Consistent, Pending, S!StoreConsistent
<1>2. S!SectionsTypeOK
  <2>1. ASSUME NEW c \in NetContext
        PROVE  /\ sStage[c] \in {"idle", "build", "match", "train", "ended", "register", "persist"}
               /\ sStage[c] \in {"match", "register", "persist"} => sAt[c] \in DOMAIN sPlans[c]
               /\ sStage[c] = "match" => sTried[c] \in 0..Len(S!Plan(c)) - 1
               /\ \A n \in DOMAIN sModules[c] : sModules[c][n].of \in S!Range(NetOwner) \cup {S!Fresh}
               /\ sOptim[c].nodes \subseteq DOMAIN sModules[c]
               /\ sStage[c] \in {"match", "train"} => S!ParamNodes(sGraph[c]) \subseteq DOMAIN sModules[c]
    <3>1. SectionsTypes /\ ContextInv(c)
          BY DEF SectionsInv
    <3>2. sStage[c] = "match" => sTried[c] \in 0..Len(S!Plan(c)) - 1
      <4> SUFFICES ASSUME sStage[c] = "match" PROVE sTried[c] \in 0..Len(S!Plan(c)) - 1
          OBVIOUS
      <4>1. S!Plan(c) \in Seq(DOMAIN sModules[c])
            BY TryIs
      <4>2. Len(S!Plan(c)) \in Nat
            BY <4>1
      <4> QED BY <3>1, <4>2 DEF ContextInv, MatchInv
    <3>3. \A n \in DOMAIN sModules[c] : sModules[c][n].of \in S!Range(NetOwner) \cup {S!Fresh}
          BY <3>1 DEF ContextInv, AreLayers, IsLayer, Whose
    <3> QED BY <3>1, <3>2, <3>3 DEF SectionsTypes, Stages, ContextInv
  <2> QED BY <2>1, Zenon DEF S!SectionsTypeOK
<1> QED BY <1>1, <1>2

(* Only a hit or a miss goes on from a chain that is matched.                 *)
LEMMA MatchedOnly ==
  ASSUME SectionsInv, [S!Next]_(S!vars), NEW c \in NetContext, sStage[c] = "match", sAt'[c] # sAt[c]
  PROVE  S!Hit(c) \/ S!Miss(c)
<1>1. SectionsTypes
      BY DEF SectionsInv
<1>2. S!Next
  <2>1. sAt' # sAt
        OBVIOUS
  <2> QED BY <2>1, Zenon DEF S!vars
<1>3. PICK x \in NetContext :
        \/ \E g \in Network, d \in Data \cup {Absence} : S!Start(x, g, d)
        \/ S!Build(x) \/ S!Hit(x) \/ S!Miss(x) \/ S!EndTraining(x)
        \/ S!Register(x) \/ S!Skip(x) \/ S!Remember(x) \/ S!Persist(x)
        \/ \E acc \in 1..S!Enough : S!Epoch(x, acc)
      BY <1>2, Zenon DEF S!Next
<1>4. /\ \A g, d : ~S!Start(x, g, d)
      /\ ~S!EndTraining(x)
      /\ \A acc : ~S!Epoch(x, acc)
  <2>1. sAt' # sAt
        OBVIOUS
  <2> QED BY <2>1, Zenon DEF S!Start, S!EndTraining, S!Epoch
<1>5. ASSUME S!Build(x) \/ S!Hit(x) \/ S!Miss(x) \/ S!Register(x) \/ S!Skip(x) \/ S!Remember(x) \/ S!Persist(x)
      PROVE  x = c
  <2>1. sAt' = sAt \/ \E i : sAt' = [sAt EXCEPT ![x] = i]
        BY <1>5, Zenon
        DEF S!Build, S!Hit, S!Miss, S!MatchNext, S!Register, S!Skip, S!Remember, S!Persist, S!RegisterNext
  <2> QED BY <1>1, <2>1 DEF SectionsTypes
<1>6. S!Build(x) \/ S!Hit(x) \/ S!Miss(x) \/ S!Register(x) \/ S!Skip(x) \/ S!Remember(x) \/ S!Persist(x)
      BY <1>3, <1>4, Zenon
<1>7. x = c
      BY <1>5, <1>6, Zenon
<1>8. ~S!Build(c) /\ ~S!Register(c) /\ ~S!Skip(c) /\ ~S!Remember(c) /\ ~S!Persist(c)
  <2>1. /\ S!Build(c) => sStage[c] = "build"
        /\ S!Register(c) => sStage[c] = "ended"
        /\ S!Skip(c) \/ S!Remember(c) => sStage[c] = "register"
        /\ S!Persist(c) => sStage[c] = "persist"
        BY Zenon DEF S!Build, S!Register, S!Skip, S!Remember, S!Persist
  <2> QED BY <2>1
<1> QED BY <1>6, <1>7, <1>8, Zenon

(* A chain takes the longest one that was registered, or one that came since, as far as it fits. *)
LEMMA LoadsStep == SectionsInv /\ [S!Next]_(S!vars) => S!Loads
<1> SUFFICES ASSUME SectionsInv, [S!Next]_(S!vars), NEW c \in NetContext,
                    sStage[c] = "match", sAt'[c] # sAt[c]
             PROVE  LET before == S!States(sModules[c], S!Plan(c))
                        after == S!States(sModules'[c], S!Plan(c))
                        loaded(n) == sRam[S!Prefix(c, n)].states
                        takes(n, k) == k <= n /\ \A j \in 1..k - 1 : loaded(n)[j].form = before[j].form
                    IN /\ \A m \in DOMAIN sModules[c] \ S!Range(S!Plan(c)) : sModules'[c][m] = sModules[c][m]
                       /\ \/ sLongest[c] = 0 /\ after = before
                          \/ \E n \in DOMAIN before :
                               /\ n >= sLongest[c] /\ S!Prefix(c, n) \in DOMAIN sRam
                               /\ \A k \in DOMAIN before :
                                    after[k] = IF takes(n, k) THEN [before[k] EXCEPT !.of = loaded(n)[k].of]
                                               ELSE before[k]
    BY Zenon DEF S!Loads
<1> DEFINE plan == S!Plan(c)
           before == S!States(sModules[c], plan)
           after == S!States(sModules'[c], plan)
           n == S!Length(c)
           states == sRam[S!Prefix(c, n)].states
<1>1. /\ plan \in Seq(DOMAIN sModules[c]) /\ n \in 1..Len(plan) /\ sLongest[c] \in 0..n
      BY TryIs
<1>2. /\ DOMAIN before = DOMAIN plan /\ DOMAIN plan = 1..Len(plan) /\ Len(plan) \in Nat
      /\ \A k \in DOMAIN plan : after[k] = sModules'[c][plan[k]]
      BY <1>1 DEF S!States
<1>3. CASE S!Miss(c)
  <2>1. sModules' = sModules /\ sLongest[c] = 0
        BY <1>3, SectionsMissed
  <2> QED BY <2>1
<1>4. CASE S!Hit(c)
  <2>1. /\ S!Prefix(c, n) \in DOMAIN sRam /\ DOMAIN states = 1..n
        /\ \A m \in DOMAIN sModules[c] \ S!Range(plan) : sModules'[c][m] = sModules[c][m]
        /\ \A k \in 1..Len(plan) : sModules'[c][plan[k]] = Taken(states, before, k)
        BY <1>4, SectionsHit
  <2> HIDE DEF plan, before, after, n, states
  <2>2. n \in DOMAIN before /\ n >= sLongest[c]
        BY <1>1, <1>2
  <2>3. ASSUME NEW k \in DOMAIN before
        PROVE  after[k] = IF k <= n /\ \A j \in 1..k - 1 : states[j].form = before[j].form
                          THEN [before[k] EXCEPT !.of = states[k].of] ELSE before[k]
    <3>1. after[k] = Taken(states, before, k)
          BY <1>2, <2>1
    <3>2. k \in DOMAIN states <=> k <= n
          BY <1>1, <1>2, <2>1
    <3> QED BY <3>1, <3>2, Zenon DEF Taken, Takes
  <2> QED BY <2>1, <2>2, <2>3, Zenon DEF plan, before, after, n, states
<1> QED BY <1>3, <1>4, MatchedOnly

(* A training loads the longest chains that were registered when it came to them, and they are *)
(* kept as they should.                                                       *)
THEOREM Sectioned == S!Spec => S!SectionsHold /\ []S!SectionsTypeOK
<1>1. S!Init => SectionsInv
      BY SectionsStart
<1>2. SectionsInv /\ [S!Next]_(S!vars) => SectionsInv'
      BY SectionsStep
<1>3. SectionsInv /\ [S!Next]_(S!vars) => S!Loads
      BY LoadsStep
<1>4. SectionsInv => S!StoreConsistent /\ S!SectionsTypeOK
      BY SectionsFine
<1>5. S!PlansAreChains
      BY Plans
<1> QED BY <1>1, <1>2, <1>3, <1>4, <1>5, PTL DEF S!Spec, S!SectionsHold


-----------------------------------------------------------------------------
(* Inference without a server                                                 *)

RequestType == [seq : Int, data : Nat]
Phases == {"none", "ready", "inference", "error", "closed"}

InferenceTypes ==
  /\ iChannel \in [open : BOOLEAN, index : Nat, last : Int, inFlight : BOOLEAN, pending : Nat]
  /\ iOpener \in {"nobody", "blocks", "script", "hasty"}
  /\ iAsked \in Nat /\ iPolled \in {"none", "waiting", "answer"}
  /\ iGiven \in [asked : Int, answer : Int]
  /\ iRequest \in RequestType /\ iJob \in RequestType
  /\ iResponse \in [phase : Phases, index : Int, data : Nat]
  /\ iStop \in BOOLEAN /\ iLastSeq \in Int
  /\ iProcess \in {"none", "starting", "polling", "running", "closed", "dead"}
  /\ iSends \in Nat /\ iLatest \in Nat /\ iShown \in Nat

(* What was read follows what was answered, that what was asked, and that what *)
(* was numbered; an answer is that of the last request the process took.       *)
OrderInv ==
  /\ -1 <= iChannel.last /\ iChannel.last <= iLastSeq
  /\ iLastSeq <= iRequest.seq /\ iRequest.seq <= iChannel.index
  /\ iChannel.inFlight => iRequest.seq = iChannel.index
  /\ iAsked <= iChannel.index
  /\ iProcess \in {"none", "starting"} => iLastSeq = -1
  /\ iOpener = "nobody" => iProcess = "none"
  /\ iOpener = "nobody" =>
       /\ ~iChannel.open /\ ~iChannel.inFlight /\ iChannel.pending = I!None
       /\ iLatest = I!None /\ iRequest.seq = -1

AnswerInv ==
  /\ iResponse.index \in {-1, iLastSeq}
  /\ (iResponse.phase # "closed" /\ iResponse.index = iRequest.seq /\ 0 <= iResponse.index)
       => iResponse.data = iRequest.data
  /\ iProcess = "running" =>
       /\ iLastSeq < iJob.seq /\ iJob.seq <= iRequest.seq
       /\ iJob.seq = iRequest.seq => iJob.data = iRequest.data

(* As long as no script ran the model beside a request that was out, there is  *)
(* one request at most between builder and process, and it is the last one.    *)
Alone == iOpener # "hasty" /\ iChannel.open

AloneInv ==
  /\ (Alone /\ ~iChannel.inFlight) => iRequest.seq <= iChannel.last
  /\ (Alone /\ iChannel.inFlight) =>
       /\ iChannel.last < iChannel.index
       /\ iLastSeq <= iChannel.last \/ iLastSeq = iChannel.index
       /\ iProcess = "running" => iJob.seq = iRequest.seq
       /\ iLatest # I!None =>
            \/ iChannel.pending = iLatest
            \/ iChannel.pending = I!None /\ iRequest.data = iLatest
  /\ (iOpener # "hasty" /\ iAsked # 0 /\ iPolled = "answer") => iChannel.last >= iAsked

InferenceInv == InferenceTypes /\ OrderInv /\ AnswerInv /\ AloneInv /\ I!InferenceHolds

LEMMA InferenceInit == I!Init => InferenceInv
<1> SUFFICES ASSUME I!Init PROVE InferenceInv
    OBVIOUS
<1> USE DEF I!Init, I!None
<1>1. InferenceTypes
  <2>1. iChannel \in [open : BOOLEAN, index : Nat, last : Int, inFlight : BOOLEAN, pending : Nat]
        OBVIOUS
  <2>2. iRequest \in RequestType /\ iJob \in RequestType
        BY DEF I!NoRequest, RequestType
  <2>3. iResponse \in [phase : Phases, index : Int, data : Nat]
        BY DEF I!NoResponse, Phases
  <2>4. iGiven \in [asked : Int, answer : Int]
        OBVIOUS
  <2> QED BY <2>1, <2>2, <2>3, <2>4 DEF InferenceTypes
<1>2. /\ iLatest = 0 /\ iChannel.last = -1 /\ iChannel.index = 0 /\ iChannel.pending = 0
      /\ iChannel.open = FALSE /\ iChannel.inFlight = FALSE
      /\ iRequest.seq = -1 /\ iResponse.index = -1 /\ iGiven.answer = 0 /\ iGiven.asked = 0
      BY DEF I!NoRequest, I!NoResponse
<1>3. OrderInv /\ AnswerInv
      BY <1>2 DEF OrderInv, AnswerInv
<1>4. AloneInv /\ I!InferenceHolds
      BY <1>2 DEF AloneInv, Alone, I!InferenceHolds, I!NothingForgotten, I!LatestShown, I!AnswerNotStale
<1> QED BY <1>1, <1>3, <1>4 DEF InferenceInv

(* A request that is written has the next number; one that is not leaves the   *)
(* files alone.                                                                *)
LEMMA Queued ==
  ASSUME NEW c \in [open : BOOLEAN, index : Nat, last : Int, inFlight : BOOLEAN, pending : Nat],
         NEW data \in Nat, NEW written \in BOOLEAN, InferenceTypes, I!Queue(c, data, written)
  PROVE  /\ iChannel' \in [open : BOOLEAN, index : Nat, last : Int, inFlight : BOOLEAN, pending : Nat]
         /\ iChannel'.open = c.open /\ iChannel'.index = c.index + 1 /\ iChannel'.last = c.last
         /\ iChannel'.inFlight = written /\ iChannel'.pending = c.pending
         /\ iRequest' \in RequestType
         /\ written => iRequest'.seq = c.index + 1 /\ iRequest'.data = data
         /\ ~written => iRequest' = iRequest
         /\ iPolled' = IF written THEN "waiting" ELSE "none"
<1>1. iChannel' = [c EXCEPT !.index = c.index + 1, !.inFlight = written]
      BY DEF I!Queue
<1>2. iRequest' = IF written THEN [seq |-> c.index + 1, data |-> data] ELSE iRequest
      BY DEF I!Queue
<1>3. c.index + 1 \in Nat
      OBVIOUS
<1>4. iChannel' \in [open : BOOLEAN, index : Nat, last : Int, inFlight : BOOLEAN, pending : Nat]
      BY <1>1, <1>3
<1>5. iRequest' \in RequestType
      BY <1>2, <1>3 DEF RequestType, InferenceTypes
<1>6. /\ iChannel'.open = c.open /\ iChannel'.index = c.index + 1 /\ iChannel'.last = c.last
      /\ iChannel'.inFlight = written /\ iChannel'.pending = c.pending
      BY <1>1
<1>7. written => iRequest'.seq = c.index + 1 /\ iRequest'.data = data
      BY <1>2
<1> QED BY <1>2, <1>4, <1>5, <1>6, <1>7 DEF I!Queue


LEMMA OpenStep == ASSUME InferenceInv, NEW who \in {"blocks", "script"}, I!Open(who) PROVE InferenceInv'
<1> USE DEF I!Open, InferenceInv
<1>1. /\ iChannel' \in [open : BOOLEAN, index : Nat, last : Int, inFlight : BOOLEAN, pending : Nat]
      /\ iChannel'.open = TRUE /\ iChannel'.index = iChannel.index /\ iChannel'.last = iChannel.last
      /\ iChannel'.inFlight = iChannel.inFlight /\ iChannel'.pending = iChannel.pending
      BY DEF InferenceTypes
<1> QED BY <1>1 DEF InferenceTypes, OrderInv, AnswerInv, AloneInv, Alone, I!InferenceHolds,
              I!NothingForgotten, I!LatestShown, I!AnswerNotStale, I!None, I!Live

LEMMA SendStep == ASSUME InferenceInv, NEW written \in BOOLEAN, I!Send(written) PROVE InferenceInv'
<1> USE DEF InferenceInv
<1>1. iSends + 1 \in Nat /\ iSends + 1 # I!None /\ iSends' = iSends + 1
      BY DEF InferenceTypes, I!None, I!Send
<1>2. CASE iChannel.inFlight
  <2>1. iChannel' = [iChannel EXCEPT !.pending = iSends + 1]
        BY <1>2 DEF I!Send, I!Coalesced
  <2>2. /\ iChannel' \in [open : BOOLEAN, index : Nat, last : Int, inFlight : BOOLEAN, pending : Nat]
        /\ iChannel'.open = iChannel.open /\ iChannel'.index = iChannel.index
        /\ iChannel'.last = iChannel.last /\ iChannel'.inFlight = iChannel.inFlight
        /\ iChannel'.pending = iSends + 1
        BY <1>1, <2>1 DEF InferenceTypes
  <2>3. /\ iLatest' = iSends + 1 /\ UNCHANGED <<iRequest, iPolled>>
        /\ UNCHANGED <<iOpener, iAsked, iGiven, iResponse, iStop, iProcess, iLastSeq, iJob, iShown>>
        BY <1>2 DEF I!Send
  <2> QED BY <1>1, <1>2, <2>2, <2>3 DEF InferenceTypes, OrderInv, AnswerInv, AloneInv, Alone,
               I!InferenceHolds, I!NothingForgotten, I!LatestShown, I!AnswerNotStale, I!None, I!Live
<1>3. CASE ~iChannel.inFlight
  <2>1. /\ I!Queue(iChannel, iSends + 1, written)
        /\ iLatest' = IF written THEN iSends + 1 ELSE I!None
        /\ UNCHANGED <<iOpener, iAsked, iGiven, iResponse, iStop, iProcess, iLastSeq, iJob, iShown>>
        /\ iChannel.open
        BY <1>3 DEF I!Send
  <2>2. /\ iChannel' \in [open : BOOLEAN, index : Nat, last : Int, inFlight : BOOLEAN, pending : Nat]
        /\ iChannel'.open = iChannel.open /\ iChannel'.index = iChannel.index + 1
        /\ iChannel'.last = iChannel.last
        /\ iChannel'.inFlight = written /\ iChannel'.pending = iChannel.pending
        /\ iRequest' \in RequestType
        /\ written => iRequest'.seq = iChannel.index + 1 /\ iRequest'.data = iSends + 1
        /\ ~written => iRequest' = iRequest
        /\ iPolled' = IF written THEN "waiting" ELSE "none"
    <3>1. InferenceTypes /\ iSends + 1 \in Nat
          BY <1>1
    <3>2. iChannel \in [open : BOOLEAN, index : Nat, last : Int, inFlight : BOOLEAN, pending : Nat]
          BY <3>1 DEF InferenceTypes
    <3> HIDE DEF InferenceInv
    <3> QED BY <2>1, <3>1, <3>2, Queued
  <2>3. InferenceTypes'
        BY <1>1, <2>1, <2>2 DEF InferenceTypes, I!None
  <2>4. OrderInv' /\ AnswerInv'
        BY <1>3, <2>1, <2>2 DEF InferenceTypes, OrderInv, AnswerInv, RequestType, I!None
  <2>5. AloneInv' /\ I!InferenceHolds'
        BY <1>1, <1>3, <2>1, <2>2 DEF InferenceTypes, OrderInv, AnswerInv, AloneInv, Alone, RequestType,
           I!InferenceHolds, I!NothingForgotten, I!LatestShown, I!AnswerNotStale, I!None, I!Live
  <2> QED BY <2>3, <2>4, <2>5
<1> QED BY <1>2, <1>3

LEMMA RunStep == ASSUME InferenceInv, NEW written \in BOOLEAN, I!Run(written) PROVE InferenceInv'
<1> USE DEF InferenceInv
<1>1. iSends + 1 \in Nat /\ iSends + 1 # I!None /\ iSends' = iSends + 1
      BY DEF InferenceTypes, I!None, I!Run
<1>2. /\ I!Queue(iChannel, iSends + 1, written)
      /\ iChannel.open /\ iAsked = 0
      /\ ~iChannel.inFlight \/ iOpener = "script"
      /\ iAsked' = IF written THEN iChannel.index + 1 ELSE 0
      /\ iOpener' = CASE iOpener # "script" -> iOpener
                     [] iOpener = "script" /\ iChannel.inFlight -> "hasty"
                     [] OTHER -> "blocks"
      /\ iLatest' = IF iChannel.pending = I!None THEN I!None ELSE iLatest
      /\ UNCHANGED <<iGiven, iResponse, iStop, iProcess, iLastSeq, iJob, iShown>>
      BY DEF I!Run
<1>3. /\ iChannel' \in [open : BOOLEAN, index : Nat, last : Int, inFlight : BOOLEAN, pending : Nat]
      /\ iChannel'.open = iChannel.open /\ iChannel'.index = iChannel.index + 1
      /\ iChannel'.last = iChannel.last
      /\ iChannel'.inFlight = written /\ iChannel'.pending = iChannel.pending
      /\ iRequest' \in RequestType
      /\ written => iRequest'.seq = iChannel.index + 1 /\ iRequest'.data = iSends + 1
      /\ ~written => iRequest' = iRequest
      /\ iPolled' = IF written THEN "waiting" ELSE "none"
  <2>1. InferenceTypes /\ iSends + 1 \in Nat
        BY <1>1
  <2>2. iChannel \in [open : BOOLEAN, index : Nat, last : Int, inFlight : BOOLEAN, pending : Nat]
        BY <2>1 DEF InferenceTypes
  <2> HIDE DEF InferenceInv
  <2> QED BY <1>2, <2>1, <2>2, Queued
<1>4. /\ iOpener' \in {"nobody", "blocks", "script", "hasty"} /\ iOpener # "nobody"
      /\ iOpener' # "nobody" /\ (iOpener' # "hasty" => iOpener # "hasty" /\ ~iChannel.inFlight)
      BY <1>2 DEF InferenceTypes, OrderInv
<1>5. InferenceTypes'
      BY <1>1, <1>2, <1>3, <1>4 DEF InferenceTypes, I!None
<1>6. OrderInv' /\ AnswerInv'
      BY <1>2, <1>3, <1>4 DEF InferenceTypes, OrderInv, AnswerInv, RequestType, I!None
<1>7. AloneInv' /\ I!InferenceHolds'
      BY <1>1, <1>2, <1>3, <1>4 DEF InferenceTypes, OrderInv, AnswerInv, AloneInv, Alone, RequestType,
         I!InferenceHolds, I!NothingForgotten, I!LatestShown, I!AnswerNotStale, I!None, I!Live
<1> QED BY <1>5, <1>6, <1>7

LEMMA PollStep == ASSUME InferenceInv, NEW written \in BOOLEAN, I!Poll(written) PROVE InferenceInv'
<1> USE DEF InferenceInv
<1> DEFINE read == [iChannel EXCEPT !.last = iResponse.index, !.inFlight = FALSE, !.pending = I!None]
<1>1. /\ iChannel.open /\ iResponse.index > iChannel.last
      /\ UNCHANGED <<iOpener, iAsked, iGiven, iResponse, iStop, iProcess, iLastSeq, iJob, iSends>>
      BY DEF I!Poll
<1>2. /\ read \in [open : BOOLEAN, index : Nat, last : Int, inFlight : BOOLEAN, pending : Nat]
      /\ read.open = TRUE /\ read.index = iChannel.index /\ read.last = iResponse.index
      /\ read.inFlight = FALSE /\ read.pending = I!None
      BY <1>1 DEF InferenceTypes, I!None
(* What is read is the answer to the last request the process took. *)
<1>3. /\ iResponse.index = iLastSeq /\ 0 <= iResponse.index
      /\ iOpener # "hasty" => iChannel.inFlight /\ iLastSeq = iChannel.index
      BY <1>1 DEF InferenceTypes, OrderInv, AnswerInv, AloneInv, Alone, RequestType
<1>4. CASE iResponse.phase = "closed"
  <2>1. /\ iChannel' = [read EXCEPT !.open = FALSE] /\ iPolled' = "none"
        /\ UNCHANGED <<iRequest, iLatest, iShown>>
        BY <1>4 DEF I!Poll
  <2>2. /\ iChannel' \in [open : BOOLEAN, index : Nat, last : Int, inFlight : BOOLEAN, pending : Nat]
        /\ iChannel'.open = FALSE /\ iChannel'.index = iChannel.index
        /\ iChannel'.last = iResponse.index
        /\ iChannel'.inFlight = FALSE /\ iChannel'.pending = I!None
        BY <1>2, <2>1
  <2> QED BY <1>1, <1>3, <2>1, <2>2 DEF InferenceTypes, OrderInv, AnswerInv, AloneInv, Alone, RequestType,
               I!InferenceHolds, I!NothingForgotten, I!LatestShown, I!AnswerNotStale, I!None, I!Live
<1>5. CASE iResponse.phase # "closed" /\ iChannel.pending # I!None
  <2>1. /\ iShown' = iResponse.data /\ I!Queue(read, iChannel.pending, written)
        /\ iLatest' = IF written THEN iLatest ELSE I!None
        BY <1>5 DEF I!Poll
  <2>2. iChannel.pending \in Nat
        BY DEF InferenceTypes
  <2>3. /\ iChannel' \in [open : BOOLEAN, index : Nat, last : Int, inFlight : BOOLEAN, pending : Nat]
        /\ iChannel'.open = TRUE /\ iChannel'.index = iChannel.index + 1
        /\ iChannel'.last = iResponse.index
        /\ iChannel'.inFlight = written /\ iChannel'.pending = I!None
        /\ iRequest' \in RequestType
        /\ written => iRequest'.seq = iChannel.index + 1 /\ iRequest'.data = iChannel.pending
        /\ ~written => iRequest' = iRequest
        /\ iPolled' = IF written THEN "waiting" ELSE "none"
    <3> HIDE DEF read
    <3> QED BY <1>2, <2>1, <2>2, Queued
  <2>4. InferenceTypes'
        BY <1>1, <2>1, <2>3 DEF InferenceTypes, I!None
  <2>5. OrderInv' /\ AnswerInv'
        BY <1>1, <1>3, <2>3 DEF InferenceTypes, OrderInv, AnswerInv, RequestType, I!None
  <2>6. AloneInv' /\ I!InferenceHolds'
        BY <1>1, <1>3, <1>5, <2>1, <2>3 DEF InferenceTypes, OrderInv, AnswerInv, AloneInv, Alone,
           RequestType, I!InferenceHolds, I!NothingForgotten, I!LatestShown, I!AnswerNotStale, I!None, I!Live
  <2> QED BY <2>4, <2>5, <2>6
<1>6. CASE iResponse.phase # "closed" /\ iChannel.pending = I!None
  <2>1. /\ iShown' = iResponse.data /\ iChannel' = read /\ iPolled' = "answer"
        /\ UNCHANGED <<iRequest, iLatest>>
        BY <1>6 DEF I!Poll
  <2>2. /\ iChannel' \in [open : BOOLEAN, index : Nat, last : Int, inFlight : BOOLEAN, pending : Nat]
        /\ iChannel'.open = TRUE /\ iChannel'.index = iChannel.index
        /\ iChannel'.last = iResponse.index
        /\ iChannel'.inFlight = FALSE /\ iChannel'.pending = I!None
        BY <1>2, <2>1
  <2>3. InferenceTypes'
        BY <1>1, <2>1, <2>2 DEF InferenceTypes
  <2>4. OrderInv' /\ AnswerInv'
        BY <1>1, <1>3, <2>1, <2>2 DEF InferenceTypes, OrderInv, AnswerInv, RequestType, I!None
  <2>5. AloneInv' /\ I!InferenceHolds'
        BY <1>1, <1>3, <1>6, <2>1, <2>2 DEF InferenceTypes, OrderInv, AnswerInv, AloneInv, Alone,
           RequestType, I!InferenceHolds, I!NothingForgotten, I!LatestShown, I!AnswerNotStale, I!None, I!Live
  <2> QED BY <2>3, <2>4, <2>5
<1> QED BY <1>4, <1>5, <1>6

LEMMA CloseStep == ASSUME InferenceInv, NEW force \in BOOLEAN, I!Close(force) PROVE InferenceInv'
<1> USE DEF I!Close, InferenceInv
<1>1. /\ iChannel' \in [open : BOOLEAN, index : Nat, last : Int, inFlight : BOOLEAN, pending : Nat]
      /\ iChannel'.open = FALSE /\ iChannel'.index = iChannel.index /\ iChannel'.last = iChannel.last
      /\ iChannel'.inFlight = FALSE /\ iChannel'.pending = I!None
      BY DEF InferenceTypes, I!None
<1> QED BY <1>1 DEF InferenceTypes, OrderInv, AnswerInv, AloneInv, Alone, I!InferenceHolds,
              I!NothingForgotten, I!LatestShown, I!AnswerNotStale, I!None, I!Live

(* What the process does, and what the script reads. *)
LEMMA OtherStep ==
  ASSUME InferenceInv, \/ I!Awaken \/ I!Ready \/ I!Take \/ I!CloseLoop \/ I!Die \/ UNCHANGED I!vars
               \/ \E phase \in {"inference", "error"} : I!Answer(phase)
  PROVE  InferenceInv'
<1> USE DEF InferenceInv, InferenceTypes, OrderInv, AnswerInv, AloneInv, Alone, I!InferenceHolds, I!NothingForgotten,
     I!LatestShown, I!AnswerNotStale, I!NoResponse, I!None, RequestType, Phases, I!Live
<1>1. CASE I!Awaken
      BY <1>1 DEF I!Awaken
<1>2. CASE I!Ready
      BY <1>2 DEF I!Ready
<1>3. CASE I!Take
      BY <1>3 DEF I!Take
<1>4. CASE \E phase \in {"inference", "error"} : I!Answer(phase)
      BY <1>4 DEF I!Answer
<1>5. CASE I!CloseLoop
      BY <1>5 DEF I!CloseLoop
<1>6. CASE I!Die
      BY <1>6 DEF I!Die
<1>7. CASE UNCHANGED I!vars
      BY <1>7 DEF I!vars
<1> QED BY <1>1, <1>2, <1>3, <1>4, <1>5, <1>6, <1>7

(* Whatever is sent, how often and when, and whatever becomes of the process,  *)
(* no request that is out is forgotten, what is shown when nothing is out is   *)
(* about the newest values, and a script that waited gets no older answer.     *)
THEOREM Inference == I!Spec => []InferenceHolds
<1>1. InferenceInv /\ [I!Next]_(I!vars) => InferenceInv'
  <2> SUFFICES ASSUME InferenceInv, [I!Next]_(I!vars) PROVE InferenceInv'
      OBVIOUS
  <2> QED BY OpenStep, SendStep, RunStep, PollStep, CloseStep, OtherStep DEF I!Next
<1>2. InferenceInv => I!InferenceHolds
      BY DEF InferenceInv
<1> QED BY InferenceInit, <1>1, <1>2, PTL DEF I!Spec, InferenceHolds

-----------------------------------------------------------------------------
(* Gates                                                                      *)

LEMMA Multiple == ASSUME NEW p \in Nat \ {0}, NEW k \in Nat PROVE (p * k) % p = 0
<1> DEFINE x == p * k
           d == x \div p
           r == x % p
<1>1. x \in Nat /\ d \in Nat /\ r \in 0..p - 1 /\ x = p * d + r
      OBVIOUS
<1>2. p * (k - d) = r
      BY <1>1
<1>3. CASE k - d >= 1
      BY <1>1, <1>2, <1>3
<1>4. CASE k - d <= -1
      BY <1>1, <1>2, <1>4
<1>5. CASE k = d
      BY <1>1, <1>2, <1>5
<1> QED BY <1>1, <1>3, <1>4, <1>5

LEMMA Divided == ASSUME NEW x \in Nat, NEW p \in Nat \ {0}, x % p = 0
                 PROVE  x \div p \in Nat /\ x = p * (x \div p)
OBVIOUS

LEMMA Regroup == ASSUME NEW a \in Nat, NEW b \in Nat, NEW c \in Nat PROVE (a * b) * c = a * (b * c)
OBVIOUS

\* The periods that a gate takes.
GatePeriods == {p \in 1..MaxPeriod : MaxPeriod % p = 0}

LEMMA Aligned == ASSUME NEW s \in Nat, s % MaxPeriod = 0, NEW p \in GatePeriods PROVE s % p = 0
<1> DEFINE m == MaxPeriod \div p
           k == s \div MaxPeriod
<1>1. /\ p \in Nat \ {0} /\ MaxPeriod \in Nat \ {0} /\ MaxPeriod % p = 0
      BY PeriodAssumption DEF GatePeriods
<1>2. m \in Nat /\ MaxPeriod = p * m
      BY <1>1, Divided
<1>3. k \in Nat /\ s = MaxPeriod * k
      BY <1>1, Divided
<1> HIDE DEF m, k
<1>4. s = p * (m * k)
      BY <1>1, <1>2, <1>3, Regroup
<1>5. m * k \in Nat
      BY <1>2, <1>3
<1> HIDE DEF GatePeriods
<1> QED BY <1>1, <1>4, <1>5, Multiple

LEMMA OneDivides == 1 \in GatePeriods
<1>1. MaxPeriod \in Nat \ {0} /\ 1 * MaxPeriod = MaxPeriod
      BY PeriodAssumption
<1>2. (1 * MaxPeriod) % 1 = 0
      BY <1>1, Multiple
<1> QED BY <1>1, <1>2 DEF GatePeriods

LEMMA AllDivides == MaxPeriod \in GatePeriods
<1>1. MaxPeriod \in Nat \ {0} /\ MaxPeriod * 1 = MaxPeriod
      BY PeriodAssumption
<1>2. (MaxPeriod * 1) % MaxPeriod = 0
      BY <1>1, Multiple
<1> QED BY <1>1, <1>2 DEF GatePeriods

LEMMA DoubledDivides == ASSUME NEW p \in GatePeriods PROVE T!Doubled(p) \in GatePeriods
<1>0. CASE 2 * p > MaxPeriod
      BY <1>0, AllDivides DEF T!Doubled
<1>1. CASE ~(2 * p > MaxPeriod)
  <2> DEFINE q == MaxPeriod \div p
             h == q \div 2
  <2>1. p \in Nat \ {0} /\ p \in 1..MaxPeriod /\ MaxPeriod \in Nat \ {0} /\ MaxPeriod % p = 0
        BY PeriodAssumption DEF GatePeriods
  <2>2. q \in Nat /\ MaxPeriod = p * q
        BY <2>1, Divided
  <2> HIDE DEF q
  <2>3. q \in Nat \ {0} /\ q # 1 /\ q \in 1..MaxPeriod
    <3>1. q # 0 /\ q # 1
          BY <1>1, <2>1, <2>2
    <3>2. (p - 1) * q >= 0 /\ p * q = (p - 1) * q + q
          BY <2>1, <2>2
    <3> QED BY <2>1, <2>2, <3>1, <3>2
  <2>4. (q * p) % q = 0 /\ q * p = p * q
        BY <2>1, <2>3, Multiple
  <2>5. q % 2 = 0
        BY <2>2, <2>3, <2>4, PeriodAssumption
  <2>6. h \in Nat /\ q = 2 * h
        BY <2>3, <2>5, Divided
  <2> HIDE DEF h
  <2>7. MaxPeriod = (2 * p) * h
        BY <2>1, <2>2, <2>6, Regroup
  <2>8. 2 * p \in Nat \ {0} /\ 2 * p \in 1..MaxPeriod
        BY <1>1, <2>1
  <2>9. MaxPeriod % (2 * p) = 0
        BY <2>6, <2>7, <2>8, Multiple
  <2> QED BY <1>1, <2>8, <2>9 DEF GatePeriods, T!Doubled
<1> QED BY <1>0, <1>1

LEMMA HalvedDivides == ASSUME NEW p \in GatePeriods PROVE T!Halved(p) \in GatePeriods
<1> DEFINE q == MaxPeriod \div p
           h == p \div 2
<1>1. p \in Nat \ {0} /\ p \in 1..MaxPeriod /\ MaxPeriod \in Nat \ {0} /\ MaxPeriod % p = 0
      BY PeriodAssumption DEF GatePeriods
<1>2. q \in Nat /\ MaxPeriod = p * q
      BY <1>1, Divided
<1>3. CASE p = 1
      BY <1>3, OneDivides DEF T!Halved
<1>4. CASE p # 1
  <2>1. p % 2 = 0
        BY <1>1, <1>4, PeriodAssumption
  <2>2. h \in Nat /\ p = 2 * h
        BY <1>1, <2>1, Divided
  <2>3. T!Halved(p) = h
        BY <1>1, <2>2 DEF T!Halved
  <2> HIDE DEF q, h
  <2>4. h \in Nat \ {0} /\ h \in 1..MaxPeriod
        BY <1>1, <2>2
  <2>5. MaxPeriod = h * (2 * q)
        BY <1>2, <2>2, Regroup
  <2>6. MaxPeriod % h = 0
    <3>1. 2 * q \in Nat
          BY <1>2
    <3> QED BY <2>4, <2>5, <3>1, Multiple
  <2> QED BY <2>3, <2>4, <2>6 DEF GatePeriods
<1> QED BY <1>3, <1>4

LEMMA KeptDivides == ASSUME NEW p \in [T!Op -> GatePeriods] PROVE T!HeadsKept(p) \in [T!Op -> GatePeriods]
<1> HIDE DEF GatePeriods
<1>1. \A i \in T!Op : (IF i \in T!Heads THEN 1 ELSE p[i]) \in GatePeriods
      BY OneDivides
<1> QED BY <1>1 DEF T!HeadsKept

\* All gates are open: every operation leads to the head.
LEMMA AllReached == tGates = T!Op => T!Reached = T!Op
<1> SUFFICES ASSUME tGates = T!Op PROVE T!Reached = T!Op
    OBVIOUS
<1>1. \A i \in T!Op : i = Ops \/ NextOps[i] \cap T!Op # {}
  <2> SUFFICES ASSUME NEW i \in T!Op, i # Ops PROVE NextOps[i] \cap T!Op # {}
      OBVIOUS
  <2>1. Ops \in Nat \ {0} /\ i \in 1..Ops - 1
        BY GatesAssumption DEF T!Op
  <2>2. NextOps[i] # {} /\ NextOps[i] \subseteq i + 1..Ops
        BY <2>1, GatesAssumption
  <2>3. i + 1..Ops \subseteq T!Op
        BY <2>1 DEF T!Op
  <2> QED BY <2>2, <2>3
<1>2. T!Op \in SUBSET tGates
      BY Zenon
<1>3. \A R \in SUBSET tGates : R \subseteq T!Op
      BY Zenon
<1> QED BY <1>1, <1>2, <1>3 DEF T!Reached

\* What the gates of a step let through, and how long an operation has waited.
GateTypes ==
  /\ tTrainable \subseteq T!Op /\ tAccurate \in BOOLEAN
  /\ tStep \in Nat /\ tStep <= MaxStep
  /\ tGates \subseteq T!Op /\ tPhase \in {"epoch", "build", "backward", "step"}
  /\ tPeriod \in [T!Op -> GatePeriods] /\ tSince \in [T!Op -> Nat]
OpenTogether == tPhase = "backward" /\ tStep % MaxPeriod = 0 => tGates = T!Op
\* The last step that went backwards.
GateLast == IF tPhase = "step" \/ tStep = 0 THEN tStep ELSE tStep - 1
Waited == \A i \in tTrainable : tSince[i] <= GateLast % MaxPeriod
GatesInv == GateTypes /\ OpenTogether /\ Waited

LEMMA GatesStart == T!Init => GatesInv
<1> SUFFICES ASSUME T!Init PROVE GatesInv
    OBVIOUS
<1> USE DEF T!Init
<1>1. GateTypes
  <2>1. MaxStep \in Nat
        BY GatesAssumption
  <2>2. [i \in T!Op |-> 1] \in [T!Op -> GatePeriods]
        BY OneDivides
  <2>3. [i \in T!Op |-> 0] \in [T!Op -> Nat]
        OBVIOUS
  <2>4. tPeriod \in [T!Op -> GatePeriods] /\ tSince \in [T!Op -> Nat]
        BY <2>2, <2>3
  <2>5. tTrainable = {} /\ tAccurate = FALSE /\ tStep = 0 /\ tGates = T!Op /\ tPhase = "epoch"
        BY Zenon
  <2> HIDE DEF T!Init
  <2>6. tTrainable \subseteq T!Op /\ tAccurate \in BOOLEAN
        BY <2>5
  <2>7. tStep \in Nat /\ tStep <= MaxStep
        BY <2>1, <2>5
  <2>8. tGates \subseteq T!Op /\ tPhase \in {"epoch", "build", "backward", "step"}
        BY <2>5
  <2> QED BY <2>4, <2>6, <2>7, <2>8 DEF GateTypes
<1> QED BY <1>1 DEF GatesInv, OpenTogether, Waited

LEMMA GatesEpoch == ASSUME GatesInv, \/ \E set \in (SUBSET T!Op) \ {{}} : T!Train(set)
                                     \/ \E acc \in BOOLEAN : T!Epoch(acc)
                    PROVE  GatesInv'
<1> USE DEF GatesInv
<1>1. ASSUME NEW set \in (SUBSET T!Op) \ {{}}, T!Train(set) PROVE GatesInv'
  <2>0. /\ tPhase = "epoch" /\ tPhase' = "build" /\ tTrainable' = set /\ tAccurate' = FALSE
        /\ tSince' = [i \in T!Op |-> IF set # tTrainable THEN 0 ELSE tSince[i]]
        /\ tStep' = tStep /\ tPeriod' = tPeriod /\ tGates' = tGates
        BY <1>1, Zenon DEF T!Train
  <2>1. GateTypes'
        BY <2>0 DEF GateTypes
  <2>2. OpenTogether'
        BY <2>0 DEF OpenTogether
  <2>3. GateLast' = GateLast /\ GateLast % MaxPeriod \in Nat
        BY <2>0, PeriodAssumption DEF GateLast, GateTypes
  <2>4. Waited'
    <3> SUFFICES ASSUME NEW i \in set PROVE tSince'[i] <= GateLast % MaxPeriod
        BY <2>0, <2>3 DEF Waited
    <3>1. i \in T!Op
          OBVIOUS
    <3>2. CASE set # tTrainable
          BY <2>0, <2>3, <3>1, <3>2
    <3>3. CASE set = tTrainable
          BY <2>0, <3>1, <3>3 DEF Waited
    <3> QED BY <3>2, <3>3
  <2> QED BY <2>1, <2>2, <2>4
<1>2. ASSUME NEW acc \in BOOLEAN, T!Epoch(acc) PROVE GatesInv'
  <2>0. /\ tPhase = "epoch" /\ tPhase' = "build" /\ tTrainable' = tTrainable /\ tAccurate' \in BOOLEAN
        /\ tSince' = tSince /\ tStep' = tStep /\ tPeriod' = tPeriod /\ tGates' = tGates
        BY <1>2, Zenon DEF T!Epoch
  <2>1. GateTypes'
        BY <2>0 DEF GateTypes
  <2>2. OpenTogether'
        BY <2>0 DEF OpenTogether
  <2>3. GateLast' = GateLast
        BY <2>0 DEF GateLast
  <2>4. Waited'
        BY <2>0, <2>3 DEF Waited
  <2> QED BY <2>1, <2>2, <2>4
<1> QED BY <1>1, <1>2

LEMMA GatesBuilt == ASSUME GatesInv, T!BuildGradGates PROVE GatesInv'
<1> USE DEF GatesInv
<1> DEFINE per == IF tAccurate THEN T!HeadsKept(tPeriod) ELSE tPeriod
<1>0. /\ tPhase = "build" /\ tPhase' = "backward" /\ tTrainable' = tTrainable
      /\ tAccurate' = tAccurate /\ tSince' = tSince /\ tStep' = tStep /\ tPeriod' = per
      /\ tGates' = IF tAccurate THEN {i \in T!Op : i \in tTrainable => tStep % tPeriod'[i] = 0}
                   ELSE T!Op
      BY Zenon DEF T!BuildGradGates
<1>1. per \in [T!Op -> GatePeriods]
      BY KeptDivides DEF GateTypes
<1> HIDE DEF per
<1>2. GateTypes'
      BY <1>0, <1>1 DEF GateTypes
<1>3. OpenTogether'
  <2> SUFFICES ASSUME tStep % MaxPeriod = 0 PROVE tGates' = T!Op
      BY <1>0 DEF OpenTogether
  <2>1. \A i \in T!Op : tStep % per[i] = 0
    <3> TAKE i \in T!Op
    <3>1. per[i] \in GatePeriods /\ tStep \in Nat
          BY <1>1 DEF GateTypes
    <3> QED BY <3>1, Aligned
  <2> QED BY <1>0, <2>1
<1>4. GateLast' = GateLast
      BY <1>0 DEF GateLast
<1>5. Waited'
      BY <1>0, <1>4 DEF Waited
<1> QED BY <1>2, <1>3, <1>5

LEMMA GatesBackward ==
  ASSUME GatesInv, NEW small \in SUBSET tTrainable, NEW large \in SUBSET (tTrainable \ small),
         T!UpdatePolicy(small, large)
  PROVE  GatesInv'
<1> USE DEF GatesInv
<1> DEFINE new == [i \in T!Op |-> IF i \in small THEN T!Doubled(tPeriod[i])
                                  ELSE IF i \in large THEN T!Halved(tPeriod[i])
                                  ELSE tPeriod[i]]
           r == tStep % MaxPeriod
<1>0. /\ tPhase = "backward" /\ tPhase' = "step" /\ tTrainable' = tTrainable
      /\ tAccurate' = tAccurate /\ tStep' = tStep /\ tGates' = tGates
      /\ tPeriod' = IF tAccurate /\ T!Learning # {} THEN T!HeadsKept(new) ELSE tPeriod
      /\ tSince' = [i \in T!Op |-> IF i \in T!Learning THEN 0 ELSE tSince[i] + 1]
      BY Zenon DEF T!UpdatePolicy
<1>1. new \in [T!Op -> GatePeriods]
  <2>1. ASSUME NEW i \in T!Op
        PROVE  (IF i \in small THEN T!Doubled(tPeriod[i])
                ELSE IF i \in large THEN T!Halved(tPeriod[i]) ELSE tPeriod[i]) \in GatePeriods
    <3>1. tPeriod[i] \in GatePeriods
          BY DEF GateTypes
    <3> QED BY <3>1, DoubledDivides, HalvedDivides
  <2> QED BY <2>1
<1> HIDE DEF new
<1>2. tPeriod' \in [T!Op -> GatePeriods]
      BY <1>0, <1>1, KeptDivides DEF GateTypes
<1>3. GateTypes'
      BY <1>0, <1>2 DEF GateTypes
<1>4. OpenTogether'
      BY <1>0 DEF OpenTogether
<1>5. GateLast' = tStep
      BY <1>0 DEF GateLast
<1>6. r \in Nat
      BY PeriodAssumption DEF GateTypes
<1>7. ASSUME NEW i \in tTrainable PROVE tSince'[i] <= r
  <2>1. i \in T!Op /\ tSince[i] \in Nat
        BY DEF GateTypes
  <2>2. CASE r = 0
    <3>1. i \in T!Learning
          BY <1>0, <2>1, <2>2, AllReached DEF OpenTogether, T!Learning
    <3> QED BY <1>0, <2>1, <2>2, <3>1
  <2>3. CASE r # 0
    <3>1. tStep \in Nat \ {0}
          BY <2>3, PeriodAssumption DEF GateTypes
    <3>2. (tStep - 1) % MaxPeriod = r - 1
          BY SMTT(30), <1>6, <2>3, <3>1, PeriodAssumption
    <3>3. GateLast = tStep - 1
          BY <1>0, <3>1 DEF GateLast
    <3>4. tSince[i] <= r - 1
          BY <3>2, <3>3 DEF Waited
    <3> HIDE DEF r
    <3> QED BY <1>0, <1>6, <2>1, <3>4
  <2> QED BY <2>2, <2>3
<1>8. Waited'
      BY <1>0, <1>5, <1>7 DEF Waited
<1> QED BY <1>3, <1>4, <1>8

LEMMA GatesStepped == ASSUME GatesInv, T!OptStep PROVE GatesInv'
<1> USE DEF GatesInv
<1>0. /\ tPhase = "step" /\ tStep < MaxStep /\ tStep' = tStep + 1 /\ tPhase' \in {"build", "epoch"}
      /\ tTrainable' = tTrainable /\ tAccurate' = tAccurate /\ tPeriod' = tPeriod
      /\ tGates' = tGates /\ tSince' = tSince
      BY Zenon DEF T!OptStep
<1>1. GateTypes'
      BY <1>0, GatesAssumption DEF GateTypes
<1>2. OpenTogether'
      BY <1>0 DEF OpenTogether
<1>3. GateLast' = GateLast
      BY <1>0 DEF GateLast, GateTypes
<1>4. Waited'
      BY <1>0, <1>3 DEF Waited
<1> QED BY <1>1, <1>2, <1>4

LEMMA GatesNext == GatesInv /\ [T!Next]_(T!vars) => GatesInv'
<1> SUFFICES ASSUME GatesInv, [T!Next]_(T!vars) PROVE GatesInv'
    OBVIOUS
<1>1. CASE \E set \in (SUBSET T!Op) \ {{}} : T!Train(set)
      BY <1>1, GatesEpoch
<1>2. CASE \E acc \in BOOLEAN : T!Epoch(acc)
      BY <1>2, GatesEpoch
<1>3. CASE T!BuildGradGates
      BY <1>3, GatesBuilt
<1>4. CASE \E small \in SUBSET tTrainable : \E large \in SUBSET (tTrainable \ small) :
             T!UpdatePolicy(small, large)
      BY <1>4, GatesBackward
<1>5. CASE T!OptStep
      BY <1>5, GatesStepped
<1>6. CASE UNCHANGED T!vars
  <2>1. /\ tTrainable' = tTrainable /\ tAccurate' = tAccurate /\ tStep' = tStep
        /\ tPeriod' = tPeriod /\ tGates' = tGates /\ tPhase' = tPhase /\ tSince' = tSince
        BY <1>6, Zenon DEF T!vars
  <2> QED BY <2>1 DEF GatesInv, GateTypes, OpenTogether, Waited, GateLast
<1> QED BY <1>1, <1>2, <1>3, <1>4, <1>5, <1>6, Zenon DEF T!Next

LEMMA GatesShown == GatesInv => EveryOpLearns /\ T!GradGatesTypeOK
<1> SUFFICES ASSUME GatesInv PROVE EveryOpLearns /\ T!GradGatesTypeOK
    OBVIOUS
<1> USE DEF GatesInv
<1>1. EveryOpLearns
  <2> SUFFICES ASSUME NEW i \in tTrainable PROVE tSince[i] < MaxPeriod
      BY DEF EveryOpLearns, T!EveryOpLearns
  <2>1. GateLast \in Nat /\ MaxPeriod \in Nat \ {0} /\ tSince[i] \in Nat
        BY PeriodAssumption DEF GateTypes, GateLast
  <2>2. GateLast % MaxPeriod \in 0..MaxPeriod - 1
        BY <2>1
  <2>3. tSince[i] <= GateLast % MaxPeriod
        BY DEF Waited
  <2> QED BY <2>1, <2>2, <2>3
<1>2. T!GradGatesTypeOK
  <2>1. tStep \in 0..MaxStep
        BY GatesAssumption DEF GateTypes
  <2>2. \A i \in T!Op : tPeriod[i] \in 1..MaxPeriod /\ tSince[i] \in Nat
        BY DEF GateTypes, GatePeriods
  <2> QED BY <2>1, <2>2 DEF T!GradGatesTypeOK, GateTypes
<1> QED BY <1>1, <1>2

\* A training of the API service: whatever gates close, in whatever order its gradients
\* are small or large, no operation waits for a gradient as long as the longest period.
THEOREM Learns == T!Spec => []EveryOpLearns
<1>1. T!Init => GatesInv
      BY GatesStart
<1>2. GatesInv /\ [T!Next]_(T!vars) => GatesInv'
      BY GatesNext
<1>3. GatesInv => EveryOpLearns
      BY GatesShown
<1> QED BY <1>1, <1>2, <1>3, PTL DEF T!Spec

\* The state of the gates keeps its types, and the step its bound.
THEOREM GatesTyped == T!Spec => []T!GradGatesTypeOK
<1>1. T!Init => GatesInv
      BY GatesStart
<1>2. GatesInv /\ [T!Next]_(T!vars) => GatesInv'
      BY GatesNext
<1>3. GatesInv => T!GradGatesTypeOK
      BY GatesShown
<1> QED BY <1>1, <1>2, <1>3, PTL DEF T!Spec

-----------------------------------------------------------------------------
(* A run of the composition is a run of the gates and one of the inference.   *)
LEMMA GatesAndInference == RuntimesSpec => T!Spec /\ I!Spec
<1>1. RuntimesInit => T!Init /\ I!Init
      BY Zenon DEF RuntimesInit
<1>2. [RuntimesNext]_<<part, vars, own>> => [T!Next]_(T!vars) /\ [I!Next]_(I!vars)
  <2> SUFFICES ASSUME [RuntimesNext]_<<part, vars, own>>
               PROVE  [T!Next]_(T!vars) /\ [I!Next]_(I!vars)
      OBVIOUS
  <2>1. tVars = T!vars /\ tVars' = T!vars' /\ iVars = I!vars /\ iVars' = I!vars'
        BY Zenon DEF tVars, T!vars, iVars, I!vars
  <2>2. T!Next \/ tVars' = tVars
        BY Zenon DEF RuntimesNext, own
  <2>3. I!Next \/ iVars' = iVars
        BY Zenon DEF RuntimesNext, own
  <2> QED BY <2>1, <2>2, <2>3, Zenon
<1> QED BY <1>1, <1>2, PTL DEF RuntimesSpec, T!Spec, I!Spec

(* Every operation learns within a period, in every run of the composition.    *)
THEOREM GatesKept == RuntimesSpec => []EveryOpLearns
<1>1. T!EveryOpLearns => EveryOpLearns
      BY DEF EveryOpLearns
<1> QED BY <1>1, GatesAndInference, Learns, PTL

(* No request is forgotten and the newest values are shown, in every run of    *)
(* the composition.                                                            *)
THEOREM InferenceKept == RuntimesSpec => []InferenceHolds
BY GatesAndInference, Inference, PTL

-----------------------------------------------------------------------------
(* In a step of another part the sections stay as they are.                   *)
LEMMA OthersKeep == RuntimesNext => [S!Next]_(S!vars)
<1> SUFFICES ASSUME RuntimesNext PROVE S!Next \/ UNCHANGED S!vars
    OBVIOUS
<1>1. sVars = S!vars
      BY Zenon DEF sVars, S!vars
<1>2. S!Next \/ UNCHANGED sVars
      BY Zenon DEF RuntimesNext, own
<1> QED BY <1>1, <1>2, Zenon DEF sVars, S!vars

(* What is promised of the sections holds of the whole.                       *)
THEOREM SectionsKept == RuntimesSpec => SectionsHold /\ []S!SectionsTypeOK
<1>1. RuntimesInit => S!Init
      BY Zenon DEF RuntimesInit
<1>2. [RuntimesNext]_<<part, vars, own>> => [S!Next]_(S!vars)
  <2>1. CASE RuntimesNext
        BY <2>1, OthersKeep
  <2>2. CASE UNCHANGED <<part, vars, own>>
    <3>1. UNCHANGED sVars
          BY <2>2, Zenon DEF own
    <3> QED BY <3>1, Zenon DEF sVars, S!vars
  <2> QED BY <2>1, <2>2
<1>3. RuntimesSpec => S!Spec
      BY <1>1, <1>2, PTL DEF RuntimesSpec, S!Spec
<1> QED BY <1>3, Sectioned, PTL DEF SectionsHold
=============================================================================
