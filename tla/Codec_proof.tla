----------------------------- MODULE Codec_proof -----------------------------
(* A dataset is read as it was packed, for any columns, any base of a byte and *)
(* any size of the blocks. *)
EXTENDS MCRuntimes, FiniteSetTheorems, SequenceTheorems, WellFoundedInduction, TLAPS
-----------------------------------------------------------------------------
(* Induction over numbers, for sets instead of formulas. *)
(* A set of naturals that is not empty has a least element. *)
LEMMA Least == ASSUME NEW some, some \subseteq Nat, some # {} PROVE \E n \in some : \A m \in some : n <= m
<1> DEFINE R == OpToRel(<, Nat)
<1>1. IsWellFoundedOn(R, Nat)
      BY NatLessThanWellFounded, Zenon
<1>2. \A m, n \in Nat : <<m, n>> \in R <=> m < n
      BY DEF OpToRel
<1> HIDE DEF R
<1>3. PICK n \in some : \A m \in some : <<m, n>> \notin R
      BY <1>1, WFMin, Zenon
<1>4. ASSUME NEW m \in some PROVE n <= m
  <2>1. m \in Nat /\ n \in Nat
        OBVIOUS
  <2>2. ~(m < n)
        BY <1>2, <1>3, <2>1, Zenon
  <2> QED BY <2>1, <2>2
<1> QED BY <1>4

(* A set of naturals that has 0 and, with each, the next has all. *)
LEMMA AllNat ==
  ASSUME NEW some, 0 \in some, \A n \in Nat : n \in some => n + 1 \in some PROVE Nat \subseteq some
<1> SUFFICES ASSUME NEW k \in Nat, k \notin some PROVE FALSE
    OBVIOUS
<1> DEFINE out == {n \in Nat : n \notin some}
<1>1. PICK n \in out : \A m \in out : n <= m
  <2>1. out \subseteq Nat /\ out # {}
        OBVIOUS
  <2> HIDE DEF out
  <2> QED BY <2>1, Least, Zenon
<1>2. n # 0 /\ n - 1 \in Nat /\ n - 1 + 1 = n
      OBVIOUS
<1>3. n - 1 \in some
      BY <1>1, <1>2
<1> QED BY <1>2, <1>3

(* A product grows with its factor. *)
LEMMA MulMono == ASSUME NEW a \in Int, NEW b \in Int, NEW c \in Nat, a <= b PROVE a * c <= b * c
<1>1. b - a \in Nat /\ (b - a) * c \in Nat
      OBVIOUS
<1>2. b * c = a * c + (b - a) * c /\ a * c \in Int
      OBVIOUS
<1> QED BY <1>1, <1>2
(* A number is its quotient times the divisor and its rest. *)
LEMMA DivMod ==
  ASSUME NEW v \in Int, NEW b \in Nat \ {0}
  PROVE  v \div b \in Int /\ v % b \in 0..b - 1 /\ v = (v \div b) * b + (v % b)
<1>1. v \div b \in Int /\ v % b \in 0..b - 1 /\ v = b * (v \div b) + (v % b)
  <2>1. v \div b \in Int
        OBVIOUS
  <2>2. v % b \in 0..b - 1
        OBVIOUS
  <2>3. v = b * (v \div b) + (v % b)
        BY Z3
  <2> QED BY <2>1, <2>2, <2>3
<1> DEFINE q == v \div b
<1>2. q \in Int /\ v = b * q + (v % b)
      BY <1>1
<1> HIDE DEF q
<1>3. b * q = q * b
      BY <1>2
<1>4. v = q * b + (v % b)
      BY <1>2, <1>3
<1> QED BY <1>1, <1>4 DEF q
(* There is one quotient and one rest. *)
LEMMA DivUnique ==
  ASSUME NEW b \in Nat \ {0}, NEW q \in Int, NEW r \in 0..b - 1
  PROVE  (q * b + r) \div b = q /\ (q * b + r) % b = r
<1> DEFINE v == q * b + r
           p == v \div b
           s == v % b
<1>1. v \in Int /\ q * b \in Int
      OBVIOUS
<1>2. p \in Int /\ s \in 0..b - 1 /\ v = p * b + s
      BY <1>1, DivMod, Zenon
<1>3. v = q * b + r
      OBVIOUS
<1> HIDE DEF p, s, v
<1>4. CASE p < q
  <2>1. (p + 1) * b <= q * b
        BY <1>2, <1>4, MulMono
  <2>2. (p + 1) * b = p * b + b
        BY <1>2
  <2> QED BY <1>1, <1>2, <1>3, <2>1, <2>2
<1>5. CASE q < p
  <2>1. (q + 1) * b <= p * b
        BY <1>2, <1>5, MulMono
  <2>2. (q + 1) * b = q * b + b
        BY <1>2
  <2> QED BY <1>1, <1>2, <1>3, <2>1, <2>2
<1>6. CASE p = q
      BY <1>1, <1>2, <1>3, <1>6
<1>7. p = q /\ s = r
      BY <1>2, <1>4, <1>5, <1>6, <1>3, <1>1
<1> QED BY <1>7 DEF p, s, v

\* Three, two and one digits cut off.
LEMMA Digits ==
  ASSUME NEW b \in Nat \ {0}, NEW v \in Nat
  PROVE  /\ v \div b \in Nat /\ v \div (b * b) = (v \div b) \div b
         /\ v \div (b * b * b) = ((v \div b) \div b) \div b
<1> DEFINE p == v \div b
           q == p \div b
           r == q \div b
<1>1. p \in Int /\ v = p * b + (v % b) /\ v % b \in 0..b - 1
      BY DivMod
<1>2. p \in Nat
  <2> HIDE DEF p
  <2>1. CASE p < 0
    <3>1. (p + 1) * b <= 0 * b
          BY <1>1, <2>1, MulMono
    <3>2. (p + 1) * b = p * b + b /\ 0 * b = 0 /\ p * b \in Int
          BY <1>1
    <3> HIDE DEF q, r
    <3> DEFINE t == p * b
               m == v % b
    <3>3. t \in Int /\ m \in 0..b - 1 /\ v = t + m /\ t + b <= 0
          BY <1>1, <3>1, <3>2
    <3> HIDE DEF t, m
    <3> QED BY <3>3
  <2> QED BY <1>1, <2>1
<1>3. q \in Int /\ p = q * b + (p % b) /\ p % b \in 0..b - 1
      BY <1>2, DivMod
<1>4. r \in Int /\ q = r * b + (q % b) /\ q % b \in 0..b - 1
      BY <1>3, DivMod
<1> DEFINE x == v % b
           y == p % b
           z == q % b
<1>5. x \in 0..b - 1 /\ y \in 0..b - 1 /\ z \in 0..b - 1 /\ v = p * b + x /\ p = q * b + y /\ q = r * b + z
      BY <1>1, <1>3, <1>4
<1> HIDE DEF p, q, r, x, y, z
<1>6. y * b + x \in 0..b * b - 1
  <2>1. (y + 1) * b <= b * b
        BY <1>5, MulMono
  <2>2. (y + 1) * b = y * b + b /\ y * b \in Nat /\ b * b \in Nat
        BY <1>5
  <2> DEFINE t == y * b
             s == b * b
  <2>3. t \in Nat /\ s \in Nat /\ t + b <= s
        BY <2>1, <2>2
  <2> HIDE DEF t, s
  <2>4. t + x \in 0..s - 1
        BY <1>5, <2>3
  <2> QED BY <2>4 DEF t, s
<1>7. v = q * (b * b) + (y * b + x)
      BY <1>1, <1>3, <1>5
<1>8. b * b \in Nat \ {0} /\ b * b * b \in Nat \ {0}
      OBVIOUS
<1>9. v \div (b * b) = q
      BY <1>3, <1>6, <1>7, <1>8, DivUnique, Zenon
<1>10. z * (b * b) + (y * b + x) \in 0..b * b * b - 1
  <2>1. (z + 1) * (b * b) <= b * (b * b) /\ (z + 1) * (b * b) = z * (b * b) + b * b /\ z * (b * b) \in Nat
        /\ b * (b * b) = b * b * b
        BY <1>5, <1>8, MulMono
  <2> QED BY <1>5, <1>6, <2>1
<1>11. v = r * (b * b * b) + (z * (b * b) + (y * b + x))
  <2>1. q * (b * b) = r * (b * b * b) + z * (b * b)
        BY <1>4, <1>5
  <2> DEFINE low == y * b + x
  <2>2. low \in Int
        BY <1>6
  <2>3. v = q * (b * b) + low
        BY <1>7
  <2> HIDE DEF low
  <2>4. r * (b * b * b) \in Int /\ z * (b * b) \in Int
        BY <1>4, <1>5
  <2>5. v = r * (b * b * b) + (z * (b * b) + low)
        BY <2>1, <2>2, <2>3, <2>4
  <2> QED BY <2>5 DEF low
<1>12. v \div (b * b * b) = r
      BY <1>4, <1>8, <1>10, <1>11, DivUnique, ZenonT(60)
<1> QED BY <1>2, <1>9, <1>12 DEF p, q, r

\* A product of digits and bases is what it was.
LEMMA TwoDigits ==
  ASSUME NEW b \in Nat \ {0}, NEW v \in 0..b * b - 1
  PROVE  (v \div b) \in 0..b - 1 /\ ((v \div b) % b) * b + (v % b) = v
<1> DEFINE p == v \div b
<1>1. p \in Nat /\ v = p * b + (v % b) /\ v % b \in 0..b - 1
  <2>1. v \in Nat /\ v \in Int
        OBVIOUS
  <2>2. p \in Nat
        BY <2>1, Digits
  <2>3. v = p * b + (v % b) /\ v % b \in 0..b - 1
        BY <2>1, DivMod
  <2> QED BY <2>2, <2>3
<1>2. p < b
  <2> HIDE DEF p
  <2>1. CASE p >= b
    <3>1. b * b <= p * b
          BY <1>1, <2>1, MulMono
    <3> DEFINE t == p * b
               s == b * b
               m == v % b
    <3>2. t \in Nat /\ s \in Nat /\ s <= t /\ v = t + m /\ m \in 0..b - 1 /\ v <= s - 1
          BY <1>1, <3>1
    <3> HIDE DEF t, s, m
    <3> QED BY <3>2
  <2> QED BY <1>1, <2>1
<1>3. p % b = p
  <2>1. p = 0 * b + p /\ p \in 0..b - 1
        BY <1>1, <1>2
  <2> HIDE DEF p
  <2> QED BY <2>1, DivUnique
<1> QED BY <1>1, <1>2, <1>3

(* Four digits make the number that was taken apart. *)
LEMMA FourDigits ==
  ASSUME NEW b \in Nat \ {0}, NEW v \in 0..b * b * b * b - 1
  PROVE  (((((v \div (b * b * b)) % b) * b + ((v \div (b * b)) % b)) * b + ((v \div b) % b)) * b) + (v % b) = v
<1> DEFINE p == v \div b
           q == p \div b
           r == q \div b
<1>1. p \in Nat /\ v \div (b * b) = q /\ v \div (b * b * b) = r
  <2>1. v \in Nat
        OBVIOUS
  <2> QED BY <2>1, Digits, Zenon
<1>2. v \in Int /\ v = p * b + (v % b)
      BY DivMod
<1>3. q \in Nat /\ p = q * b + (p % b) /\ p % b \in 0..b - 1
  <2>1. p \in Int
        BY <1>1
  <2> HIDE DEF p
  <2> QED BY <1>1, <2>1, Digits, DivMod, Zenon
<1>4. r \in Nat /\ q = r * b + (q % b) /\ q % b \in 0..b - 1
  <2>1. q \in Int
        BY <1>3
  <2> HIDE DEF q
  <2> QED BY <1>3, <2>1, Digits, DivMod, Zenon
<1>5. r < b
  <2>1. CASE r >= b
    <3> DEFINE c == b * b * b
    <3>1. c \in Nat \ {0} /\ v \in Int /\ r = v \div c /\ b * c = b * b * b * b
          BY <1>1
    <3>2. v = r * c + (v % c) /\ v % c \in 0..c - 1
      <4> HIDE DEF c, r
      <4> QED BY <3>1, DivMod
    <3>3. b * c <= r * c
      <4> HIDE DEF c, r
      <4> QED BY <1>4, <2>1, <3>1, MulMono
    <3> DEFINE t == r * c
               s == b * c
               m == v % c
    <3>4. t \in Int /\ s \in Int /\ s <= t /\ v = t + m /\ m >= 0 /\ v <= s - 1
      <4> HIDE DEF r
      <4> QED BY <1>4, <3>1, <3>2, <3>3
    <3> HIDE DEF t, s, m
    <3> QED BY <3>4
  <2> HIDE DEF r
  <2> QED BY <1>4, <2>1
<1>6. r % b = r
  <2>1. r = 0 * b + r /\ r \in 0..b - 1
        BY <1>4, <1>5
  <2> HIDE DEF r
  <2> QED BY <2>1, DivUnique
<1> DEFINE whole == (((((v \div (b * b * b)) % b) * b + ((v \div (b * b)) % b)) * b + ((v \div b) % b)) * b) + (v % b)
<1>7. whole = (((r * b + (q % b)) * b) + (p % b)) * b + (v % b)
      BY <1>1, <1>6, Zenon
<1>8. whole = v
      BY <1>2, <1>3, <1>4, <1>7, Zenon
<1> QED BY <1>8
(* Sequences laid one after the other. *)
\* Where each of the sequences ends.
Borders(ss, at) ==
  /\ at \in [0..Len(ss) -> Nat] /\ at[0] = 0
  /\ \A i \in 1..Len(ss) : at[i] = at[i - 1] + Len(ss[i])

\* What is read where each of them stands.
Laid(flat, ss, at) ==
  \A i \in 1..Len(ss) : \A k \in 1..Len(ss[i]) :
    at[i - 1] + k \in 1..Len(flat) /\ flat[at[i - 1] + k] = ss[i][k]

(* What stands before a place in a growing list of ends. *)
LEMMA Covered ==
  ASSUME NEW n \in Nat, NEW at \in [0..n -> Nat], at[0] = 0, NEW k \in 1..at[n]
  PROVE  \E i \in 1..n : at[i - 1] < k /\ k <= at[i]
<1> DEFINE past == {i \in 0..n : k <= at[i]}
<1>1. past \subseteq Nat /\ past # {}
  <2>1. n \in past
        OBVIOUS
  <2> QED BY <2>1
<1>2. PICK i \in past : \A j \in past : i <= j
  <2> HIDE DEF past
  <2> QED BY <1>1, Least, Zenon
<1>3. i \in 1..n /\ k <= at[i]
      BY <1>2
<1>4. i - 1 \in 0..n /\ ~(i <= i - 1)
      BY <1>3
<1>5. at[i - 1] < k
      BY <1>2, <1>4
<1> QED BY <1>3, <1>5

(* There is one list of ends. *)
LEMMA OneEnd ==
  ASSUME NEW ss, Len(ss) \in Nat, NEW at, NEW at2, Borders(ss, at), Borders(ss, at2)
  PROVE  \A i \in 0..Len(ss) : at[i] = at2[i]
<1> DEFINE Fine == {n \in Nat : n <= Len(ss) => at[n] = at2[n]}
<1>1. 0 \in Fine
      BY DEF Borders
<1>2. ASSUME NEW n \in Nat, n \in Fine PROVE n + 1 \in Fine
  <2> SUFFICES ASSUME n + 1 <= Len(ss) PROVE at[n + 1] = at2[n + 1]
      OBVIOUS
  <2>1. n + 1 \in 1..Len(ss) /\ n + 1 - 1 = n /\ at[n] = at2[n]
        BY <1>2
  <2>2. at[n + 1] = at[n + 1 - 1] + Len(ss[n + 1]) /\ at2[n + 1] = at2[n + 1 - 1] + Len(ss[n + 1])
        BY <2>1 DEF Borders
  <2> QED BY <2>1, <2>2
<1>3. Nat \subseteq Fine
  <2> HIDE DEF Fine
  <2> QED BY <1>1, <1>2, AllNat
<1> QED BY <1>3

(* What stands where in two sequences that follow each other. *)
LEMMA Concatenated ==
  ASSUME NEW Elem, NEW u \in Seq(Elem), NEW v \in Seq(Elem)
  PROVE  /\ u \o v \in Seq(Elem) /\ Len(u \o v) = Len(u) + Len(v)
         /\ \A i \in 1..Len(u) : (u \o v)[i] = u[i]
         /\ \A i \in 1..Len(v) : (u \o v)[Len(u) + i] = v[i]
<1>1. /\ u \o v \in Seq(Elem) /\ Len(u \o v) = Len(u) + Len(v)
      /\ \A i \in 1..Len(u) + Len(v) : (u \o v)[i] = IF i <= Len(u) THEN u[i] ELSE v[i - Len(u)]
      BY ConcatProperties, Zenon
<1>2. Len(u) \in Nat /\ Len(v) \in Nat
      OBVIOUS
<1>3. ASSUME NEW i \in 1..Len(u) PROVE (u \o v)[i] = u[i]
      BY <1>1, <1>2
<1>4. ASSUME NEW i \in 1..Len(v) PROVE (u \o v)[Len(u) + i] = v[i]
  <2>1. Len(u) + i \in 1..Len(u) + Len(v) /\ ~(Len(u) + i <= Len(u)) /\ Len(u) + i - Len(u) = i
        BY <1>2
  <2> QED BY <1>1, <2>1
<1> QED BY <1>1, <1>3, <1>4

\* What FlattenSeq computes step by step.
FlatUpTo(ss, f, n) == f = [i \in 1..n |-> IF i = 1 THEN ss[i] ELSE f[i - 1] \o ss[i]]

(* It exists. *)
LEMMA FlatSteps ==
  ASSUME NEW ss, Len(ss) \in Nat, Len(ss) # 0
  PROVE  \E f : FlatUpTo(ss, f, Len(ss)) /\ D!FlattenSeq(ss) = f[Len(ss)]
<1> DEFINE Has == {n \in Nat : \E f : FlatUpTo(ss, f, n)}
<1>1. 0 \in Has
  <2>1. FlatUpTo(ss, [i \in 1..0 |-> <<>>], 0)
        BY DEF FlatUpTo
  <2> QED BY <2>1
<1>2. ASSUME NEW n \in Nat, n \in Has PROVE n + 1 \in Has
  <2>1. PICK f : FlatUpTo(ss, f, n)
        BY <1>2
  <2> DEFINE last == IF n + 1 = 1 THEN ss[n + 1] ELSE f[n] \o ss[n + 1]
             g == [i \in 1..n + 1 |-> IF i = n + 1 THEN last ELSE f[i]]
  <2>2. \A i \in 1..n : g[i] = f[i]
        OBVIOUS
  <2>3. \A i \in 1..n + 1 : g[i] = IF i = 1 THEN ss[i] ELSE g[i - 1] \o ss[i]
    <3> TAKE i \in 1..n + 1
    <3>1. CASE i = n + 1
      <4>1. g[i] = last /\ (i # 1 => i - 1 \in 1..n /\ i - 1 = n)
            BY <3>1
      <4>2. i # 1 => g[i - 1] = f[n]
            BY <2>2, <4>1
      <4> HIDE DEF g
      <4> QED BY <3>1, <4>1, <4>2
    <3>2. CASE i # n + 1
      <4>1. i \in 1..n /\ (i # 1 => i - 1 \in 1..n)
            BY <3>2
      <4>2. f[i] = IF i = 1 THEN ss[i] ELSE f[i - 1] \o ss[i]
            BY <2>1, <4>1, Zenon DEF FlatUpTo
      <4> QED BY <2>2, <4>1, <4>2
    <3> QED BY <3>1, <3>2
  <2>4. g = [i \in 1..n + 1 |-> g[i]]
        OBVIOUS
  <2> HIDE DEF g
  <2>5. FlatUpTo(ss, g, n + 1)
        BY <2>3, <2>4, Zenon DEF FlatUpTo
  <2> QED BY <2>5
<1>3. Len(ss) \in Has
  <2> HIDE DEF Has
  <2> QED BY <1>1, <1>2, AllNat
<1> DEFINE first == CHOOSE f : FlatUpTo(ss, f, Len(ss))
<1>4. FlatUpTo(ss, first, Len(ss))
      BY <1>3, Zenon
<1>5. D!FlattenSeq(ss) = first[Len(ss)]
      BY Zenon DEF D!FlattenSeq, FlatUpTo
<1> QED BY <1>4, <1>5, Zenon

(* One sequence more is appended. *)
LEMMA FlatNext ==
  ASSUME NEW ss, NEW n \in Nat, NEW f, FlatUpTo(ss, f, n), NEW i \in Nat, i + 1 \in 1..n, i # 0
  PROVE  f[i + 1] = f[i] \o ss[i + 1]
<1> DEFINE j == i + 1
<1>1. j \in 1..n /\ j # 1 /\ j - 1 = i
      OBVIOUS
<1> HIDE DEF j
<1>2. f[j] = IF j = 1 THEN ss[j] ELSE f[j - 1] \o ss[j]
      BY <1>1, Zenon DEF FlatUpTo
<1>3. f[j] = f[i] \o ss[j]
      BY <1>1, <1>2, Zenon
<1> QED BY <1>3 DEF j

(* FlattenSeq lays the sequences one after the other. *)
LEMMA Flat ==
  ASSUME NEW Elem, NEW ss \in Seq(Seq(Elem))
  PROVE  /\ D!FlattenSeq(ss) \in Seq(Elem)
         /\ \E at : /\ Borders(ss, at) /\ Len(D!FlattenSeq(ss)) = at[Len(ss)]
                    /\ Laid(D!FlattenSeq(ss), ss, at)
<1> DEFINE size == Len(ss)
           flat == D!FlattenSeq(ss)
<1>1. size \in Nat /\ \A i \in 1..size : ss[i] \in Seq(Elem) /\ Len(ss[i]) \in Nat
      OBVIOUS
<1>2. CASE size = 0
  <2>1. ss = <<>>
        BY <1>2
  <2>2. flat = ss
        BY <1>2, Zenon DEF D!FlattenSeq
  <2>3. flat = <<>>
        BY <2>1, <2>2
  <2>4. <<>> \in Seq(Elem) /\ Len(<<>>) = 0
        OBVIOUS
  <2> DEFINE at == [i \in 0..size |-> 0]
  <2>5. at \in [0..size -> Nat] /\ at[0] = 0 /\ at[size] = 0
        BY <1>2
  <2> HIDE DEF at
  <2>6. 1..size = {}
        BY <1>2
  <2>7. Borders(ss, at)
        BY <2>5, <2>6, Zenon DEF Borders
  <2>8. Laid(flat, ss, at)
        BY <2>6 DEF Laid
  <2>9. Len(flat) = at[size] /\ flat \in Seq(Elem)
        BY <2>3, <2>4, <2>5, Zenon
  <2> HIDE DEF flat
  <2> QED BY <2>7, <2>8, <2>9, Zenon DEF flat, size
<1>3. CASE size # 0
  <2>1. PICK f : FlatUpTo(ss, f, size) /\ flat = f[size]
        BY <1>1, <1>3, FlatSteps, Zenon
  <2> HIDE DEF flat
  <2>2. \A i \in 1..size : f[i] = IF i = 1 THEN ss[i] ELSE f[i - 1] \o ss[i]
        BY <2>1, Zenon DEF FlatUpTo
  <2> DEFINE at == [i \in 0..size |-> IF i = 0 THEN 0 ELSE Len(f[i])]
             Laying(n) == /\ f[n + 1] \in Seq(Elem) /\ at[n + 1] = at[n] + Len(ss[n + 1])
                        /\ \A i \in 1..n + 1 : \A k \in 1..Len(ss[i]) :
                             at[i - 1] + k \in 1..at[n + 1] /\ f[n + 1][at[i - 1] + k] = ss[i][k]
             Fine == {n \in Nat : n + 1 <= size => Laying(n)}
  <2>3. at[0] = 0 /\ \A i \in 1..size : at[i] = Len(f[i])
        BY <1>1
  <2>4. 0 \in Fine
    <3>1. 0 + 1 = 1 /\ 1 \in 1..size
          BY <1>1, <1>3
    <3>2. f[1] = ss[1] /\ ss[1] \in Seq(Elem) /\ Len(ss[1]) \in Nat
          BY <1>1, <2>2, <3>1, Zenon
    <3>3. at[1] = at[0] + Len(ss[1]) /\ at[1] = Len(ss[1])
          BY <2>3, <3>1, <3>2
    <3>4. \A i \in 1..1 : i = 1 /\ i - 1 = 0
          OBVIOUS
    <3> HIDE DEF at
    <3>5. \A k \in 1..Len(ss[1]) : at[0] + k \in 1..at[1] /\ at[0] + k = k
          BY <2>3, <3>2, <3>3
    <3> QED BY <3>1, <3>2, <3>3, <3>4, <3>5
  <2>5. ASSUME NEW n \in Nat, n \in Fine PROVE n + 1 \in Fine
    <3> DEFINE m == n + 1
    <3> SUFFICES ASSUME m + 1 <= size
                 PROVE  /\ f[m + 1] \in Seq(Elem) /\ at[m + 1] = at[m] + Len(ss[m + 1])
                        /\ \A i \in 1..m + 1 : \A k \in 1..Len(ss[i]) :
                             at[i - 1] + k \in 1..at[m + 1] /\ f[m + 1][at[i - 1] + k] = ss[i][k]
        OBVIOUS
    <3>1. m \in Nat /\ m >= 1 /\ m + 1 \in 1..size /\ m \in 1..size /\ m + 1 # 1 /\ m + 1 - 1 = m
          BY <1>1
    <3>2. /\ f[m] \in Seq(Elem)
          /\ \A i \in 1..m : \A k \in 1..Len(ss[i]) :
               at[i - 1] + k \in 1..at[m] /\ f[m][at[i - 1] + k] = ss[i][k]
          BY SMTT(30), <2>5, <3>1
    <3> HIDE DEF m, at
    <3>3. f[m + 1] = f[m] \o ss[m + 1] /\ ss[m + 1] \in Seq(Elem) /\ Len(ss[m + 1]) \in Nat
      <4>1. size \in Nat /\ m \in Nat /\ m + 1 \in 1..size /\ m # 0 /\ FlatUpTo(ss, f, size)
            BY <1>1, <2>1, <3>1
      <4>2. f[m + 1] = f[m] \o ss[m + 1]
        <5> HIDE DEF size
        <5> QED BY <4>1, FlatNext, ZenonT(60)
      <4> QED BY <1>1, <3>1, <4>2
    <3>4. at[m] = Len(f[m]) /\ at[m + 1] = Len(f[m + 1]) /\ at[m] \in Nat
          BY <2>3, <3>1, <3>2
    <3> DEFINE u == f[m]
               v == ss[m + 1]
               w == f[m + 1]
    <3>5. /\ w \in Seq(Elem) /\ Len(w) = Len(u) + Len(v)
          /\ \A j \in 1..Len(u) : w[j] = u[j]
          /\ \A j \in 1..Len(v) : w[Len(u) + j] = v[j]
      <4>1. u \in Seq(Elem) /\ v \in Seq(Elem) /\ w = u \o v
            BY <3>2, <3>3, Zenon
      <4> HIDE DEF u, v, w
      <4> QED BY <4>1, Concatenated
    <3>6. at[m + 1] = at[m] + Len(v)
          BY <3>4, <3>5, Zenon
    <3>7. ASSUME NEW i \in 1..m + 1, NEW k \in 1..Len(ss[i])
          PROVE  at[i - 1] + k \in 1..at[m + 1] /\ w[at[i - 1] + k] = ss[i][k]
      <4>1. CASE i = m + 1
        <5>1. at[i - 1] = at[m] /\ k \in 1..Len(v) /\ ss[i] = v
              BY <3>1, <4>1
        <5>2. Len(u) = at[m] /\ Len(v) \in Nat
              BY <3>3, <3>4
        <5> HIDE DEF u, v, w
        <5>3. w[Len(u) + k] = v[k]
              BY <3>5, <5>1
        <5>4. at[m] + k \in 1..at[m + 1]
              BY <3>4, <3>6, <5>1, <5>2
        <5> QED BY <5>1, <5>2, <5>3, <5>4
      <4>2. CASE i # m + 1
        <5>1. i \in 1..m
              BY <3>1, <4>2
        <5>2. at[i - 1] + k \in 1..at[m] /\ u[at[i - 1] + k] = ss[i][k]
              BY <3>2, <5>1
        <5>3. Len(u) = at[m] /\ Len(v) \in Nat
              BY <3>3, <3>4
        <5> DEFINE place == at[i - 1] + k
        <5>4. place \in 1..at[m] /\ u[place] = ss[i][k]
              BY <5>2
        <5> HIDE DEF u, v, w, place
        <5>5. place \in 1..at[m + 1] /\ place \in 1..Len(u)
              BY <3>4, <3>6, <5>3, <5>4
        <5>6. w[place] = u[place]
              BY <3>5, <5>5
        <5> QED BY <5>4, <5>5, <5>6 DEF place
      <4> QED BY <4>1, <4>2
    <3> QED BY <3>5, <3>6, <3>7
  <2>6. Nat \subseteq Fine
    <3> HIDE DEF Fine
    <3> QED BY <2>4, <2>5, AllNat, Zenon
  <2>7. /\ \A i \in 1..size : f[i] \in Seq(Elem) /\ at[i] = at[i - 1] + Len(ss[i])
        /\ \A i \in 1..size : \A k \in 1..Len(ss[i]) :
             at[i - 1] + k \in 1..at[size] /\ f[size][at[i - 1] + k] = ss[i][k]
    <3>1. ASSUME NEW i \in 1..size PROVE f[i] \in Seq(Elem) /\ at[i] = at[i - 1] + Len(ss[i])
      <4>1. i - 1 \in Nat /\ i - 1 + 1 = i /\ i - 1 + 1 <= size
            BY <1>1
      <4> HIDE DEF at
      <4>2. Laying(i - 1)
        <5> HIDE DEF Laying
        <5> QED BY <2>6, <4>1
      <4> QED BY <4>1, <4>2
    <3>2. size - 1 \in Nat /\ size - 1 + 1 = size
          BY <1>1, <1>3
    <3>3. \A i \in 1..size : \A k \in 1..Len(ss[i]) :
             at[i - 1] + k \in 1..at[size] /\ f[size][at[i - 1] + k] = ss[i][k]
      <4> HIDE DEF at
      <4>1. size - 1 + 1 <= size
            BY <3>2
      <4>2. Laying(size - 1)
        <5> HIDE DEF Laying, size
        <5> QED BY <2>6, <3>2, <4>1
      <4> HIDE DEF size
      <4> QED BY <3>2, <4>2
    <3> QED BY <3>1, <3>3, Zenon
  <2>8. at \in [0..size -> Nat]
    <3>1. ASSUME NEW i \in 0..size PROVE (IF i = 0 THEN 0 ELSE Len(f[i])) \in Nat
      <4>1. CASE i = 0
            BY <4>1
      <4>2. CASE i # 0
        <5>1. i \in 1..size
              BY <1>1, <4>2
        <5>2. f[i] \in Seq(Elem)
              BY <2>7, <5>1, Zenon
        <5> QED BY <4>2, <5>2
      <4> QED BY <4>1, <4>2
    <3> QED BY <3>1
  <2>9. size \in 1..size
        BY <1>1, <1>3
  <2>10. Len(flat) = at[size] /\ flat \in Seq(Elem)
        BY <2>1, <2>3, <2>7, <2>9, Zenon
  <2> HIDE DEF at
  <2>11. Borders(ss, at)
        BY <2>3, <2>7, <2>8 DEF Borders
  <2>12. Laid(flat, ss, at)
        BY <2>1, <2>7, <2>10 DEF Laid
  <2> QED BY <2>10, <2>11, <2>12, Zenon DEF flat, size
<1> QED BY <1>2, <1>3

(* What is laid like them is what FlattenSeq makes. *)
LEMMA FlatIs ==
  ASSUME NEW Elem, NEW ss \in Seq(Seq(Elem)), NEW t \in Seq(Elem), NEW at,
         Borders(ss, at), Len(t) = at[Len(ss)], Laid(t, ss, at)
  PROVE  D!FlattenSeq(ss) = t
<1> DEFINE flat == D!FlattenSeq(ss)
<1>1. flat \in Seq(Elem)
      BY Flat
<1>2. PICK at2 : Borders(ss, at2) /\ Len(flat) = at2[Len(ss)] /\ Laid(flat, ss, at2)
      BY Flat
<1> HIDE DEF flat
<1>3. Len(ss) \in Nat /\ \A i \in 0..Len(ss) : at[i] = at2[i]
      BY <1>2, OneEnd
<1>4. Len(flat) = Len(t)
      BY <1>2, <1>3
<1>5. ASSUME NEW k \in 1..Len(t) PROVE flat[k] = t[k]
  <2>1. at \in [0..Len(ss) -> Nat] /\ at[0] = 0 /\ k \in 1..at[Len(ss)]
        BY DEF Borders
  <2>2. PICK i \in 1..Len(ss) : at[i - 1] < k /\ k <= at[i]
        BY <1>3, <2>1, Covered, Zenon
  <2>3. at[i - 1] \in Nat /\ at[i] = at[i - 1] + Len(ss[i]) /\ i - 1 \in 0..Len(ss)
    <3>1. i - 1 \in 0..Len(ss) /\ at[i] = at[i - 1] + Len(ss[i])
          BY <1>3, <2>2 DEF Borders
    <3> QED BY <2>1, <3>1, Zenon
  <2>4. Len(ss[i]) \in Nat
        BY <2>2
  <2> DEFINE j == k - at[i - 1]
  <2>5. j \in 1..Len(ss[i]) /\ at[i - 1] + j = k /\ at2[i - 1] = at[i - 1]
        BY SMTT(30), <1>3, <2>2, <2>3, <2>4
  <2> HIDE DEF j
  <2>6. t[at[i - 1] + j] = ss[i][j]
        BY <2>2, <2>5, Zenon DEF Laid
  <2>7. flat[at2[i - 1] + j] = ss[i][j]
        BY <1>2, <2>2, <2>5, Zenon DEF Laid
  <2> QED BY <2>5, <2>6, <2>7
<1>6. flat = t
      BY <1>1, <1>4, <1>5, SeqEqual
<1> QED BY <1>6 DEF flat
\* What BigEndian computes step by step.
ValueUpTo(bytes, f, n) == f = [i \in 0..n |-> IF i = 0 THEN 0 ELSE f[i - 1] * Base + bytes[i]]

(* It exists. *)
LEMMA ValueSteps ==
  ASSUME NEW bytes, Len(bytes) \in Nat
  PROVE  \E f : ValueUpTo(bytes, f, Len(bytes)) /\ D!BigEndian(bytes) = f[Len(bytes)]
<1> DEFINE Has == {n \in Nat : \E f : ValueUpTo(bytes, f, n)}
<1>1. 0 \in Has
  <2>1. ValueUpTo(bytes, [i \in 0..0 |-> 0], 0)
        BY DEF ValueUpTo
  <2> QED BY <2>1
<1>2. ASSUME NEW n \in Nat, n \in Has PROVE n + 1 \in Has
  <2>1. PICK f : ValueUpTo(bytes, f, n)
        BY <1>2
  <2> DEFINE last == f[n] * Base + bytes[n + 1]
             g == [i \in 0..n + 1 |-> IF i = n + 1 THEN last ELSE f[i]]
  <2>2. \A i \in 0..n : g[i] = f[i]
        OBVIOUS
  <2>3. \A i \in 0..n + 1 : g[i] = IF i = 0 THEN 0 ELSE g[i - 1] * Base + bytes[i]
    <3> TAKE i \in 0..n + 1
    <3>1. CASE i = n + 1
      <4>1. g[i] = last /\ i # 0 /\ i - 1 \in 0..n /\ i - 1 = n
            BY <3>1
      <4>2. g[i - 1] = f[n]
            BY <2>2, <4>1
      <4> HIDE DEF g
      <4> QED BY <3>1, <4>1, <4>2
    <3>2. CASE i # n + 1
      <4>1. i \in 0..n /\ (i # 0 => i - 1 \in 0..n)
            BY <3>2
      <4>2. f[i] = IF i = 0 THEN 0 ELSE f[i - 1] * Base + bytes[i]
            BY <2>1, <4>1 DEF ValueUpTo
      <4>3. g[i] = f[i] /\ (i # 0 => g[i - 1] = f[i - 1])
            BY <2>2, <4>1
      <4> HIDE DEF g
      <4> QED BY <4>2, <4>3
    <3> QED BY <3>1, <3>2
  <2>4. g = [i \in 0..n + 1 |-> g[i]]
        OBVIOUS
  <2> HIDE DEF g
  <2>5. ValueUpTo(bytes, g, n + 1)
        BY <2>3, <2>4 DEF ValueUpTo
  <2> QED BY <2>5
<1>3. Len(bytes) \in Has
  <2> HIDE DEF Has
  <2> QED BY <1>1, <1>2, AllNat
<1> DEFINE first == CHOOSE f : ValueUpTo(bytes, f, Len(bytes))
<1>4. ValueUpTo(bytes, first, Len(bytes))
      BY <1>3, Zenon
<1>5. D!BigEndian(bytes) = first[Len(bytes)]
      BY Zenon DEF D!BigEndian, ValueUpTo
<1> QED BY <1>4, <1>5, Zenon

(* One byte more. *)
LEMMA ValueStepsNext ==
  ASSUME NEW bytes, NEW n \in Nat, NEW f, ValueUpTo(bytes, f, n)
  PROVE  f[0] = 0 /\ \A i \in Nat : i < n => f[i + 1] = f[i] * Base + bytes[i + 1]
<1>1. \A j \in 0..n : f[j] = IF j = 0 THEN 0 ELSE f[j - 1] * Base + bytes[j]
      BY DEF ValueUpTo
<1>2. ASSUME NEW i \in Nat, i < n PROVE f[i + 1] = f[i] * Base + bytes[i + 1]
  <2> DEFINE j == i + 1
  <2>1. j \in 0..n /\ j # 0 /\ j - 1 = i
        BY <1>2
  <2> HIDE DEF j
  <2>2. f[j] = f[j - 1] * Base + bytes[j]
        BY <1>1, <2>1
  <2>3. f[j] = f[i] * Base + bytes[j]
        BY <2>1, <2>2, Zenon
  <2> QED BY <2>3 DEF j
<1>3. f[0] = 0
      BY <1>1
<1> QED BY <1>2, <1>3

\* What Runs computes step by step.
RunsUpTo(raw, f, n) == f = [i \in 0..n |-> IF i = 0 THEN <<>> ELSE D!Longer(f[i - 1], raw[i])]

(* It exists. *)
LEMMA RunsSteps ==
  ASSUME NEW raw, Len(raw) \in Nat
  PROVE  \E f : RunsUpTo(raw, f, Len(raw)) /\ D!Runs(raw) = f[Len(raw)]
<1> DEFINE Has == {n \in Nat : \E f : RunsUpTo(raw, f, n)}
<1>1. 0 \in Has
  <2>1. RunsUpTo(raw, [i \in 0..0 |-> <<>>], 0)
        BY DEF RunsUpTo
  <2> QED BY <2>1
<1>2. ASSUME NEW n \in Nat, n \in Has PROVE n + 1 \in Has
  <2>1. PICK f : RunsUpTo(raw, f, n)
        BY <1>2
  <2> DEFINE last == D!Longer(f[n], raw[n + 1])
             g == [i \in 0..n + 1 |-> IF i = n + 1 THEN last ELSE f[i]]
  <2>2. \A i \in 0..n : g[i] = f[i]
        OBVIOUS
  <2>3. \A i \in 0..n + 1 : g[i] = IF i = 0 THEN <<>> ELSE D!Longer(g[i - 1], raw[i])
    <3> TAKE i \in 0..n + 1
    <3>1. CASE i = n + 1
      <4>1. g[i] = last /\ i # 0 /\ i - 1 \in 0..n /\ i - 1 = n
            BY <3>1
      <4>2. g[i - 1] = f[n]
            BY <2>2, <4>1
      <4> HIDE DEF g
      <4> QED BY <3>1, <4>1, <4>2
    <3>2. CASE i # n + 1
      <4>1. i \in 0..n /\ (i # 0 => i - 1 \in 0..n)
            BY <3>2
      <4>2. f[i] = IF i = 0 THEN <<>> ELSE D!Longer(f[i - 1], raw[i])
            BY <2>1, <4>1 DEF RunsUpTo
      <4>3. g[i] = f[i] /\ (i # 0 => g[i - 1] = f[i - 1])
            BY <2>2, <4>1
      <4> HIDE DEF g
      <4> QED BY <4>2, <4>3
    <3> QED BY <3>1, <3>2
  <2>4. g = [i \in 0..n + 1 |-> g[i]]
        OBVIOUS
  <2> HIDE DEF g
  <2>5. RunsUpTo(raw, g, n + 1)
        BY <2>3, <2>4, Zenon DEF RunsUpTo
  <2> QED BY <2>5
<1>3. Len(raw) \in Has
  <2> HIDE DEF Has
  <2> QED BY <1>1, <1>2, AllNat
<1> DEFINE first == CHOOSE f : RunsUpTo(raw, f, Len(raw))
<1>4. RunsUpTo(raw, first, Len(raw))
      BY <1>3, Zenon
<1>5. D!Runs(raw) = first[Len(raw)]
      BY Zenon DEF D!Runs, RunsUpTo
<1> QED BY <1>4, <1>5, Zenon

(* One byte more. *)
LEMMA RunsStepsNext ==
  ASSUME NEW raw, NEW n \in Nat, NEW f, RunsUpTo(raw, f, n)
  PROVE  f[0] = <<>> /\ \A i \in Nat : i < n => f[i + 1] = D!Longer(f[i], raw[i + 1])
<1>1. \A j \in 0..n : f[j] = IF j = 0 THEN <<>> ELSE D!Longer(f[j - 1], raw[j])
      BY DEF RunsUpTo
<1>2. ASSUME NEW i \in Nat, i < n PROVE f[i + 1] = D!Longer(f[i], raw[i + 1])
  <2> DEFINE j == i + 1
  <2>1. j \in 0..n /\ j # 0 /\ j - 1 = i
        BY <1>2
  <2> HIDE DEF j
  <2>2. f[j] = D!Longer(f[j - 1], raw[j])
        BY <1>1, <2>1
  <2>3. f[j] = D!Longer(f[i], raw[j])
        BY <2>1, <2>2, Zenon
  <2> QED BY <2>3 DEF j
<1>3. f[0] = <<>>
      BY <1>1
<1> QED BY <1>2, <1>3

\* What Split computes step by step.
SplitUpTo(raw, f, n) == f = [i \in 0..n |-> IF i = 0 THEN <<(<<>>)>> ELSE D!Parted(f[i - 1], raw[i])]

(* It exists. *)
LEMMA SplitSteps ==
  ASSUME NEW raw, Len(raw) \in Nat
  PROVE  \E f : SplitUpTo(raw, f, Len(raw)) /\ D!Split(raw) = f[Len(raw)]
<1> DEFINE Has == {n \in Nat : \E f : SplitUpTo(raw, f, n)}
<1>1. 0 \in Has
  <2>1. SplitUpTo(raw, [i \in 0..0 |-> <<(<<>>)>>], 0)
        BY DEF SplitUpTo
  <2> QED BY <2>1
<1>2. ASSUME NEW n \in Nat, n \in Has PROVE n + 1 \in Has
  <2>1. PICK f : SplitUpTo(raw, f, n)
        BY <1>2
  <2> DEFINE last == D!Parted(f[n], raw[n + 1])
             g == [i \in 0..n + 1 |-> IF i = n + 1 THEN last ELSE f[i]]
  <2>2. \A i \in 0..n : g[i] = f[i]
        OBVIOUS
  <2>3. \A i \in 0..n + 1 : g[i] = IF i = 0 THEN <<(<<>>)>> ELSE D!Parted(g[i - 1], raw[i])
    <3> TAKE i \in 0..n + 1
    <3>1. CASE i = n + 1
      <4>1. g[i] = last /\ i # 0 /\ i - 1 \in 0..n /\ i - 1 = n
            BY <3>1
      <4>2. g[i - 1] = f[n]
            BY <2>2, <4>1
      <4> HIDE DEF g
      <4> QED BY <3>1, <4>1, <4>2
    <3>2. CASE i # n + 1
      <4>1. i \in 0..n /\ (i # 0 => i - 1 \in 0..n)
            BY <3>2
      <4>2. f[i] = IF i = 0 THEN <<(<<>>)>> ELSE D!Parted(f[i - 1], raw[i])
            BY <2>1, <4>1 DEF SplitUpTo
      <4>3. g[i] = f[i] /\ (i # 0 => g[i - 1] = f[i - 1])
            BY <2>2, <4>1
      <4> HIDE DEF g
      <4> QED BY <4>2, <4>3
    <3> QED BY <3>1, <3>2
  <2>4. g = [i \in 0..n + 1 |-> g[i]]
        OBVIOUS
  <2> HIDE DEF g
  <2>5. SplitUpTo(raw, g, n + 1)
        BY <2>3, <2>4, Zenon DEF SplitUpTo
  <2> QED BY <2>5
<1>3. Len(raw) \in Has
  <2> HIDE DEF Has
  <2> QED BY <1>1, <1>2, AllNat
<1> DEFINE first == CHOOSE f : SplitUpTo(raw, f, Len(raw))
<1>4. SplitUpTo(raw, first, Len(raw))
      BY <1>3, Zenon
<1>5. D!Split(raw) = first[Len(raw)]
      BY Zenon DEF D!Split, SplitUpTo
<1> QED BY <1>4, <1>5, Zenon

(* One byte more. *)
LEMMA SplitStepsNext ==
  ASSUME NEW raw, NEW n \in Nat, NEW f, SplitUpTo(raw, f, n)
  PROVE  f[0] = <<(<<>>)>> /\ \A i \in Nat : i < n => f[i + 1] = D!Parted(f[i], raw[i + 1])
<1>1. \A j \in 0..n : f[j] = IF j = 0 THEN <<(<<>>)>> ELSE D!Parted(f[j - 1], raw[j])
      BY DEF SplitUpTo
<1>2. ASSUME NEW i \in Nat, i < n PROVE f[i + 1] = D!Parted(f[i], raw[i + 1])
  <2> DEFINE j == i + 1
  <2>1. j \in 0..n /\ j # 0 /\ j - 1 = i
        BY <1>2
  <2> HIDE DEF j
  <2>2. f[j] = D!Parted(f[j - 1], raw[j])
        BY <1>1, <2>1
  <2>3. f[j] = D!Parted(f[i], raw[j])
        BY <2>1, <2>2, Zenon
  <2> QED BY <2>3 DEF j
<1>3. f[0] = <<(<<>>)>>
      BY <1>1
<1> QED BY <1>2, <1>3

-----------------------------------------------------------------------------
(* How a number is written and read. *)
LEMMA BaseIs == Base \in Nat \ {0, 1} /\ BlockRows \in Nat \ {0} /\ <<>> \notin Table
BY TableAssumption

(* BigEndian is what one, two and four bytes count. *)
LEMMA BigEndianIs ==
  ASSUME NEW bytes \in Seq(Int)
  PROVE  /\ D!BigEndian(bytes) \in Int
         /\ Len(bytes) = 1 => D!BigEndian(bytes) = bytes[1]
         /\ Len(bytes) = 2 => D!BigEndian(bytes) = bytes[1] * Base + bytes[2]
         /\ Len(bytes) = 4 => D!BigEndian(bytes)
                              = ((bytes[1] * Base + bytes[2]) * Base + bytes[3]) * Base + bytes[4]
<1>1. Len(bytes) \in Nat /\ \A i \in 1..Len(bytes) : bytes[i] \in Int
      OBVIOUS
<1>2. PICK f : ValueUpTo(bytes, f, Len(bytes)) /\ D!BigEndian(bytes) = f[Len(bytes)]
      BY <1>1, ValueSteps
<1>3. f[0] = 0 /\ \A i \in Nat : i < Len(bytes) => f[i + 1] = f[i] * Base + bytes[i + 1]
      BY <1>1, <1>2, ValueStepsNext
<1>4. Base \in Int
      BY BaseIs
<1> DEFINE Fine == {n \in Nat : n <= Len(bytes) => f[n] \in Int}
<1>5. 0 \in Fine
      BY <1>3
<1>6. ASSUME NEW n \in Nat, n \in Fine PROVE n + 1 \in Fine
  <2> SUFFICES ASSUME n + 1 <= Len(bytes) PROVE f[n + 1] \in Int
      OBVIOUS
  <2>1. n < Len(bytes) /\ f[n] \in Int /\ bytes[n + 1] \in Int
        BY <1>1, <1>6
  <2>2. f[n + 1] = f[n] * Base + bytes[n + 1]
        BY <1>3, <2>1
  <2> QED BY <1>4, <2>1, <2>2
<1>7. \A n \in 0..Len(bytes) : f[n] \in Int
  <2>1. Nat \subseteq Fine
    <3> HIDE DEF Fine
    <3> QED BY <1>5, <1>6, AllNat, Zenon
  <2> QED BY <1>1, <2>1
<1>8. ASSUME Len(bytes) >= 1 PROVE f[1] = bytes[1]
  <2>1. f[0 + 1] = f[0] * Base + bytes[0 + 1]
        BY <1>1, <1>3, <1>8
  <2> QED BY <1>1, <1>3, <1>4, <1>8, <2>1
<1>9. ASSUME Len(bytes) >= 2 PROVE f[2] = bytes[1] * Base + bytes[2]
  <2>1. f[1 + 1] = f[1] * Base + bytes[1 + 1]
        BY <1>1, <1>3, <1>9
  <2> QED BY <1>1, <1>8, <1>9, <2>1
<1>10. ASSUME Len(bytes) = 4
       PROVE  f[4] = ((bytes[1] * Base + bytes[2]) * Base + bytes[3]) * Base + bytes[4]
  <2>1. f[2 + 1] = f[2] * Base + bytes[2 + 1]
        BY <1>1, <1>3, <1>10
  <2>2. f[3 + 1] = f[3] * Base + bytes[3 + 1]
        BY <1>1, <1>3, <1>10
  <2>3. f[2] = bytes[1] * Base + bytes[2]
        BY <1>9, <1>10
  <2>4. 2 + 1 = 3 /\ 3 + 1 = 4
        OBVIOUS
  <2> QED BY <2>1, <2>2, <2>3, <2>4, Zenon
<1>11. f[Len(bytes)] \in Int
      BY <1>1, <1>7
<1>12. D!BigEndian(bytes) \in Int
       BY <1>2, <1>11, Zenon
<1>13. Len(bytes) = 1 => D!BigEndian(bytes) = bytes[1]
       BY <1>2, <1>8
<1>14. ASSUME Len(bytes) = 2 PROVE D!BigEndian(bytes) = bytes[1] * Base + bytes[2]
  <2>1. Len(bytes) >= 2
        BY <1>14
  <2> QED BY <1>2, <1>9, <1>14, <2>1, Zenon
<1>15. ASSUME Len(bytes) = 4
       PROVE  D!BigEndian(bytes) = ((bytes[1] * Base + bytes[2]) * Base + bytes[3]) * Base + bytes[4]
       BY <1>2, <1>10, <1>15, Zenon
<1> QED BY <1>12, <1>13, <1>14, <1>15, Zenon

Widths == {1, 2, 4}

\* Bytes of a number: as many as the width of its column, which say it when it fits.
LEMMA NumIs ==
  ASSUME NEW column, column.min \in Int, column.max \in Int, NEW cell \in Int
  PROVE  /\ D!IntegerWidth(column.min, column.max) \in Widths
         /\ D!EncodeNum(column, cell) \in Seq(D!Byte)
         /\ Len(D!EncodeNum(column, cell)) = D!IntegerWidth(column.min, column.max)
         /\ cell \in column.min..column.max /\ cell - column.min < Base * Base * Base * Base
            => column.min + D!BigEndian(D!EncodeNum(column, cell)) = cell
<1> DEFINE b == Base
           v == cell - column.min
           w == D!IntegerWidth(column.min, column.max)
           code == D!EncodeNum(column, cell)
           value == IF w = 1 THEN D!Clamp(v) ELSE v
<1>1. b \in Nat \ {0} /\ b \in Nat /\ b > 1 /\ v \in Int
      BY BaseIs
<1>2. /\ w \in Widths
      /\ w = 1 => column.max - column.min <= b - 1
      /\ w = 2 => column.max - column.min <= b * b - 1
      BY <1>1 DEF D!IntegerWidth, Widths
<1>3. value \in Int
      BY <1>1 DEF D!Clamp
<1>4. code = [i \in 1..w |-> (value \div D!Place[4 - w + i]) % b]
      BY Zenon DEF D!EncodeNum
<1>5. \A i \in 1..4 : D!Place[i] \in Nat \ {0}
  <2>1. b * b \in Nat \ {0} /\ b * b * b \in Nat \ {0}
        BY <1>1
  <2>2. D!Place[1] = b * b * b /\ D!Place[2] = b * b /\ D!Place[3] = b /\ D!Place[4] = 1
        BY DEF D!Place
  <2> QED BY <1>1, <2>1, <2>2
<1>6. /\ D!Place[1] = b * b * b /\ D!Place[2] = b * b /\ D!Place[3] = b /\ D!Place[4] = 1
      BY DEF D!Place
<1> HIDE DEF b, v, w, value
<1>7. ASSUME NEW i \in 1..w PROVE 4 - w + i \in 1..4 /\ (value \div D!Place[4 - w + i]) % b \in 0..b - 1
  <2> DEFINE p == D!Place[4 - w + i]
  <2>1. 4 - w + i \in 1..4
        BY <1>2 DEF Widths
  <2>2. p \in Nat \ {0}
        BY <1>5, <2>1
  <2> HIDE DEF p
  <2>3. value \div p \in Int
        BY <1>3, <2>2, DivMod
  <2> DEFINE q == value \div p
  <2>4. q \in Int
        BY <2>3
  <2> HIDE DEF q
  <2>5. q % b \in 0..b - 1
        BY <1>1, <2>4, DivMod, Zenon
  <2> QED BY <2>1, <2>5 DEF p, q
<1>8. code \in Seq(D!Byte) /\ Len(code) = w
  <2>1. w \in Nat /\ D!Byte = 0..b - 1
        BY <1>2 DEF Widths, D!Byte, b
  <2>2. \A i \in 1..w : (value \div D!Place[4 - w + i]) % b \in D!Byte
        BY <1>7, <2>1
  <2> DEFINE e(i) == (value \div D!Place[4 - w + i]) % b
  <2>3. code = [i \in 1..w |-> e(i)] /\ \A i \in 1..w : e(i) \in D!Byte
        BY <1>4, <2>2
  <2> HIDE DEF code, e
  <2> QED BY <2>1, <2>3
<1>9. ASSUME cell \in column.min..column.max, v < b * b * b * b PROVE D!BigEndian(code) = v
  <2>1. v \in Nat /\ v <= column.max - column.min
        BY <1>9 DEF v
  <2>2. code \in Seq(Int)
        BY <1>8, <1>1 DEF D!Byte, b
  <2>3. b = Base
        BY DEF b
  <2>4. CASE w = 1
    <3>1. v \in 0..b - 1
      <4>1. column.max - column.min <= b - 1
            BY <1>2, <2>4, Zenon
      <4>2. column.max - column.min \in Int
            OBVIOUS
      <4> QED BY <1>1, <2>1, <4>1, <4>2
    <3>2. value = v
      <4>1. value = D!Clamp(v)
            BY <2>4 DEF value
      <4>2. ~(v < 0) /\ ~(v > Base - 1)
            BY <3>1, <1>1 DEF b
      <4> QED BY <4>1, <4>2 DEF D!Clamp
    <3>3. code[1] = (value \div D!Place[4 - 1 + 1]) % b
          BY <1>4, <2>4
    <3>4. D!Place[4 - 1 + 1] = 1
          BY <1>6
    <3>5. code[1] = v
      <4>1. v \div 1 = v
            BY <3>1
      <4>2. v % b = v
        <5>1. v = 0 * b + v
              BY <1>1, <3>1
        <5> QED BY <1>1, <3>1, <5>1, DivUnique
      <4> QED BY <3>2, <3>3, <3>4, <4>1, <4>2, Zenon
    <3>6. D!BigEndian(code) = code[1]
      <4>1. Len(code) = 1
            BY <1>8, <2>4
      <4> HIDE DEF code
      <4> QED BY <2>2, <4>1, BigEndianIs
    <3> QED BY <3>5, <3>6
  <2>5. CASE w = 2
    <3>1. v \in 0..b * b - 1
          BY <1>1, <1>2, <2>1, <2>5
    <3>2. value = v
          BY <2>5 DEF value
    <3>3. code[1] = (v \div D!Place[4 - 2 + 1]) % b /\ code[2] = (v \div D!Place[4 - 2 + 2]) % b
          BY <1>4, <2>5, <3>2
    <3>4. D!Place[4 - 2 + 1] = b /\ D!Place[4 - 2 + 2] = 1 /\ v \div 1 = v
          BY <1>6, <2>1
    <3>5. code[1] = (v \div b) % b /\ code[2] = v % b
          BY <3>3, <3>4, Zenon
    <3>6. D!BigEndian(code) = code[1] * b + code[2]
      <4>1. Len(code) = 2
            BY <1>8, <2>5
      <4> HIDE DEF code
      <4> QED BY <2>2, <2>3, <4>1, BigEndianIs
    <3>7. ((v \div b) % b) * b + (v % b) = v
          BY <1>1, <3>1, TwoDigits
    <3> QED BY <3>5, <3>6, <3>7, Zenon
  <2>6. CASE w = 4
    <3>1. v \in 0..b * b * b * b - 1
          BY <1>1, <1>9, <2>1
    <3>2. value = v
          BY <2>6 DEF value
    <3>3. /\ code[1] = (v \div D!Place[4 - 4 + 1]) % b /\ code[2] = (v \div D!Place[4 - 4 + 2]) % b
          /\ code[3] = (v \div D!Place[4 - 4 + 3]) % b /\ code[4] = (v \div D!Place[4 - 4 + 4]) % b
          BY <1>4, <2>6, <3>2
    <3>4. /\ D!Place[4 - 4 + 1] = b * b * b /\ D!Place[4 - 4 + 2] = b * b
          /\ D!Place[4 - 4 + 3] = b /\ D!Place[4 - 4 + 4] = 1 /\ v \div 1 = v
          BY <1>6, <2>1
    <3>5. /\ code[1] = (v \div (b * b * b)) % b /\ code[2] = (v \div (b * b)) % b
          /\ code[3] = (v \div b) % b /\ code[4] = v % b
          BY <3>3, <3>4, Zenon
    <3>6. D!BigEndian(code) = ((code[1] * b + code[2]) * b + code[3]) * b + code[4]
      <4>1. Len(code) = 4
            BY <1>8, <2>6
      <4> HIDE DEF code
      <4> QED BY <2>2, <2>3, <4>1, BigEndianIs
    <3>7. (((((v \div (b * b * b)) % b) * b + ((v \div (b * b)) % b)) * b + ((v \div b) % b)) * b) + (v % b) = v
          BY <1>1, <3>1, FourDigits, Zenon
    <3> QED BY <3>5, <3>6, <3>7, Zenon
  <2> QED BY <1>2, <2>4, <2>5, <2>6 DEF Widths
<1>10. ASSUME cell \in column.min..column.max, cell - column.min < Base * Base * Base * Base
       PROVE  column.min + D!BigEndian(code) = cell
  <2>1. D!BigEndian(code) = cell - column.min
        BY <1>9, <1>10 DEF v, b
  <2> HIDE DEF code
  <2> QED BY <2>1
<1> QED BY <1>2, <1>8, <1>10 DEF w

-----------------------------------------------------------------------------
(* Sequences of one length, and the last element of a sequence. *)
LEMMA EvenBorders ==
  ASSUME NEW ss, Len(ss) \in Nat, NEW w \in Nat, \A i \in 1..Len(ss) : Len(ss[i]) = w, NEW at, Borders(ss, at)
  PROVE  \A i \in 0..Len(ss) : at[i] = i * w
<1> DEFINE Fine == {n \in Nat : n <= Len(ss) => at[n] = n * w}
<1>1. 0 \in Fine
  <2>1. at[0] = 0 /\ 0 * w = 0
        BY DEF Borders
  <2> QED BY <2>1
<1>2. ASSUME NEW n \in Nat, n \in Fine PROVE n + 1 \in Fine
  <2> SUFFICES ASSUME n + 1 <= Len(ss) PROVE at[n + 1] = (n + 1) * w
      OBVIOUS
  <2>1. n + 1 \in 1..Len(ss) /\ n + 1 - 1 = n /\ at[n] = n * w
        BY <1>2
  <2>2. at[n + 1] = at[n + 1 - 1] + Len(ss[n + 1])
        BY <2>1 DEF Borders
  <2>3. Len(ss[n + 1]) = w
        BY <2>1
  <2>4. (n + 1) * w = n * w + w
        OBVIOUS
  <2> QED BY <2>1, <2>2, <2>3, <2>4
<1>3. Nat \subseteq Fine
  <2> HIDE DEF Fine
  <2> QED BY <1>1, <1>2, AllNat
<1> QED BY <1>3

(* Sequences of one length stand at the multiples of it. *)
LEMMA Evenly ==
  ASSUME NEW Elem, NEW ss \in Seq(Seq(Elem)), NEW w \in Nat, \A i \in 1..Len(ss) : Len(ss[i]) = w
  PROVE  /\ D!FlattenSeq(ss) \in Seq(Elem) /\ Len(D!FlattenSeq(ss)) = Len(ss) * w
         /\ \A i \in 1..Len(ss) : \A k \in 1..w :
              /\ (i - 1) * w + k \in 1..Len(D!FlattenSeq(ss))
              /\ D!FlattenSeq(ss)[(i - 1) * w + k] = ss[i][k]
<1> DEFINE flat == D!FlattenSeq(ss)
<1>1. flat \in Seq(Elem)
      BY Flat
<1>2. PICK at : Borders(ss, at) /\ Len(flat) = at[Len(ss)] /\ Laid(flat, ss, at)
      BY Flat
<1> HIDE DEF flat
<1>3. Len(ss) \in Nat /\ \A i \in 0..Len(ss) : at[i] = i * w
  <2>1. Len(ss) \in Nat /\ \A i \in 1..Len(ss) : Len(ss[i]) = w
        OBVIOUS
  <2> QED BY <1>2, <2>1, EvenBorders, ZenonT(60)
<1>4. Len(flat) = Len(ss) * w
      BY <1>2, <1>3
<1>5. ASSUME NEW i \in 1..Len(ss), NEW k \in 1..w
      PROVE  (i - 1) * w + k \in 1..Len(flat) /\ flat[(i - 1) * w + k] = ss[i][k]
  <2>1. k \in 1..Len(ss[i])
        OBVIOUS
  <2>2. at[i - 1] + k \in 1..Len(flat) /\ flat[at[i - 1] + k] = ss[i][k]
        BY <1>2, <2>1 DEF Laid
  <2>3. i - 1 \in 0..Len(ss)
        BY <1>3
  <2>4. at[i - 1] = (i - 1) * w
        BY <1>3, <2>3
  <2> QED BY <2>2, <2>4, Zenon
<1> QED BY <1>1, <1>4, <1>5 DEF flat

(* What SubSeq cuts out. *)
LEMMA PieceIs ==
  ASSUME NEW Elem, NEW s \in Seq(Elem), NEW a \in 1..Len(s) + 1, NEW c \in a - 1..Len(s)
  PROVE  /\ SubSeq(s, a, c) \in Seq(Elem) /\ Len(SubSeq(s, a, c)) = c - a + 1
         /\ \A i \in 1..c - a + 1 : SubSeq(s, a, c)[i] = s[a - 1 + i]
<1>1. a \in Int /\ c \in Int /\ Len(s) \in Nat
      OBVIOUS
<1>2. \A i \in a..c : s[i] \in Elem
      BY <1>1
<1>3. /\ SubSeq(s, a, c) \in Seq(Elem)
      /\ Len(SubSeq(s, a, c)) = IF a <= c THEN c - a + 1 ELSE 0
      /\ \A i \in 1..c - a + 1 : SubSeq(s, a, c)[i] = s[a + i - 1]
      BY <1>1, <1>2, SubSeqProperties
<1> DEFINE t == SubSeq(s, a, c)
<1> HIDE DEF t
<1>4. t \in Seq(Elem) /\ Len(t) = c - a + 1
  <2>1. (IF a <= c THEN c - a + 1 ELSE 0) = c - a + 1
        BY <1>1
  <2> QED BY <1>3, <2>1 DEF t
<1>5. ASSUME NEW i \in 1..c - a + 1 PROVE t[i] = s[a - 1 + i]
  <2>1. a - 1 + i = a + i - 1
        BY <1>1
  <2> QED BY <1>3, <2>1, Zenon DEF t
<1> QED BY <1>4, <1>5 DEF t

(* What the last element of a sequence is replaced by. *)
LEMMA LastIs ==
  ASSUME NEW Elem, NEW s \in Seq(Elem), s # <<>>, NEW e \in Elem
  PROVE  /\ Len(s) \in Nat /\ Len(s) >= 1 /\ D!Last(s) = s[Len(s)]
         /\ Append(D!Front(s), e) \in Seq(Elem) /\ Len(Append(D!Front(s), e)) = Len(s)
         /\ \A i \in 1..Len(s) - 1 : Append(D!Front(s), e)[i] = s[i]
         /\ Append(D!Front(s), e)[Len(s)] = e
<1> DEFINE f == D!Front(s)
           t == Append(f, e)
<1>1. Len(s) \in Nat /\ Len(s) >= 1 /\ D!Last(s) = s[Len(s)]
      BY EmptySeq DEF D!Last
<1>2. f = SubSeq(s, 1, Len(s) - 1)
      BY DEF D!Front
<1>3. f \in Seq(Elem) /\ Len(f) = Len(s) - 1 /\ \A i \in 1..Len(s) - 1 : f[i] = s[i]
  <2>1. \A i \in 1..Len(s) - 1 : s[i] \in Elem
        OBVIOUS
  <2>2. 1 \in 1..Len(s) + 1 /\ Len(s) - 1 \in 1 - 1..Len(s) /\ Len(s) - 1 - 1 + 1 = Len(s) - 1
        BY <1>1
  <2>3. /\ SubSeq(s, 1, Len(s) - 1) \in Seq(Elem) /\ Len(SubSeq(s, 1, Len(s) - 1)) = Len(s) - 1 - 1 + 1
        /\ \A i \in 1..Len(s) - 1 - 1 + 1 : SubSeq(s, 1, Len(s) - 1)[i] = s[1 - 1 + i]
        BY <2>2, PieceIs
  <2>4. \A i \in 1..Len(s) - 1 : 1 - 1 + i = i
        OBVIOUS
  <2> HIDE DEF f
  <2> QED BY <1>2, <2>2, <2>3, <2>4
<1> HIDE DEF f
<1>4. /\ t \in Seq(Elem) /\ Len(t) = Len(f) + 1
      /\ \A i \in 1..Len(f) : t[i] = f[i]
      /\ t[Len(f) + 1] = e
      BY <1>3, AppendProperties
<1> HIDE DEF t
<1>5. t \in Seq(Elem) /\ Len(t) = Len(s) /\ (\A i \in 1..Len(s) - 1 : t[i] = s[i]) /\ t[Len(s)] = e
      BY <1>1, <1>3, <1>4
<1> QED BY <1>1, <1>5 DEF t, f

-----------------------------------------------------------------------------
(* Runs of bytes. *)
RunOf == [count : 1..D!LongestRun, value : D!Byte]

\* Where each run ends in the first n bytes, and what it says of them.
RunEnds(runs, raw, n, at) ==
  /\ at \in [0..Len(runs) -> Nat] /\ at[0] = 0 /\ at[Len(runs)] = n
  /\ \A r \in 1..Len(runs) :
       /\ at[r] = at[r - 1] + runs[r].count
       /\ \A k \in 1..runs[r].count : raw[at[r - 1] + k] = runs[r].value
Tells(runs, raw, n) == runs \in Seq(RunOf) /\ \E at : RunEnds(runs, raw, n, at)

(* A run has a byte at least. *)
LEMMA RunLimit == D!LongestRun \in Nat /\ D!LongestRun >= 1
<1>1. Base * Base >= 2 * Base
  <2>1. Base \in Nat /\ 2 <= Base /\ 2 \in Int /\ Base \in Int
        BY BaseIs
  <2>2. 2 * Base <= Base * Base
        BY <2>1, MulMono
  <2> QED BY <2>1, <2>2
<1>2. Base * Base \in Nat
      BY BaseIs
<1> QED BY <1>1, <1>2, BaseIs DEF D!LongestRun

(* One byte more makes the last run longer or begins one. *)
LEMMA LongerTells ==
  ASSUME NEW raw \in Seq(D!Byte), NEW n \in Nat, n + 1 <= Len(raw), NEW runs, Tells(runs, raw, n)
  PROVE  Tells(D!Longer(runs, raw[n + 1]), raw, n + 1)
<1> DEFINE v == raw[n + 1]
           m == Len(runs)
<1>1. PICK at : RunEnds(runs, raw, n, at)
      BY DEF Tells
<1>2. runs \in Seq(RunOf) /\ m \in Nat /\ v \in D!Byte
  <2>1. n + 1 \in 1..Len(raw)
        OBVIOUS
  <2> QED BY <2>1 DEF Tells
<1>3. /\ at \in [0..m -> Nat] /\ at[0] = 0 /\ at[m] = n
      /\ \A r \in 1..m : at[r] = at[r - 1] + runs[r].count
      /\ \A r \in 1..m : \A k \in 1..runs[r].count : raw[at[r - 1] + k] = runs[r].value
      BY <1>1 DEF RunEnds
<1>4. \A r \in 1..m : runs[r] \in RunOf /\ runs[r].count \in 1..D!LongestRun /\ runs[r].value \in D!Byte
  <2> TAKE r \in 1..m
  <2>1. runs[r] \in RunOf
        BY <1>2
  <2> QED BY <2>1 DEF RunOf
<1> DEFINE grows == runs # <<>> /\ D!Last(runs).value = v /\ D!Last(runs).count < D!LongestRun
<1>5. CASE grows
  <2> DEFINE e == [count |-> D!Last(runs).count + 1, value |-> v]
             more == Append(D!Front(runs), e)
             c == runs[m].count
  <2>1. D!Longer(runs, v) = more
        BY <1>5, Zenon DEF D!Longer
  <2>2. m >= 1 /\ D!Last(runs) = runs[m]
        BY <1>2, <1>5, EmptySeq DEF D!Last
  <2>3. e = [count |-> c + 1, value |-> v] /\ c + 1 \in 1..D!LongestRun /\ runs[m].value = v /\ c \in Nat
        /\ at[m - 1] \in Nat /\ at[m - 1] + c = n
    <3>1. m \in 1..m
          BY <1>2, <2>2
    <3>2. c \in 1..D!LongestRun /\ c < D!LongestRun /\ runs[m].value = v
          BY <1>4, <1>5, <2>2, <3>1
    <3>3. m - 1 \in 0..m /\ at[m] = at[m - 1] + c
          BY <1>3, <1>2, <2>2, <3>1
    <3>4. at[m - 1] \in Nat /\ at[m - 1] + c = n
          BY <1>3, <3>3, Zenon
    <3>5. e = [count |-> c + 1, value |-> v]
          BY <2>2
    <3> HIDE DEF e, c, m, v
    <3>6. c + 1 \in 1..D!LongestRun /\ c \in Nat
          BY <3>2, RunLimit
    <3> QED BY <3>2, <3>4, <3>5, <3>6 DEF c
  <2>4. e \in RunOf /\ e.count = c + 1 /\ e.value = v
        BY <1>2, <2>3, Zenon DEF RunOf
  <2> HIDE DEF e
  <2>5. /\ more \in Seq(RunOf) /\ Len(more) = m
        /\ \A i \in 1..m - 1 : more[i] = runs[i]
        /\ more[m] = e
        BY SMTT(30), <1>2, <1>5, <2>4, LastIs
  <2> HIDE DEF more, c
  <2> DEFINE at2 == [i \in 0..m |-> IF i = m THEN n + 1 ELSE at[i]]
  <2>6. at2 \in [0..m -> Nat] /\ at2[0] = 0 /\ at2[m] = n + 1 /\ \A i \in 0..m - 1 : at2[i] = at[i]
        BY <1>2, <1>3, <2>2
  <2> HIDE DEF at2, m
  <2>7. ASSUME NEW r \in 1..m
        PROVE  /\ at2[r] = at2[r - 1] + more[r].count
               /\ \A k \in 1..more[r].count : raw[at2[r - 1] + k] = more[r].value
    <3>1. CASE r = m
      <4>1. at2[r - 1] = at[m - 1] /\ at2[r] = n + 1 /\ more[r] = e
            BY <1>2, <2>2, <2>5, <2>6, <3>1
      <4>2. at2[r] = at2[r - 1] + more[r].count
            BY <2>3, <2>4, <4>1
      <4>3. ASSUME NEW k \in 1..more[r].count PROVE raw[at2[r - 1] + k] = more[r].value
        <5>1. k \in 1..c + 1
              BY <2>4, <4>1
        <5>2. CASE k = c + 1
          <6>1. at[m - 1] + k = n + 1
                BY SMTT(30), <2>3, <5>2
          <6> QED BY <2>4, <4>1, <6>1
        <5>3. CASE k # c + 1
          <6>1. k \in 1..runs[m].count
                BY <2>3, <5>1, <5>3 DEF c
          <6>2. raw[at[m - 1] + k] = runs[m].value
                BY SMTT(30), <1>2, <1>3, <2>2, <6>1
          <6> QED BY <2>3, <2>4, <4>1, <6>2
        <5> QED BY <5>2, <5>3
      <4> QED BY <4>2, <4>3
    <3>2. CASE r # m
      <4>1. r \in 1..m - 1 /\ r - 1 \in 0..m - 1 /\ r \in 0..m - 1
            BY <1>2, <3>2
      <4>2. more[r] = runs[r] /\ at2[r] = at[r] /\ at2[r - 1] = at[r - 1]
            BY <2>5, <2>6, <4>1
      <4> QED BY <1>3, <4>2
    <3> QED BY <3>1, <3>2
  <2>8. RunEnds(more, raw, n + 1, at2)
        BY <2>5, <2>6, <2>7 DEF RunEnds
  <2> QED BY <2>1, <2>5, <2>8 DEF Tells
<1>6. CASE ~grows
  <2> DEFINE e == [count |-> 1, value |-> v]
             more == Append(runs, e)
             at2 == [i \in 0..m + 1 |-> IF i = m + 1 THEN n + 1 ELSE at[i]]
  <2>1. D!Longer(runs, v) = more
        BY <1>6, Zenon DEF D!Longer
  <2>2. e \in RunOf /\ e.count = 1 /\ e.value = v
        BY <1>2, RunLimit DEF RunOf
  <2> HIDE DEF e
  <2>3. /\ more \in Seq(RunOf) /\ Len(more) = m + 1
        /\ \A i \in 1..m : more[i] = runs[i]
        /\ more[m + 1] = e
        BY <1>2, <2>2, AppendProperties
  <2> HIDE DEF more
  <2>4. at2 \in [0..m + 1 -> Nat] /\ at2[0] = 0 /\ at2[m + 1] = n + 1 /\ \A i \in 0..m : at2[i] = at[i]
        BY <1>2, <1>3
  <2> HIDE DEF at2, m
  <2>5. ASSUME NEW r \in 1..m + 1
        PROVE  /\ at2[r] = at2[r - 1] + more[r].count
               /\ \A k \in 1..more[r].count : raw[at2[r - 1] + k] = more[r].value
    <3>1. CASE r = m + 1
      <4>1. r - 1 = m /\ m \in 0..m
            BY <1>2, <3>1
      <4>2. at2[r - 1] = n /\ at2[r] = n + 1 /\ more[r] = e
            BY <1>3, <2>3, <2>4, <3>1, <4>1
      <4>3. \A k \in 1..1 : k = 1
            OBVIOUS
      <4> QED BY <2>2, <4>2, <4>3
    <3>2. CASE r # m + 1
      <4>1. r \in 1..m /\ r - 1 \in 0..m /\ r \in 0..m
            BY <1>2, <3>2
      <4>2. more[r] = runs[r] /\ at2[r] = at[r] /\ at2[r - 1] = at[r - 1]
            BY <2>3, <2>4, <4>1
      <4> QED BY <1>3, <4>1, <4>2
    <3> QED BY <3>1, <3>2
  <2>6. RunEnds(more, raw, n + 1, at2)
        BY <2>3, <2>4, <2>5 DEF RunEnds
  <2> QED BY <2>1, <2>3, <2>6 DEF Tells
<1> QED BY <1>5, <1>6

(* Runs tell all the bytes. *)
LEMMA RunsTell == ASSUME NEW raw \in Seq(D!Byte) PROVE Tells(D!Runs(raw), raw, Len(raw))
<1>1. Len(raw) \in Nat
      OBVIOUS
<1>2. PICK f : RunsUpTo(raw, f, Len(raw)) /\ D!Runs(raw) = f[Len(raw)]
      BY <1>1, RunsSteps
<1>3. f[0] = <<>> /\ \A i \in Nat : i < Len(raw) => f[i + 1] = D!Longer(f[i], raw[i + 1])
      BY <1>1, <1>2, RunsStepsNext
<1> DEFINE Fine == {n \in Nat : n <= Len(raw) => Tells(f[n], raw, n)}
<1>4. 0 \in Fine
  <2> DEFINE at == [i \in 0..0 |-> 0]
  <2>1. Len(<<>>) = 0 /\ <<>> \in Seq(RunOf) /\ 1..0 = {}
        OBVIOUS
  <2>2. at \in [0..0 -> Nat] /\ at[0] = 0
        OBVIOUS
  <2> HIDE DEF at
  <2>3. RunEnds(<<>>, raw, 0, at)
        BY <2>1, <2>2 DEF RunEnds
  <2>4. Tells(<<>>, raw, 0)
        BY <2>1, <2>3 DEF Tells
  <2>5. Tells(f[0], raw, 0)
        BY <1>3, <2>4, Zenon
  <2> QED BY <2>5
<1>5. ASSUME NEW n \in Nat, n \in Fine PROVE n + 1 \in Fine
  <2> SUFFICES ASSUME n + 1 <= Len(raw) PROVE Tells(f[n + 1], raw, n + 1)
      OBVIOUS
  <2>1. Tells(f[n], raw, n) /\ n < Len(raw)
        BY <1>1, <1>5
  <2>2. f[n + 1] = D!Longer(f[n], raw[n + 1])
        BY <1>3, <2>1
  <2> QED BY <2>1, <2>2, LongerTells
<1>6. Nat \subseteq Fine
  <2> HIDE DEF Fine
  <2> QED BY <1>4, <1>5, AllNat
<1>7. Tells(f[Len(raw)], raw, Len(raw))
      BY <1>1, <1>6
<1> QED BY <1>2, <1>7, Zenon

(* No sequence ends after the last. *)
LEMMA GrowsTo ==
  ASSUME NEW ss, Len(ss) \in Nat, \A i \in 1..Len(ss) : Len(ss[i]) \in Nat, NEW at, Borders(ss, at),
         NEW i \in 1..Len(ss), NEW k \in 1..Len(ss[i])
  PROVE  at[i - 1] + k \in 1..at[Len(ss)] /\ at[i - 1] + k <= at[i]
<1> DEFINE size == Len(ss)
           Fine == {n \in Nat : i + n <= size => at[i] <= at[i + n]}
<1>1. at \in [0..size -> Nat] /\ \A j \in 1..size : at[j] = at[j - 1] + Len(ss[j])
      BY DEF Borders
<1>2. 0 \in Fine
  <2>1. i \in 0..size /\ i + 0 = i
        OBVIOUS
  <2>2. at[i] \in Nat
        BY <1>1, <2>1, Zenon
  <2>3. at[i] <= at[i + 0]
        BY <2>1, <2>2
  <2> QED BY <2>3
<1>3. ASSUME NEW n \in Nat, n \in Fine PROVE n + 1 \in Fine
  <2> SUFFICES ASSUME i + (n + 1) <= size PROVE at[i] <= at[i + (n + 1)]
      OBVIOUS
  <2> DEFINE j == i + (n + 1)
  <2>1. j \in 1..size /\ j - 1 = i + n /\ i + n <= size /\ i + n \in 0..size /\ j \in 0..size
        OBVIOUS
  <2>2. at[i] <= at[i + n]
        BY <1>3, <2>1
  <2> HIDE DEF j, Fine
  <2>3. at[j] = at[i + n] + Len(ss[j]) /\ Len(ss[j]) \in Nat
        BY <1>1, <2>1
  <2>4. at[i] \in Nat /\ at[i + n] \in Nat
        BY SMTT(30), <1>1, <2>1
  <2>5. at[i] <= at[j]
        BY <2>2, <2>3, <2>4
  <2> QED BY <2>5 DEF j
<1>4. size - i \in Fine /\ i + (size - i) = size
  <2>1. size - i \in Nat /\ i + (size - i) = size
        OBVIOUS
  <2> HIDE DEF Fine
  <2> QED BY <1>2, <1>3, <2>1, AllNat, Zenon
<1>5. at[i] <= at[size]
      BY <1>4
<1> HIDE DEF size, Fine
<1>6. at[i] = at[i - 1] + Len(ss[i]) /\ at[i - 1] \in Nat /\ Len(ss[i]) \in Nat /\ at[size] \in Nat
  <2>1. i - 1 \in 0..size /\ size \in 0..size /\ i \in 1..size
        BY DEF size
  <2> QED BY <1>1, <2>1, Zenon
<1>7. at[i - 1] + k \in 1..at[size] /\ at[i - 1] + k <= at[i]
  <2> DEFINE p == at[i - 1]
             q == at[i]
             r == at[size]
             l == Len(ss[i])
  <2>1. p \in Nat /\ l \in Nat /\ r \in Nat /\ q = p + l /\ q <= r /\ k \in 1..l
        BY <1>5, <1>6
  <2> HIDE DEF p, q, r, l
  <2>2. p + k \in 1..r /\ p + k <= q
        BY <2>1
  <2> QED BY <2>2 DEF p, q, r
<1> QED BY <1>7 DEF size

(* A byte before a sequence. *)
LEMMA PrefixedIs ==
  ASSUME NEW Elem, NEW s \in Seq(Elem), NEW x \in Elem
  PROVE  /\ <<x>> \o s \in Seq(Elem) /\ Len(<<x>> \o s) = Len(s) + 1
         /\ Head(<<x>> \o s) = x /\ Tail(<<x>> \o s) = s
<1> DEFINE u == <<x>>
           t == u \o s
<1>1. u \in Seq(Elem) /\ Len(u) = 1 /\ u[1] = x
      OBVIOUS
<1> HIDE DEF u
<1>2. /\ t \in Seq(Elem) /\ Len(t) = Len(u) + Len(s)
      /\ \A i \in 1..Len(u) : t[i] = u[i]
      /\ \A i \in 1..Len(s) : t[Len(u) + i] = s[i]
      BY SMTT(30), <1>1, Concatenated
<1> HIDE DEF t
<1>3. Len(s) \in Nat /\ Len(t) = 1 + Len(s) /\ t[1] = x /\ \A i \in 1..Len(s) : t[1 + i] = s[i]
      BY <1>1, <1>2
<1>4. t # <<>>
      BY <1>2, <1>3, EmptySeq
<1>5. Head(t) = x
      BY <1>2, <1>3, <1>4
<1>6. /\ Tail(t) \in Seq(Elem) /\ Len(Tail(t)) = Len(t) - 1
      /\ \A i \in 1..Len(Tail(t)) : Tail(t)[i] = t[i + 1]
      BY <1>2, <1>4, HeadTailProperties, Zenon
<1> DEFINE r == Tail(t)
<1>7. r \in Seq(Elem) /\ Len(r) = Len(s) /\ \A i \in 1..Len(r) : r[i] = t[i + 1]
      BY <1>3, <1>6
<1> HIDE DEF r
<1>8. \A i \in 1..Len(r) : r[i] = s[i]
  <2> TAKE i \in 1..Len(r)
  <2>1. i \in 1..Len(s) /\ 1 + i = i + 1
        BY <1>3, <1>7
  <2> QED BY <1>3, <1>7, <2>1
<1>9. r = s
      BY <1>7, <1>8, SeqEqual
<1> QED BY <1>2, <1>3, <1>5, <1>9 DEF t, u, r

(* What RleEncode writes is decoded to the bytes it was made of. *)
LEMMA RleIs ==
  ASSUME NEW raw \in Seq(D!Byte)
  PROVE  D!RleEncode(raw) \in Seq(D!Byte) /\ D!RleDecode(D!RleEncode(raw)) = raw
<1> DEFINE runs == D!Runs(raw)
           m == Len(runs)
<1>1. Tells(runs, raw, Len(raw))
      BY RunsTell
<1> DEFINE three(r) == <<(runs[r].count \div Base) % Base, runs[r].count % Base, runs[r].value>>
           threes == [r \in DOMAIN runs |-> three(r)]
           code == D!RleEncode(raw)
<1>2. code = D!FlattenSeq(threes)
      BY Zenon DEF D!RleEncode
<1> HIDE DEF runs, code
<1>3. runs \in Seq(RunOf) /\ m \in Nat /\ DOMAIN runs = 1..m /\ \A r \in 1..m : runs[r] \in RunOf
      BY <1>1 DEF Tells
<1>4. PICK at : RunEnds(runs, raw, Len(raw), at)
      BY <1>1 DEF Tells
<1>5. ASSUME NEW r \in 1..m
      PROVE  /\ runs[r].count \in 0..Base * Base - 1 /\ runs[r].value \in D!Byte /\ runs[r].count \in Nat
             /\ (runs[r].count \div Base) % Base \in D!Byte /\ runs[r].count % Base \in D!Byte
             /\ ((runs[r].count \div Base) % Base) * Base + (runs[r].count % Base) = runs[r].count
  <2> DEFINE c == runs[r].count
  <2>1. c \in 1..D!LongestRun /\ runs[r].value \in D!Byte
        BY <1>3 DEF RunOf
  <2>2. c \in 0..Base * Base - 1 /\ c \in Int
        BY <2>1, RunLimit DEF D!LongestRun
  <2> HIDE DEF c
  <2>3. Base \in Nat \ {0} /\ D!Byte = 0..Base - 1
        BY BaseIs DEF D!Byte
  <2>4. c \div Base \in Int /\ c % Base \in D!Byte
        BY <2>2, <2>3, DivMod, Zenon
  <2>5. (c \div Base) % Base \in D!Byte
    <3> DEFINE q == c \div Base
    <3>1. q \in Int
          BY <2>4
    <3> HIDE DEF q
    <3>2. q % Base \in D!Byte
          BY <2>3, <3>1, DivMod, Zenon
    <3> QED BY <3>2 DEF q
  <2>6. ((c \div Base) % Base) * Base + (c % Base) = c
        BY <2>2, <2>3, TwoDigits, Zenon
  <2>7. c \in Nat
        BY <2>2, BaseIs
  <2> QED BY <2>1, <2>2, <2>4, <2>5, <2>6, <2>7 DEF c
<1>6. ASSUME NEW r \in 1..m
      PROVE  /\ three(r) \in Seq(D!Byte) /\ Len(three(r)) = 3
             /\ three(r)[1] * Base + three(r)[2] = runs[r].count /\ three(r)[3] = runs[r].value
  <2> DEFINE x == (runs[r].count \div Base) % Base
             y == runs[r].count % Base
             z == runs[r].value
             t == <<x, y, z>>
  <2>1. x \in D!Byte /\ y \in D!Byte /\ z \in D!Byte /\ x * Base + y = runs[r].count
        BY <1>5
  <2> HIDE DEF x, y, z
  <2>2. t \in Seq(D!Byte) /\ Len(t) = 3 /\ t[1] = x /\ t[2] = y /\ t[3] = z
        BY <2>1
  <2>3. three(r) = t
        BY DEF x, y, z
  <2> HIDE DEF three, t
  <2>4. z = runs[r].value
        BY DEF z
  <2> QED BY <2>1, <2>2, <2>3, <2>4, Zenon
<1> HIDE DEF three
<1>7. threes \in Seq(Seq(D!Byte)) /\ Len(threes) = m /\ \A r \in 1..m : threes[r] = three(r)
      BY <1>3, <1>6
<1> HIDE DEF threes
<1>8. /\ code \in Seq(D!Byte) /\ Len(code) = m * 3
      /\ \A r \in 1..m : \A k \in 1..3 : code[(r - 1) * 3 + k] = threes[r][k]
  <2>1. 3 \in Nat /\ \A r \in 1..Len(threes) : Len(threes[r]) = 3
        BY <1>6, <1>7
  <2> DEFINE flat == D!FlattenSeq(threes)
  <2>2. /\ flat \in Seq(D!Byte) /\ Len(flat) = Len(threes) * 3
        /\ \A i \in 1..Len(threes) : \A k \in 1..3 :
              (i - 1) * 3 + k \in 1..Len(flat) /\ flat[(i - 1) * 3 + k] = threes[i][k]
        BY <1>7, <2>1, Evenly, ZenonT(60)
  <2> HIDE DEF flat
  <2>3. code = flat
        BY <1>2 DEF flat
  <2> QED BY <1>7, <2>2, <2>3
<1>9. Len(code) \div 3 = m
  <2>1. Len(code) = m * 3 + 0 /\ 3 \in Nat \ {0} /\ m \in Int /\ 0 \in 0..3 - 1
        BY <1>3, <1>8
  <2> QED BY <2>1, DivUnique
<1>10. ASSUME NEW r \in 1..m
       PROVE  code[3 * r - 2] * Base + code[3 * r - 1] = runs[r].count /\ code[3 * r] = runs[r].value
  <2>1. (r - 1) * 3 + 1 = 3 * r - 2 /\ (r - 1) * 3 + 2 = 3 * r - 1 /\ (r - 1) * 3 + 3 = 3 * r
        BY <1>3
  <2>2. code[(r - 1) * 3 + 1] = threes[r][1] /\ code[(r - 1) * 3 + 2] = threes[r][2]
        /\ code[(r - 1) * 3 + 3] = threes[r][3]
        BY <1>8
  <2>3. code[3 * r - 2] = threes[r][1] /\ code[3 * r - 1] = threes[r][2] /\ code[3 * r] = threes[r][3]
        BY <2>1, <2>2, Zenon
  <2>4. threes[r] = three(r)
        BY <1>7
  <2> QED BY <1>6, <2>3, <2>4, Zenon
<1> DEFINE expanded == [r \in 1..m |-> [k \in 1..runs[r].count |-> runs[r].value]]
<1>11. D!RleDecode(code) = D!FlattenSeq(expanded)
  <2> DEFINE read == [r \in 1..Len(code) \div 3 |->
                        [k \in 1..code[3 * r - 2] * Base + code[3 * r - 1] |-> code[3 * r]]]
  <2>1. D!RleDecode(code) = D!FlattenSeq(read)
        BY Zenon DEF D!RleDecode
  <2>2. read = expanded
    <3>1. read = [r \in 1..m |-> [k \in 1..code[3 * r - 2] * Base + code[3 * r - 1] |-> code[3 * r]]]
          BY <1>9, Zenon
    <3>2. ASSUME NEW r \in 1..m
          PROVE  [k \in 1..code[3 * r - 2] * Base + code[3 * r - 1] |-> code[3 * r]]
                 = [k \in 1..runs[r].count |-> runs[r].value]
          BY <1>10, Zenon
    <3> HIDE DEF read
    <3> QED BY <3>1, <3>2, Zenon
  <2> QED BY <2>1, <2>2, Zenon
<1>12. ASSUME NEW r \in 1..m
       PROVE  /\ expanded[r] \in Seq(D!Byte) /\ Len(expanded[r]) = runs[r].count
              /\ \A k \in 1..runs[r].count : expanded[r][k] = runs[r].value
  <2>1. runs[r].count \in Nat /\ runs[r].value \in D!Byte
        BY <1>5
  <2> DEFINE c == runs[r].count
             v == runs[r].value
             e == [k \in 1..c |-> v]
  <2>2. c \in Nat /\ v \in D!Byte
        BY <2>1
  <2> HIDE DEF c, v
  <2>3. e \in Seq(D!Byte) /\ Len(e) = c /\ \A k \in 1..c : e[k] = v
        BY <2>2
  <2>4. expanded[r] = e
        BY DEF c, v
  <2> HIDE DEF e, expanded
  <2> QED BY <2>3, <2>4, Zenon DEF c, v
<1>13. expanded \in Seq(Seq(D!Byte)) /\ Len(expanded) = m
  <2> DEFINE e(r) == expanded[r]
  <2>1. expanded = [r \in 1..m |-> e(r)] /\ \A r \in 1..m : e(r) \in Seq(D!Byte)
        BY <1>12
  <2> HIDE DEF e, expanded
  <2> QED BY <1>3, <2>1
<1> HIDE DEF expanded
<1>14. Borders(expanded, at) /\ Len(raw) = at[Len(expanded)]
  <2>1. /\ at \in [0..m -> Nat] /\ at[0] = 0 /\ at[m] = Len(raw)
        /\ \A r \in 1..m : at[r] = at[r - 1] + runs[r].count
        BY <1>4 DEF RunEnds
  <2>2. \A r \in 1..m : Len(expanded[r]) = runs[r].count
        BY <1>12
  <2> QED BY <1>13, <2>1, <2>2 DEF Borders
<1>15. Laid(raw, expanded, at)
  <2>1. ASSUME NEW r \in 1..Len(expanded), NEW k \in 1..Len(expanded[r])
        PROVE  at[r - 1] + k \in 1..Len(raw) /\ raw[at[r - 1] + k] = expanded[r][k]
    <3>1. r \in 1..m /\ k \in 1..runs[r].count /\ expanded[r][k] = runs[r].value
          BY <1>12, <1>13
    <3>2. raw[at[r - 1] + k] = runs[r].value
          BY <1>4, <3>1 DEF RunEnds
    <3>3. at[r - 1] + k \in 1..Len(raw)
      <4>1. Len(expanded) \in Nat /\ \A i \in 1..Len(expanded) : Len(expanded[i]) \in Nat
            BY <1>3, <1>13
      <4>2. at[r - 1] + k \in 1..at[Len(expanded)]
            BY <1>14, <4>1, GrowsTo
      <4> QED BY <1>14, <4>2, Zenon
    <3> QED BY <3>1, <3>2, <3>3
  <2> QED BY <2>1 DEF Laid
<1>16. D!FlattenSeq(expanded) = raw
      BY <1>13, <1>14, <1>15, FlatIs
<1> QED BY <1>8, <1>11, <1>16 DEF code

(* The marks of a block are bytes. *)
LEMMA ZeroOne == 0 \in D!Byte /\ 1 \in D!Byte
BY BaseIs DEF D!Byte

(* A block is read as the bytes that were written. *)
LEMMA BlockIs ==
  ASSUME NEW raw \in Seq(D!Byte)
  PROVE  /\ D!AdaptiveBlock(raw) \in Seq(D!Byte) /\ D!DecodeAdaptive(D!AdaptiveBlock(raw)) = raw
         /\ <<0>> \o raw \in Seq(D!Byte) /\ D!DecodeAdaptive(<<0>> \o raw) = raw
<1> DEFINE code == D!RleEncode(raw)
           plain == <<0>> \o raw
           short == <<1>> \o code
<1>1. code \in Seq(D!Byte) /\ D!RleDecode(code) = raw
      BY RleIs
<1> HIDE DEF code
<1>2. plain \in Seq(D!Byte) /\ Head(plain) = 0 /\ Tail(plain) = raw
      BY ZeroOne, PrefixedIs
<1>3. short \in Seq(D!Byte) /\ Head(short) = 1 /\ Tail(short) = code
      BY <1>1, ZeroOne, PrefixedIs
<1>4. D!AdaptiveBlock(raw) = IF Len(code) < Len(raw) THEN short ELSE plain
      BY DEF D!AdaptiveBlock, code
<1> HIDE DEF plain, short
<1>5. D!DecodeAdaptive(plain) = raw /\ D!DecodeAdaptive(short) = raw
  <2>1. Head(plain) # 1
        BY <1>2
  <2>2. D!DecodeAdaptive(plain) = Tail(plain)
        BY <2>1, Zenon DEF D!DecodeAdaptive
  <2>3. D!DecodeAdaptive(short) = D!RleDecode(Tail(short))
        BY <1>3, Zenon DEF D!DecodeAdaptive
  <2> QED BY <1>1, <1>2, <1>3, <2>2, <2>3, Zenon
<1> QED BY <1>2, <1>3, <1>4, <1>5 DEF plain

-----------------------------------------------------------------------------
(* The cells of a block. *)
(* Sequences of one length are cut out as they were put together. *)
LEMMA ChunksAre ==
  ASSUME NEW Elem, NEW ss \in Seq(Seq(Elem)), NEW w \in Nat \ {0}, \A i \in 1..Len(ss) : Len(ss[i]) = w
  PROVE  /\ D!FlattenSeq(ss) \in Seq(Elem) /\ Len(D!FlattenSeq(ss)) = Len(ss) * w
         /\ D!Chunks(D!FlattenSeq(ss), w) = ss
<1> DEFINE flat == D!FlattenSeq(ss)
           n == Len(ss)
<1>1. /\ flat \in Seq(Elem) /\ Len(flat) = n * w
      /\ \A i \in 1..n : \A k \in 1..w :
           (i - 1) * w + k \in 1..Len(flat) /\ flat[(i - 1) * w + k] = ss[i][k]
  <2>1. w \in Nat /\ \A i \in 1..n : Len(ss[i]) = w
        OBVIOUS
  <2> HIDE DEF n
  <2> QED BY <2>1, Evenly, ZenonT(60) DEF n
<1> HIDE DEF flat
<1>2. n \in Nat /\ \A i \in 1..n : ss[i] \in Seq(Elem) /\ Len(ss[i]) = w
      OBVIOUS
<1>3. Len(flat) \div w = n
  <2>1. Len(flat) = n * w + 0 /\ n \in Int /\ 0 \in 0..w - 1
        BY <1>1, <1>2
  <2> QED BY <2>1, DivUnique
<1>4. ASSUME NEW i \in 1..n PROVE SubSeq(flat, (i - 1) * w + 1, i * w) = ss[i]
  <2> DEFINE a == (i - 1) * w
  <2>1. i * w = a + w /\ a \in Nat /\ a + w <= n * w
    <3>1. i * w = a + w
          BY <1>2
    <3>2. i * w <= n * w
      <4>1. i \in Int /\ n \in Int /\ i <= n /\ w \in Nat
            BY <1>2
      <4> HIDE DEF n
      <4> QED BY <4>1, MulMono
    <3>3. a \in Nat
      <4>1. i - 1 \in Nat
            BY <1>2
      <4> QED BY <4>1
    <3> QED BY <3>1, <3>2, <3>3
  <2>2. \A k \in 1..w : a + k \in 1..Len(flat) /\ flat[a + k] = ss[i][k]
        BY <1>1
  <2> HIDE DEF a, n
  <2> DEFINE p == a + 1
             q == a + w
             t == SubSeq(flat, p, q)
  <2>3. p \in 1..Len(flat) + 1 /\ q \in p - 1..Len(flat) /\ flat \in Seq(Elem) /\ q - p + 1 = w /\ p - 1 = a
        BY <1>1, <2>1
  <2> HIDE DEF p, q
  <2>4. /\ t \in Seq(Elem) /\ Len(t) = q - p + 1
        /\ \A k \in 1..q - p + 1 : t[k] = flat[p - 1 + k]
        BY <2>3, PieceIs
  <2>5. t \in Seq(Elem) /\ Len(t) = w /\ \A k \in 1..w : t[k] = flat[a + k]
        BY <2>3, <2>4, Zenon
  <2> HIDE DEF t
  <2>6. t = ss[i]
    <3>1. ss[i] \in Seq(Elem) /\ Len(ss[i]) = w
          BY <1>2
    <3>2. \A k \in 1..Len(t) : t[k] = ss[i][k]
          BY <2>2, <2>5, Zenon
    <3> QED BY <2>5, <3>1, <3>2, SeqEqual, Zenon
  <2> QED BY <2>1, <2>6, Zenon DEF t, a, p, q
<1>5. D!Chunks(flat, w) = [i \in 1..n |-> SubSeq(flat, (i - 1) * w + 1, i * w)]
      BY <1>3, Zenon DEF D!Chunks
<1>6. D!Chunks(flat, w) = [i \in 1..n |-> ss[i]]
      BY <1>4, <1>5, Zenon
<1>7. ss = [i \in 1..n |-> ss[i]]
      OBVIOUS
<1> QED BY <1>1, <1>6, <1>7, Zenon DEF flat, n

\* The bytes of the cells of a block.
Raw(column, cs) == D!FlattenSeq([i \in DOMAIN cs |-> D!Encode(column, cs[i])])

(* A block is bytes, and is read as those of its cells. *)
LEMMA EncodedIs ==
  ASSUME NEW column, NEW cs, NEW Elem, cs \in Seq(Elem), \A i \in 1..Len(cs) : D!Encode(column, cs[i]) \in Seq(D!Byte)
  PROVE  /\ [i \in DOMAIN cs |-> D!Encode(column, cs[i])] \in Seq(Seq(D!Byte))
         /\ Len([i \in DOMAIN cs |-> D!Encode(column, cs[i])]) = Len(cs)
         /\ \A i \in 1..Len(cs) : [j \in DOMAIN cs |-> D!Encode(column, cs[j])][i] = D!Encode(column, cs[i])
         /\ Raw(column, cs) \in Seq(D!Byte)
         /\ D!EncodeBlock(column, cs) \in Seq(D!Byte)
         /\ D!DecodeAdaptive(D!EncodeBlock(column, cs)) = Raw(column, cs)
<1> DEFINE e(i) == D!Encode(column, cs[i])
           codes == [i \in DOMAIN cs |-> e(i)]
           raw == Raw(column, cs)
<1>1. Len(cs) \in Nat /\ DOMAIN cs = 1..Len(cs) /\ \A i \in 1..Len(cs) : e(i) \in Seq(D!Byte)
      OBVIOUS
<1> HIDE DEF e
<1>2. codes \in Seq(Seq(D!Byte)) /\ Len(codes) = Len(cs) /\ \A i \in 1..Len(cs) : codes[i] = e(i)
      BY <1>1
<1>3. raw = D!FlattenSeq(codes)
      BY DEF Raw, e
<1> HIDE DEF codes
<1>4. raw \in Seq(D!Byte)
      BY <1>2, <1>3, Flat
<1>5. D!EncodeBlock(column, cs) = IF column.dtype \in {"num", "float"} THEN D!AdaptiveBlock(raw) ELSE <<0>> \o raw
      BY Zenon DEF D!EncodeBlock, Raw
<1> HIDE DEF raw
<1>6. D!EncodeBlock(column, cs) \in Seq(D!Byte) /\ D!DecodeAdaptive(D!EncodeBlock(column, cs)) = raw
  <2>1. CASE column.dtype \in {"num", "float"}
        BY <1>4, <1>5, <2>1, BlockIs, Zenon
  <2>2. CASE column.dtype \notin {"num", "float"}
        BY <1>4, <1>5, <2>2, BlockIs, Zenon
  <2> QED BY <2>1, <2>2
<1> QED BY <1>2, <1>4, <1>6, Zenon DEF codes, raw, e

(* Numbers of a block are read as they were, if they fit. *)
LEMMA NumBlock ==
  ASSUME NEW column, column.dtype = "num", column.min \in Int, column.max \in Int, NEW cs \in Seq(Int),
         NEW meta, meta.min = column.min, meta.width = D!IntegerWidth(column.min, column.max)
  PROVE  /\ D!EncodeBlock(column, cs) \in Seq(D!Byte)
         /\ D!DecodeNum(D!DecodeAdaptive(D!EncodeBlock(column, cs)), meta) \in Seq(Int)
         /\ Len(D!DecodeNum(D!DecodeAdaptive(D!EncodeBlock(column, cs)), meta)) = Len(cs)
         /\ \A i \in 1..Len(cs) :
              D!Kept(column, D!DecodeNum(D!DecodeAdaptive(D!EncodeBlock(column, cs)), meta)[i], cs[i])
<1> DEFINE codes == [i \in DOMAIN cs |-> D!Encode(column, cs[i])]
           w == meta.width
           raw == Raw(column, cs)
           values == D!DecodeNum(raw, meta)
<1>1. Len(cs) \in Nat /\ \A i \in 1..Len(cs) : cs[i] \in Int
      OBVIOUS
<1>2. \A c \in Int : D!Encode(column, c) = D!EncodeNum(column, c)
      BY DEF D!Encode
<1>3. ASSUME NEW i \in 1..Len(cs)
      PROVE  /\ D!Encode(column, cs[i]) \in Seq(D!Byte) /\ Len(D!Encode(column, cs[i])) = w
             /\ cs[i] \in column.min..column.max /\ cs[i] - column.min < Base * Base * Base * Base
                => column.min + D!BigEndian(D!Encode(column, cs[i])) = cs[i]
  <2> DEFINE c == cs[i]
  <2>1. c \in Int /\ D!Encode(column, c) = D!EncodeNum(column, c)
        BY <1>1, <1>2
  <2> HIDE DEF c
  <2>2. /\ D!EncodeNum(column, c) \in Seq(D!Byte)
        /\ Len(D!EncodeNum(column, c)) = D!IntegerWidth(column.min, column.max)
        /\ c \in column.min..column.max /\ c - column.min < Base * Base * Base * Base
           => column.min + D!BigEndian(D!EncodeNum(column, c)) = c
        BY <2>1, NumIs
  <2>3. w = D!IntegerWidth(column.min, column.max)
        OBVIOUS
  <2> HIDE DEF w
  <2> QED BY <2>1, <2>2, <2>3, Zenon DEF c
<1>4. w \in Nat \ {0}
  <2>1. CASE D!IntegerWidth(column.min, column.max) \in Widths
        BY <2>1 DEF Widths
  <2>2. 0 \in Int
        OBVIOUS
  <2>3. D!IntegerWidth(column.min, column.max) \in Widths
        BY <2>2, NumIs
  <2> QED BY <2>1, <2>3
<1>5. /\ codes \in Seq(Seq(D!Byte)) /\ Len(codes) = Len(cs)
      /\ \A i \in 1..Len(cs) : codes[i] = D!Encode(column, cs[i])
      /\ D!EncodeBlock(column, cs) \in Seq(D!Byte)
      /\ D!DecodeAdaptive(D!EncodeBlock(column, cs)) = raw
  <2>1. cs \in Seq(Int) /\ \A i \in 1..Len(cs) : D!Encode(column, cs[i]) \in Seq(D!Byte)
        BY <1>3
  <2> HIDE DEF w, values, raw
  <2> QED BY <2>1, EncodedIs, ZenonT(60) DEF raw
<1>6. raw = D!FlattenSeq(codes)
      BY DEF Raw
<1> HIDE DEF codes, raw, w
<1>7. D!Chunks(raw, w) = codes
  <2>1. \A i \in 1..Len(codes) : Len(codes[i]) = w
        BY <1>3, <1>5
  <2> QED BY <1>4, <1>5, <1>6, <2>1, ChunksAre, Zenon
<1>8. values = [i \in DOMAIN codes |-> meta.min + D!BigEndian(codes[i])]
      BY <1>7, Zenon DEF D!DecodeNum, w
<1>9. ASSUME NEW i \in 1..Len(cs) PROVE meta.min + D!BigEndian(codes[i]) \in Int
  <2>1. codes[i] \in Seq(Int)
    <3>1. codes[i] \in Seq(D!Byte)
          BY <1>5
    <3>2. D!Byte \subseteq Int
          BY BaseIs DEF D!Byte
    <3> QED BY <3>1, <3>2, SeqMonotonic, Zenon
  <2>2. D!BigEndian(codes[i]) \in Int
        BY <2>1, BigEndianIs
  <2> QED BY <2>2
<1>10. DOMAIN codes = 1..Len(cs)
       BY <1>5
<1>11. values \in Seq(Int) /\ Len(values) = Len(cs)
       /\ \A i \in 1..Len(cs) : values[i] = column.min + D!BigEndian(D!Encode(column, cs[i]))
  <2> DEFINE e(i) == meta.min + D!BigEndian(codes[i])
  <2>1. values = [i \in 1..Len(cs) |-> e(i)] /\ \A i \in 1..Len(cs) : e(i) \in Int
        BY <1>8, <1>9, <1>10
  <2>2. \A i \in 1..Len(cs) : e(i) = column.min + D!BigEndian(D!Encode(column, cs[i]))
        BY <1>5, Zenon
  <2> HIDE DEF values, e
  <2>3. values \in Seq(Int) /\ Len(values) = Len(cs) /\ \A i \in 1..Len(cs) : values[i] = e(i)
        BY <1>1, <2>1
  <2> QED BY <2>2, <2>3
<1> HIDE DEF values
<1>12. ASSUME NEW i \in 1..Len(cs) PROVE D!Kept(column, values[i], cs[i])
  <2>1. cs[i] \in column.min..column.max /\ cs[i] - column.min < Base * Base * Base * Base
        => values[i] = cs[i]
        BY <1>3, <1>11, Zenon
  <2> QED BY <2>1 DEF D!Kept
<1> QED BY <1>5, <1>11, <1>12, Zenon DEF values

(* So are floats, to half a step. *)
LEMMA FloatBlock ==
  ASSUME NEW column, column.dtype = "float", NEW cs \in Seq(Int)
  PROVE  /\ D!EncodeBlock(column, cs) \in Seq(D!Byte)
         /\ D!DecodeAdaptive(D!EncodeBlock(column, cs)) \in Seq(D!Byte)
         /\ Len(D!DecodeAdaptive(D!EncodeBlock(column, cs))) = Len(cs)
         /\ \A i \in 1..Len(cs) : D!Kept(column, D!DecodeAdaptive(D!EncodeBlock(column, cs))[i], cs[i])
<1> DEFINE codes == [i \in DOMAIN cs |-> D!Encode(column, cs[i])]
           raw == Raw(column, cs)
<1>1. Len(cs) \in Nat /\ \A i \in 1..Len(cs) : cs[i] \in Int
      OBVIOUS
<1>2. \A c \in Int : D!Encode(column, c) = <<D!Clamp(c \div 2)>>
      BY DEF D!Encode
<1>3. ASSUME NEW c \in Int
      PROVE  D!Clamp(c \div 2) \in D!Byte /\ (c \in 0..2 * Base - 1 => D!Clamp(c \div 2) = c \div 2)
      BY BaseIs DEF D!Clamp, D!Byte
<1>4. ASSUME NEW i \in 1..Len(cs)
      PROVE  /\ D!Encode(column, cs[i]) \in Seq(D!Byte) /\ Len(D!Encode(column, cs[i])) = 1
             /\ D!Encode(column, cs[i])[1] = D!Clamp(cs[i] \div 2)
  <2> DEFINE b == D!Clamp(cs[i] \div 2)
  <2>1. b \in D!Byte /\ D!Encode(column, cs[i]) = <<b>>
        BY <1>1, <1>2, <1>3, Zenon
  <2> HIDE DEF b
  <2> QED BY <2>1 DEF b
<1>5. /\ codes \in Seq(Seq(D!Byte)) /\ Len(codes) = Len(cs)
      /\ \A i \in 1..Len(cs) : codes[i] = D!Encode(column, cs[i])
      /\ D!EncodeBlock(column, cs) \in Seq(D!Byte)
      /\ D!DecodeAdaptive(D!EncodeBlock(column, cs)) = raw
  <2>1. cs \in Seq(Int) /\ \A i \in 1..Len(cs) : D!Encode(column, cs[i]) \in Seq(D!Byte)
        BY <1>4
  <2> HIDE DEF raw
  <2> QED BY <2>1, EncodedIs, ZenonT(60) DEF raw
<1>6. raw = D!FlattenSeq(codes)
      BY DEF Raw
<1> HIDE DEF codes, raw
<1>7. /\ raw \in Seq(D!Byte) /\ Len(raw) = Len(cs)
      /\ \A i \in 1..Len(cs) : raw[i] = codes[i][1]
  <2>1. 1 \in Nat /\ \A i \in 1..Len(codes) : Len(codes[i]) = 1
        BY <1>4, <1>5
  <2> DEFINE one == 1
             flat == D!FlattenSeq(codes)
  <2>2. /\ flat \in Seq(D!Byte) /\ Len(flat) = Len(codes) * one
        /\ \A i \in 1..Len(codes) : \A k \in 1..one :
             (i - 1) * one + k \in 1..Len(flat) /\ flat[(i - 1) * one + k] = codes[i][k]
    <3>1. one \in Nat /\ \A i \in 1..Len(codes) : Len(codes[i]) = one
          BY <2>1
    <3>2. codes \in Seq(Seq(D!Byte))
          BY <1>5
    <3> HIDE DEF one, flat
    <3> QED BY <3>1, <3>2, Evenly, Zenon DEF flat
  <2> HIDE DEF flat
  <2>5. raw = flat
        BY <1>6 DEF flat
  <2>3. \A i \in 1..Len(cs) : (i - 1) * 1 + 1 = i /\ 1 \in 1..1
        OBVIOUS
  <2>4. Len(codes) * 1 = Len(cs)
        BY <1>1, <1>5
  <2>6. ASSUME NEW i \in 1..Len(cs) PROVE flat[i] = codes[i][1]
    <3>1. i \in 1..Len(codes) /\ 1 \in 1..1 /\ (i - 1) * 1 + 1 = i
          BY <1>5, <2>3
    <3>2. flat[(i - 1) * 1 + 1] = codes[i][1]
          BY <2>2, <3>1, Zenon
    <3> QED BY <3>1, <3>2, Zenon
  <2> QED BY <2>2, <2>4, <2>5, <2>6, Zenon
<1>8. ASSUME NEW i \in 1..Len(cs) PROVE D!Kept(column, raw[i], cs[i])
  <2>1. raw[i] = D!Clamp(cs[i] \div 2) /\ cs[i] \in Int
        BY <1>1, <1>4, <1>5, <1>7
  <2>2. cs[i] \in 0..2 * Base - 1 => raw[i] = cs[i] \div 2
        BY <1>3, <2>1, Zenon
  <2> QED BY <2>2 DEF D!Kept
<1> QED BY <1>5, <1>7, <1>8, Zenon

(* Images of one size are cut out of a block as they were. *)
LEMMA ImageBlock ==
  ASSUME NEW column, column.dtype = "image", NEW cs \in Seq(Seq(D!Byte) \ {<<>>}), Len(cs) # 0,
         \A i, j \in 1..Len(cs) : Len(cs[i]) = Len(cs[j])
  PROVE  /\ D!EncodeBlock(column, cs) \in Seq(D!Byte)
         /\ Len(D!DecodeAdaptive(D!EncodeBlock(column, cs))) % Len(cs) = 0
         /\ D!Chunks(D!DecodeAdaptive(D!EncodeBlock(column, cs)),
                     Len(D!DecodeAdaptive(D!EncodeBlock(column, cs))) \div Len(cs)) = cs
<1> DEFINE codes == [i \in DOMAIN cs |-> D!Encode(column, cs[i])]
           w == Len(cs[1])
           raw == Raw(column, cs)
<1>1. Len(cs) \in Nat \ {0} /\ \A i \in 1..Len(cs) : cs[i] \in Seq(D!Byte) /\ cs[i] # <<>>
      OBVIOUS
<1>2. \A c : D!Encode(column, c) = c
      BY DEF D!Encode
<1>3. codes = cs
      BY <1>2
<1>4. w \in Nat \ {0} /\ \A i \in 1..Len(cs) : Len(cs[i]) = w
  <2>1. 1 \in 1..Len(cs)
        BY <1>1
  <2>2. cs[1] \in Seq(D!Byte) /\ cs[1] # <<>>
        BY <1>1, <2>1
  <2>3. w \in Nat \ {0}
        BY <2>2, EmptySeq
  <2> QED BY <2>1, <2>3
<1>5. D!EncodeBlock(column, cs) \in Seq(D!Byte) /\ D!DecodeAdaptive(D!EncodeBlock(column, cs)) = raw
  <2>1. \A i \in 1..Len(cs) : D!Encode(column, cs[i]) \in Seq(D!Byte)
        BY <1>1, <1>2
  <2> HIDE DEF w, codes, raw
  <2> QED BY <2>1, EncodedIs, Zenon DEF raw
<1>6. raw = D!FlattenSeq(cs)
      BY <1>3, Zenon DEF Raw
<1> HIDE DEF w, raw
<1>7. Len(raw) = Len(cs) * w /\ D!Chunks(raw, w) = cs
  <2>1. cs \in Seq(Seq(D!Byte))
        BY <1>1
  <2> QED BY <1>4, <1>6, <2>1, ChunksAre, Zenon
<1>8. Len(raw) \div Len(cs) = w /\ Len(raw) % Len(cs) = 0
  <2>1. Len(raw) = w * Len(cs) + 0 /\ 0 \in 0..Len(cs) - 1 /\ w \in Int
        BY <1>1, <1>4, <1>7
  <2> QED BY <1>1, <2>1, DivUnique, Zenon
<1> QED BY <1>5, <1>7, <1>8, Zenon

-----------------------------------------------------------------------------
(* The texts of a block. *)
Text == Seq(1..Base - 1)

\* i texts are read, and the bytes t of the next.
Read(parts, texts, i, t) ==
  /\ parts \in Seq(Seq(D!Byte)) /\ Len(parts) = i + 1
  /\ \A j \in 1..i : parts[j] = texts[j]
  /\ parts[i + 1] = t

(* A byte goes to the text that is being read. *)
LEMMA ReadOn ==
  ASSUME NEW parts, NEW texts, NEW i \in Nat, NEW t \in Seq(D!Byte), Read(parts, texts, i, t),
         NEW b \in D!Byte, b # 0
  PROVE  Read(D!Parted(parts, b), texts, i, Append(t, b)) /\ Append(t, b) \in Seq(D!Byte)
<1> DEFINE s == Append(D!Last(parts), b)
           more == Append(D!Front(parts), s)
           u == Append(t, b)
<1>1. parts \in Seq(Seq(D!Byte)) /\ Len(parts) = i + 1 /\ (\A j \in 1..i : parts[j] = texts[j]) /\ parts[i + 1] = t
      BY DEF Read
<1>2. D!Parted(parts, b) = more
      BY Zenon DEF D!Parted
<1>3. parts # <<>>
      BY <1>1, EmptySeq
<1>4. D!Last(parts) = t
      BY <1>1 DEF D!Last
<1>5. s = u
      BY <1>4
<1>6. u \in Seq(D!Byte)
      BY AppendProperties
<1>7. s \in Seq(D!Byte)
      BY <1>5, <1>6
<1> HIDE DEF s, u
<1>8. /\ more \in Seq(Seq(D!Byte)) /\ Len(more) = Len(parts)
      /\ \A j \in 1..Len(parts) - 1 : more[j] = parts[j]
      /\ more[Len(parts)] = s
  <2> DEFINE All == Seq(D!Byte)
  <2>1. parts \in Seq(All) /\ parts # <<>> /\ s \in All
        BY <1>1, <1>3, <1>7
  <2> HIDE DEF All
  <2>2. /\ more \in Seq(All) /\ Len(more) = Len(parts)
        /\ \A j \in 1..Len(parts) - 1 : more[j] = parts[j]
        /\ more[Len(parts)] = s
        BY <2>1, LastIs
  <2> QED BY <2>2 DEF All
<1> HIDE DEF more
<1>9. Len(parts) - 1 = i
      BY <1>1
<1>10. Read(more, texts, i, u)
      BY <1>1, <1>5, <1>8, <1>9 DEF Read
<1> QED BY <1>2, <1>6, <1>10, Zenon DEF u

(* A zero ends it. *)
LEMMA ReadNext ==
  ASSUME NEW parts, NEW texts, NEW i \in Nat, Read(parts, texts, i, texts[i + 1])
  PROVE  Read(D!Parted(parts, 0), texts, i + 1, <<>>)
<1> DEFINE s == <<>>
           more == Append(parts, s)
<1>1. parts \in Seq(Seq(D!Byte)) /\ Len(parts) = i + 1
      /\ (\A j \in 1..i : parts[j] = texts[j]) /\ parts[i + 1] = texts[i + 1]
      BY DEF Read
<1>2. D!Parted(parts, 0) = more
      BY Zenon DEF D!Parted
<1>3. s \in Seq(D!Byte)
      OBVIOUS
<1> HIDE DEF s
<1>4. /\ more \in Seq(Seq(D!Byte)) /\ Len(more) = Len(parts) + 1
      /\ \A j \in 1..Len(parts) : more[j] = parts[j]
      /\ more[Len(parts) + 1] = s
      BY <1>1, <1>3, AppendProperties
<1> HIDE DEF more
<1>5. \A j \in 1..i + 1 : more[j] = texts[j]
  <2> TAKE j \in 1..i + 1
  <2>1. more[j] = parts[j]
        BY <1>1, <1>4
  <2>2. CASE j = i + 1
        BY <1>1, <2>1, <2>2
  <2>3. CASE j # i + 1
    <3>1. j \in 1..i
          BY <2>3
    <3> QED BY <1>1, <2>1, <3>1
  <2> QED BY <2>2, <2>3
<1>6. Read(more, texts, i + 1, s)
      BY <1>1, <1>4, <1>5 DEF Read
<1> QED BY <1>2, <1>6, Zenon DEF s

(* Texts of a block are read as they were, and an empty one after them. *)
LEMMA TextBlock ==
  ASSUME NEW column, column.dtype = "text", NEW cs \in Seq(Text)
  PROVE  /\ D!EncodeBlock(column, cs) \in Seq(D!Byte)
         /\ Read(D!Split(D!DecodeAdaptive(D!EncodeBlock(column, cs))), cs, Len(cs), <<>>)
<1> DEFINE codes == [i \in DOMAIN cs |-> D!Encode(column, cs[i])]
           raw == Raw(column, cs)
           n == Len(cs)
<1>1. n \in Nat /\ \A i \in 1..n : cs[i] \in Text
      OBVIOUS
<1>2. 1..Base - 1 \subseteq D!Byte /\ 0 \in D!Byte
      BY BaseIs DEF D!Byte
<1>3. \A c : D!Encode(column, c) = Append(c, 0)
      BY DEF D!Encode
<1>4. ASSUME NEW i \in 1..n
      PROVE  /\ cs[i] \in Seq(D!Byte) /\ Append(cs[i], 0) \in Seq(D!Byte) /\ Len(cs[i]) \in Nat
             /\ Len(Append(cs[i], 0)) = Len(cs[i]) + 1
             /\ \A k \in 1..Len(cs[i]) : Append(cs[i], 0)[k] = cs[i][k] /\ cs[i][k] \in D!Byte /\ cs[i][k] # 0
             /\ Append(cs[i], 0)[Len(cs[i]) + 1] = 0
  <2> DEFINE c == cs[i]
             z == 0
  <2>1. c \in Seq(1..Base - 1)
        BY <1>1 DEF Text
  <2> HIDE DEF c
  <2>2. c \in Seq(D!Byte)
        BY <1>2, <2>1, SeqMonotonic, Zenon
  <2>3. z \in D!Byte
        BY <1>2
  <2> HIDE DEF z
  <2>4. /\ Append(c, z) \in Seq(D!Byte) /\ Len(Append(c, z)) = Len(c) + 1
        /\ \A k \in 1..Len(c) : Append(c, z)[k] = c[k]
        /\ Append(c, z)[Len(c) + 1] = z
        BY <2>2, <2>3, AppendProperties
  <2>5. \A k \in 1..Len(c) : c[k] \in 1..Base - 1
        BY <2>1, ElementOfSeq, Zenon
  <2>6. \A k \in 1..Len(c) : c[k] \in D!Byte /\ c[k] # 0
        BY <1>2, <2>5
  <2>7. Len(c) \in Nat
        BY <2>1
  <2> QED BY <2>2, <2>4, <2>6, <2>7, Zenon DEF c, z
<1>5. /\ codes \in Seq(Seq(D!Byte)) /\ Len(codes) = n
      /\ \A i \in 1..n : codes[i] = Append(cs[i], 0)
      /\ D!EncodeBlock(column, cs) \in Seq(D!Byte)
      /\ D!DecodeAdaptive(D!EncodeBlock(column, cs)) = raw
  <2>1. cs \in Seq(Text) /\ \A i \in 1..Len(cs) : D!Encode(column, cs[i]) \in Seq(D!Byte)
        BY <1>3, <1>4, Zenon
  <2>2. /\ codes \in Seq(Seq(D!Byte)) /\ Len(codes) = n
        /\ \A i \in 1..n : codes[i] = D!Encode(column, cs[i])
        /\ D!EncodeBlock(column, cs) \in Seq(D!Byte)
        /\ D!DecodeAdaptive(D!EncodeBlock(column, cs)) = raw
    <3> HIDE DEF raw
    <3> QED BY <2>1, EncodedIs, ZenonT(60) DEF raw
  <2> QED BY <1>3, <2>2, Zenon
<1>6. raw = D!FlattenSeq(codes)
      BY DEF Raw
<1> HIDE DEF codes, raw
<1>7. raw \in Seq(D!Byte) /\ Len(raw) \in Nat
      BY <1>5, <1>6, Flat
<1>8. PICK at : Borders(codes, at) /\ Len(raw) = at[Len(codes)] /\ Laid(raw, codes, at)
      BY <1>5, <1>6, Flat, Zenon
<1>9. /\ at \in [0..n -> Nat] /\ at[0] = 0 /\ at[n] = Len(raw)
      /\ \A i \in 1..n : at[i] = at[i - 1] + Len(codes[i])
      BY <1>5, <1>8 DEF Borders
<1>10. PICK f : SplitUpTo(raw, f, Len(raw)) /\ D!Split(raw) = f[Len(raw)]
       BY <1>7, SplitSteps
<1>11. f[0] = <<(<<>>)>> /\ \A p \in Nat : p < Len(raw) => f[p + 1] = D!Parted(f[p], raw[p + 1])
       BY <1>7, <1>10, SplitStepsNext
<1> DEFINE Fine == {i \in Nat : i <= n => Read(f[at[i]], cs, i, <<>>)}
<1>12. 0 \in Fine
  <2> DEFINE e == <<>>
  <2>1. e \in Seq(D!Byte)
        OBVIOUS
  <2> HIDE DEF e
  <2>2. <<e>> \in Seq(Seq(D!Byte)) /\ Len(<<e>>) = 0 + 1 /\ <<e>>[0 + 1] = e /\ 1..0 = {}
        BY <2>1
  <2>3. Read(<<e>>, cs, 0, e)
        BY <2>2 DEF Read
  <2>4. f[at[0]] = <<e>>
        BY <1>9, <1>11, Zenon DEF e
  <2>5. Read(f[at[0]], cs, 0, e)
        BY <2>3, <2>4, Zenon
  <2> QED BY <2>5 DEF e
<1>13. ASSUME NEW i \in Nat, i \in Fine PROVE i + 1 \in Fine
  <2> SUFFICES ASSUME i + 1 <= n PROVE Read(f[at[i + 1]], cs, i + 1, <<>>)
      OBVIOUS
  <2> DEFINE j == i + 1
             c == cs[j]
             l == Len(c)
             a == at[i]
  <2>1. j \in 1..n /\ j - 1 = i /\ i <= n /\ i \in 0..n /\ j \in 0..n
        BY <1>1
  <2>2. Read(f[a], cs, i, <<>>)
        BY <1>13, <2>1
  <2> HIDE DEF Fine
  <2>3. /\ c \in Seq(D!Byte) /\ l \in Nat /\ codes[j] = Append(c, 0) /\ Len(codes[j]) = l + 1
        /\ \A k \in 1..l : codes[j][k] = c[k] /\ c[k] \in D!Byte /\ c[k] # 0
        /\ codes[j][l + 1] = 0
    <3>1. codes[j] = Append(cs[j], 0)
          BY <1>5, <2>1
    <3> HIDE DEF j
    <3> QED BY <1>4, <2>1, <3>1
  <2> HIDE DEF j, c, l
  <2>4. a \in Nat /\ at[j] = a + (l + 1) /\ at[j] <= Len(raw)
    <3>1. at[j] = at[j - 1] + Len(codes[j])
          BY <1>9, <2>1
    <3>2. at[j] = a + (l + 1)
          BY <2>1, <2>3, <3>1
    <3>3. a \in Nat
          BY <1>9, <2>1, Zenon
    <3>4. at[j - 1] + (l + 1) \in 1..at[Len(codes)]
      <4>1. Len(codes) \in Nat /\ j \in 1..Len(codes) /\ l + 1 \in 1..Len(codes[j])
            BY <1>1, <1>5, <2>1, <2>3
      <4>2. \A m \in 1..Len(codes) : Len(codes[m]) \in Nat
            BY <1>5
      <4> QED BY <1>8, <4>1, <4>2, GrowsTo
    <3>5. at[j - 1] = a
          BY <2>1
    <3> QED BY <1>8, <2>3, <3>2, <3>3, <3>4, <3>5
  <2>5. \A k \in 1..l + 1 : raw[a + k] = codes[j][k]
    <3> TAKE k \in 1..l + 1
    <3>1. j \in 1..Len(codes) /\ k \in 1..Len(codes[j]) /\ at[j - 1] = a
          BY <1>5, <2>1, <2>3
    <3> QED BY <1>8, <3>1, Zenon DEF Laid
  <2> HIDE DEF a
  <2> DEFINE Done == {k \in Nat : k <= l => Read(f[a + k], cs, i, SubSeq(c, 1, k))}
  <2>6. 0 \in Done
    <3>1. SubSeq(c, 1, 0) = <<>>
          BY SubSeqEmpty
    <3>2. a + 0 = a
          BY <2>4
    <3>3. Read(f[a + 0], cs, i, SubSeq(c, 1, 0))
          BY <2>2, <3>1, <3>2, Zenon
    <3> QED BY <3>3
  <2>7. ASSUME NEW k \in Nat, k \in Done PROVE k + 1 \in Done
    <3> SUFFICES ASSUME k + 1 <= l PROVE Read(f[a + (k + 1)], cs, i, SubSeq(c, 1, k + 1))
        OBVIOUS
    <3>1. Read(f[a + k], cs, i, SubSeq(c, 1, k))
          BY <2>3, <2>7
    <3> HIDE DEF Done
    <3> DEFINE p == a + k
               t == SubSeq(c, 1, k)
               b == raw[p + 1]
    <3>2. p \in Nat /\ p < Len(raw) /\ p + 1 = a + (k + 1) /\ k + 1 \in 1..l /\ k + 1 \in 1..l + 1
          BY <2>3, <2>4
    <3>3. b = c[k + 1] /\ b \in D!Byte /\ b # 0
          BY SMTT(30), <2>3, <2>5, <3>2
    <3>4. t \in Seq(D!Byte) /\ SubSeq(c, 1, k + 1) = Append(t, b)
      <4>1. /\ t \in Seq(D!Byte) /\ Len(t) = k - 1 + 1
            /\ \A m \in 1..k - 1 + 1 : t[m] = c[1 - 1 + m]
        <5>1. 1 \in 1..Len(c) + 1 /\ k \in 1 - 1..Len(c)
              BY <2>3, <3>2 DEF l
        <5> QED BY <2>3, <5>1, PieceIs
      <4>2. SubSeq(c, 1, k + 1) = SubSeq(c, 1, k + 1 - 1) \o <<c[k + 1]>>
        <5>1. 1 \in 1..Len(c) /\ k + 1 \in 1..Len(c)
              BY <2>3, <3>2 DEF l
        <5> QED BY <2>3, <5>1, SubSeqRecursiveSecond
      <4>3. k + 1 - 1 = k
            OBVIOUS
      <4>4. Append(t, b) = t \o <<b>>
        <5> HIDE DEF t, b
        <5> QED BY <3>3, <4>1, AppendIsConcat
      <4>5. SubSeq(c, 1, k + 1) = t \o <<b>>
            BY <3>3, <4>2, <4>3, Zenon
      <4> QED BY <4>1, <4>4, <4>5, Zenon
    <3>5. f[p + 1] = D!Parted(f[p], b)
          BY <1>11, <3>2
    <3> HIDE DEF p, t, b
    <3>6. Read(f[p], cs, i, t)
          BY <3>1 DEF p, t
    <3>7. Read(D!Parted(f[p], b), cs, i, Append(t, b))
          BY <3>3, <3>4, <3>6, ReadOn
    <3> QED BY <3>2, <3>4, <3>5, <3>7, Zenon
  <2>8. Read(f[a + l], cs, i, c)
    <3>1. l \in Done
      <4> HIDE DEF Done
      <4> QED BY <2>3, <2>6, <2>7, AllNat, Zenon
    <3>2. SubSeq(c, 1, l) = c
          BY <2>3, SubSeqFull DEF l
    <3>3. Read(f[a + l], cs, i, SubSeq(c, 1, l))
          BY <2>3, <3>1
    <3> QED BY <3>2, <3>3, Zenon
  <2>9. f[at[j]] = D!Parted(f[a + l], 0)
    <3>1. raw[a + (l + 1)] = 0
          BY <2>3, <2>5
    <3>2. a + l \in Nat /\ a + l < Len(raw) /\ a + l + 1 = a + (l + 1) /\ a + l + 1 = at[j]
          BY <2>3, <2>4
    <3>3. f[a + l + 1] = D!Parted(f[a + l], raw[a + l + 1])
          BY <1>11, <3>2
    <3> QED BY <3>1, <3>2, <3>3, Zenon
  <2>10. Read(D!Parted(f[a + l], 0), cs, i + 1, <<>>)
    <3>1. Read(f[a + l], cs, i, cs[i + 1])
          BY <2>8, Zenon DEF c, j
    <3> QED BY <3>1, ReadNext
  <2> QED BY <2>9, <2>10, Zenon DEF j
<1>14. n \in Fine
  <2> HIDE DEF Fine
  <2> QED BY <1>1, <1>12, <1>13, AllNat
<1>15. Read(f[at[n]], cs, n, <<>>)
       BY <1>1, <1>14
<1>16. Read(D!Split(raw), cs, n, <<>>)
       BY <1>9, <1>10, <1>15, Zenon
<1> QED BY <1>5, <1>16, Zenon

-----------------------------------------------------------------------------
(* The blocks of a column. *)
\* Where block b of so many rows ends, when there are n rows.
Upto(b, size, n) == IF b * size < n THEN b * size ELSE n
Blocks(size, n) == (n + size - 1) \div size

(* Blocks follow each other up to the last row. *)
LEMMA BlocksAre ==
  ASSUME NEW n \in Nat, NEW size \in Nat \ {0}
  PROVE  /\ Blocks(size, n) \in Nat /\ Upto(0, size, n) = 0 /\ Upto(Blocks(size, n), size, n) = n
         /\ \A b \in 1..Blocks(size, n) :
              /\ (b - 1) * size \in Nat /\ (b - 1) * size < n /\ Upto(b - 1, size, n) = (b - 1) * size
              /\ Upto(b, size, n) \in (b - 1) * size + 1..n /\ Upto(b, size, n) - (b - 1) * size <= size
              /\ Upto(b, size, n) - (b - 1) * size
                 = IF n - (b - 1) * size < size THEN n - (b - 1) * size ELSE size
<1> DEFINE m == Blocks(size, n)
           v == n + size - 1
           r == v % size
<1>1. v \in Nat /\ v \in Int
      OBVIOUS
<1>2. m \in Nat /\ v = m * size + r /\ r \in 0..size - 1
  <2>1. m = v \div size
        BY DEF Blocks
  <2> HIDE DEF v, m
  <2> QED BY <1>1, <2>1, DivMod, Digits, Zenon
<1> HIDE DEF m, r
<1>3. m * size >= n /\ m * size \in Nat
      BY <1>2
<1>4. Upto(0, size, n) = 0
  <2>1. 0 * size = 0
        OBVIOUS
  <2> QED BY <2>1 DEF Upto
<1>5. Upto(m, size, n) = n
      BY <1>3 DEF Upto
<1>6. ASSUME NEW b \in 1..m
      PROVE  /\ (b - 1) * size \in Nat /\ (b - 1) * size < n /\ Upto(b - 1, size, n) = (b - 1) * size
             /\ Upto(b, size, n) \in (b - 1) * size + 1..n /\ Upto(b, size, n) - (b - 1) * size <= size
             /\ Upto(b, size, n) - (b - 1) * size
                 = IF n - (b - 1) * size < size THEN n - (b - 1) * size ELSE size
  <2> DEFINE a == (b - 1) * size
             w == m * size
  <2>1. a \in Nat /\ b * size = a + size
    <3>1. b - 1 \in Nat
          BY <1>2
    <3> QED BY <3>1
  <2>2. b * size <= w
    <3>1. b \in Int /\ m \in Int /\ b <= m /\ size \in Nat
          BY <1>2
    <3> QED BY <3>1, MulMono
  <2>3. w \in Nat /\ v = w + r
        BY <1>2, <1>3
  <2> HIDE DEF a, w
  <2>4. a < n
        BY <1>2, <2>1, <2>2, <2>3 DEF v
  <2>5. Upto(b - 1, size, n) = a
    <3>1. (b - 1) * size = a
          BY DEF a
    <3> QED BY <2>4, <3>1, Zenon DEF Upto
  <2>6. Upto(b, size, n) = IF a + size < n THEN a + size ELSE n
        BY <2>1 DEF Upto
  <2> DEFINE u == Upto(b, size, n)
  <2> HIDE DEF u
  <2>7. u = IF a + size < n THEN a + size ELSE n
        BY <2>6 DEF u
  <2>8. u \in a + 1..n /\ u - a <= size /\ u - a = IF n - a < size THEN n - a ELSE size
        BY <2>1, <2>4, <2>7
  <2> QED BY <2>1, <2>4, <2>5, <2>8, Zenon DEF a, u
<1> QED BY <1>2, <1>4, <1>5, <1>6, Zenon DEF m

\* The cells of block b.
Cut(cells, b, size, n) == SubSeq(cells, (b - 1) * size + 1, Upto(b, size, n))

(* Block b has the cells of its rows. *)
LEMMA CutIs ==
  ASSUME NEW n \in Nat, NEW size \in Nat \ {0}, NEW Elem, NEW cells \in Seq(Elem), Len(cells) = n,
         NEW b \in 1..Blocks(size, n)
  PROVE  /\ Cut(cells, b, size, n) \in Seq(Elem)
         /\ Len(Cut(cells, b, size, n)) = Upto(b, size, n) - (b - 1) * size
         /\ Len(Cut(cells, b, size, n)) # 0
         /\ \A i \in 1..Len(Cut(cells, b, size, n)) :
              (b - 1) * size + i \in 1..n /\ Cut(cells, b, size, n)[i] = cells[(b - 1) * size + i]
<1> DEFINE a == (b - 1) * size
           u == Upto(b, size, n)
           p == a + 1
           t == SubSeq(cells, p, u)
<1>1. a \in Nat /\ a < n /\ u \in a + 1..n
  <2> HIDE DEF a
  <2> QED BY BlocksAre DEF a
<1>2. Cut(cells, b, size, n) = t
      BY DEF Cut
<1> HIDE DEF a, u
<1>3. p \in 1..Len(cells) + 1 /\ u \in p - 1..Len(cells) /\ u - p + 1 = u - a /\ p - 1 = a
      BY <1>1
<1> HIDE DEF p
<1>4. t \in Seq(Elem) /\ Len(t) = u - p + 1 /\ \A i \in 1..u - p + 1 : t[i] = cells[p - 1 + i]
      BY <1>3, PieceIs
<1> HIDE DEF t
<1>5. t \in Seq(Elem) /\ Len(t) = u - a /\ Len(t) # 0
      BY <1>1, <1>3, <1>4
<1>6. ASSUME NEW i \in 1..Len(t) PROVE a + i \in 1..n /\ t[i] = cells[a + i]
  <2>1. i \in 1..u - p + 1 /\ a + i \in 1..n
        BY <1>1, <1>3, <1>5
  <2> QED BY <1>3, <1>4, <2>1, Zenon
<1> QED BY <1>2, <1>5, <1>6, Zenon DEF a, u

\* What the values of all the blocks are.
Joined(flat, vals, size, n) ==
  /\ Len(flat) = n
  /\ \A r \in 1..n : \E b \in 1..Blocks(size, n) : \E i \in 1..Len(vals[b]) :
       r = (b - 1) * size + i /\ flat[r] = vals[b][i]

(* Values of all the blocks, one block after the other. *)
LEMMA BlocksJoin ==
  ASSUME NEW n \in Nat, NEW size \in Nat \ {0}, NEW Elem, NEW vals \in Seq(Seq(Elem)),
         Len(vals) = Blocks(size, n),
         \A b \in 1..Len(vals) : Len(vals[b]) = Upto(b, size, n) - (b - 1) * size
  PROVE  D!FlattenSeq(vals) \in Seq(Elem) /\ Joined(D!FlattenSeq(vals), vals, size, n)
<1> DEFINE flat == D!FlattenSeq(vals)
           m == Blocks(size, n)
           at == [b \in 0..m |-> Upto(b, size, n)]
<1>1. /\ m \in Nat /\ Upto(0, size, n) = 0 /\ Upto(m, size, n) = n
      /\ \A b \in 1..m : /\ (b - 1) * size \in Nat /\ Upto(b - 1, size, n) = (b - 1) * size
                         /\ Upto(b, size, n) \in Nat
  <2>1. /\ m \in Nat /\ Upto(0, size, n) = 0 /\ Upto(m, size, n) = n
        BY BlocksAre
  <2>2. ASSUME NEW b \in 1..m
        PROVE  /\ (b - 1) * size \in Nat /\ Upto(b - 1, size, n) = (b - 1) * size /\ Upto(b, size, n) \in Nat
    <3> DEFINE a == (b - 1) * size
    <3>1. a \in Nat /\ Upto(b - 1, size, n) = a /\ Upto(b, size, n) \in a + 1..n
      <4> HIDE DEF a
      <4> QED BY BlocksAre DEF a
    <3> HIDE DEF a
    <3>2. Upto(b, size, n) \in Nat
          BY <3>1
    <3> QED BY <3>1, <3>2 DEF a
  <2> QED BY <2>1, <2>2
<1> HIDE DEF m, flat
<1>2. /\ at \in [0..m -> Nat] /\ at[0] = 0 /\ at[m] = n /\ \A b \in 0..m : at[b] = Upto(b, size, n)
  <2>1. \A b \in 0..m : Upto(b, size, n) \in Nat
    <3> TAKE b \in 0..m
    <3>1. CASE b = 0
          BY <1>1, <3>1
    <3>2. CASE b # 0
      <4>1. b \in 1..m
            BY <3>2
      <4> QED BY <1>1, <4>1
    <3> QED BY <3>1, <3>2
  <2>2. 0 \in 0..m /\ m \in 0..m
        BY <1>1
  <2> QED BY <1>1, <2>1, <2>2
<1> HIDE DEF at
<1>3. Len(vals) = m /\ \A b \in 1..m : Len(vals[b]) = Upto(b, size, n) - (b - 1) * size
  <2>1. Len(vals) = m
        BY DEF m
  <2> QED BY <2>1, Zenon
<1>4. Borders(vals, at)
  <2>1. ASSUME NEW b \in 1..m PROVE at[b] = at[b - 1] + Len(vals[b])
    <3> DEFINE a == (b - 1) * size
               u == Upto(b, size, n)
    <3>1. b \in 0..m /\ b - 1 \in 0..m
          BY <1>1
    <3>2. at[b] = u /\ at[b - 1] = a /\ Len(vals[b]) = u - a /\ a \in Nat /\ u \in Nat
          BY <1>1, <1>2, <1>3, <3>1
    <3> HIDE DEF a, u
    <3> QED BY <3>2
  <2> QED BY <1>2, <1>3, <2>1 DEF Borders
<1>5. flat \in Seq(Elem)
      BY Flat DEF flat
<1>6. PICK at2 : Borders(vals, at2) /\ Len(flat) = at2[Len(vals)] /\ Laid(flat, vals, at2)
      BY SMTT(30), Flat DEF flat
<1>7. \A b \in 0..m : at2[b] = at[b]
  <2>1. Len(vals) \in Nat
        BY <1>1, <1>3
  <2>2. \A b \in 0..Len(vals) : at[b] = at2[b]
    <3>1. Borders(vals, at2)
          BY <1>6
    <3> QED BY <1>4, <2>1, <3>1, OneEnd
  <2> QED BY <1>3, <2>2, Zenon
<1>8. Len(flat) = n
  <2>1. m \in 0..m
        BY <1>1
  <2> QED BY <1>2, <1>3, <1>6, <1>7, <2>1
<1>9. ASSUME NEW r \in 1..n
      PROVE  \E b \in 1..m : \E i \in 1..Len(vals[b]) : r = (b - 1) * size + i /\ flat[r] = vals[b][i]
  <2>1. r \in 1..at[m]
        BY <1>2
  <2>2. PICK b \in 1..m : at[b - 1] < r /\ r <= at[b]
        BY <1>1, <1>2, <2>1, Covered, Zenon
  <2> DEFINE a == (b - 1) * size
             i == r - a
  <2>3. b - 1 \in 0..m
        BY <1>1
  <2>4. at[b - 1] = a /\ a \in Nat /\ at2[b - 1] = a
        BY <1>1, <1>2, <1>7, <2>3, Zenon
  <2>5. at[b] = a + Len(vals[b]) /\ Len(vals[b]) \in Nat
    <3>1. at[b] = at[b - 1] + Len(vals[b])
          BY <1>3, <1>4 DEF Borders
    <3>2. Len(vals[b]) \in Nat
          BY <1>3
    <3> QED BY <2>4, <3>1, <3>2
  <2> HIDE DEF a
  <2>6. i \in 1..Len(vals[b]) /\ a + i = r
        BY <2>2, <2>4, <2>5
  <2> HIDE DEF i
  <2>7. flat[at2[b - 1] + i] = vals[b][i]
        BY <1>3, <1>6, <2>6 DEF Laid
  <2>8. r = (b - 1) * size + i /\ flat[r] = vals[b][i]
    <3>1. r = (b - 1) * size + i
          BY <2>6, Zenon DEF a
    <3> QED BY <2>4, <2>6, <2>7, <3>1, Zenon
  <2> QED BY <2>6, <2>8
<1> QED BY <1>5, <1>8, <1>9, Zenon DEF flat, m, Joined

-----------------------------------------------------------------------------
(* A dataset and its packet. *)
\* Cells that a column of its type can have.
Typed(column, cells) ==
  \/ column.dtype = "num" /\ column.min \in Int /\ column.max \in Int /\ cells \in Seq(Int)
  \/ column.dtype = "float" /\ cells \in Seq(Int)
  \/ column.dtype = "text" /\ cells \in Seq(Text)
  \/ /\ column.dtype = "image" /\ cells \in Seq(Seq(D!Byte) \ {<<>>})
     /\ \A i, j \in DOMAIN cells : Len(cells[i]) = Len(cells[j])

RowCount(d) == Len(d.columns[1].cells)
BlockSize(d) == D!ChooseBlockRows(RowCount(d))
Meta(column) ==
  [dtype |-> column.dtype, min |-> column.min, width |-> D!IntegerWidth(column.min, column.max)]
PacketOf(d) ==
  [rows |-> RowCount(d), inputs |-> d.outputsFrom, rowsPerBlock |-> BlockSize(d),
   columns |-> [c \in DOMAIN d.columns |-> Meta(d.columns[c])],
   data |-> [c \in DOMAIN d.columns |-> D!BuildColumn(d.columns[c], RowCount(d))]]

(* What TableAssumption says of a dataset. *)
LEMMA TableIs ==
  ASSUME NEW d \in Table
  PROVE  /\ Len(d.columns) \in Nat \ {0} /\ DOMAIN d.columns = 1..Len(d.columns)
         /\ d.outputsFrom \in 0..Len(d.columns) /\ RowCount(d) \in Nat /\ BlockSize(d) \in Nat \ {0}
         /\ \A c \in 1..Len(d.columns) :
              /\ Typed(d.columns[c], d.columns[c].cells) /\ Len(d.columns[c].cells) = RowCount(d)
<1>1. /\ d.columns \in Seq({d.columns[c] : c \in DOMAIN d.columns}) /\ d.columns # <<>>
      /\ d.outputsFrom \in 0..Len(d.columns)
      BY TableAssumption, Zenon
<1>2. \A c \in DOMAIN d.columns :
        Typed(d.columns[c], d.columns[c].cells) /\ Len(d.columns[c].cells) = RowCount(d)
      BY TableAssumption, Zenon DEF Typed, Text, RowCount, D!Byte
<1>3. Len(d.columns) \in Nat \ {0} /\ DOMAIN d.columns = 1..Len(d.columns)
  <2> DEFINE s == d.columns
             All == {d.columns[c] : c \in DOMAIN d.columns}
  <2>1. s \in Seq(All) /\ s # <<>>
        BY <1>1
  <2> HIDE DEF s, All
  <2>2. Len(s) \in Nat \ {0} /\ DOMAIN s = 1..Len(s)
        BY <2>1, EmptySeq, LenProperties
  <2> QED BY <2>2 DEF s
<1>4. RowCount(d) \in Nat
  <2> DEFINE k == d.columns[1]
             s == k.cells
  <2>1. Typed(k, s)
        BY <1>2, <1>3
  <2> HIDE DEF k, s
  <2>2. Len(s) \in Nat
        BY <2>1 DEF Typed
  <2> QED BY <2>2 DEF s, k, RowCount
<1>5. BlockSize(d) \in Nat \ {0}
  <2>1. BlockRows \in Nat \ {0} /\ 2 * BlockRows \in Nat \ {0} /\ 4 * BlockRows \in Nat \ {0}
        BY BaseIs
  <2>2. Few \in Nat /\ Many \in Nat
        BY TableAssumption
  <2> QED BY <1>4, <2>1, <2>2 DEF BlockSize, D!ChooseBlockRows
<1> QED BY <1>1, <1>2, <1>3, <1>4, <1>5, Zenon

(* What a packet has of a column. *)
LEMMA PacketIs ==
  ASSUME NEW d \in Table, NEW c \in 1..Len(d.columns)
  PROVE  /\ PacketOf(d).columns[c] = Meta(d.columns[c])
         /\ DOMAIN PacketOf(d).data[c] = 1..Blocks(BlockSize(d), RowCount(d))
         /\ \A b \in 1..Blocks(BlockSize(d), RowCount(d)) :
              PacketOf(d).data[c][b]
              = D!EncodeBlock(d.columns[c], Cut(d.columns[c].cells, b, BlockSize(d), RowCount(d)))
<1> DEFINE column == d.columns[c]
           n == RowCount(d)
           size == D!ChooseBlockRows(n)
<1>1. c \in DOMAIN d.columns
      BY TableIs
<1>2. PacketOf(d).columns[c] = Meta(column) /\ PacketOf(d).data[c] = D!BuildColumn(column, n)
      BY <1>1 DEF PacketOf
<1> HIDE DEF column, n
<1>3. D!BuildColumn(column, n)
      = [b \in 1..Blocks(size, n) |-> D!EncodeBlock(column, Cut(column.cells, b, size, n))]
      BY Zenon DEF D!BuildColumn, Blocks, Cut, Upto
<1>4. size = BlockSize(d)
      BY DEF BlockSize, n
<1> HIDE DEF size
<1>5. /\ DOMAIN D!BuildColumn(column, n) = 1..Blocks(size, n)
      /\ \A b \in 1..Blocks(size, n) :
           D!BuildColumn(column, n)[b] = D!EncodeBlock(column, Cut(column.cells, b, size, n))
      BY <1>3
<1> QED BY <1>2, <1>4, <1>5, Zenon DEF column, n

(* A part of the cells fits the column as they do. *)
LEMMA CutFits ==
  ASSUME NEW column, NEW cells, Typed(column, cells), NEW n \in Nat, Len(cells) = n,
         NEW size \in Nat \ {0}, NEW b \in 1..Blocks(size, n)
  PROVE  Typed(column, Cut(cells, b, size, n))
<1> DEFINE cs == Cut(cells, b, size, n)
<1>1. CASE column.dtype = "num" /\ column.min \in Int /\ column.max \in Int /\ cells \in Seq(Int)
  <2>1. cs \in Seq(Int)
        BY <1>1, CutIs
  <2> HIDE DEF cs
  <2>2. Typed(column, cs)
        BY <1>1, <2>1 DEF Typed
  <2> QED BY <2>2 DEF cs
<1>2. CASE column.dtype = "float" /\ cells \in Seq(Int)
  <2>1. cs \in Seq(Int)
        BY <1>2, CutIs
  <2> HIDE DEF cs
  <2>2. Typed(column, cs)
        BY <1>2, <2>1 DEF Typed
  <2> QED BY <2>2 DEF cs
<1>3. CASE column.dtype = "text" /\ cells \in Seq(Text)
  <2>1. cs \in Seq(Text)
        BY <1>3, CutIs
  <2> HIDE DEF cs
  <2>2. Typed(column, cs)
        BY <1>3, <2>1 DEF Typed
  <2> QED BY <2>2 DEF cs
<1>4. CASE /\ column.dtype = "image" /\ cells \in Seq(Seq(D!Byte) \ {<<>>})
           /\ \A i, j \in DOMAIN cells : Len(cells[i]) = Len(cells[j])
  <2> DEFINE All == Seq(D!Byte) \ {<<>>}
             a == (b - 1) * size
  <2>1. cells \in Seq(All)
        BY <1>4
  <2> HIDE DEF All, cs
  <2>2. cs \in Seq(All) /\ \A i \in 1..Len(cs) : a + i \in 1..n /\ cs[i] = cells[a + i]
        BY <2>1, CutIs DEF cs
  <2>3. DOMAIN cells = 1..n /\ DOMAIN cs = 1..Len(cs)
        BY <2>1, <2>2
  <2> HIDE DEF a
  <2>4. ASSUME NEW i \in DOMAIN cs, NEW j \in DOMAIN cs PROVE Len(cs[i]) = Len(cs[j])
    <3>1. a + i \in DOMAIN cells /\ a + j \in DOMAIN cells /\ cs[i] = cells[a + i] /\ cs[j] = cells[a + j]
          BY <2>2, <2>3
    <3> QED BY <1>4, <3>1, Zenon
  <2>5. Typed(column, cs)
        BY <1>4, <2>2, <2>4, Zenon DEF Typed, All
  <2> QED BY <2>5 DEF cs
<1> QED BY <1>1, <1>2, <1>3, <1>4, Zenon DEF Typed

\* What a value is read as.
Value(column) == IF column.dtype = "image" THEN Seq(D!Byte) ELSE Int

(* The first values are all when there are no more. *)
LEMMA AllFirst == ASSUME NEW Elem, NEW s \in Seq(Elem) PROVE D!First(s, Len(s)) = s
<1>1. SubSeq(s, 1, Len(s)) = s /\ ~(Len(s) < Len(s))
      BY SubSeqFull
<1> QED BY <1>1, Zenon DEF D!First

(* Bytes are numbers. *)
LEMMA BytesAreInts == ASSUME NEW s \in Seq(D!Byte) PROVE s \in Seq(Int)
<1>1. D!Byte \subseteq Int
      BY BaseIs DEF D!Byte
<1> QED BY <1>1, SeqMonotonic, Zenon

(* What the on-prem server reads in a block. *)
LEMMA ServerBlock ==
  ASSUME NEW column, NEW cs, Typed(column, cs), column.dtype # "text", Len(cs) # 0
  PROVE  LET values == D!DecodeColumnBlock(D!EncodeBlock(column, cs), Meta(column), Len(cs))
         IN values \in Seq(Value(column)) /\ Len(values) = Len(cs)
            /\ \A i \in 1..Len(cs) : D!Kept(column, values[i], cs[i])
<1> DEFINE block == D!EncodeBlock(column, cs)
           meta == Meta(column)
           raw == D!DecodeAdaptive(block)
           values == D!DecodeColumnBlock(block, meta, Len(cs))
<1>1. meta.dtype = column.dtype /\ meta.min = column.min /\ meta.width = D!IntegerWidth(column.min, column.max)
      BY DEF Meta
<1> HIDE DEF meta
<1>2. CASE column.dtype = "num" /\ column.min \in Int /\ column.max \in Int /\ cs \in Seq(Int)
  <2> DEFINE v == D!DecodeNum(raw, meta)
  <2>1. v \in Seq(Int) /\ Len(v) = Len(cs) /\ \A i \in 1..Len(cs) : D!Kept(column, v[i], cs[i])
        BY <1>1, <1>2, NumBlock
  <2>2. values = D!First(v, Len(cs))
        BY <1>1, <1>2 DEF D!DecodeColumnBlock
  <2> HIDE DEF v, values
  <2>3. values = v
    <3>1. D!First(v, Len(v)) = v
          BY <2>1, AllFirst
    <3> QED BY <2>1, <2>2, <3>1, Zenon
  <2>4. Value(column) = Int
        BY <1>2 DEF Value
  <2> QED BY <2>1, <2>3, <2>4, Zenon DEF values, block, meta
<1>3. CASE column.dtype = "float" /\ cs \in Seq(Int)
  <2>1. raw \in Seq(D!Byte) /\ Len(raw) = Len(cs) /\ \A i \in 1..Len(cs) : D!Kept(column, raw[i], cs[i])
        BY <1>3, FloatBlock
  <2>2. values = D!First(raw, Len(cs))
        BY <1>1, <1>3 DEF D!DecodeColumnBlock
  <2> HIDE DEF raw, values
  <2>3. values = raw
    <3>1. D!First(raw, Len(raw)) = raw
          BY <2>1, AllFirst
    <3> QED BY <2>1, <2>2, <3>1, Zenon
  <2>4. Value(column) = Int
        BY <1>3 DEF Value
  <2>5. raw \in Seq(Int)
        BY <2>1, BytesAreInts
  <2> QED BY <2>1, <2>3, <2>4, <2>5, Zenon DEF values, block, meta
<1>4. CASE /\ column.dtype = "image" /\ cs \in Seq(Seq(D!Byte) \ {<<>>})
           /\ \A i, j \in DOMAIN cs : Len(cs[i]) = Len(cs[j])
  <2>1. DOMAIN cs = 1..Len(cs)
        BY <1>4
  <2>2. Len(raw) % Len(cs) = 0 /\ D!Chunks(raw, Len(raw) \div Len(cs)) = cs
        BY <1>4, <2>1, ImageBlock, Zenon
  <2>3. values = D!Chunks(raw, Len(raw) \div Len(cs))
    <3> HIDE DEF raw
    <3>1. values = IF Len(raw) % Len(cs) # 0 THEN <<>> ELSE D!Chunks(raw, Len(raw) \div Len(cs))
          BY <1>1, <1>4 DEF D!DecodeColumnBlock, raw
    <3> HIDE DEF values
    <3> QED BY <2>2, <3>1
  <2> HIDE DEF values
  <2>4. values = cs
        BY <2>2, <2>3, Zenon
  <2>5. Value(column) = Seq(D!Byte)
        BY <1>4 DEF Value
  <2>6. cs \in Seq(Seq(D!Byte))
        BY <1>4
  <2>7. \A i \in 1..Len(cs) : D!Kept(column, cs[i], cs[i])
        BY <1>4 DEF D!Kept
  <2> QED BY <2>4, <2>5, <2>6, <2>7, Zenon DEF values, block, meta
<1> QED BY <1>2, <1>3, <1>4, Zenon DEF Typed

\* What is known of a part of the cells.
IsCut(t, cells, b, size, n) ==
  /\ Len(t) = Upto(b, size, n) - (b - 1) * size /\ Len(t) # 0
  /\ \A i \in 1..Len(t) : (b - 1) * size + i \in 1..n /\ t[i] = cells[(b - 1) * size + i]

(* The same, for a part that is named. *)
LEMMA CutFound ==
  ASSUME NEW n \in Nat, NEW size \in Nat \ {0}, NEW Elem, NEW cells \in Seq(Elem), Len(cells) = n,
         NEW b \in 1..Blocks(size, n)
  PROVE  IsCut(Cut(cells, b, size, n), cells, b, size, n)
BY CutIs DEF IsCut

(* What the on-prem server reads in a column is what the builder had. *)
LEMMA ServerColumn ==
  ASSUME NEW d \in Table, NEW c \in 1..Len(d.columns), d.columns[c].dtype # "text"
  PROVE  LET values == D!DecodePacketColumn(PacketOf(d), c)
         IN values \in Seq(Value(d.columns[c])) /\ Len(values) = RowCount(d)
            /\ \A r \in 1..RowCount(d) : D!Kept(d.columns[c], values[r], d.columns[c].cells[r])
<1> DEFINE column == d.columns[c]
           cells == column.cells
           n == RowCount(d)
           size == BlockSize(d)
           m == Blocks(size, n)
           p == PacketOf(d)
           cut(b) == Cut(cells, b, size, n)
           read(b) == D!DecodeColumnBlock(D!EncodeBlock(column, cut(b)), Meta(column), Len(cut(b)))
           vals == [b \in 1..m |-> read(b)]
           values == D!DecodePacketColumn(p, c)
<1>1. n \in Nat /\ size \in Nat \ {0} /\ Typed(column, cells) /\ Len(cells) = n
      BY TableIs
<1>2. m \in Nat
      BY <1>1, BlocksAre, Zenon
<1>3. /\ p.columns[c] = Meta(column) /\ DOMAIN p.data[c] = 1..m
      /\ \A b \in 1..m : p.data[c][b] = D!EncodeBlock(column, cut(b))
      BY PacketIs
<1>4. p.rows = n /\ p.rowsPerBlock = size
      BY DEF PacketOf
<1>5. column.dtype # "text"
      OBVIOUS
<1> HIDE DEF column, n, size, m, p
<1>6. ASSUME NEW b \in 1..m
      PROVE  /\ Len(cut(b)) # 0 /\ Typed(column, cut(b)) /\ Len(cut(b)) = Upto(b, size, n) - (b - 1) * size
             /\ Len(cut(b)) = IF n - (b - 1) * size < size THEN n - (b - 1) * size ELSE size
             /\ \A i \in 1..Len(cut(b)) : (b - 1) * size + i \in 1..n /\ cut(b)[i] = cells[(b - 1) * size + i]
  <2>1. \E All : cells \in Seq(All)
        BY <1>1, Zenon DEF Typed
  <2>2. PICK All : cells \in Seq(All)
        BY <2>1
  <2>3. b \in 1..Blocks(size, n)
        BY DEF m
  <2>4. /\ Len(cut(b)) = Upto(b, size, n) - (b - 1) * size /\ Len(cut(b)) # 0
        /\ \A i \in 1..Len(cut(b)) : (b - 1) * size + i \in 1..n /\ cut(b)[i] = cells[(b - 1) * size + i]
    <3>1. IsCut(cut(b), cells, b, size, n)
          BY <1>1, <2>2, <2>3, CutFound
    <3> QED BY <3>1, Zenon DEF IsCut
  <2>5. Typed(column, cut(b))
        BY <1>1, <2>3, CutFits, Zenon
  <2>6. Upto(b, size, n) - (b - 1) * size = IF n - (b - 1) * size < size THEN n - (b - 1) * size ELSE size
        BY <1>1, <2>3, BlocksAre
  <2> QED BY <2>4, <2>5, <2>6, Zenon
<1>7. values = D!FlattenSeq(vals)
  <2> DEFINE e(b) == D!DecodeColumnBlock(p.data[c][b], p.columns[c],
                       IF p.rows - (b - 1) * p.rowsPerBlock < p.rowsPerBlock
                       THEN p.rows - (b - 1) * p.rowsPerBlock ELSE p.rowsPerBlock)
             all == [b \in DOMAIN p.data[c] |-> e(b)]
  <2>1. values = D!FlattenSeq(all)
        BY Zenon DEF D!DecodePacketColumn
  <2>2. \A b \in 1..m : e(b) = read(b)
        BY <1>3, <1>4, <1>6, Zenon
  <2> HIDE DEF e, read
  <2>3. all = vals
        BY <1>3, <2>2, Zenon
  <2> QED BY <2>1, <2>3, Zenon
<1> HIDE DEF values
<1>8. ASSUME NEW b \in 1..m
      PROVE  /\ read(b) \in Seq(Value(column)) /\ Len(read(b)) = Len(cut(b))
             /\ \A i \in 1..Len(cut(b)) : D!Kept(column, read(b)[i], cut(b)[i])
      BY <1>5, <1>6, ServerBlock, Zenon
<1> HIDE DEF read, cut
<1>9. /\ vals \in Seq(Seq(Value(column))) /\ Len(vals) = m
      /\ \A b \in 1..m : vals[b] = read(b)
      BY <1>2, <1>8
<1> HIDE DEF vals
<1>10. /\ D!FlattenSeq(vals) \in Seq(Value(column)) /\ Len(D!FlattenSeq(vals)) = n
       /\ \A r \in 1..n : \E b \in 1..m : \E i \in 1..Len(vals[b]) :
            r = (b - 1) * size + i /\ D!FlattenSeq(vals)[r] = vals[b][i]
  <2>1. Len(vals) = Blocks(size, n)
        BY <1>9 DEF m
  <2>2. \A b \in 1..Len(vals) : Len(vals[b]) = Upto(b, size, n) - (b - 1) * size
        BY <1>6, <1>8, <1>9, Zenon
  <2>3. vals \in Seq(Seq(Value(column)))
        BY <1>9
  <2>4. D!FlattenSeq(vals) \in Seq(Value(column)) /\ Joined(D!FlattenSeq(vals), vals, size, n)
        BY <1>1, <2>1, <2>2, <2>3, BlocksJoin
  <2> QED BY <2>4, Zenon DEF m, Joined
<1>11. ASSUME NEW r \in 1..n PROVE D!Kept(column, values[r], cells[r])
  <2>1. PICK b \in 1..m : \E i \in 1..Len(vals[b]) : r = (b - 1) * size + i /\ D!FlattenSeq(vals)[r] = vals[b][i]
        BY <1>10
  <2>2. PICK i \in 1..Len(vals[b]) : r = (b - 1) * size + i /\ D!FlattenSeq(vals)[r] = vals[b][i]
        BY <2>1
  <2>3. vals[b] = read(b) /\ i \in 1..Len(cut(b))
        BY <1>8, <1>9, <2>2, Zenon
  <2>4. cut(b)[i] = cells[r] /\ D!Kept(column, read(b)[i], cut(b)[i])
        BY <1>6, <1>8, <2>2, <2>3, Zenon
  <2>5. values[r] = read(b)[i]
        BY <1>7, <2>2, <2>3, Zenon
  <2> QED BY <2>4, <2>5, Zenon
<1> QED BY <1>7, <1>10, <1>11, Zenon DEF column, n, p, values

(* A worker reads in a block the numbers of its rows, or as many texts as the *)
(* dataset has rows. *)
LEMMA WorkerBlock ==
  ASSUME NEW column, NEW cs, Typed(column, cs), column.dtype \in {"num", "float"}, NEW n
  PROVE  LET values == D!DecodeOneStream(D!EncodeBlock(column, cs), Meta(column), n)
         IN values \in Seq(Int) /\ Len(values) = Len(cs)
            /\ \A i \in 1..Len(cs) : D!Kept(column, values[i], cs[i])
<1> DEFINE block == D!EncodeBlock(column, cs)
           meta == Meta(column)
           raw == D!DecodeAdaptive(block)
           values == D!DecodeOneStream(block, meta, n)
<1>1. meta.dtype = column.dtype /\ meta.min = column.min /\ meta.width = D!IntegerWidth(column.min, column.max)
      BY DEF Meta
<1> HIDE DEF meta
<1>2. CASE column.dtype = "num"
  <2> DEFINE v == D!DecodeNum(raw, meta)
  <2>1. column.min \in Int /\ column.max \in Int /\ cs \in Seq(Int)
        BY <1>2 DEF Typed
  <2>2. v \in Seq(Int) /\ Len(v) = Len(cs) /\ \A i \in 1..Len(cs) : D!Kept(column, v[i], cs[i])
        BY <1>1, <1>2, <2>1, NumBlock
  <2>3. values = v
        BY <1>1, <1>2 DEF D!DecodeOneStream
  <2> QED BY <2>2, <2>3, Zenon DEF meta
<1>3. CASE column.dtype = "float"
  <2>1. cs \in Seq(Int)
        BY <1>3 DEF Typed
  <2>2. raw \in Seq(D!Byte) /\ Len(raw) = Len(cs) /\ \A i \in 1..Len(cs) : D!Kept(column, raw[i], cs[i])
        BY <1>3, <2>1, FloatBlock
  <2>3. values = raw
        BY <1>1, <1>3 DEF D!DecodeOneStream
  <2>4. raw \in Seq(Int)
        BY <2>2, BytesAreInts
  <2> QED BY <2>2, <2>3, <2>4, Zenon DEF meta
<1> QED BY <1>2, <1>3

(* Texts of the block are read first, then empty ones. *)
LEMMA WorkerTexts ==
  ASSUME NEW column, NEW cs, Typed(column, cs), column.dtype = "text", NEW n \in Nat
  PROVE  LET values == D!DecodeOneStream(D!EncodeBlock(column, cs), Meta(column), n)
         IN values \in Seq(Seq(D!Byte)) /\ Len(values) = n
            /\ \A i \in 1..n : i <= Len(cs) => values[i] = cs[i]
<1> DEFINE block == D!EncodeBlock(column, cs)
           parts == D!Split(D!DecodeAdaptive(block))
           values == D!DecodeOneStream(block, Meta(column), n)
           l == Len(cs)
           empty == <<>>
           e(r) == IF r <= Len(parts) THEN parts[r] ELSE empty
<1>1. cs \in Seq(Text)
      BY DEF Typed
<1>2. Read(parts, cs, l, empty)
      BY <1>1, TextBlock
<1>3. parts \in Seq(Seq(D!Byte)) /\ Len(parts) = l + 1 /\ l \in Nat /\ \A j \in 1..l : parts[j] = cs[j]
      BY <1>1, <1>2 DEF Read
<1>4. values = D!Resized(parts, n)
  <2>1. Meta(column).dtype = "text"
        BY DEF Meta
  <2> QED BY <2>1 DEF D!DecodeOneStream
<1>5. values = [r \in 1..n |-> e(r)]
      BY <1>4, Zenon DEF D!Resized
<1>6. empty \in Seq(D!Byte)
      OBVIOUS
<1> HIDE DEF values, parts, empty, l
<1>7. \A r \in 1..n : e(r) \in Seq(D!Byte) /\ (r <= l => e(r) = cs[r])
      BY <1>3, <1>6
<1> HIDE DEF e
<1>8. values \in Seq(Seq(D!Byte)) /\ Len(values) = n /\ \A r \in 1..n : values[r] = e(r)
      BY <1>5, <1>7
<1> QED BY <1>7, <1>8, Zenon DEF values, l

(* What a worker reads in a column: texts are there in the first block only. *)
LEMMA WorkerColumn ==
  ASSUME NEW d \in Table, NEW c \in 1..Len(d.columns), d.columns[c].dtype # "image"
  PROVE  LET values == D!DecodeColumnAny(PacketOf(d), c)
         IN Len(values) \in Nat /\ Len(values) >= RowCount(d)
            /\ \A r \in 1..RowCount(d) : (d.columns[c].dtype = "text" => r <= BlockSize(d))
                                         => D!Kept(d.columns[c], values[r], d.columns[c].cells[r])
<1> DEFINE column == d.columns[c]
           cells == column.cells
           n == RowCount(d)
           size == BlockSize(d)
           m == Blocks(size, n)
           p == PacketOf(d)
           cut(b) == Cut(cells, b, size, n)
           read(b) == D!DecodeOneStream(D!EncodeBlock(column, cut(b)), Meta(column), n)
           vals == [b \in 1..m |-> read(b)]
           values == D!DecodeColumnAny(p, c)
<1>1. n \in Nat /\ size \in Nat \ {0} /\ Typed(column, cells) /\ Len(cells) = n
      BY TableIs
<1>2. m \in Nat
      BY <1>1, BlocksAre, Zenon
<1>3. /\ p.columns[c] = Meta(column) /\ DOMAIN p.data[c] = 1..m
      /\ \A b \in 1..m : p.data[c][b] = D!EncodeBlock(column, cut(b))
      BY PacketIs
<1>4. p.rows = n
      BY DEF PacketOf
<1>5. column.dtype # "image"
      OBVIOUS
<1> HIDE DEF column, n, size, m, p
<1>6. ASSUME NEW b \in 1..m
      PROVE  /\ Typed(column, cut(b)) /\ Len(cut(b)) = Upto(b, size, n) - (b - 1) * size
             /\ \A i \in 1..Len(cut(b)) : (b - 1) * size + i \in 1..n /\ cut(b)[i] = cells[(b - 1) * size + i]
  <2>1. \E All : cells \in Seq(All)
        BY <1>1, Zenon DEF Typed
  <2>2. PICK All : cells \in Seq(All)
        BY <2>1
  <2>3. b \in 1..Blocks(size, n)
        BY DEF m
  <2>4. /\ Len(cut(b)) = Upto(b, size, n) - (b - 1) * size
        /\ \A i \in 1..Len(cut(b)) : (b - 1) * size + i \in 1..n /\ cut(b)[i] = cells[(b - 1) * size + i]
    <3>1. IsCut(cut(b), cells, b, size, n)
          BY <1>1, <2>2, <2>3, CutFound
    <3> QED BY <3>1, Zenon DEF IsCut
  <2>5. Typed(column, cut(b))
        BY <1>1, <2>3, CutFits, Zenon
  <2> QED BY <2>4, <2>5, Zenon
<1>7. values = D!FlattenSeq(vals)
  <2> DEFINE e(b) == D!DecodeOneStream(p.data[c][b], p.columns[c], p.rows)
             all == [b \in DOMAIN p.data[c] |-> e(b)]
  <2>1. values = D!FlattenSeq(all)
        BY Zenon DEF D!DecodeColumnAny
  <2>2. \A b \in 1..m : e(b) = read(b)
        BY <1>3, <1>4, Zenon
  <2> HIDE DEF e, read
  <2>3. all = vals
        BY <1>3, <2>2, Zenon
  <2> QED BY <2>1, <2>3, Zenon
<1> HIDE DEF values
<1>8. CASE column.dtype \in {"num", "float"}
  <2>1. ASSUME NEW b \in 1..m
        PROVE  /\ read(b) \in Seq(Int) /\ Len(read(b)) = Len(cut(b))
               /\ \A i \in 1..Len(cut(b)) : D!Kept(column, read(b)[i], cut(b)[i])
        BY <1>6, <1>8, WorkerBlock, Zenon
  <2> HIDE DEF read, cut
  <2>2. /\ vals \in Seq(Seq(Int)) /\ Len(vals) = m
        /\ \A b \in 1..m : vals[b] = read(b)
        BY SMTT(30), <1>2, <2>1
  <2> HIDE DEF vals
  <2>3. /\ Len(D!FlattenSeq(vals)) = n
        /\ \A r \in 1..n : \E b \in 1..m : \E i \in 1..Len(vals[b]) :
             r = (b - 1) * size + i /\ D!FlattenSeq(vals)[r] = vals[b][i]
    <3>1. Len(vals) = Blocks(size, n)
          BY <2>2 DEF m
    <3>2. \A b \in 1..Len(vals) : Len(vals[b]) = Upto(b, size, n) - (b - 1) * size
          BY <1>6, <2>1, <2>2, Zenon
    <3>3. vals \in Seq(Seq(Int))
          BY <2>2
    <3>4. Joined(D!FlattenSeq(vals), vals, size, n)
          BY <1>1, <3>1, <3>2, <3>3, BlocksJoin
    <3> QED BY <3>4, Zenon DEF m, Joined
  <2>4. ASSUME NEW r \in 1..n PROVE D!Kept(column, values[r], cells[r])
    <3>1. PICK b \in 1..m : \E i \in 1..Len(vals[b]) : r = (b - 1) * size + i /\ D!FlattenSeq(vals)[r] = vals[b][i]
          BY <2>3, Zenon
    <3>2. PICK i \in 1..Len(vals[b]) : r = (b - 1) * size + i /\ D!FlattenSeq(vals)[r] = vals[b][i]
          BY <3>1
    <3>3. vals[b] = read(b) /\ i \in 1..Len(cut(b))
          BY <2>1, <2>2, <3>2, Zenon
    <3>4. cut(b)[i] = cells[r] /\ D!Kept(column, read(b)[i], cut(b)[i])
          BY <1>6, <2>1, <3>2, <3>3, Zenon
    <3>5. values[r] = read(b)[i]
          BY <1>7, <3>2, <3>3, Zenon
    <3> QED BY <3>4, <3>5, Zenon
  <2>5. Len(values) = n /\ n >= n
        BY <1>1, <1>7, <2>3
  <2> QED BY <1>1, <2>4, <2>5, Zenon DEF column, n, p, values
<1>9. CASE column.dtype = "text"
  <2>1. ASSUME NEW b \in 1..m
        PROVE  /\ read(b) \in Seq(Seq(D!Byte)) /\ Len(read(b)) = n
               /\ \A i \in 1..n : i <= Len(cut(b)) => read(b)[i] = cut(b)[i]
        BY <1>1, <1>6, <1>9, WorkerTexts
  <2> HIDE DEF read, cut
  <2>2. /\ vals \in Seq(Seq(Seq(D!Byte))) /\ Len(vals) = m
        /\ \A b \in 1..m : vals[b] = read(b)
    <3> DEFINE All == Seq(Seq(D!Byte))
    <3>1. \A b \in 1..m : read(b) \in All
          BY <2>1
    <3> HIDE DEF All
    <3>2. vals \in Seq(All) /\ Len(vals) = m /\ \A b \in 1..m : vals[b] = read(b)
          BY <1>2, <3>1
    <3> QED BY <3>2, Zenon DEF All
  <2> HIDE DEF vals
  <2> DEFINE flat == D!FlattenSeq(vals)
  <2>3. flat \in Seq(Seq(D!Byte))
        BY <2>2, Flat
  <2>4. PICK at : Borders(vals, at) /\ Len(flat) = at[Len(vals)] /\ Laid(flat, vals, at)
        BY <2>2, Flat, Zenon
  <2> HIDE DEF flat
  <2>5. CASE n = 0
    <3>1. Len(values) \in Nat /\ Len(values) >= n /\ 1..n = {}
          BY <1>7, <2>3, <2>5 DEF flat
    <3> QED BY <3>1, Zenon DEF column, n, p, values
  <2>6. CASE n # 0
    <3>1. 1 \in 1..m
      <4>1. m # 0
        <5>1. Upto(0, size, n) = 0 /\ Upto(m, size, n) = n
              BY <1>1, BlocksAre, Zenon DEF m
        <5> QED BY <2>6, <5>1
      <4> QED BY <1>2, <4>1
    <3>2. at[0] = 0 /\ 1 - 1 = 0
          BY <2>4 DEF Borders
    <3>3. Len(vals[1]) = n /\ vals[1] = read(1)
          BY <2>1, <2>2, <3>1, Zenon
    <3>4. \A r \in 1..n : r \in 1..Len(flat) /\ flat[r] = read(1)[r]
      <4> TAKE r \in 1..n
      <4>1. at[1 - 1] + r \in 1..Len(flat) /\ flat[at[1 - 1] + r] = vals[1][r]
            BY <2>2, <2>4, <3>1, <3>3 DEF Laid
      <4>2. at[1 - 1] + r = r
            BY <3>2
      <4> QED BY <3>3, <4>1, <4>2, Zenon
    <3>5. Len(flat) \in Nat /\ Len(flat) >= n
      <4>1. n \in 1..n
            BY <1>1, <2>6
      <4>2. n \in 1..Len(flat) /\ Len(flat) \in Nat
            BY <2>3, <3>4, <4>1
      <4> QED BY <4>2
    <3>6. ASSUME NEW r \in 1..n, r <= size PROVE D!Kept(column, values[r], cells[r])
      <4>1. Len(cut(1)) = Upto(1, size, n) - (1 - 1) * size
            BY <1>6, <3>1, Zenon
      <4>2. (1 - 1) * size = 0 /\ 1 * size = size /\ (1 - 1) * size + r = r
            BY <1>1
      <4>3. Upto(1, size, n) = IF size < n THEN size ELSE n
            BY <4>2, Zenon DEF Upto
      <4>4. r <= Len(cut(1)) /\ r \in 1..Len(cut(1))
        <5> DEFINE l == Len(cut(1))
        <5>1. l = IF size < n THEN size ELSE n
          <6>1. l = Upto(1, size, n) - 0
                BY <4>1, <4>2, Zenon
          <6>2. Upto(1, size, n) \in Int
                BY <1>1, <4>3
          <6> QED BY <4>3, <6>1, <6>2
        <5> HIDE DEF l
        <5>2. r <= l /\ r \in 1..l
              BY <1>1, <3>6, <5>1
        <5> QED BY <5>2 DEF l
      <4>5. cut(1)[r] = cells[r]
            BY <1>6, <3>1, <4>2, <4>4, Zenon
      <4>6. read(1)[r] = cut(1)[r]
            BY <2>1, <3>1, <4>4, Zenon
      <4>7. values[r] = cells[r]
            BY <1>7, <3>4, <4>5, <4>6, Zenon DEF flat
      <4> QED BY <1>9, <4>7 DEF D!Kept
    <3> QED BY <1>7, <1>9, <3>5, <3>6, Zenon DEF column, n, p, values, size, flat
  <2> QED BY <2>5, <2>6
<1> QED BY <1>1, <1>5, <1>8, <1>9 DEF Typed

-----------------------------------------------------------------------------
(* What is read of a packet. *)
\* What a worker makes of columns, and of a packet.
RowsRead(columns, p) ==
  D!Answer("rows", [r \in 1..p.rows |->
    [inputs |-> [c \in 1..p.inputs |-> columns[c][r]],
     outputs |-> [c \in 1..Len(columns) - p.inputs |-> columns[p.inputs + c][r]]]])
WorkersAnswer(p) ==
  LET columns == IF D!Readable(p) THEN [c \in DOMAIN p.columns |-> D!DecodeColumnAny(p, c)] ELSE D!Nothing
  IN IF ~D!Readable(p) \/ ~D!Complete(columns, p.rows) THEN D!Answer("refused", D!Nothing)
     ELSE RowsRead(columns, p)

(* An answer is a refusal or rows. *)
LEMMA AnswerIs ==
  /\ D!Answer("refused", D!Nothing).is # "rows"
  /\ \A values : D!Answer("rows", values).is = "rows" /\ D!Answer("rows", values).values = values
BY DEF D!Answer

\* What packets tell of their dataset.
LEMMA PacketTells ==
  ASSUME NEW d \in Table
  PROVE  /\ PacketOf(d).rows = RowCount(d) /\ PacketOf(d).inputs = d.outputsFrom
         /\ PacketOf(d).rowsPerBlock = BlockSize(d)
         /\ DOMAIN PacketOf(d).columns = 1..Len(d.columns)
         /\ DOMAIN PacketOf(d).data = 1..Len(d.columns)
         /\ \A c \in 1..Len(d.columns) : PacketOf(d).columns[c].dtype = d.columns[c].dtype
         /\ D!Readable(PacketOf(d)) <=> \A c \in 1..Len(d.columns) : d.columns[c].dtype # "image"
         /\ D!Trainable(PacketOf(d)) <=> \A c \in 1..Len(d.columns) : d.columns[c].dtype # "text"
<1> DEFINE p == PacketOf(d)
<1>1. DOMAIN d.columns = 1..Len(d.columns)
      BY TableIs
<1>2. /\ p.rows = RowCount(d) /\ p.inputs = d.outputsFrom /\ p.rowsPerBlock = BlockSize(d)
      /\ DOMAIN p.columns = 1..Len(d.columns) /\ DOMAIN p.data = 1..Len(d.columns)
      /\ \A c \in 1..Len(d.columns) : p.columns[c] = Meta(d.columns[c])
      BY <1>1 DEF PacketOf
<1>3. \A c \in 1..Len(d.columns) : p.columns[c].dtype = d.columns[c].dtype
  <2>1. ASSUME NEW column PROVE Meta(column).dtype = column.dtype
        BY DEF Meta
  <2> HIDE DEF p
  <2> QED BY <1>2, <2>1, Zenon
<1> HIDE DEF p
<1>4. D!Readable(p) <=> \A c \in 1..Len(d.columns) : d.columns[c].dtype # "image"
      BY <1>2, <1>3 DEF D!Readable
<1>5. D!Trainable(p) <=> \A c \in 1..Len(d.columns) : d.columns[c].dtype # "text"
      BY <1>2, <1>3 DEF D!Trainable
<1> QED BY <1>2, <1>3, <1>4, <1>5, Zenon DEF p

\* What RoundTrip says of the worker.
WorkersRight ==
  /\ dDecoded.is = "rows" <=> D!Readable(dPacket)
  /\ dDecoded.is = "rows" =>
       \A c \in DOMAIN dDataset.columns : \A r \in 1..dPacket.rows :
         (dDataset.columns[c].dtype = "text" => r <= dPacket.rowsPerBlock) => D!WorkerReads(c, r)

(* A worker reads what was packed. *)
LEMMA WorkerHalf ==
  ASSUME NEW d \in Table, dDataset = d, dPacket = PacketOf(d), dDecoded = WorkersAnswer(PacketOf(d))
  PROVE  WorkersRight
<1> DEFINE p == PacketOf(d)
           n == RowCount(d)
           l == Len(d.columns)
           k == d.outputsFrom
           columns == [c \in DOMAIN p.columns |-> D!DecodeColumnAny(p, c)]
           in(r) == [c \in 1..p.inputs |-> columns[c][r]]
           out(r) == [c \in 1..Len(columns) - p.inputs |-> columns[p.inputs + c][r]]
           row(r) == [inputs |-> in(r), outputs |-> out(r)]
           values == [r \in 1..p.rows |-> row(r)]
<1>1. l \in Nat /\ DOMAIN d.columns = 1..l /\ k \in 0..l /\ n \in Nat
      BY TableIs
<1>2. /\ p.rows = n /\ p.inputs = k /\ p.rowsPerBlock = BlockSize(d) /\ DOMAIN p.columns = 1..l
      /\ D!Readable(p) <=> \A c \in 1..l : d.columns[c].dtype # "image"
      BY PacketTells
<1>3. CASE ~D!Readable(p)
  <2>1. dDecoded = D!Answer("refused", D!Nothing)
        BY <1>3, Zenon DEF WorkersAnswer
  <2> QED BY <1>3, <2>1, AnswerIs, Zenon DEF WorkersRight
<1>4. CASE D!Readable(p)
  <2>1. ASSUME NEW c \in 1..l
        PROVE  /\ columns[c] = D!DecodeColumnAny(p, c)
               /\ Len(columns[c]) \in Nat /\ Len(columns[c]) >= n
               /\ \A r \in 1..n : (d.columns[c].dtype = "text" => r <= BlockSize(d))
                                  => D!Kept(d.columns[c], columns[c][r], d.columns[c].cells[r])
    <3>1. columns[c] = D!DecodeColumnAny(p, c)
          BY <1>2
    <3>2. d.columns[c].dtype # "image"
          BY <1>2, <1>4
    <3> HIDE DEF columns
    <3> QED BY <3>1, <3>2, WorkerColumn, Zenon
  <2>2. DOMAIN columns = 1..l /\ Len(columns) = l
        BY <1>1, <1>2
  <2>3. D!Complete(columns, p.rows)
    <3> HIDE DEF columns
    <3> QED BY <1>2, <2>1, <2>2, Zenon DEF D!Complete
  <2>4. dDecoded = D!Answer("rows", values)
    <3> DEFINE read == IF D!Readable(p) THEN columns ELSE D!Nothing
    <3>1. WorkersAnswer(p) = IF ~D!Readable(p) \/ ~D!Complete(read, p.rows) THEN D!Answer("refused", D!Nothing)
                             ELSE RowsRead(read, p)
          BY Zenon DEF WorkersAnswer
    <3>2. read = columns
          BY <1>4
    <3> HIDE DEF read
    <3>3. WorkersAnswer(p) = RowsRead(columns, p)
      <4> HIDE DEF columns
      <4> QED BY <1>4, <2>3, <3>1, <3>2, Zenon
    <3>4. RowsRead(columns, p) = D!Answer("rows", values)
      <4> HIDE DEF columns
      <4> QED BY Zenon DEF RowsRead
    <3> HIDE DEF values, columns
    <3> QED BY <3>3, <3>4, Zenon
  <2> HIDE DEF columns
  <2>5. dDecoded.is = "rows" /\ dDecoded.values = values
    <3> HIDE DEF values
    <3> QED BY <2>4, AnswerIs, Zenon
  <2>6. ASSUME NEW c \in 1..l, NEW r \in 1..n, d.columns[c].dtype = "text" => r <= BlockSize(d)
        PROVE  D!WorkerReads(c, r)
    <3>1. D!Kept(d.columns[c], columns[c][r], d.columns[c].cells[r])
          BY <2>1, <2>6, Zenon
    <3>2. dDecoded.values[r].inputs = in(r) /\ dDecoded.values[r].outputs = out(r)
      <4>1. dDecoded.values[r] = row(r)
        <5> HIDE DEF row
        <5> QED BY <1>2, <2>5
      <4> HIDE DEF in, out
      <4> QED BY <4>1
    <3>3. CASE c <= k
      <4>1. in(r)[c] = columns[c][r]
        <5>1. c \in 1..p.inputs
              BY <1>1, <1>2, <3>3
        <5> QED BY <5>1
      <4> HIDE DEF in, out
      <4> QED BY <3>1, <3>2, <3>3, <4>1, Zenon DEF D!WorkerReads
    <3>4. CASE ~(c <= k)
      <4>1. out(r)[c - k] = columns[c][r]
        <5>1. c - k \in 1..Len(columns) - p.inputs /\ p.inputs + (c - k) = c
              BY <1>1, <1>2, <2>2, <3>4
        <5>2. out(r)[c - k] = columns[p.inputs + (c - k)][r]
              BY <5>1, Zenon
        <5> QED BY <5>1, <5>2, Zenon
      <4> HIDE DEF in, out
      <4> QED BY <3>1, <3>2, <3>4, <4>1, Zenon DEF D!WorkerReads
    <3> QED BY <3>3, <3>4
  <2> QED BY <1>1, <1>2, <1>4, <2>5, <2>6, Zenon DEF WorkersRight
<1> QED BY <1>3, <1>4

-----------------------------------------------------------------------------
\* Where the features of a row start, and what stands there.
Wide(d, r, c) == IF d.columns[c].dtype = "image" THEN Len(d.columns[c].cells[r]) ELSE 1
StartsAt(d, r, f) == f = [c \in 1..d.outputsFrom + 1 |-> IF c = 1 THEN 1 ELSE f[c - 1] + Wide(d, r, c - 1)]
At(d, r) == CHOOSE f : StartsAt(d, r, f)
FeatureAt(d, r, features, f, c) ==
  IF d.columns[c].dtype = "image" THEN SubSeq(features, f[c], f[c] + Wide(d, r, c) - 1) ELSE features[f[c]]
RowRight(d, r, row, f) ==
  /\ \A c \in 1..d.outputsFrom :
       D!Kept(d.columns[c], FeatureAt(d, r, row.features, f, c), d.columns[c].cells[r])
  /\ \A c \in d.outputsFrom + 1..Len(d.columns) :
       D!Kept(d.columns[c], row.labels[c - d.outputsFrom], d.columns[c].cells[r])

(* ServerReads is what RowRight says, from where the features start. *)
LEMMA ServerReadsIs ==
  ASSUME NEW r, RowRight(dDataset, r, dRows.values[r], At(dDataset, r))
  PROVE  D!ServerReads(r)
BY Zenon DEF D!ServerReads, RowRight, FeatureAt, At, StartsAt, Wide

(* One part for every column of the inputs, as wide as its cell, starts where *)
(* the parts before it end. *)
LEMMA StartsAre ==
  ASSUME NEW d, NEW r, NEW k \in Nat, d.outputsFrom = k, NEW parts, Len(parts) = k,
         \A c \in 1..k : Len(parts[c]) = Wide(d, r, c), NEW at, Borders(parts, at)
  PROVE  \A c \in 1..k : At(d, r)[c] = 1 + at[c - 1]
<1> DEFINE g == [c \in 1..k + 1 |-> 1 + at[c - 1]]
           f == At(d, r)
<1>1. /\ at[0] = 0 /\ \A c \in 0..k : at[c] \in Nat
      /\ \A c \in 1..k : at[c] = at[c - 1] + Wide(d, r, c)
      BY Zenon DEF Borders
<1>2. StartsAt(d, r, g)
  <2>1. ASSUME NEW c \in 1..k + 1
        PROVE  1 + at[c - 1] = IF c = 1 THEN 1 ELSE g[c - 1] + Wide(d, r, c - 1)
    <3>1. CASE c = 1
          BY <1>1, <3>1
    <3>2. CASE c # 1
      <4> DEFINE j == c - 1
      <4>1. j \in 1..k /\ j \in 1..k + 1 /\ j - 1 \in 0..k
            BY SMTT(30), <3>2
      <4>2. g[j] = 1 + at[j - 1]
            BY <4>1
      <4> HIDE DEF g, j
      <4>3. at[j] = at[j - 1] + Wide(d, r, j) /\ at[j] \in Nat /\ at[j - 1] \in Nat
            BY <1>1, <4>1
      <4>4. Wide(d, r, j) \in Int
        <5>1. Wide(d, r, j) = Len(parts[j])
              BY <4>1
        <5>2. Len(parts[j]) \in Nat
              BY <4>1 DEF Borders
        <5> QED BY <5>1, <5>2
      <4>5. 1 + at[j] = g[j] + Wide(d, r, j)
            BY <4>2, <4>3, <4>4
      <4> QED BY <3>2, <4>5, Zenon DEF j
    <3> QED BY <3>1, <3>2
  <2>2. g = [c \in 1..k + 1 |-> IF c = 1 THEN 1 ELSE g[c - 1] + Wide(d, r, c - 1)]
        BY <2>1, Zenon
  <2> HIDE DEF g
  <2> QED BY <2>2, Zenon DEF StartsAt
<1>3. StartsAt(d, r, f)
  <2> HIDE DEF g
  <2> QED BY <1>2, Zenon DEF At
<1> HIDE DEF f
<1>4. /\ f[1] = 1
      /\ \A c \in 1..k : f[c + 1] = f[c] + Wide(d, r, c)
  <2>1. \A c \in 1..k + 1 : f[c] = IF c = 1 THEN 1 ELSE f[c - 1] + Wide(d, r, c - 1)
        BY <1>3 DEF StartsAt
  <2>2. 1 \in 1..k + 1
        OBVIOUS
  <2>3. ASSUME NEW c \in 1..k PROVE f[c + 1] = f[c] + Wide(d, r, c)
    <3> DEFINE j == c + 1
    <3>1. j \in 1..k + 1 /\ j # 1 /\ j - 1 = c
          OBVIOUS
    <3> HIDE DEF j
    <3>2. f[j] = f[j - 1] + Wide(d, r, j - 1)
          BY <2>1, <3>1, Zenon
    <3> QED BY <3>1, <3>2, Zenon DEF j
  <2> QED BY <2>1, <2>2, <2>3
<1> DEFINE Fine == {c \in Nat : c < k => f[c + 1] = 1 + at[c]}
<1>5. 0 \in Fine
      BY <1>1, <1>4
<1>6. ASSUME NEW c \in Nat, c \in Fine PROVE c + 1 \in Fine
  <2> SUFFICES ASSUME c + 1 < k PROVE f[c + 1 + 1] = 1 + at[c + 1]
      OBVIOUS
  <2> DEFINE j == c + 1
  <2>1. j \in 1..k /\ j - 1 = c /\ c \in 0..k
        OBVIOUS
  <2>2. f[j] = 1 + at[c]
        BY <1>6
  <2> HIDE DEF j
  <2>3. f[j + 1] = f[j] + Wide(d, r, j) /\ at[j] = at[j - 1] + Wide(d, r, j)
        BY <1>1, <1>4, <2>1
  <2>4. Wide(d, r, j) \in Nat /\ at[c] \in Nat
    <3>1. Wide(d, r, j) = Len(parts[j])
          BY <2>1
    <3>2. Len(parts[j]) \in Nat
          BY <2>1 DEF Borders
    <3> QED BY <1>1, <2>1, <3>1, <3>2
  <2>5. f[j + 1] = 1 + at[j]
        BY <2>1, <2>2, <2>3, <2>4
  <2> QED BY <2>5 DEF j
<1>7. Nat \subseteq Fine
  <2> HIDE DEF Fine
  <2> QED BY <1>5, <1>6, AllNat, Zenon
<1>8. ASSUME NEW c \in 1..k PROVE f[c] = 1 + at[c - 1]
  <2>1. c - 1 \in Nat /\ c - 1 < k /\ c - 1 + 1 = c
        OBVIOUS
  <2>2. c - 1 \in Fine
        BY <1>7, <2>1
  <2> QED BY <2>1, <2>2
<1> QED BY <1>8, Zenon DEF f

\* What the on-prem server makes of columns.
RowsTrained(columns, p) ==
  D!Answer("rows", [r \in 1..p.rows |->
    [features |-> D!FlattenSeq([c \in 1..p.inputs |-> D!Features(columns[c][r], p.columns[c].dtype)]),
     labels |-> [c \in 1..Len(columns) - p.inputs |-> columns[p.inputs + c][r]]]])

\* The columns were read right.
Columns(d, columns) ==
  \A c \in 1..Len(d.columns) :
    /\ d.columns[c].dtype # "text"
    /\ columns[c] \in Seq(Value(d.columns[c])) /\ Len(columns[c]) = RowCount(d)
    /\ \A r \in 1..RowCount(d) : D!Kept(d.columns[c], columns[c][r], d.columns[c].cells[r])

(* What is read in a cell goes into the features as wide as the cell is. *)
LEMMA PartIs ==
  ASSUME NEW d \in Table, NEW columns, Columns(d, columns), NEW r \in 1..RowCount(d), NEW c \in 1..Len(d.columns)
  PROVE  LET piece == D!Features(columns[c][r], d.columns[c].dtype)
         IN /\ piece \in Seq(Int) /\ Len(piece) = Wide(d, r, c) /\ Wide(d, r, c) \in Nat \ {0}
            /\ piece = IF d.columns[c].dtype = "image" THEN d.columns[c].cells[r] ELSE <<columns[c][r]>>
<1> DEFINE column == d.columns[c]
           v == columns[c][r]
           piece == D!Features(v, column.dtype)
           cell == column.cells[r]
<1>1. columns[c] \in Seq(Value(column)) /\ Len(columns[c]) = RowCount(d) /\ D!Kept(column, v, cell)
      BY DEF Columns
<1>2. v \in Value(column)
  <2> HIDE DEF column
  <2> QED BY <1>1
<1>3. CASE column.dtype = "image"
  <2>1. v = cell /\ piece = v /\ Wide(d, r, c) = Len(cell)
        BY <1>1, <1>3 DEF D!Kept, D!Features, Wide
  <2>2. cell \in Seq(D!Byte)
        BY <1>2, <1>3, <2>1 DEF Value
  <2>3. cell # <<>>
    <3>1. Typed(column, column.cells) /\ Len(column.cells) = RowCount(d)
          BY TableIs
    <3> HIDE DEF column
    <3>2. column.cells \in Seq(Seq(D!Byte) \ {<<>>})
          BY <1>3, <3>1 DEF Typed
    <3> DEFINE cells == column.cells
               All == Seq(D!Byte) \ {<<>>}
    <3>3. cells \in Seq(All) /\ r \in 1..Len(cells)
          BY <3>1, <3>2
    <3> HIDE DEF cells, All
    <3>4. cells[r] \in All
          BY <3>3
    <3> QED BY <3>4 DEF All, cells, column
  <2> HIDE DEF cell
  <2>4. Len(cell) \in Nat \ {0} /\ cell \in Seq(Int)
        BY <2>2, <2>3, BytesAreInts, EmptySeq
  <2> QED BY <1>3, <2>1, <2>4 DEF cell
<1>4. CASE column.dtype # "image"
  <2>1. piece = <<v>> /\ Wide(d, r, c) = 1
        BY <1>4 DEF D!Features, Wide
  <2>2. v \in Int
        BY <1>2, <1>4 DEF Value
  <2> HIDE DEF v
  <2>3. <<v>> \in Seq(Int) /\ Len(<<v>>) = 1
        BY <2>2
  <2> QED BY <1>4, <2>1, <2>3 DEF v
<1> QED BY <1>3, <1>4

\* What is read in a row where the features start.
LEMMA RowIs ==
  ASSUME NEW d \in Table, NEW columns, Columns(d, columns), NEW r \in 1..RowCount(d), NEW row,
         row.features = D!FlattenSeq([c \in 1..d.outputsFrom |-> D!Features(columns[c][r], d.columns[c].dtype)]),
         \A c \in 1..Len(d.columns) - d.outputsFrom : row.labels[c] = columns[d.outputsFrom + c][r]
  PROVE  RowRight(d, r, row, At(d, r))
<1> DEFINE k == d.outputsFrom
           l == Len(d.columns)
           piece(c) == D!Features(columns[c][r], d.columns[c].dtype)
           parts == [c \in 1..k |-> piece(c)]
           flat == D!FlattenSeq(parts)
           f == At(d, r)
<1>1. l \in Nat /\ k \in 0..l /\ k \in Nat
      BY TableIs
<1>2. row.features = flat
      OBVIOUS
<1>3. ASSUME NEW c \in 1..k
      PROVE  /\ piece(c) \in Seq(Int) /\ Len(piece(c)) = Wide(d, r, c) /\ Wide(d, r, c) \in Nat \ {0}
             /\ piece(c) = IF d.columns[c].dtype = "image" THEN d.columns[c].cells[r] ELSE <<columns[c][r]>>
  <2>1. c \in 1..l
        BY <1>1
  <2> HIDE DEF k, l
  <2> QED BY <2>1, PartIs DEF l
<1> HIDE DEF piece
<1>4. parts \in Seq(Seq(Int)) /\ Len(parts) = k /\ \A c \in 1..k : parts[c] = piece(c)
      BY SMTT(30), <1>1, <1>3
<1> HIDE DEF parts
<1>5. flat \in Seq(Int)
      BY <1>4, Flat
<1>6. PICK at : Borders(parts, at) /\ Laid(flat, parts, at)
      BY <1>4, Flat
<1> HIDE DEF flat
<1>7. \A c \in 1..k : f[c] = 1 + at[c - 1]
  <2>1. /\ k \in Nat /\ d.outputsFrom = k /\ Len(parts) = k /\ Borders(parts, at)
        /\ \A c \in 1..k : Len(parts[c]) = Wide(d, r, c)
        BY <1>1, <1>3, <1>4, <1>6
  <2> HIDE DEF k
  <2>2. \A c \in 1..k : At(d, r)[c] = 1 + at[c - 1]
        BY ONLY <2>1, StartsAre
  <2> QED BY <2>2
<1> HIDE DEF f
<1>8. ASSUME NEW c \in 1..k
      PROVE  D!Kept(d.columns[c], FeatureAt(d, r, flat, f, c), d.columns[c].cells[r])
  <2> DEFINE w == Wide(d, r, c)
             a == at[c - 1]
             p == f[c]
             q == f[c] + Wide(d, r, c) - 1
  <2>1. w \in Nat \ {0} /\ piece(c) \in Seq(Int) /\ Len(piece(c)) = w /\ parts[c] = piece(c)
        BY <1>3, <1>4
  <2>2. a \in Nat
    <3>1. at \in [0..k -> Nat] /\ c - 1 \in 0..k
          BY <1>1, <1>4, <1>6 DEF Borders
    <3> QED BY <3>1
  <2>3. \A i \in 1..w : a + i \in 1..Len(flat) /\ flat[a + i] = piece(c)[i]
        BY SMTT(30), <1>4, <1>6, <2>1 DEF Laid
  <2>4. p = 1 + a /\ q = p + w - 1
        BY <1>7
  <2> HIDE DEF w, a, p, q
  <2>5. D!Kept(d.columns[c], columns[c][r], d.columns[c].cells[r])
    <3>1. c \in 1..l
          BY <1>1
    <3> QED BY <3>1, Zenon DEF Columns, l
  <2>6. CASE d.columns[c].dtype = "image"
    <3> DEFINE t == SubSeq(flat, p, q)
               cell == d.columns[c].cells[r]
    <3>1. a + 1 \in 1..Len(flat) /\ a + w \in 1..Len(flat) /\ Len(flat) \in Nat
          BY <1>5, <2>1, <2>3
    <3>2. p \in 1..Len(flat) + 1 /\ q \in p - 1..Len(flat) /\ q - p + 1 = w /\ p - 1 = a
          BY <2>1, <2>2, <2>4, <3>1
    <3>3. /\ t \in Seq(Int) /\ Len(t) = q - p + 1
          /\ \A i \in 1..q - p + 1 : t[i] = flat[p - 1 + i]
          BY <1>5, <3>2, PieceIs
    <3>4. piece(c) = cell
          BY <1>3, <2>6
    <3> HIDE DEF cell
    <3>5. t = cell
      <4>1. t \in Seq(Int) /\ Len(t) = w /\ \A i \in 1..w : t[i] = flat[a + i]
            BY <3>2, <3>3, Zenon
      <4>2. cell \in Seq(Int) /\ Len(cell) = w /\ \A i \in 1..w : t[i] = cell[i]
            BY <2>1, <2>3, <3>4, <4>1, Zenon
      <4> HIDE DEF t
      <4> QED BY <4>1, <4>2, SeqEqual, Zenon
    <3> HIDE DEF t
    <3>6. FeatureAt(d, r, flat, f, c) = t
          BY <2>6, Zenon DEF FeatureAt, t, p, q
    <3>7. D!Kept(d.columns[c], cell, cell)
          BY <2>6 DEF D!Kept
    <3> QED BY <3>5, <3>6, <3>7, Zenon DEF cell
  <2>7. CASE d.columns[c].dtype # "image"
    <3> DEFINE v == columns[c][r]
    <3>1. piece(c) = <<v>>
          BY <1>3, <2>7
    <3> HIDE DEF v
    <3>2. piece(c)[1] = v /\ w = 1
          BY <2>1, <3>1
    <3>3. flat[a + 1] = v /\ p = a + 1
          BY <2>2, <2>3, <2>4, <3>2
    <3>4. FeatureAt(d, r, flat, f, c) = flat[p]
          BY <2>7, Zenon DEF FeatureAt, p
    <3> QED BY <2>5, <3>3, <3>4, Zenon DEF v
  <2> QED BY <2>6, <2>7
<1>9. ASSUME NEW c \in k + 1..l
      PROVE  D!Kept(d.columns[c], row.labels[c - k], d.columns[c].cells[r])
  <2>1. c - k \in 1..l - k /\ k + (c - k) = c /\ c \in 1..l
        BY <1>1
  <2>2. row.labels[c - k] = columns[k + (c - k)][r]
        BY <2>1
  <2> QED BY <2>1, <2>2, Zenon DEF Columns, l
<1> QED BY <1>2, <1>8, <1>9, Zenon DEF RowRight, f, k, l

\* What RoundTrip says of the on-prem server.
ServersRight ==
  /\ dRows.is = "rows" <=> D!Trainable(dPacket)
  /\ dRows.is = "rows" => \A r \in 1..dPacket.rows : D!ServerReads(r)

(* The on-prem server reads what was packed. *)
LEMMA ServerHalf ==
  ASSUME NEW d \in Table, dDataset = d, dPacket = PacketOf(d),
         dRows = D!DecompressDatasetPacket(PacketOf(d))
  PROVE  ServersRight
<1> DEFINE p == PacketOf(d)
           n == RowCount(d)
           l == Len(d.columns)
           k == d.outputsFrom
           columns == [c \in DOMAIN p.columns |-> D!DecodePacketColumn(p, c)]
<1>1. l \in Nat /\ DOMAIN d.columns = 1..l /\ k \in 0..l /\ n \in Nat
      BY TableIs
<1>2. /\ p.rows = n /\ p.inputs = k /\ DOMAIN p.columns = 1..l
      /\ \A c \in 1..l : p.columns[c].dtype = d.columns[c].dtype
      /\ D!Trainable(p) <=> \A c \in 1..l : d.columns[c].dtype # "text"
      BY PacketTells
<1>3. dRows = IF ~D!Trainable(p) \/ ~D!Complete(columns, p.rows) THEN D!Answer("refused", D!Nothing)
              ELSE RowsTrained(columns, p)
      BY Zenon DEF D!DecompressDatasetPacket, RowsTrained
<1>4. CASE ~D!Trainable(p)
  <2>1. dRows = D!Answer("refused", D!Nothing)
        BY <1>3, <1>4, Zenon
  <2> QED BY <1>4, <2>1, AnswerIs, Zenon DEF ServersRight
<1>5. CASE D!Trainable(p)
  <2>1. DOMAIN columns = 1..l /\ Len(columns) = l /\ \A c \in 1..l : columns[c] = D!DecodePacketColumn(p, c)
        BY <1>1, <1>2
  <2> HIDE DEF columns
  <2>2. ASSUME NEW c \in 1..l
        PROVE  /\ d.columns[c].dtype # "text"
               /\ columns[c] \in Seq(Value(d.columns[c])) /\ Len(columns[c]) = n
               /\ \A r \in 1..n : D!Kept(d.columns[c], columns[c][r], d.columns[c].cells[r])
    <3>1. d.columns[c].dtype # "text" /\ columns[c] = D!DecodePacketColumn(p, c)
          BY <1>2, <1>5, <2>1
    <3> QED BY <3>1, ServerColumn
  <2>3. Columns(d, columns)
        BY <2>2, Zenon DEF Columns
  <2>4. D!Complete(columns, p.rows)
    <3>1. \A c \in 1..l : Len(columns[c]) >= n
      <4> HIDE DEF n
      <4> QED BY <1>1, <2>2
    <3> QED BY <1>2, <2>1, <3>1, Zenon DEF D!Complete
  <2> DEFINE features(r) == D!FlattenSeq([c \in 1..p.inputs |-> D!Features(columns[c][r], p.columns[c].dtype)])
             labels(r) == [c \in 1..Len(columns) - p.inputs |-> columns[p.inputs + c][r]]
             row(r) == [features |-> features(r), labels |-> labels(r)]
             values == [r \in 1..p.rows |-> row(r)]
  <2>5. dRows = D!Answer("rows", values)
        BY <1>3, <1>5, <2>4, Zenon DEF RowsTrained
  <2>6. dRows.is = "rows" /\ dRows.values = values
    <3> HIDE DEF values
    <3> QED BY <2>5, AnswerIs, Zenon
  <2>7. ASSUME NEW r \in 1..n PROVE D!ServerReads(r)
    <3> DEFINE piece(c) == D!Features(columns[c][r], d.columns[c].dtype)
    <3>1. dRows.values[r] = row(r)
      <4> HIDE DEF row
      <4> QED BY <1>2, <2>6
    <3>2. row(r).features = features(r) /\ row(r).labels = labels(r)
      <4> HIDE DEF features, labels
      <4> QED OBVIOUS
    <3>3. features(r) = D!FlattenSeq([c \in 1..k |-> piece(c)])
      <4> DEFINE these == [c \in 1..p.inputs |-> D!Features(columns[c][r], p.columns[c].dtype)]
                 those == [c \in 1..k |-> piece(c)]
      <4>1. ASSUME NEW c \in 1..k PROVE D!Features(columns[c][r], p.columns[c].dtype) = piece(c)
        <5>1. c \in 1..l
              BY <1>1
        <5> QED BY <1>2, <5>1, Zenon
      <4>2. these = those
        <5> HIDE DEF piece
        <5> QED BY <1>2, <4>1, Zenon
      <4> HIDE DEF those, these
      <4>3. D!FlattenSeq(these) = D!FlattenSeq(those)
            BY <4>2, Zenon
      <4> QED BY <4>3, Zenon DEF these, those
    <3>4. \A c \in 1..l - k : labels(r)[c] = columns[k + c][r]
      <4>1. Len(columns) - p.inputs = l - k /\ p.inputs = k
            BY <1>2, <2>1
      <4> QED BY <4>1, Zenon
    <3> DEFINE it == dRows.values[r]
    <3>5. it.features = D!FlattenSeq([c \in 1..k |-> piece(c)]) /\ \A c \in 1..l - k : it.labels[c] = columns[k + c][r]
      <4> HIDE DEF features, labels, row, piece, k, l
      <4> QED BY <3>1, <3>2, <3>3, <3>4, Zenon
    <3> HIDE DEF it
    <3>6. RowRight(d, r, it, At(d, r))
          BY <2>3, <3>5, RowIs, Zenon
    <3> QED BY <3>6, ServerReadsIs, Zenon DEF it
  <2> QED BY <1>2, <1>5, <2>6, <2>7, Zenon DEF ServersRight
<1> QED BY <1>4, <1>5

-----------------------------------------------------------------------------
(* The whole of the codec. *)
(* A block is made of bytes. *)
LEMMA EncodedBytes ==
  ASSUME NEW column, NEW cs, Typed(column, cs), Len(cs) # 0
  PROVE  D!EncodeBlock(column, cs) \in Seq(D!Byte)
<1>1. CASE column.dtype = "num" /\ column.min \in Int /\ column.max \in Int /\ cs \in Seq(Int)
  <2> DEFINE meta == Meta(column)
  <2>1. meta.min = column.min /\ meta.width = D!IntegerWidth(column.min, column.max)
        BY DEF Meta
  <2> HIDE DEF meta
  <2> QED BY <1>1, <2>1, NumBlock
<1>2. CASE column.dtype = "float" /\ cs \in Seq(Int)
      BY <1>2, FloatBlock
<1>3. CASE column.dtype = "text" /\ cs \in Seq(Text)
      BY <1>3, TextBlock
<1>4. CASE /\ column.dtype = "image" /\ cs \in Seq(Seq(D!Byte) \ {<<>>})
           /\ \A i, j \in DOMAIN cs : Len(cs[i]) = Len(cs[j])
  <2>1. DOMAIN cs = 1..Len(cs)
    <3> DEFINE All == Seq(D!Byte) \ {<<>>}
    <3>1. cs \in Seq(All)
          BY <1>4
    <3> HIDE DEF All
    <3> QED BY <3>1
  <2> QED BY <1>4, <2>1, ImageBlock, Zenon
<1> QED BY <1>1, <1>2, <1>3, <1>4, Zenon DEF Typed

(* A packet is made of bytes. *)
LEMMA PacketBytes ==
  ASSUME NEW d \in Table
  PROVE  \A c \in DOMAIN PacketOf(d).data : \A b \in DOMAIN PacketOf(d).data[c] :
           PacketOf(d).data[c][b] \in Seq(D!Byte)
<1> DEFINE n == RowCount(d)
           size == BlockSize(d)
           p == PacketOf(d)
<1>1. DOMAIN p.data = 1..Len(d.columns)
      BY PacketTells
<1>2. ASSUME NEW c \in 1..Len(d.columns), NEW b \in DOMAIN p.data[c]
      PROVE  p.data[c][b] \in Seq(D!Byte)
  <2> DEFINE column == d.columns[c]
             cells == column.cells
             cs == Cut(cells, b, size, n)
  <2>1. b \in 1..Blocks(size, n) /\ p.data[c][b] = D!EncodeBlock(column, cs)
        BY PacketIs, Zenon
  <2>2. n \in Nat /\ size \in Nat \ {0} /\ Typed(column, cells) /\ Len(cells) = n
        BY TableIs
  <2> HIDE DEF n, size, p, column
  <2>3. Typed(column, cs)
        BY <2>1, <2>2, CutFits
  <2>4. PICK All : cells \in Seq(All)
    <3>1. \E All : cells \in Seq(All)
          BY <2>2, Zenon DEF Typed
    <3> QED BY <3>1
  <2>5. IsCut(cs, cells, b, size, n)
        BY <2>1, <2>2, <2>4, CutFound
  <2> HIDE DEF cs
  <2>6. Len(cs) # 0
        BY <2>5, Zenon DEF IsCut
  <2> QED BY <2>1, <2>3, <2>6, EncodedBytes, Zenon
<1> QED BY <1>1, <1>2, Zenon

\* The packet is of the dataset, and the answers are of the packet.
CodecInv ==
  /\ dPacket # D!Nothing => dDataset \in Table /\ dPacket = PacketOf(dDataset)
  /\ dDataset = D!Nothing => dPacket = D!Nothing
  /\ dRows # D!Unread => dPacket # D!Nothing /\ dRows = D!DecompressDatasetPacket(dPacket)
  /\ dDecoded # D!Unread => dPacket # D!Nothing /\ dDecoded = WorkersAnswer(dPacket)

(* Nothing is sent at first. *)
LEMMA CodecStart == D!Init => CodecInv
BY Zenon DEF D!Init, CodecInv

(* Each program keeps what the others made. *)
LEMMA CodecStep == CodecInv /\ [D!Next]_(D!vars) => CodecInv'
<1> SUFFICES ASSUME CodecInv, [D!Next]_(D!vars) PROVE CodecInv'
    OBVIOUS
<1>1. CASE D!Compress
  <2>1. dDataset = D!Nothing /\ dRows' = dRows /\ dDecoded' = dDecoded
        BY <1>1, Zenon DEF D!Compress
  <2>2. PICK d \in Table : dDataset' = d /\ dPacket' = PacketOf(d)
        BY <1>1, Zenon DEF D!Compress, PacketOf, Meta, RowCount, BlockSize
  <2>3. d # D!Nothing
        BY <2>2, BaseIs, Zenon DEF D!Nothing
  <2>4. dRows = D!Unread /\ dDecoded = D!Unread
        BY <2>1, Zenon DEF CodecInv
  <2> QED BY <2>1, <2>2, <2>3, <2>4, Zenon DEF CodecInv
<1>2. CASE D!Decompress
  <2>1. /\ dPacket # D!Nothing /\ dRows' = D!DecompressDatasetPacket(dPacket)
        /\ dDataset' = dDataset /\ dPacket' = dPacket /\ dDecoded' = dDecoded
        BY <1>2, Zenon DEF D!Decompress
  <2> QED BY <2>1, Zenon DEF CodecInv
<1>3. CASE D!Decode
  <2>1. /\ dPacket # D!Nothing /\ dDecoded' = WorkersAnswer(dPacket)
        /\ dDataset' = dDataset /\ dPacket' = dPacket /\ dRows' = dRows
        BY <1>3, Zenon DEF D!Decode, WorkersAnswer, RowsRead
  <2> QED BY <2>1, Zenon DEF CodecInv
<1>4. CASE UNCHANGED D!vars
  <2>1. dDataset' = dDataset /\ dPacket' = dPacket /\ dRows' = dRows /\ dDecoded' = dDecoded
        BY <1>4 DEF D!vars
  <2> QED BY <2>1, Zenon DEF CodecInv
<1> QED BY <1>1, <1>2, <1>3, <1>4, Zenon DEF D!Next

(* What is of the packet is read right. *)
LEMMA CodecFine == CodecInv => RoundTrip /\ D!CodecTypeOK
<1> SUFFICES ASSUME CodecInv PROVE RoundTrip /\ D!CodecTypeOK
    OBVIOUS
<1>1. dDecoded # D!Unread => WorkersRight
  <2> SUFFICES ASSUME dDecoded # D!Unread PROVE WorkersRight
      OBVIOUS
  <2> DEFINE d == dDataset
  <2>1. d \in Table /\ dDataset = d /\ dPacket = PacketOf(d) /\ dDecoded = WorkersAnswer(PacketOf(d))
        BY Zenon DEF CodecInv
  <2> HIDE DEF d
  <2> QED BY <2>1, WorkerHalf, Zenon
<1>2. dRows # D!Unread => ServersRight
  <2> SUFFICES ASSUME dRows # D!Unread PROVE ServersRight
      OBVIOUS
  <2> DEFINE d == dDataset
  <2>1. d \in Table /\ dDataset = d /\ dPacket = PacketOf(d) /\ dRows = D!DecompressDatasetPacket(PacketOf(d))
        BY Zenon DEF CodecInv
  <2> HIDE DEF d
  <2> QED BY <2>1, ServerHalf, Zenon
<1>3. RoundTrip
      BY <1>1, <1>2, Zenon DEF RoundTrip, D!RoundTrip, WorkersRight, ServersRight
<1>4. D!CodecTypeOK
  <2> SUFFICES ASSUME dPacket # D!Nothing
               PROVE  \A c \in DOMAIN dPacket.data : \A b \in DOMAIN dPacket.data[c] :
                        dPacket.data[c][b] \in Seq(D!Byte)
      BY Zenon DEF D!CodecTypeOK
  <2>1. dDataset \in Table /\ dPacket = PacketOf(dDataset)
        BY Zenon DEF CodecInv
  <2> QED BY <2>1, PacketBytes, Zenon
<1> QED BY <1>3, <1>4

(* Both decoders give back what was packed. *)
THEOREM Packed == D!Spec => [](RoundTrip /\ D!CodecTypeOK)
BY CodecStart, CodecStep, CodecFine, PTL DEF D!Spec

(* In a step of another part the codec stays as it is. *)
LEMMA OthersPack == RuntimesNext => [D!Next]_(D!vars)
<1> SUFFICES ASSUME RuntimesNext PROVE D!Next \/ UNCHANGED D!vars
    OBVIOUS
<1>1. dVars = D!vars
      BY Zenon DEF dVars, D!vars
<1>2. D!Next \/ UNCHANGED dVars
      BY Zenon DEF RuntimesNext, own
<1> QED BY <1>1, <1>2, Zenon DEF dVars, D!vars

(* The codec: what was packed is what is read, in every run of the whole. *)
THEOREM PackedInAll == RuntimesSpec => []RoundTrip /\ []D!CodecTypeOK
<1>1. RuntimesInit => D!Init
      BY Zenon DEF RuntimesInit
<1>2. [RuntimesNext]_<<part, vars, own>> => [D!Next]_(D!vars)
  <2>1. CASE RuntimesNext
        BY <2>1, OthersPack
  <2>2. CASE UNCHANGED <<part, vars, own>>
    <3>1. UNCHANGED dVars
          BY <2>2, Zenon DEF own
    <3> QED BY <3>1, Zenon DEF dVars, D!vars
  <2> QED BY <2>1, <2>2
<1>3. RuntimesSpec => D!Spec
      BY <1>1, <1>2, PTL DEF RuntimesSpec, D!Spec
<1> QED BY <1>3, Packed, PTL
=============================================================================
