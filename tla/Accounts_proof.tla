---------------------------- MODULE Accounts_proof ----------------------------
(* Who may do what and what is whose, for any users, classes, projects and    *)
(* versions: what sign-in, classrooms, projects and the installer promise in  *)
(* MCDocuments, proved of the specification of each; then the documents of    *)
(* all components have their types.                                           *)
EXTENDS Documents_proof

-----------------------------------------------------------------------------
(* Sign-in                                                                    *)

AttemptKind == [status : S!Status, expires : 0..MaxClock + TTL, event : BOOLEAN,
                account : User \cup {None}]

(* What may become of an attempt in a step: it stays lost, and whatever ends it *)
(* sets its event.                                                             *)
Moves(r, r2) ==
  /\ r2 \in AttemptKind
  /\ r.status \in {"canceled", "expired"} => r2.status # "complete"
  /\ r2.status # "pending" => r2.event \/ r2 = r

LEMMA EndedIs ==
  ASSUME NEW r \in AttemptKind, NEW st \in S!Status
  PROVE  /\ S!Ended(r, st) \in AttemptKind /\ S!Ended(r, st).status = st
         /\ S!Ended(r, st).event /\ S!Ended(r, st).account = r.account
<1> DEFINE t == TRUE
           r2 == [r EXCEPT !.status = st, !.event = t]
<1>1. t \in BOOLEAN /\ r2 = S!Ended(r, st)
      BY Zenon DEF S!Ended
<1> HIDE DEF t
<1>2. r2 \in AttemptKind /\ r2.status = st /\ r2.event = t /\ r2.account = r.account
      BY <1>1 DEF AttemptKind
<1> QED BY <1>1, <1>2, Zenon DEF t

LEMMA GotIs ==
  ASSUME NEW r \in AttemptKind
  PROVE  /\ Moves(r, S!Got(r)) /\ S!Got(r).status \in S!Status
         /\ S!Got(r) = r \/ (r.status = "pending" /\ S!Got(r).status = "expired" /\ S!Got(r).event)
<1>1. r.status \in S!Status
      BY DEF AttemptKind
<1>2. CASE S!Got(r) = r
      BY <1>1, <1>2 DEF Moves
<1>3. CASE S!Got(r) # r
  <2>1. r.status = "pending" /\ S!Got(r) = S!Ended(r, "expired")
        BY <1>3, Zenon DEF S!Got
  <2>2. "expired" \in S!Status
        BY DEF S!Status
  <2>3. S!Got(r) \in AttemptKind /\ S!Got(r).status = "expired" /\ S!Got(r).event
        BY <2>1, <2>2, EndedIs
  <2> QED BY <2>1, <2>2, <2>3 DEF Moves
<1> QED BY <1>2, <1>3

LEMMA WithdrawnIs ==
  ASSUME NEW r \in AttemptKind, NEW st \in {"canceled", "signed_out"}
  PROVE  Moves(r, S!Withdrawn(r, st))
<1>1. CASE S!Got(r).status = "pending"
  <2>1. S!Withdrawn(r, st) = S!Ended(r, st)
        BY <1>1, Zenon DEF S!Withdrawn
  <2>2. st \in S!Status
        BY DEF S!Status
  <2> QED BY <2>1, <2>2, EndedIs DEF Moves
<1>2. CASE S!Got(r).status # "pending"
  <2>1. S!Withdrawn(r, st) = S!Got(r)
        BY <1>2, Zenon DEF S!Withdrawn
  <2> QED BY <2>1, GotIs
<1> QED BY <1>1, <1>2

LEMMA CompletedIs ==
  ASSUME NEW r \in AttemptKind, NEW a \in User
  PROVE  Moves(r, S!Completed(r, a))
<1>1. Moves(r, r)
      BY DEF Moves, AttemptKind
<1>2. Moves(r, S!Ended(r, "expired"))
  <2>1. "expired" \in S!Status
        BY DEF S!Status
  <2> QED BY <2>1, EndedIs DEF Moves
<1>3. CASE r.status \notin {"canceled", "expired"}
  <2> DEFINE e == S!Ended(r, "complete")
             r2 == [e EXCEPT !.account = a]
  <2>1. "complete" \in S!Status
        BY DEF S!Status
  <2>2. e \in AttemptKind /\ e.status = "complete" /\ e.event
        BY <2>1, EndedIs
  <2> HIDE DEF e
  <2>3. r2 \in AttemptKind /\ r2.status = "complete" /\ r2.event = e.event
        BY <2>2 DEF AttemptKind
  <2>4. Moves(r, r2)
        BY <1>3, <2>2, <2>3 DEF Moves
  <2>5. S!Completed(r, a) \in {r, S!Ended(r, "expired"), r2}
        BY Zenon DEF S!Completed, e
  <2> QED BY <1>1, <1>2, <2>4, <2>5
<1>4. CASE r.status \in {"canceled", "expired"}
  <2>1. S!Got(r) = r
        BY <1>4, Zenon DEF S!Got
  <2>2. S!Refused(r)
        BY <1>4, <2>1 DEF S!Refused
  <2>3. S!Completed(r, a) \in {r, S!Ended(r, "expired")}
        BY <1>4, <2>2 DEF S!Completed
  <2> QED BY <1>1, <1>2, <2>3
<1> QED BY <1>3, <1>4

Attempts == sAttempt \in [Attempt -> AttemptKind] /\ sPoll \in [Attempt -> S!Status \cup {"idle", "waiting"}]
            /\ sClock \in 0..MaxClock /\ S!WaiterWoken

(* The attempts move, and whoever waits waited or waits for one that goes on.  *)
LEMMA AttemptsMove ==
  ASSUME Attempts, DOMAIN sAttempt' = Attempt, sAttempt' = [x \in Attempt |-> sAttempt'[x]],
         \A x \in Attempt : Moves(sAttempt[x], sAttempt'[x]),
         sPoll' \in [Attempt -> S!Status \cup {"idle", "waiting"}],
         \A x \in Attempt : sPoll'[x] = "waiting" =>
           sPoll[x] = "waiting" \/ sAttempt'[x].status = "pending",
         sClock' \in 0..MaxClock
  PROVE  Attempts' /\ S!CancelFinal
<1>1. sAttempt' \in [Attempt -> AttemptKind]
      BY DEF Moves
<1>2. S!CancelFinal
      BY DEF S!CancelFinal, Moves
<1>3. ASSUME NEW x \in Attempt, sPoll'[x] = "waiting", sAttempt'[x].status # "pending"
      PROVE  sAttempt'[x].event
  <2>1. sPoll[x] = "waiting"
        BY <1>3
  <2>2. sAttempt'[x].event \/ sAttempt'[x] = sAttempt[x]
        BY <1>3 DEF Moves
  <2>3. CASE sAttempt'[x] = sAttempt[x]
        BY <1>3, <2>1, <2>3 DEF Attempts, S!WaiterWoken
  <2> QED BY <2>2, <2>3
<1>4. S!WaiterWoken'
      BY <1>3 DEF S!WaiterWoken
<1> QED BY <1>1, <1>2, <1>4 DEF Attempts

(* One attempt moves.                                                          *)
LEMMA OneMoves ==
  ASSUME Attempts, NEW x \in Attempt, NEW r, Moves(sAttempt[x], r),
         sAttempt' = [sAttempt EXCEPT ![x] = r],
         sPoll' \in [Attempt -> S!Status \cup {"idle", "waiting"}],
         \A y \in Attempt : sPoll'[y] = "waiting" =>
           sPoll[y] = "waiting" \/ sAttempt'[y].status = "pending",
         sClock' = sClock
  PROVE  Attempts' /\ S!CancelFinal
<1>1. sAttempt \in [Attempt -> AttemptKind]
      BY DEF Attempts
<1>2. \A y \in Attempt : Moves(sAttempt[y], sAttempt'[y])
      BY <1>1 DEF Moves
<1>3. DOMAIN sAttempt' = Attempt /\ sAttempt' = [y \in Attempt |-> sAttempt'[y]]
      BY <1>1
<1>4. sClock' \in 0..MaxClock
      BY DEF Attempts
<1> QED BY <1>2, <1>3, <1>4, AttemptsMove

(* What the handler that claims a name has still to write.                     *)
OwnerIs(n, a) == [doc |-> "owner", of |-> n, is |-> a]
ProfileIs(a, n) == [doc |-> "profile", of |-> a, is |-> n]

NameTypes ==
  /\ sProfile \in [User -> SUBSET (Name \cup {None})]
  /\ \A a \in User : sProfile[a] = {} \/ \E x \in Name \cup {None} : sProfile[a] = {x}
  /\ sOwner \in [Name -> User \cup {None}]
  /\ sCrashes \in Nat

(* The names of an account are reserved for it, or they are free.              *)
Reserved(b) == \A m \in Name : m \in sProfile[b] => sOwner[m] = b
Unclaimed(b) == \A m \in Name : m \in sProfile[b] => sOwner[m] \in {None, b}

(* The old name is given up, then the profile is saved, then the new name is   *)
(* reserved: at each step whatever is reserved is borne.                       *)
Claims(a, n) ==
  /\ sOwner[n] \in {None, a}
  /\ sCrashes = 0 => Unclaimed(a) /\ \A b \in User \ {a} : Reserved(b)
  /\ \/ \E old \in Name \ {n} :
          sTodo = <<OwnerIs(old, None), ProfileIs(a, n), OwnerIs(n, a)>> /\ sProfile[a] = {old}
     \/ sTodo = <<ProfileIs(a, n), OwnerIs(n, a)>> /\ \A m \in Name : sOwner[m] = a => m = n
     \/ sTodo = <<OwnerIs(n, a)>> /\ sProfile[a] = {n}

NameInv ==
  /\ NameTypes /\ S!ReservedIsBorne
  /\ \/ sTodo = <<>> /\ (sCrashes = 0 => \A b \in User : Reserved(b))
     \/ \E a \in User, n \in Name : Claims(a, n)

LEMMA NamesOne == ASSUME NameInv PROVE S!NamesUnique
<1> USE NoneAssumption
<1> SUFFICES ASSUME sCrashes = 0, NEW a \in User, NEW b \in User, a # b,
                    NEW x \in sProfile[a], x \in sProfile[b], x # None
             PROVE  FALSE
    BY DEF S!NamesUnique
<1>1. x \in Name
      BY DEF NameInv, NameTypes
<1>2. CASE \A c \in User : Reserved(c)
      BY <1>1, <1>2 DEF Reserved
<1>3. ASSUME NEW c \in User, Unclaimed(c), \A d \in User \ {c} : Reserved(d) PROVE FALSE
  <2>1. \A d \in User : x \in sProfile[d] => sOwner[x] = d \/ (d = c /\ sOwner[x] = None)
        BY <1>1, <1>3 DEF Unclaimed, Reserved
  <2> QED BY <2>1
<1> QED BY <1>2, <1>3 DEF NameInv, Claims

(* A profile that is created bears no name.                                    *)
LEMMA CreateStep ==
  ASSUME NameInv, sTodo = <<>>, NEW a \in User, sProfile' = [sProfile EXCEPT ![a] = S!Created(a)],
         UNCHANGED <<sOwner, sTodo, sCrashes>>
  PROVE  NameInv'
<1> USE NoneAssumption
<1>1. S!Created(a) = IF sProfile[a] = {} THEN {None} ELSE sProfile[a]
      BY DEF S!Created
<1>2. NameTypes /\ S!ReservedIsBorne
      BY DEF NameInv
<1>3. /\ sProfile'[a] = S!Created(a) /\ \A b \in User \ {a} : sProfile'[b] = sProfile[b]
      BY <1>2 DEF NameTypes
<1>4. NameTypes'
  <2>1. S!Created(a) \in SUBSET (Name \cup {None})
        BY <1>1, <1>2 DEF NameTypes
  <2>2. S!Created(a) = {} \/ \E x \in Name \cup {None} : S!Created(a) = {x}
        BY <1>1, <1>2 DEF NameTypes
  <2>3. sProfile' \in [User -> SUBSET (Name \cup {None})]
        BY <1>2, <2>1 DEF NameTypes
  <2> QED BY <1>2, <1>3, <2>2, <2>3 DEF NameTypes
<1>5. \A b \in User : \A m \in Name : m \in sProfile'[b] <=> m \in sProfile[b]
      BY <1>1, <1>3
<1>6. S!ReservedIsBorne'
      BY <1>2, <1>5 DEF S!ReservedIsBorne, NameTypes
<1>7. sCrashes = 0 => \A b \in User : Reserved(b)
  <2>1. CASE \E c \in User, n \in Name : Claims(c, n)
    <3>1. sTodo # <<>>
          BY <2>1 DEF Claims
    <3> QED BY <3>1
  <2> QED BY <2>1 DEF NameInv
<1>8. sCrashes' = 0 => \A b \in User : Reserved(b)'
      BY <1>5, <1>7 DEF Reserved
<1> QED BY <1>4, <1>6, <1>8 DEF NameInv

LEMMA NothingBefore == ASSUME NEW x, NEW y PROVE <<>> \o <<x, y>> = <<x, y>>
<1>1. <<x, y>> \in Seq({x, y})
      OBVIOUS
<1> QED BY <1>1, ConcatEmptySeq

LEMMA OneBefore == ASSUME NEW w, NEW x, NEW y PROVE <<w>> \o <<x, y>> = <<w, x, y>>
<1> DEFINE T == {w, x, y}
           p == <<w>>
           q == <<x, y>>
           r == <<w, x, y>>
           s == p \o q
           n == Len(p)
           m == Len(q)
<1>1. p \in Seq(T) /\ q \in Seq(T) /\ r \in Seq(T)
      OBVIOUS
<1>2. p[1] = w /\ q[1] = x /\ q[2] = y /\ r[1] = w /\ r[2] = x /\ r[3] = y
      OBVIOUS
<1>3. n = 1 /\ m = 2 /\ Len(r) = 3
      OBVIOUS
<1> HIDE DEF T, p, q, r
<1>4. s \in Seq(T) /\ Len(s) = n + m /\ \A i \in 1..n + m : s[i] = IF i <= n THEN p[i] ELSE q[i - n]
      BY <1>1, ConcatProperties
<1> HIDE DEF s, n, m
<1>5. Len(s) = 3
      BY <1>3, <1>4
<1>6. s[1] = p[1]
      BY <1>3, <1>4
<1>7. s[2] = q[1] /\ s[3] = q[2]
      BY <1>3, <1>4
<1>8. \A i \in 1..3 : s[i] = r[i]
  <2>1. \A i \in 1..3 : i = 1 \/ i = 2 \/ i = 3
        OBVIOUS
  <2> QED BY <2>1, <1>2, <1>6, <1>7
<1>9. s = r
      BY <1>1, <1>3, <1>4, <1>5, <1>8, SeqEqual
<1> QED BY <1>9 DEF s, p, q, r

LEMMA ClaimStep ==
  ASSUME NameInv, sTodo = <<>>, NEW a \in User, NEW n \in Name, S!Available(a, n),
         sTodo' = S!GivenUp(a, n) \o S!Saved(a, n), UNCHANGED <<sProfile, sOwner, sCrashes>>
  PROVE  NameInv'
<1> USE NoneAssumption
<1>1. NameTypes /\ S!ReservedIsBorne
      BY DEF NameInv
<1>2. sCrashes = 0 => \A b \in User : Reserved(b)
  <2>1. CASE \E c \in User, m \in Name : Claims(c, m)
    <3>1. sTodo # <<>>
          BY <2>1 DEF Claims
    <3> QED BY <3>1
  <2> QED BY <2>1 DEF NameInv
<1>3. S!Saved(a, n) = <<ProfileIs(a, n), OwnerIs(n, a)>>
      BY DEF S!Saved, ProfileIs, OwnerIs
<1>4. PICK x \in Name \cup {None} : S!Created(a) = {x}
      BY <1>1 DEF NameTypes, S!Created
<1>5. S!UserName(a) = x
      BY <1>4 DEF S!UserName
<1>6. \A m \in Name : sOwner[m] = a => m = x
      BY <1>1, <1>4 DEF S!ReservedIsBorne, S!Created
<1>7. sOwner[n] \in {None, a}
      BY DEF S!Available
<1>8. sCrashes = 0 => Unclaimed(a) /\ \A b \in User \ {a} : Reserved(b)
      BY <1>2 DEF Unclaimed, Reserved
<1>9. CASE x \in {None, n}
  <2>1. S!GivenUp(a, n) = <<>>
        BY <1>5, <1>9 DEF S!GivenUp
  <2>2. <<>> \o <<ProfileIs(a, n), OwnerIs(n, a)>> = <<ProfileIs(a, n), OwnerIs(n, a)>>
        BY NothingBefore
  <2>3. sTodo' = <<ProfileIs(a, n), OwnerIs(n, a)>>
        BY <1>3, <2>1, <2>2
  <2>4. \A m \in Name : sOwner[m] = a => m = n
        BY <1>6, <1>9
  <2>5. Claims(a, n)'
        BY <1>7, <1>8, <2>3, <2>4 DEF Claims, Unclaimed, Reserved
  <2>6. NameTypes' /\ S!ReservedIsBorne'
        BY <1>1 DEF NameTypes, S!ReservedIsBorne
  <2> QED BY <2>5, <2>6 DEF NameInv
<1>10. CASE x \notin {None, n}
  <2>1. S!GivenUp(a, n) = <<OwnerIs(x, None)>> /\ sProfile[a] = {x} /\ x \in Name
        BY <1>4, <1>5, <1>10 DEF S!GivenUp, OwnerIs, S!Created
  <2>2. <<OwnerIs(x, None)>> \o <<ProfileIs(a, n), OwnerIs(n, a)>>
          = <<OwnerIs(x, None), ProfileIs(a, n), OwnerIs(n, a)>>
        BY OneBefore
  <2>3. sTodo' = <<OwnerIs(x, None), ProfileIs(a, n), OwnerIs(n, a)>>
        BY <1>3, <2>1, <2>2
  <2>5. Claims(a, n)'
        BY <1>7, <1>8, <1>10, <2>1, <2>3 DEF Claims, Unclaimed, Reserved
  <2>6. NameTypes' /\ S!ReservedIsBorne'
        BY <1>1 DEF NameTypes, S!ReservedIsBorne
  <2> QED BY <2>5, <2>6 DEF NameInv
<1> QED BY <1>9, <1>10

(* The first document the handler has still to write is written.               *)
DocWritten(w) ==
  IF w.doc = "profile"
  THEN sProfile' = [sProfile EXCEPT ![w.of] = {w.is}] /\ sOwner' = sOwner
  ELSE sOwner' = [sOwner EXCEPT ![w.of] = w.is] /\ sProfile' = sProfile

LEMMA OwnerWritten ==
  ASSUME NameTypes, NEW n \in Name, NEW a \in User \cup {None}, DocWritten(OwnerIs(n, a)), sCrashes' = sCrashes
  PROVE  /\ NameTypes' /\ sProfile' = sProfile /\ sOwner'[n] = a
         /\ \A m \in Name \ {n} : sOwner'[m] = sOwner[m]
<1>1. OwnerIs(n, a).doc = "owner" /\ OwnerIs(n, a).of = n /\ OwnerIs(n, a).is = a
      BY DEF OwnerIs
<1>2. sOwner' = [sOwner EXCEPT ![n] = a] /\ sProfile' = sProfile
      BY <1>1 DEF DocWritten
<1> QED BY <1>2 DEF NameTypes

LEMMA ProfileWritten ==
  ASSUME NameTypes, NEW a \in User, NEW n \in Name, DocWritten(ProfileIs(a, n)), sCrashes' = sCrashes
  PROVE  /\ NameTypes' /\ sOwner' = sOwner /\ sProfile'[a] = {n}
         /\ \A b \in User \ {a} : sProfile'[b] = sProfile[b]
<1>1. ProfileIs(a, n).doc = "profile" /\ ProfileIs(a, n).of = a /\ ProfileIs(a, n).is = n
      BY DEF ProfileIs
<1>2. sProfile' = [sProfile EXCEPT ![a] = {n}] /\ sOwner' = sOwner
      BY <1>1 DEF DocWritten
<1>3. sProfile' \in [User -> SUBSET (Name \cup {None})]
      BY <1>2 DEF NameTypes
<1>4. /\ sProfile'[a] = {n} /\ \A b \in User \ {a} : sProfile'[b] = sProfile[b]
      BY <1>2 DEF NameTypes
<1>5. \A b \in User : sProfile'[b] = {} \/ \E x \in Name \cup {None} : sProfile'[b] = {x}
      BY <1>4 DEF NameTypes
<1> QED BY <1>2, <1>3, <1>4, <1>5 DEF NameTypes

(* The old name is given up.                                                   *)
LEMMA GiveUpStep ==
  ASSUME NameTypes, S!ReservedIsBorne, NEW a \in User, NEW n \in Name, NEW old \in Name \ {n},
         sOwner[n] \in {None, a}, sProfile[a] = {old},
         sCrashes = 0 => Unclaimed(a) /\ \A b \in User \ {a} : Reserved(b),
         DocWritten(OwnerIs(old, None)), sTodo' = <<ProfileIs(a, n), OwnerIs(n, a)>>, sCrashes' = sCrashes
  PROVE  NameInv'
<1> USE NoneAssumption
<1>1. /\ NameTypes' /\ sProfile' = sProfile /\ sOwner'[old] = None
      /\ \A m \in Name \ {old} : sOwner'[m] = sOwner[m]
      BY OwnerWritten
<1>2. S!ReservedIsBorne'
      BY <1>1 DEF S!ReservedIsBorne
<1>3. \A m \in Name : sOwner'[m] = a => m = n
      BY <1>1 DEF S!ReservedIsBorne
<1>4. sOwner'[n] \in {None, a}
      BY <1>1
<1>5. ASSUME sCrashes' = 0 PROVE Unclaimed(a)' /\ \A b \in User \ {a} : Reserved(b)'
  <2>1. Unclaimed(a) /\ \A b \in User \ {a} : Reserved(b)
        BY <1>5
  <2>2. Unclaimed(a)'
        BY <1>1, <2>1 DEF Unclaimed
  <2>3. ASSUME NEW b \in User \ {a}, NEW m \in Name, m \in sProfile'[b] PROVE sOwner'[m] = b
    <3>1. sOwner[m] = b
          BY <1>1, <2>1, <2>3 DEF Reserved
    <3>2. sOwner[old] \in {None, a}
          BY <2>1 DEF Unclaimed
    <3>3. m # old
          BY <3>1, <3>2
    <3> QED BY <1>1, <3>1, <3>3
  <2>4. \A b \in User \ {a} : Reserved(b)'
        BY <2>3 DEF Reserved
  <2> QED BY <2>2, <2>4
<1>6. Claims(a, n)'
      BY <1>3, <1>4, <1>5 DEF Claims
<1> QED BY <1>1, <1>2, <1>6 DEF NameInv

(* The profile is saved.                                                       *)
LEMMA SaveStep ==
  ASSUME NameTypes, S!ReservedIsBorne, NEW a \in User, NEW n \in Name,
         sOwner[n] \in {None, a}, \A m \in Name : sOwner[m] = a => m = n,
         sCrashes = 0 => Unclaimed(a) /\ \A b \in User \ {a} : Reserved(b),
         DocWritten(ProfileIs(a, n)), sTodo' = <<OwnerIs(n, a)>>, sCrashes' = sCrashes
  PROVE  NameInv'
<1> USE NoneAssumption
<1>1. /\ NameTypes' /\ sOwner' = sOwner /\ sProfile'[a] = {n}
      /\ \A b \in User \ {a} : sProfile'[b] = sProfile[b]
      BY ProfileWritten
<1>2. \A m \in Name : sOwner[m] \in User \cup {None}
      BY DEF NameTypes
<1>3. S!ReservedIsBorne'
      BY <1>1, <1>2 DEF S!ReservedIsBorne
<1>5. ASSUME sCrashes' = 0 PROVE Unclaimed(a)' /\ \A b \in User \ {a} : Reserved(b)'
  <2>1. \A b \in User \ {a} : Reserved(b)
        BY <1>5
  <2>2. Unclaimed(a)'
        BY <1>1 DEF Unclaimed
  <2>3. \A b \in User \ {a} : Reserved(b)'
        BY <1>1, <2>1 DEF Reserved
  <2> QED BY <2>2, <2>3
<1>6. Claims(a, n)'
      BY <1>1, <1>5 DEF Claims
<1> QED BY <1>1, <1>3, <1>6 DEF NameInv

(* The new name is reserved.                                                   *)
LEMMA ReserveStep ==
  ASSUME NameTypes, S!ReservedIsBorne, NEW a \in User, NEW n \in Name,
         sOwner[n] \in {None, a}, sProfile[a] = {n},
         sCrashes = 0 => Unclaimed(a) /\ \A b \in User \ {a} : Reserved(b),
         DocWritten(OwnerIs(n, a)), sTodo' = <<>>, sCrashes' = sCrashes
  PROVE  NameInv'
<1> USE NoneAssumption
<1>1. /\ NameTypes' /\ sProfile' = sProfile /\ sOwner'[n] = a
      /\ \A m \in Name \ {n} : sOwner'[m] = sOwner[m]
      BY OwnerWritten
<1>2. S!ReservedIsBorne'
      BY <1>1 DEF S!ReservedIsBorne
<1>3. ASSUME sCrashes' = 0, NEW b \in User, NEW m \in Name, m \in sProfile'[b] PROVE sOwner'[m] = b
  <2>1. CASE b = a
        BY <1>1, <1>3, <2>1
  <2>2. CASE b # a
    <3>1. sOwner[m] = b
          BY <1>1, <1>3, <2>2 DEF Reserved
    <3>2. m # n
          BY <2>2, <3>1
    <3> QED BY <1>1, <3>1, <3>2
  <2> QED BY <2>1, <2>2
<1>4. sCrashes' = 0 => \A b \in User : Reserved(b)'
      BY <1>3 DEF Reserved
<1> QED BY <1>1, <1>2, <1>4 DEF NameInv

LEMMA WriteStep ==
  ASSUME NameInv, sTodo # <<>>, DocWritten(Head(sTodo)), sTodo' = Tail(sTodo), sCrashes' = sCrashes
  PROVE  NameInv'
<1>1. PICK a \in User, n \in Name : Claims(a, n)
      BY DEF NameInv
<1>2. /\ NameTypes /\ S!ReservedIsBorne /\ sOwner[n] \in {None, a}
      /\ sCrashes = 0 => Unclaimed(a) /\ \A b \in User \ {a} : Reserved(b)
      BY <1>1 DEF NameInv, Claims
<1>3. CASE \E old \in Name \ {n} :
             sTodo = <<OwnerIs(old, None), ProfileIs(a, n), OwnerIs(n, a)>> /\ sProfile[a] = {old}
  <2>1. PICK old \in Name \ {n} :
             sTodo = <<OwnerIs(old, None), ProfileIs(a, n), OwnerIs(n, a)>> /\ sProfile[a] = {old}
        BY <1>3
  <2>2. Head(sTodo) = OwnerIs(old, None) /\ Tail(sTodo) = <<ProfileIs(a, n), OwnerIs(n, a)>>
        BY <2>1
  <2>3. DocWritten(OwnerIs(old, None)) /\ sTodo' = <<ProfileIs(a, n), OwnerIs(n, a)>>
        BY <2>2
  <2> QED BY <1>2, <2>1, <2>3, GiveUpStep
<1>4. CASE sTodo = <<ProfileIs(a, n), OwnerIs(n, a)>> /\ \A m \in Name : sOwner[m] = a => m = n
  <2>2. Head(sTodo) = ProfileIs(a, n) /\ Tail(sTodo) = <<OwnerIs(n, a)>>
        BY <1>4
  <2>3. DocWritten(ProfileIs(a, n)) /\ sTodo' = <<OwnerIs(n, a)>>
        BY <2>2
  <2> QED BY <1>2, <1>4, <2>3, SaveStep
<1>5. CASE sTodo = <<OwnerIs(n, a)>> /\ sProfile[a] = {n}
  <2>2. Head(sTodo) = OwnerIs(n, a) /\ Tail(sTodo) = <<>>
        BY <1>5
  <2>3. DocWritten(OwnerIs(n, a)) /\ sTodo' = <<>>
        BY <2>2
  <2> QED BY <1>2, <1>5, <2>3, ReserveStep
<1> QED BY <1>1, <1>3, <1>4, <1>5 DEF Claims

(* The process dies between two writes.                                        *)
LEMMA DieStep ==
  ASSUME NameInv, UNCHANGED <<sProfile, sOwner>>, sTodo' = <<>>, sCrashes' = sCrashes + 1
  PROVE  NameInv'
<1>1. NameTypes' /\ S!ReservedIsBorne'
      BY DEF NameInv, NameTypes, S!ReservedIsBorne
<1>2. sCrashes' # 0
      BY DEF NameInv, NameTypes
<1> QED BY <1>1, <1>2 DEF NameInv

LEMMA NamesStay ==
  ASSUME NameInv, UNCHANGED <<sProfile, sOwner, sTodo, sCrashes>>
  PROVE  NameInv'
<1>1. NameTypes' /\ S!ReservedIsBorne'
      BY DEF NameInv, NameTypes, S!ReservedIsBorne
<1>2. ASSUME NEW a \in User, NEW n \in Name, Claims(a, n) PROVE Claims(a, n)'
      BY <1>2 DEF Claims, Unclaimed, Reserved
<1>3. (sCrashes = 0 => \A b \in User : Reserved(b)) => (sCrashes' = 0 => \A b \in User : Reserved(b)')
      BY DEF Reserved
<1> QED BY <1>1, <1>2, <1>3 DEF NameInv

At == {"closed", "clerk", "profile", "form", "claiming", "settings", "renaming", "connect", "done", "error"}
PageKind == [at : At, attempt : Attempt \cup {None}, account : User \cup {None}]

(* A page that is open is about an attempt, and past Clerk it is about a user. *)
PageOK(q) ==
  /\ q \in PageKind
  /\ q.at # "closed" => q.attempt \in Attempt
  /\ q.at \notin {"closed", "clerk"} => q.account \in User

Pages == sPage = [p \in Page |-> sPage[p]] /\ \A p \in Page : PageOK(sPage[p])

LEMMA TurnedIs ==
  ASSUME NEW q, PageOK(q), q.at \notin {"closed", "clerk"}, NEW x \in At
  PROVE  PageOK([q EXCEPT !.at = x])
<1> DEFINE q2 == [q EXCEPT !.at = x]
<1>1. q2 \in PageKind /\ q2.attempt = q.attempt /\ q2.account = q.account
      BY DEF PageOK, PageKind
<1> QED BY <1>1 DEF PageOK

LEMMA ShowStep ==
  ASSUME Pages, NEW p \in Page, sPage[p].at \notin {"closed", "clerk"}, NEW x \in At, S!Show(p, x)
  PROVE  Pages'
<1>1. PageOK([sPage[p] EXCEPT !.at = x])
      BY TurnedIs DEF Pages
<1>2. sPage' = [sPage EXCEPT ![p] = [sPage[p] EXCEPT !.at = x]]
      BY Zenon DEF S!Show
<1> HIDE DEF S!Show
<1> DEFINE q2 == [sPage[p] EXCEPT !.at = x]
<1>3. PageOK(q2) /\ sPage' = [sPage EXCEPT ![p] = q2]
      BY <1>1, <1>2
<1> HIDE DEF q2
<1> QED BY <1>3 DEF Pages

LEMMA OnePage ==
  ASSUME Pages, NEW p \in Page, NEW q, PageOK(q), sPage' = [sPage EXCEPT ![p] = q]
  PROVE  Pages'
<1> QED BY DEF Pages

LEMMA ToldStep ==
  ASSUME Pages, NEW x \in At, NEW y \in At, S!Told(x, y)
  PROVE  Pages'
<1>1. ASSUME NEW p \in Page PROVE PageOK(sPage'[p])
  <2>1. PageOK(sPage[p])
        BY DEF Pages
  <2>2. CASE sPage[p].at = "claiming"
    <3>1. sPage'[p] = [sPage[p] EXCEPT !.at = x]
          BY <2>2 DEF S!Told
    <3>2. PageOK([sPage[p] EXCEPT !.at = x])
          BY <2>1, <2>2, TurnedIs
    <3> QED BY <3>1, <3>2, Zenon
  <2>3. CASE sPage[p].at = "renaming"
    <3>1. sPage'[p] = [sPage[p] EXCEPT !.at = y]
          BY <2>3 DEF S!Told
    <3>2. PageOK([sPage[p] EXCEPT !.at = y])
          BY <2>1, <2>3, TurnedIs
    <3> QED BY <3>1, <3>2, Zenon
  <2>4. CASE sPage[p].at \notin {"claiming", "renaming"}
    <3>1. sPage'[p] = sPage[p]
          BY <2>4 DEF S!Told
    <3> QED BY <2>1, <3>1, Zenon
  <2> QED BY <2>2, <2>3, <2>4
<1>2. sPage' = [p \in Page |-> sPage'[p]]
      BY DEF S!Told
<1> QED BY <1>1, <1>2 DEF Pages

SignInInv == Attempts /\ NameInv /\ Pages

LEMMA NoneIs ==
  ASSUME NEW x \in 0..MaxClock + TTL, NEW st \in S!Status
  PROVE  /\ S!Absent \in AttemptKind /\ S!Absent.status = "absent"
         /\ [S!Absent EXCEPT !.status = st, !.expires = x] \in AttemptKind
         /\ [S!Absent EXCEPT !.status = st, !.expires = x].status = st
<1> DEFINE t == FALSE
           r == [status |-> "absent", expires |-> 0, event |-> t, account |-> None]
<1>1. t \in BOOLEAN /\ S!Absent = r
      BY Zenon DEF S!Absent
<1>2. "absent" \in S!Status /\ 0 \in 0..MaxClock + TTL
      BY BoundAssumption DEF S!Status
<1> HIDE DEF t
<1>3. r \in AttemptKind /\ r.status = "absent"
      BY <1>1, <1>2 DEF AttemptKind
<1> HIDE DEF r
<1>4. /\ [r EXCEPT !.status = st, !.expires = x] \in AttemptKind
      /\ [r EXCEPT !.status = st, !.expires = x].status = st
      BY <1>3 DEF AttemptKind
<1> QED BY <1>1, <1>3, <1>4, Zenon

LEMMA SignInInit == S!Init => SignInInv
<1> SUFFICES ASSUME S!Init PROVE SignInInv
    OBVIOUS
<1> USE NoneAssumption, BoundAssumption
<1>1. S!Absent \in AttemptKind
  <2>1. "absent" \in S!Status /\ 0 \in 0..MaxClock + TTL
        BY DEF S!Status
  <2> QED BY <2>1, NoneIs
<1>2. sAttempt = [x \in Attempt |-> S!Absent] /\ sPoll = [x \in Attempt |-> "idle"] /\ sClock = 0
      BY DEF S!Init
<1> HIDE DEF S!Absent
<1>3. Attempts
      BY <1>1, <1>2 DEF Attempts, S!WaiterWoken
<1>4. NameTypes /\ S!ReservedIsBorne
      BY DEF S!Init, NameTypes, S!ReservedIsBorne
<1>5. sTodo = <<>> /\ \A b \in User : Reserved(b)
      BY DEF S!Init, Reserved
<1>6. NameInv
      BY <1>4, <1>5 DEF NameInv
<1> DEFINE q == [at |-> "closed", attempt |-> None, account |-> None]
<1>7. PageOK(q)
      BY DEF PageOK, PageKind, At
<1>8. sPage = [p \in Page |-> q]
      BY Zenon DEF S!Init
<1> HIDE DEF q
<1>9. Pages
      BY <1>7, <1>8 DEF Pages
<1> QED BY <1>3, <1>6, <1>9 DEF SignInInv

(* What the device does.                                                       *)
LEMMA StartStep == ASSUME Attempts, NEW x \in Attempt, S!Start(x) PROVE Attempts' /\ S!CancelFinal
<1> DEFINE e == sClock + TTL
           r == [S!Absent EXCEPT !.status = "pending", !.expires = e]
<1>1. sAttempt' = [sAttempt EXCEPT ![x] = r] /\ sAttempt[x].status = "absent"
      BY Zenon DEF S!Start
<1>2. sPoll' = sPoll /\ sClock' = sClock
      BY Zenon DEF S!Start
<1>3. e \in 0..MaxClock + TTL /\ "pending" \in S!Status
      BY BoundAssumption DEF Attempts, S!Status
<1> HIDE DEF e
<1>4. r \in AttemptKind /\ r.status = "pending"
      BY <1>3, NoneIs
<1> HIDE DEF r
<1>5. Moves(sAttempt[x], r)
      BY <1>1, <1>4 DEF Moves
<1>6. sPoll' \in [Attempt -> S!Status \cup {"idle", "waiting"}]
      BY <1>2 DEF Attempts
<1> QED BY <1>1, <1>2, <1>5, <1>6, OneMoves

LEMMA WaitStep == ASSUME Attempts, NEW x \in Attempt, S!Wait(x) \/ S!Answer(x) PROVE Attempts' /\ S!CancelFinal
<1> DEFINE g == S!Got(sAttempt[x])
           y == IF S!Wait(x) /\ g.status = "pending" THEN "waiting" ELSE g.status
<1>1. sAttempt' = [sAttempt EXCEPT ![x] = g] /\ sClock' = sClock
      BY Zenon DEF S!Wait, S!Answer
<1>2. sPoll' = [sPoll EXCEPT ![x] = y]
  <2>1. CASE S!Wait(x)
    <3>1. CASE g.status = "pending"
          BY <2>1, <3>1, Zenon DEF S!Wait
    <3>2. CASE g.status # "pending"
          BY <2>1, <3>2, Zenon DEF S!Wait
    <3> QED BY <3>1, <3>2
  <2>2. CASE S!Answer(x) /\ ~S!Wait(x)
        BY <2>2, Zenon DEF S!Answer
  <2> QED BY <2>1, <2>2
<1>3. Moves(sAttempt[x], g) /\ g.status \in S!Status
      BY GotIs DEF Attempts
<1>4. y \in S!Status \cup {"idle", "waiting"} /\ (y = "waiting" => g.status = "pending")
  <2>1. "waiting" \notin S!Status
        BY DEF S!Status
  <2> HIDE DEF g
  <2> QED BY <1>3, <2>1
<1> HIDE DEF g, y
<1>5. sPoll' \in [Attempt -> S!Status \cup {"idle", "waiting"}]
      BY <1>2, <1>4 DEF Attempts
<1>6. sAttempt'[x] = g
      BY <1>1 DEF Attempts
<1>7. \A z \in Attempt : sPoll'[z] = "waiting" => sPoll[z] = "waiting" \/ sAttempt'[z].status = "pending"
      BY <1>2, <1>4, <1>6 DEF Attempts
<1> QED BY <1>1, <1>3, <1>5, <1>7, OneMoves

(* An attempt is given up by its device, or signed out of by its page.         *)
LEMMA WithdrawStep ==
  ASSUME Attempts, NEW x \in Attempt, NEW st \in {"canceled", "signed_out"},
         sAttempt' = [sAttempt EXCEPT ![x] = S!Withdrawn(@, st)], UNCHANGED <<sPoll, sClock>>
  PROVE  Attempts' /\ S!CancelFinal
<1> DEFINE r == S!Withdrawn(sAttempt[x], st)
<1>1. sAttempt' = [sAttempt EXCEPT ![x] = r]
      BY Zenon
<1>2. Moves(sAttempt[x], r)
      BY WithdrawnIs DEF Attempts
<1> HIDE DEF r
<1>3. sPoll' \in [Attempt -> S!Status \cup {"idle", "waiting"}] /\ sClock' = sClock
      BY DEF Attempts
<1>4. \A y \in Attempt : sPoll'[y] = "waiting" => sPoll[y] = "waiting"
      OBVIOUS
<1> QED BY <1>1, <1>2, <1>3, <1>4, OneMoves

(* No attempt changes.                                                         *)
LEMMA AttemptsStay ==
  ASSUME Attempts, UNCHANGED <<sAttempt, sPoll>>, sClock' \in 0..MaxClock
  PROVE  Attempts' /\ S!CancelFinal
<1>1. Attempts'
      BY DEF Attempts, S!WaiterWoken
<1>2. S!CancelFinal
      BY DEF Attempts, S!CancelFinal
<1> QED BY <1>1, <1>2

LEMMA PagesStay == ASSUME Pages, sPage' = sPage PROVE Pages'
BY DEF Pages

LEMMA AttemptsDie ==
  ASSUME Attempts, sAttempt' = [x \in Attempt |-> S!Absent], sPoll' = [x \in Attempt |-> "idle"], sClock' = sClock
  PROVE  Attempts' /\ S!CancelFinal
<1>1. S!Absent \in AttemptKind /\ S!Absent.status = "absent"
  <2>1. "absent" \in S!Status /\ 0 \in 0..MaxClock + TTL
        BY BoundAssumption DEF S!Status
  <2> QED BY <2>1, NoneIs
<1> HIDE DEF S!Absent
<1>2. Attempts'
      BY <1>1 DEF Attempts, S!WaiterWoken
<1>3. S!CancelFinal
      BY <1>1 DEF S!CancelFinal
<1> QED BY <1>2, <1>3

(* What a page does before its user is known.                                  *)
LEMMA OpenStep ==
  ASSUME Pages, NEW p \in Page, NEW x \in Attempt, S!OpenPage(p, x)
  PROVE  Pages'
<1> DEFINE q == [at |-> "clerk", attempt |-> x, account |-> None]
<1>1. sPage' = [sPage EXCEPT ![p] = q]
      BY Zenon DEF S!OpenPage
<1>2. PageOK(q)
      BY DEF PageOK, PageKind, At
<1> HIDE DEF q
<1> QED BY <1>1, <1>2, OnePage

LEMMA SignedInStep ==
  ASSUME Pages, NEW p \in Page, NEW a \in User, S!SignedIn(p, a)
  PROVE  Pages'
<1> DEFINE r == sPage[p]
           q == [[r EXCEPT !.at = "profile"] EXCEPT !.account = a]
<1>1. sPage[p].at = "clerk"
      BY Zenon DEF S!SignedIn
<1>2. PageOK(r)
      BY DEF Pages
<1>3. PageOK(q)
      BY <1>1, <1>2 DEF PageOK, PageKind, At
<1>4. sPage' = [[sPage EXCEPT ![p] = [sPage[p] EXCEPT !.at = "profile"]]
                 EXCEPT ![p] = [[sPage EXCEPT ![p] = [sPage[p] EXCEPT !.at = "profile"]][p] EXCEPT !.account = a]]
      BY Zenon DEF S!SignedIn
<1> DEFINE r1 == [r EXCEPT !.at = "profile"]
<1>5. sPage' = [[sPage EXCEPT ![p] = r1] EXCEPT ![p] = [[sPage EXCEPT ![p] = r1][p] EXCEPT !.account = a]]
      BY <1>4
<1>6. q = [r1 EXCEPT !.account = a]
      OBVIOUS
<1> HIDE DEF q, r1
<1>7. p \in DOMAIN sPage
      BY DEF Pages
<1>8. [sPage EXCEPT ![p] = r1][p] = r1
      BY <1>7
<1>9. sPage' = [[sPage EXCEPT ![p] = r1] EXCEPT ![p] = q]
      BY <1>5, <1>6, <1>8
<1>10. sPage' = [sPage EXCEPT ![p] = q]
      BY <1>9
<1> QED BY <1>3, <1>10, OnePage

LEMMA SignOutStep ==
  ASSUME Pages, Attempts, NEW p \in Page, S!SignOut(p)
  PROVE  Pages' /\ Attempts' /\ S!CancelFinal
<1> DEFINE r == sPage[p]
           r1 == [r EXCEPT !.at = "clerk"]
           q == [r1 EXCEPT !.account = None]
           x == sPage[p].attempt
<1>1. /\ sPage[p].at \in {"form", "settings", "connect", "done", "error"}
      /\ sAttempt' = [sAttempt EXCEPT ![x] = S!Withdrawn(@, "signed_out")]
      /\ UNCHANGED <<sPoll, sClock>>
      BY Zenon DEF S!SignOut
<1>2. PageOK(r)
      BY DEF Pages
<1>3. PageOK(q)
      BY <1>1, <1>2 DEF PageOK, PageKind, At
<1>4. sPage' = [[sPage EXCEPT ![p] = r1] EXCEPT ![p] = [[sPage EXCEPT ![p] = r1][p] EXCEPT !.account = None]]
      BY Zenon DEF S!SignOut
<1>5. x \in Attempt
      BY <1>1, <1>2 DEF PageOK
<1>6. Attempts' /\ S!CancelFinal
  <2>1. "signed_out" \in {"canceled", "signed_out"}
        OBVIOUS
  <2> HIDE DEF x
  <2> QED BY <1>1, <1>5, <2>1, WithdrawStep
<1> HIDE DEF r1
<1>7. p \in DOMAIN sPage
      BY DEF Pages
<1>8. [sPage EXCEPT ![p] = r1][p] = r1
      BY <1>7
<1>9. sPage' = [[sPage EXCEPT ![p] = r1] EXCEPT ![p] = q]
      BY <1>4, <1>8
<1> HIDE DEF q
<1>10. sPage' = [sPage EXCEPT ![p] = q]
      BY <1>9
<1>11. Pages'
      BY <1>3, <1>10, OnePage
<1> QED BY <1>6, <1>11

(* What a page does for its user.                                              *)
LEMMA LoadProfileStep ==
  ASSUME SignInInv, NEW p \in Page, S!LoadProfile(p)
  PROVE  SignInInv' /\ S!CancelFinal
<1> DEFINE who == sPage[p].account
           y == IF S!UserName(who) = None THEN "form" ELSE "connect"
<1>1. /\ sPage[p].at = "profile" /\ sTodo = <<>>
      /\ sProfile' = [sProfile EXCEPT ![who] = S!Created(who)]
      /\ S!Show(p, y)
      /\ UNCHANGED <<sClock, sAttempt, sPoll, sOwner, sTodo, sCrashes>>
      BY Zenon DEF S!LoadProfile, S!Free
<1>2. Attempts /\ NameInv /\ Pages /\ sClock' = sClock /\ sClock \in 0..MaxClock
      BY <1>1 DEF SignInInv, Attempts
<1>3. who \in User
      BY <1>1, <1>2 DEF Pages, PageOK
<1>4. y \in At
      BY DEF At
<1> HIDE DEF y, who
<1>5. NameInv'
      BY <1>1, <1>2, <1>3, CreateStep
<1>6. sPage[p].at \notin {"closed", "clerk"}
      BY <1>1
<1>7. Pages'
      BY <1>1, <1>2, <1>4, <1>6, ShowStep
<1>8. Attempts' /\ S!CancelFinal
      BY <1>1, <1>2, AttemptsStay
<1> QED BY <1>5, <1>7, <1>8 DEF SignInInv

LEMMA ClaimNameStep ==
  ASSUME SignInInv, NEW p \in Page, NEW n \in Name, S!Claim(p, n)
  PROVE  SignInInv' /\ S!CancelFinal
<1> DEFINE who == sPage[p].account
           y == IF sPage[p].at = "form" THEN "claiming" ELSE "renaming"
<1>1. /\ sPage[p].at \in {"form", "settings"} /\ sTodo = <<>>
      /\ S!Available(who, n)
      /\ sTodo' = S!GivenUp(who, n) \o S!Saved(who, n)
      /\ S!Show(p, y)
      /\ UNCHANGED <<sClock, sAttempt, sPoll, sProfile, sOwner, sCrashes>>
      BY Zenon DEF S!Claim, S!Free
<1>2. Attempts /\ NameInv /\ Pages /\ sClock' = sClock /\ sClock \in 0..MaxClock
      BY <1>1 DEF SignInInv, Attempts
<1>3. who \in User
      BY <1>1, <1>2 DEF Pages, PageOK
<1>4. y \in At
      BY DEF At
<1> HIDE DEF y, who
<1>5. NameInv'
      BY <1>1, <1>2, <1>3, ClaimStep
<1>6. sPage[p].at \notin {"closed", "clerk"}
      BY <1>1
<1>7. Pages'
      BY <1>1, <1>2, <1>4, <1>6, ShowStep
<1>8. Attempts' /\ S!CancelFinal
      BY <1>1, <1>2, AttemptsStay
<1> QED BY <1>5, <1>7, <1>8 DEF SignInInv

LEMMA ConnectStep ==
  ASSUME SignInInv, NEW p \in Page, S!Connect(p)
  PROVE  SignInInv' /\ S!CancelFinal
<1> DEFINE who == sPage[p].account
           x == sPage[p].attempt
           r == S!Completed(sAttempt[x], who)
           y == CASE S!Refused(sAttempt[x])          -> "error"
                  [] sAttempt[x].status = "complete" -> "done"
                  [] S!UserName(who) = None          -> "form"
                  [] OTHER                           -> "done"
<1>1. /\ sPage[p].at = "connect" /\ sTodo = <<>>
      /\ sProfile' = [sProfile EXCEPT ![who] = S!Created(who)]
      /\ sAttempt' = [sAttempt EXCEPT ![x] = r]
      /\ S!Show(p, y)
      /\ UNCHANGED <<sClock, sPoll, sOwner, sTodo, sCrashes>>
      BY Zenon DEF S!Connect, S!Free
<1>2. Attempts /\ NameInv /\ Pages
      BY DEF SignInInv
<1>3. who \in User /\ x \in Attempt
      BY <1>1, <1>2 DEF Pages, PageOK
<1>4. y \in At
  <2> HIDE DEF who, x
  <2>1. y \in {"error", "done", "form"}
        BY Zenon
  <2> HIDE DEF y
  <2> QED BY <2>1 DEF At
<1> HIDE DEF y, who, x
<1>5. NameInv'
      BY <1>1, <1>2, <1>3, CreateStep
<1>6. sPage[p].at \notin {"closed", "clerk"}
      BY <1>1
<1>7. Pages'
      BY <1>1, <1>2, <1>4, <1>6, ShowStep
<1>8. Attempts' /\ S!CancelFinal
  <2>1. Moves(sAttempt[x], r)
        BY <1>2, <1>3, CompletedIs DEF Attempts
  <2> HIDE DEF r
  <2>2. sPoll' \in [Attempt -> S!Status \cup {"idle", "waiting"}] /\ sClock' = sClock
        BY <1>1, <1>2 DEF Attempts
  <2>3. \A z \in Attempt : sPoll'[z] = "waiting" => sPoll[z] = "waiting"
        BY <1>1
  <2> QED BY <1>1, <1>2, <1>3, <2>1, <2>2, <2>3, OneMoves
<1> QED BY <1>5, <1>7, <1>8 DEF SignInInv

LEMMA WriteNameStep ==
  ASSUME SignInInv, S!Write
  PROVE  SignInInv' /\ S!CancelFinal
<1>1. /\ sTodo # <<>> /\ DocWritten(Head(sTodo)) /\ sTodo' = Tail(sTodo) /\ sCrashes' = sCrashes
      /\ UNCHANGED <<sClock, sAttempt, sPoll>>
      BY Zenon DEF S!Write, DocWritten
<1>2. S!Told("connect", "done") \/ sPage' = sPage
      BY Zenon DEF S!Write
<1>3. Attempts /\ NameInv /\ Pages /\ sClock' = sClock /\ sClock \in 0..MaxClock
      BY <1>1 DEF SignInInv, Attempts
<1>4. NameInv'
      BY <1>1, <1>3, WriteStep
<1>5. "connect" \in At /\ "done" \in At
      BY DEF At
<1>6. Pages'
      BY <1>2, <1>3, <1>5, ToldStep, PagesStay
<1>7. Attempts' /\ S!CancelFinal
      BY <1>1, <1>3, AttemptsStay
<1> QED BY <1>4, <1>6, <1>7 DEF SignInInv

LEMMA SignInCrash ==
  ASSUME SignInInv, S!Crash
  PROVE  SignInInv' /\ S!CancelFinal
<1>1. /\ sCrashes' = sCrashes + 1 /\ sTodo' = <<>> /\ S!Told("form", "settings")
      /\ sAttempt' = [x \in Attempt |-> S!Absent] /\ sPoll' = [x \in Attempt |-> "idle"]
      /\ UNCHANGED <<sClock, sProfile, sOwner>>
      BY Zenon DEF S!Crash
<1>2. Attempts /\ NameInv /\ Pages
      BY DEF SignInInv
<1>3. NameInv'
      BY <1>1, <1>2, DieStep
<1>4. "form" \in At /\ "settings" \in At
      BY DEF At
<1>5. Pages'
      BY <1>1, <1>2, <1>4, ToldStep
<1>6. Attempts' /\ S!CancelFinal
      BY <1>1, <1>2, AttemptsDie
<1> QED BY <1>3, <1>5, <1>6 DEF SignInInv

LEMMA DeviceStep ==
  ASSUME SignInInv, NEW x \in Attempt, S!Start(x) \/ S!Wait(x) \/ S!Answer(x) \/ S!Cancel(x)
  PROVE  SignInInv' /\ S!CancelFinal
<1>1. Attempts /\ NameInv /\ Pages
      BY DEF SignInInv
<1>2. UNCHANGED <<sProfile, sOwner, sPage, sTodo, sCrashes>>
      BY Zenon DEF S!Start, S!Wait, S!Answer, S!Cancel
<1>3. NameInv' /\ Pages'
      BY <1>1, <1>2, NamesStay, PagesStay
<1>4. Attempts' /\ S!CancelFinal
  <2>1. CASE S!Start(x)
        BY <1>1, <2>1, StartStep
  <2>2. CASE S!Wait(x) \/ S!Answer(x)
        BY <1>1, <2>2, WaitStep
  <2>3. CASE S!Cancel(x)
    <3>1. sAttempt' = [sAttempt EXCEPT ![x] = S!Withdrawn(@, "canceled")] /\ UNCHANGED <<sPoll, sClock>>
          BY <2>3, Zenon DEF S!Cancel
    <3>2. "canceled" \in {"canceled", "signed_out"}
          OBVIOUS
    <3> QED BY <1>1, <3>1, <3>2, WithdrawStep
  <2> QED BY <2>1, <2>2, <2>3
<1> QED BY <1>3, <1>4 DEF SignInInv

(* The page changes and nothing else, or the clock ticks.                      *)
LEMMA PageStep ==
  ASSUME SignInInv, Pages', UNCHANGED <<sAttempt, sPoll, sProfile, sOwner, sTodo, sCrashes>>,
         sClock' \in 0..MaxClock
  PROVE  SignInInv' /\ S!CancelFinal
<1>1. Attempts /\ NameInv /\ Pages
      BY DEF SignInInv
<1>2. NameInv'
      BY <1>1, NamesStay
<1>3. Attempts' /\ S!CancelFinal
      BY <1>1, AttemptsStay
<1> QED BY <1>2, <1>3 DEF SignInInv

LEMMA SignInStep ==
  ASSUME SignInInv, [S!Next]_(S!vars)
  PROVE  SignInInv' /\ S!CancelFinal
<1>1. Attempts /\ NameInv /\ Pages /\ sClock \in 0..MaxClock
      BY DEF SignInInv, Attempts
<1>2. CASE \E x \in Attempt : S!Start(x) \/ S!Wait(x) \/ S!Answer(x) \/ S!Cancel(x)
      BY <1>2, DeviceStep
<1>3. CASE \E p \in Page, x \in Attempt : S!OpenPage(p, x)
  <2>1. UNCHANGED <<sClock, sAttempt, sPoll, sProfile, sOwner, sTodo, sCrashes>>
        BY <1>3, Zenon DEF S!OpenPage
  <2>2. Pages'
        BY <1>1, <1>3, OpenStep
  <2> QED BY <1>1, <2>1, <2>2, PageStep
<1>4. CASE \E p \in Page, a \in User : S!SignedIn(p, a)
  <2>1. UNCHANGED <<sClock, sAttempt, sPoll, sProfile, sOwner, sTodo, sCrashes>>
        BY <1>4, Zenon DEF S!SignedIn
  <2>2. Pages'
        BY <1>1, <1>4, SignedInStep
  <2> QED BY <1>1, <2>1, <2>2, PageStep
<1>5. CASE \E p \in Page, n \in Name : S!Claim(p, n)
      BY <1>5, ClaimNameStep
<1>6. CASE \E p \in Page : S!LoadProfile(p)
      BY <1>6, LoadProfileStep
<1>7. CASE \E p \in Page : S!ChangeName(p)
  <2>1. PICK p \in Page : S!ChangeName(p)
        BY <1>7
  <2>2. sPage[p].at = "done" /\ S!Show(p, "settings")
        /\ UNCHANGED <<sClock, sAttempt, sPoll, sProfile, sOwner, sTodo, sCrashes>>
        BY <2>1, Zenon DEF S!ChangeName
  <2>3. "settings" \in At /\ sPage[p].at \notin {"closed", "clerk"}
        BY <2>2 DEF At
  <2>4. Pages'
        BY <1>1, <2>2, <2>3, ShowStep
  <2> QED BY <1>1, <2>2, <2>4, PageStep
<1>8. CASE \E p \in Page : S!Connect(p)
      BY <1>8, ConnectStep
<1>9. CASE \E p \in Page : S!SignOut(p)
  <2>1. PICK p \in Page : S!SignOut(p)
        BY <1>9
  <2>2. UNCHANGED <<sProfile, sOwner, sTodo, sCrashes>>
        BY <2>1, Zenon DEF S!SignOut
  <2>3. Pages' /\ Attempts' /\ S!CancelFinal
        BY <1>1, <2>1, SignOutStep
  <2>4. NameInv'
        BY <1>1, <2>2, NamesStay
  <2> QED BY <2>3, <2>4 DEF SignInInv
<1>10. CASE S!Write
      BY <1>10, WriteNameStep
<1>11. CASE S!Tick
  <2>1. sClock < MaxClock /\ sClock' = sClock + 1 /\ UNCHANGED <<sAttempt, sPoll, sProfile, sOwner, sPage, sTodo, sCrashes>>
        BY <1>11, Zenon DEF S!Tick
  <2>2. sClock' \in 0..MaxClock /\ Pages'
        BY <1>1, <2>1, BoundAssumption, PagesStay
  <2> QED BY <2>1, <2>2, PageStep
<1>12. CASE S!Crash
      BY <1>12, SignInCrash
<1>13. CASE UNCHANGED S!vars
  <2>1. UNCHANGED <<sClock, sAttempt, sPoll, sProfile, sOwner, sPage, sTodo, sCrashes>>
        BY <1>13, Zenon DEF S!vars
  <2>2. Pages'
        BY <1>1, <2>1, PagesStay
  <2> QED BY <1>1, <2>1, <2>2, PageStep
<1> QED BY <1>2, <1>3, <1>4, <1>5, <1>6, <1>7, <1>8, <1>9, <1>10, <1>11, <1>12, <1>13 DEF S!Next

(* However device, pages, clock and restarts interleave, a waiting device is   *)
(* woken, a lost attempt stays lost, and a name has one bearer and is reserved *)
(* for nobody but its bearer.                                                  *)
THEOREM SignedIn == S!Spec => SignInHolds
<1>1. SignInInv /\ [S!Next]_(S!vars) => SignInInv' /\ S!CancelFinal
      BY SignInStep
<1>2. SignInInv => S!WaiterWoken /\ S!ReservedIsBorne /\ S!NamesUnique
      BY NamesOne DEF SignInInv, NameInv, Attempts
<1> QED BY SignInInit, <1>1, <1>2, PTL DEF S!Spec, SignInHolds, S!SignInHolds

(* The attempts, the profiles, the reservations and the pages have their types. *)
THEOREM SignInTyped == S!Spec => []S!SignInTypeOK
<1>1. SignInInv => S!SignInTypeOK
  <2> SUFFICES ASSUME SignInInv PROVE S!SignInTypeOK
      OBVIOUS
  <2>1. /\ sAttempt \in [Attempt -> AttemptKind] /\ sPoll \in [Attempt -> S!Status \cup {"idle", "waiting"}]
        /\ sProfile \in [User -> SUBSET (Name \cup {None})] /\ sOwner \in [Name -> User \cup {None}]
        BY DEF SignInInv, Attempts, NameInv, NameTypes
  <2>2. sPage \in [Page -> PageKind]
        BY DEF SignInInv, Pages, PageOK
  <2> QED BY <2>1, <2>2, Zenon DEF S!SignInTypeOK, AttemptKind, PageKind, At
<1>2. SignInInv /\ [S!Next]_(S!vars) => SignInInv'
      BY SignInStep
<1> QED BY SignInInit, <1>1, <1>2, PTL DEF S!Spec

-----------------------------------------------------------------------------
(* Classrooms of the backend service                                          *)

Frame == {"snapshot", "end"}
RoomMeta == [teacher : C!Account \cup {None}, version : 0..MaxChanges]

RoomTypes ==
  /\ cConfig \in [C!Account -> Class \cup {None}]
  /\ cMeta \in [Class -> RoomMeta]
  /\ cStudents = [c \in Class |-> cStudents[c]]
  /\ \A c \in Class : DOMAIN cStudents[c] \subseteq Student
  /\ cCrashes \in Nat

(* The stream of a client: it is closed, or it is about a class that exists.   *)
StreamShape(r) ==
  /\ r = [class |-> r.class, queue |-> r.queue, at |-> r.at, shown |-> r.shown]
  /\ r.queue \in Seq(Frame)
  /\ r.at \in {"closed", "respond", "send", "wait"}
  /\ r.class \in Class \cup {None}
  /\ r.at = "closed" <=> r.class = None

Streams ==
  /\ cStream = [e \in Stream |-> cStream[e]]
  /\ \A e \in Stream : StreamShape(cStream[e])
  /\ \A e \in Stream : cStream[e].class # None => C!Exists(cStream[e].class)

HasSnapshot(q) == \E i \in 1..Len(q) : q[i] = "snapshot"
Subscribed(e) == cStream[e].at \in {"send", "wait"}

(* The client will be shown a snapshot that is still to be read, or was shown  *)
(* what is.                                                                    *)
Current(e) ==
  HasSnapshot(cStream[e].queue) \/ cStream[e].shown = C!Snapshot(cStream[e].class)
CurrentBut(c) ==
  \A e \in Stream : Subscribed(e) /\ cStream[e].class # c => Current(e)

Backed(a) ==
  cConfig[a] # None =>
    cMeta[cConfig[a]].teacher = a \/ a \in DOMAIN cStudents[cConfig[a]]
BackedBut(x) == \A a \in C!Account : a # x => Backed(a)

(* A class that does not exist has no students.                                *)
Bare == \A c \in Class : cMeta[c].teacher = None => DOMAIN cStudents[c] = {}

ConfigIs(a, c)   == C!Put("config", a, c)
RoomMetaIs(c, t) == C!Put("meta", c, [teacher |-> t, version |-> 0])
RosterIs(c, x)   == C!Put("students", c, x)
Framed(c, q)     == C!Put("announce", c, q)
NoStudents       == [s \in {} |-> 0]

(* What the handler that creates a class has still to write.                   *)
Creates(t, c) ==
  /\ \A e \in Stream : cStream[e].class # c
  /\ CurrentBut(None)
  /\ \/ /\ cTodo = <<ConfigIs(t, c), RoomMetaIs(c, t), RosterIs(c, NoStudents), Framed(c, <<>>)>>
        /\ cMeta[c].teacher = None
        /\ cCrashes = 0 => BackedBut(None) /\ Bare
     \/ /\ cTodo = <<RoomMetaIs(c, t), RosterIs(c, NoStudents), Framed(c, <<>>)>>
        /\ cMeta[c].teacher = None
        /\ cCrashes = 0 => cConfig[t] = c /\ BackedBut(t) /\ Bare
     \/ /\ cTodo = <<RosterIs(c, NoStudents), Framed(c, <<>>)>>
        /\ cCrashes = 0 => BackedBut(None) /\ Bare /\ DOMAIN cStudents[c] = {}
     \/ /\ cTodo = <<Framed(c, <<>>)>>
        /\ cCrashes = 0 => BackedBut(None) /\ Bare

(* What the handler by which a student joins or leaves has still to write: the *)
(* streams of the class are told after the last of it.                         *)
Enlists(a, c, d, x) ==
  /\ CurrentBut(c) /\ C!Exists(c) /\ d \in {c, None}
  /\ DOMAIN x \subseteq Student /\ DOMAIN cStudents[c] \ {a} \subseteq DOMAIN x
  /\ d = c => a \in DOMAIN x
  /\ cCrashes = 0 => Bare
  /\ \/ /\ cTodo = <<ConfigIs(a, d), RosterIs(c, x), Framed(c, <<"snapshot">>)>>
        /\ cCrashes = 0 => BackedBut(None)
     \/ /\ cTodo = <<RosterIs(c, x), Framed(c, <<"snapshot">>)>>
        /\ cCrashes = 0 => cConfig[a] = d /\ BackedBut(a)
     \/ /\ cTodo = <<Framed(c, <<"snapshot">>)>>
        /\ cCrashes = 0 => BackedBut(None)

RoomsQuiet == cTodo = <<>> /\ CurrentBut(None) /\ (cCrashes = 0 => BackedBut(None) /\ Bare)

RoomInv ==
  /\ RoomTypes /\ Streams
  /\ \/ RoomsQuiet
     \/ \E t \in Teacher, c \in Class : Creates(t, c)
     \/ \E a \in Student, c \in Class, d \in Class \cup {None} : \E x : Enlists(a, c, d, x)

LEMMA QuietIs == ASSUME RoomInv, cTodo = <<>> PROVE RoomTypes /\ Streams /\ RoomsQuiet
<1>1. ASSUME NEW s \in Teacher, NEW d \in Class, Creates(s, d) PROVE cTodo # <<>>
      BY <1>1 DEF Creates
<1>2. ASSUME NEW a \in Student, NEW e \in Class, NEW d, NEW x, Enlists(a, e, d, x) PROVE cTodo # <<>>
      BY <1>2 DEF Enlists
<1> QED BY <1>1, <1>2 DEF RoomInv

LEMMA RoomFacts == ASSUME RoomInv PROVE C!StreamCurrent /\ C!ConfigBacked /\ C!ClassroomsTypeOK
<1> USE NoneAssumption
<1>1. cTodo = <<>> => RoomsQuiet
      BY QuietIs
<1>2. C!StreamCurrent
  <2> SUFFICES ASSUME NEW e \in Stream, cTodo = <<>>, cStream[e].at = "wait", cStream[e].queue = <<>>
               PROVE  cStream[e].shown = C!Snapshot(cStream[e].class)
      BY DEF C!StreamCurrent, C!Free
  <2>1. Current(e)
    <3>1. StreamShape(cStream[e])
          BY DEF RoomInv, Streams
    <3>2. cStream[e].class # None
          BY <3>1 DEF StreamShape
    <3> QED BY <1>1, <3>2 DEF RoomsQuiet, CurrentBut, Subscribed
  <2>2. ~HasSnapshot(cStream[e].queue)
        BY DEF HasSnapshot
  <2> QED BY <2>1, <2>2 DEF Current
<1>3. C!ConfigBacked
  <2> SUFFICES ASSUME cCrashes = 0, cTodo = <<>>, NEW a \in C!Account, cConfig[a] # None
               PROVE  cMeta[cConfig[a]].teacher = a \/ a \in DOMAIN cStudents[cConfig[a]]
      BY DEF C!ConfigBacked, C!Free
  <2>1. a # None
        BY DEF C!Account
  <2> QED BY <1>1, <2>1 DEF RoomsQuiet, BackedBut, Backed
<1>4. C!ClassroomsTypeOK
  <2>1. RoomTypes /\ \A e \in Stream : StreamShape(cStream[e])
        BY DEF RoomInv, Streams
  <2> QED BY <2>1 DEF C!ClassroomsTypeOK, RoomTypes, StreamShape, RoomMeta
<1> QED BY <1>2, <1>3, <1>4

(* Streams                                                                     *)
LEMMA QueueGrows ==
  ASSUME NEW q \in Seq(Frame), NEW p \in Seq(Frame)
  PROVE  q \o p \in Seq(Frame) /\ (HasSnapshot(q) \/ HasSnapshot(p) => HasSnapshot(q \o p))
<1> DEFINE s == q \o p
           n == Len(q)
           m == Len(p)
<1>1. s \in Seq(Frame) /\ Len(s) = n + m /\ \A i \in 1..n + m : s[i] = IF i <= n THEN q[i] ELSE p[i - n]
      BY ConcatProperties
<1>2. n \in Nat /\ m \in Nat
      OBVIOUS
<1> HIDE DEF s
<1>3. ASSUME NEW i \in 1..n, q[i] = "snapshot" PROVE HasSnapshot(s)
  <2> HIDE DEF n, m
  <2>1. i \in 1..n + m /\ s[i] = "snapshot"
        BY <1>1, <1>2, <1>3
  <2> QED BY <1>1, <2>1 DEF HasSnapshot
<1>4. ASSUME NEW i \in 1..m, p[i] = "snapshot" PROVE HasSnapshot(s)
  <2> HIDE DEF n, m
  <2>1. n + i \in 1..n + m /\ ~(n + i <= n) /\ (n + i) - n = i
        BY <1>2
  <2>2. s[n + i] = "snapshot"
        BY <1>1, <1>4, <2>1
  <2> QED BY <1>1, <2>1, <2>2 DEF HasSnapshot
<1>5. HasSnapshot(q) \/ HasSnapshot(p) => HasSnapshot(s)
      BY <1>3, <1>4 DEF HasSnapshot
<1> QED BY <1>1, <1>5 DEF s

LEMMA QueueTail ==
  ASSUME NEW q \in Seq(Frame), q # <<>>
  PROVE  Tail(q) \in Seq(Frame) /\ (HasSnapshot(q) /\ Head(q) # "snapshot" => HasSnapshot(Tail(q)))
<1> DEFINE n == Len(q)
           s == Tail(q)
<1>1. s \in Seq(Frame) /\ Len(s) = n - 1 /\ Head(q) = q[1] /\ \A i \in 1..n - 1 : s[i] = q[i + 1]
      BY HeadTailProperties
<1>2. n \in Nat /\ n > 0
      OBVIOUS
<1> HIDE DEF s, n
<1>3. ASSUME NEW i \in 1..n, q[i] = "snapshot", Head(q) # "snapshot" PROVE HasSnapshot(s)
  <2>1. i - 1 \in 1..n - 1 /\ (i - 1) + 1 = i
        BY <1>1, <1>2, <1>3
  <2>2. s[i - 1] = "snapshot"
        BY <1>1, <1>3, <2>1
  <2> QED BY <1>1, <2>1, <2>2 DEF HasSnapshot
<1>4. HasSnapshot(q) /\ Head(q) # "snapshot" => HasSnapshot(s)
      BY <1>3 DEF HasSnapshot, n
<1> QED BY <1>1, <1>4 DEF s

LEMMA QueuedIs ==
  ASSUME NEW r, StreamShape(r), NEW p \in Seq(Frame)
  PROVE  LET r2 == [r EXCEPT !.queue = @ \o p]
         IN /\ StreamShape(r2) /\ r2.class = r.class /\ r2.at = r.at /\ r2.shown = r.shown
            /\ r2.queue = r.queue \o p
<1> DEFINE s == r.queue \o p
           r2 == [r EXCEPT !.queue = s]
           y == [class |-> r.class, queue |-> s, at |-> r.at, shown |-> r.shown]
<1>1. s \in Seq(Frame)
      BY QueueGrows DEF StreamShape
<1> HIDE DEF s
<1>2. \A q, a, b, d, f, z : q = [class |-> a, queue |-> b, at |-> d, shown |-> f]
                            => [q EXCEPT !.queue = z] = [class |-> a, queue |-> z, at |-> d, shown |-> f]
      OBVIOUS
<1>3. r = [class |-> r.class, queue |-> r.queue, at |-> r.at, shown |-> r.shown]
      BY DEF StreamShape
<1>4. r2 = y
      BY <1>2, <1>3
<1>5. StreamShape(y) /\ y.class = r.class /\ y.at = r.at /\ y.shown = r.shown /\ y.queue = s
      BY <1>1 DEF StreamShape
<1> HIDE DEF y
<1>6. StreamShape(r2) /\ r2.class = r.class /\ r2.at = r.at /\ r2.shown = r.shown /\ r2.queue = s
      BY <1>4, <1>5, Zenon
<1> QED BY <1>6, Zenon DEF s

(* Every class exists that did.                                                *)
Lasting == \A d \in Class : C!Exists(d) => C!Exists(d)'
(* All other classes are as they were.                                         *)
OthersStay(c) == \A d \in Class : d # c => cMeta'[d] = cMeta[d] /\ cStudents'[d] = cStudents[d]

LEMMA AnnounceStep ==
  ASSUME Streams, NEW c \in Class, NEW p \in Seq(Frame), C!Announce(c, p), Lasting, OthersStay(c),
         CurrentBut(c), HasSnapshot(p) \/ \A e \in Stream : cStream[e].class # c
  PROVE  Streams' /\ CurrentBut(None)'
<1> USE NoneAssumption
<1>1. cStream' = [e \in Stream |-> IF cStream[e].class = c /\ cStream[e].at # "respond"
                                   THEN [cStream[e] EXCEPT !.queue = @ \o p] ELSE cStream[e]]
      BY Zenon DEF C!Announce, C!Queues
<1>2. ASSUME NEW e \in Stream
      PROVE  /\ StreamShape(cStream'[e]) /\ cStream'[e].class = cStream[e].class
             /\ cStream'[e].at = cStream[e].at /\ cStream'[e].shown = cStream[e].shown
             /\ HasSnapshot(cStream[e].queue) => HasSnapshot(cStream'[e].queue)
             /\ cStream[e].class = c /\ Subscribed(e) => HasSnapshot(cStream'[e].queue)
  <2>1. StreamShape(cStream[e])
        BY DEF Streams
  <2>2. CASE cStream[e].class = c /\ cStream[e].at # "respond"
    <3> DEFINE r == cStream[e]
               r2 == [r EXCEPT !.queue = @ \o p]
    <3>1. cStream'[e] = r2
          BY <1>1, <2>2, Zenon
    <3>2. /\ StreamShape(r2) /\ r2.class = r.class /\ r2.at = r.at /\ r2.shown = r.shown
          /\ r2.queue = r.queue \o p
          BY <2>1, QueuedIs, Zenon
    <3>3. r.queue \in Seq(Frame)
          BY <2>1 DEF StreamShape
    <3>4. HasSnapshot(r.queue) \/ HasSnapshot(p) => HasSnapshot(r.queue \o p)
          BY <3>3, QueueGrows
    <3>5. HasSnapshot(p)
          BY <2>2
    <3> HIDE DEF r2
    <3> QED BY <3>1, <3>2, <3>4, <3>5
  <2>3. CASE ~(cStream[e].class = c /\ cStream[e].at # "respond")
    <3>1. cStream'[e] = cStream[e]
          BY <1>1, <2>3, Zenon
    <3>2. ~(cStream[e].class = c /\ Subscribed(e))
          BY <2>3 DEF Subscribed
    <3> QED BY <2>1, <3>1, <3>2
  <2> QED BY <2>2, <2>3
<1>3. Streams'
  <2>1. cStream' = [e \in Stream |-> cStream'[e]]
        BY <1>1, Zenon
  <2>2. ASSUME NEW e \in Stream, cStream'[e].class # None PROVE C!Exists(cStream[e].class)'
    <3>1. PICK d \in Class : d = cStream[e].class /\ C!Exists(d)
          BY <1>2, <2>2 DEF Streams, StreamShape
    <3>2. C!Exists(d)'
          BY <3>1 DEF Lasting
    <3>3. d = cStream'[e].class
          BY <1>2, <3>1
    <3> QED BY <3>2, <3>3 DEF C!Exists
  <2> QED BY <1>2, <2>1, <2>2 DEF Streams
<1>4. ASSUME NEW e \in Stream, Subscribed(e)' PROVE Current(e)'
  <2>1. Subscribed(e)
        BY <1>2, <1>4 DEF Subscribed
  <2>2. CASE cStream[e].class = c
        BY <1>2, <2>1, <2>2 DEF Current
  <2>3. CASE cStream[e].class # c
    <3>1. Current(e) /\ cStream[e].class \in Class
          BY <2>1, <2>3 DEF CurrentBut, Streams, StreamShape, Subscribed
    <3>2. C!Snapshot(cStream[e].class)' = C!Snapshot(cStream[e].class)
          BY <1>2, <2>3, <3>1 DEF OthersStay, C!Snapshot
    <3> QED BY <1>2, <3>1, <3>2 DEF Current
  <2> QED BY <2>2, <2>3
<1> QED BY <1>3, <1>4 DEF CurrentBut

LEMMA StreamsStay ==
  ASSUME Streams, cStream' = cStream, NEW c \in Class, Lasting, OthersStay(c), CurrentBut(c)
  PROVE  Streams' /\ CurrentBut(c)'
<1>1. Streams'
  <2>1. ASSUME NEW e \in Stream, cStream[e].class # None PROVE C!Exists(cStream[e].class)'
    <3>1. cStream[e].class \in Class /\ C!Exists(cStream[e].class)
          BY <2>1 DEF Streams, StreamShape
    <3> QED BY <3>1 DEF Lasting
  <2> QED BY <2>1 DEF Streams, C!Exists
<1>2. ASSUME NEW e \in Stream, Subscribed(e)', cStream'[e].class # c PROVE Current(e)'
  <2>1. Subscribed(e) /\ cStream[e].class # c
        BY <1>2 DEF Subscribed
  <2>2. Current(e) /\ cStream[e].class \in Class
        BY <2>1, NoneAssumption DEF CurrentBut, Streams, StreamShape, Subscribed
  <2>3. C!Snapshot(cStream[e].class)' = C!Snapshot(cStream[e].class)
        BY <2>1, <2>2 DEF OthersStay, C!Snapshot
  <2> QED BY <2>2, <2>3 DEF Current
<1> QED BY <1>1, <1>2 DEF CurrentBut

(* Writes                                                                      *)
RoomWrite(w) ==
  /\ cConfig' = IF w.doc = "config" THEN [cConfig EXCEPT ![w.of] = w.is] ELSE cConfig
  /\ cMeta' = IF w.doc = "meta" THEN [cMeta EXCEPT ![w.of] = w.is] ELSE cMeta
  /\ cStudents' = IF w.doc = "students" THEN [cStudents EXCEPT ![w.of] = w.is] ELSE cStudents
  /\ IF w.doc = "announce" THEN C!Announce(w.of, w.is) ELSE UNCHANGED cStream

LEMMA RoomPut ==
  ASSUME NEW k, NEW o, NEW i
  PROVE  C!Put(k, o, i).doc = k /\ C!Put(k, o, i).of = o /\ C!Put(k, o, i).is = i
BY DEF C!Put

LEMMA ConfigWrite ==
  ASSUME NEW a, NEW d, RoomWrite(ConfigIs(a, d))
  PROVE  cConfig' = [cConfig EXCEPT ![a] = d] /\ cMeta' = cMeta /\ cStudents' = cStudents /\ cStream' = cStream
<1> DEFINE w == ConfigIs(a, d)
<1>1. w.doc = "config" /\ w.of = a /\ w.is = d
      BY RoomPut DEF ConfigIs
<1> HIDE DEF w
<1>2. RoomWrite(w)
      BY DEF w
<1> QED BY <1>1, <1>2 DEF RoomWrite

LEMMA MetaWrite ==
  ASSUME NEW c, NEW t, RoomWrite(RoomMetaIs(c, t))
  PROVE  /\ cMeta' = [cMeta EXCEPT ![c] = [teacher |-> t, version |-> 0]]
         /\ cConfig' = cConfig /\ cStudents' = cStudents /\ cStream' = cStream
<1> DEFINE w == RoomMetaIs(c, t)
           m == [teacher |-> t, version |-> 0]
<1>1. w.doc = "meta" /\ w.of = c /\ w.is = m
      BY RoomPut DEF RoomMetaIs
<1> HIDE DEF w, m
<1>2. RoomWrite(w)
      BY DEF w
<1>3. /\ cMeta' = [cMeta EXCEPT ![c] = m]
      /\ cConfig' = cConfig /\ cStudents' = cStudents /\ cStream' = cStream
      BY <1>1, <1>2 DEF RoomWrite
<1> QED BY <1>3 DEF m

LEMMA RosterWrite ==
  ASSUME NEW c, NEW x, RoomWrite(RosterIs(c, x))
  PROVE  cStudents' = [cStudents EXCEPT ![c] = x] /\ cMeta' = cMeta /\ cConfig' = cConfig /\ cStream' = cStream
<1> DEFINE w == RosterIs(c, x)
<1>1. w.doc = "students" /\ w.of = c /\ w.is = x
      BY RoomPut DEF RosterIs
<1> HIDE DEF w
<1>2. RoomWrite(w)
      BY DEF w
<1> QED BY <1>1, <1>2 DEF RoomWrite

LEMMA AnnounceWrite ==
  ASSUME NEW c, NEW q, RoomWrite(Framed(c, q))
  PROVE  C!Announce(c, q) /\ cMeta' = cMeta /\ cConfig' = cConfig /\ cStudents' = cStudents
<1> DEFINE w == Framed(c, q)
<1>1. w.doc = "announce" /\ w.of = c /\ w.is = q
      BY RoomPut DEF Framed
<1> HIDE DEF w
<1>2. RoomWrite(w)
      BY DEF w
<1> QED BY <1>1, <1>2, Zenon DEF RoomWrite

LEMMA ConfigStep ==
  ASSUME RoomTypes, Streams, NEW a \in C!Account, NEW d \in Class \cup {None}, NEW c \in Class,
         RoomWrite(ConfigIs(a, d)), cCrashes' = cCrashes, CurrentBut(c)
  PROVE  /\ RoomTypes' /\ Streams' /\ CurrentBut(c)' /\ cMeta' = cMeta /\ cStudents' = cStudents /\ cStream' = cStream
         /\ cConfig'[a] = d /\ (BackedBut(None) => BackedBut(a)') /\ (Bare => Bare')
<1>1. cConfig' = [cConfig EXCEPT ![a] = d] /\ cMeta' = cMeta /\ cStudents' = cStudents /\ cStream' = cStream
      BY ConfigWrite
<1>2. RoomTypes' /\ cConfig'[a] = d /\ \A b \in C!Account : b # a => cConfig'[b] = cConfig[b]
      BY <1>1 DEF RoomTypes
<1>3. Lasting /\ OthersStay(c)
      BY <1>1 DEF Lasting, OthersStay, C!Exists
<1>4. Streams' /\ CurrentBut(c)'
      BY <1>1, <1>3, StreamsStay
<1>5. ASSUME BackedBut(None) PROVE BackedBut(a)'
  <2>1. \A b \in C!Account : b # None
        BY NoneAssumption DEF C!Account
  <2> QED BY <1>1, <1>2, <1>5, <2>1 DEF BackedBut, Backed
<1>6. Bare => Bare'
      BY <1>1 DEF Bare
<1> QED BY <1>1, <1>2, <1>4, <1>5, <1>6

LEMMA RosterStep ==
  ASSUME RoomTypes, Streams, NEW c \in Class, NEW x, DOMAIN x \subseteq Student,
         RoomWrite(RosterIs(c, x)), cCrashes' = cCrashes, CurrentBut(c)
  PROVE  /\ RoomTypes' /\ Streams' /\ CurrentBut(c)' /\ cMeta' = cMeta /\ cConfig' = cConfig /\ cStream' = cStream
         /\ cStudents'[c] = x /\ \A d \in Class : d # c => cStudents'[d] = cStudents[d]
<1>1. cStudents' = [cStudents EXCEPT ![c] = x] /\ cMeta' = cMeta /\ cConfig' = cConfig /\ cStream' = cStream
      BY RosterWrite
<1>2. cStudents'[c] = x /\ \A d \in Class : d # c => cStudents'[d] = cStudents[d]
      BY <1>1 DEF RoomTypes
<1>3. RoomTypes'
  <2>1. cStudents' = [d \in Class |-> cStudents'[d]]
        BY <1>1 DEF RoomTypes
  <2> QED BY <1>1, <1>2, <2>1 DEF RoomTypes
<1>4. Lasting /\ OthersStay(c)
      BY <1>1, <1>2 DEF Lasting, OthersStay, C!Exists
<1>5. Streams' /\ CurrentBut(c)'
      BY <1>1, <1>4, StreamsStay
<1> QED BY <1>1, <1>2, <1>3, <1>5

LEMMA ToldStepRooms ==
  ASSUME RoomTypes, Streams, NEW c \in Class, NEW q \in Seq(Frame),
         RoomWrite(Framed(c, q)), cCrashes' = cCrashes, CurrentBut(c),
         HasSnapshot(q) \/ \A e \in Stream : cStream[e].class # c
  PROVE  /\ RoomTypes' /\ Streams' /\ CurrentBut(None)'
         /\ (BackedBut(None) => BackedBut(None)') /\ (Bare => Bare')
<1>1. C!Announce(c, q) /\ cMeta' = cMeta /\ cConfig' = cConfig /\ cStudents' = cStudents
      BY AnnounceWrite
<1>2. RoomTypes' /\ (BackedBut(None) => BackedBut(None)') /\ (Bare => Bare')
      BY <1>1 DEF RoomTypes, BackedBut, Backed, Bare
<1>3. Lasting /\ OthersStay(c)
      BY <1>1 DEF Lasting, OthersStay, C!Exists
<1>4. Streams' /\ CurrentBut(None)'
      BY <1>1, <1>3, AnnounceStep
<1> QED BY <1>2, <1>4

LEMMA Snapshots ==
  /\ <<"snapshot">> \in Seq(Frame) /\ HasSnapshot(<<"snapshot">>)
  /\ <<"snapshot", "end">> \in Seq(Frame) /\ HasSnapshot(<<"snapshot", "end">>)
  /\ <<>> \in Seq(Frame)
BY DEF HasSnapshot, Frame

(* A student joins or leaves: the next write.                                  *)
LEMMA EnlistWrite ==
  ASSUME RoomInv, NEW a \in Student, NEW c \in Class, NEW d \in Class \cup {None}, NEW x,
         Enlists(a, c, d, x), RoomWrite(Head(cTodo)), cTodo' = Tail(cTodo), cCrashes' = cCrashes
  PROVE  RoomInv' /\ C!TeacherKept
<1> USE NoneAssumption
<1>1. /\ RoomTypes /\ Streams /\ CurrentBut(c) /\ C!Exists(c) /\ a \in C!Account /\ a # None /\ c # None
      /\ DOMAIN x \subseteq Student /\ DOMAIN cStudents[c] \ {a} \subseteq DOMAIN x
      /\ d \in {c, None}
      /\ d = c => a \in DOMAIN x
      /\ cCrashes = 0 => Bare
      BY DEF RoomInv, Enlists, C!Account
<1>2. CASE cTodo = <<ConfigIs(a, d), RosterIs(c, x), Framed(c, <<"snapshot">>)>>
           /\ (cCrashes = 0 => BackedBut(None))
  <2>1. Head(cTodo) = ConfigIs(a, d) /\ Tail(cTodo) = <<RosterIs(c, x), Framed(c, <<"snapshot">>)>>
        BY <1>2
  <2>2. RoomWrite(ConfigIs(a, d)) /\ cTodo' = <<RosterIs(c, x), Framed(c, <<"snapshot">>)>>
        BY <2>1
  <2>3. /\ RoomTypes' /\ Streams' /\ CurrentBut(c)' /\ cMeta' = cMeta /\ cStudents' = cStudents /\ cStream' = cStream
        /\ cConfig'[a] = d /\ (BackedBut(None) => BackedBut(a)') /\ (Bare => Bare')
        BY <1>1, <2>2, ConfigStep
  <2>4. Enlists(a, c, d, x)'
        BY <1>1, <1>2, <2>2, <2>3 DEF Enlists, C!Exists
  <2> QED BY <2>3, <2>4 DEF RoomInv, C!TeacherKept
<1>3. CASE cTodo = <<RosterIs(c, x), Framed(c, <<"snapshot">>)>>
           /\ (cCrashes = 0 => cConfig[a] = d /\ BackedBut(a))
  <2>1. Head(cTodo) = RosterIs(c, x) /\ Tail(cTodo) = <<Framed(c, <<"snapshot">>)>>
        BY <1>3
  <2>2. RoomWrite(RosterIs(c, x)) /\ cTodo' = <<Framed(c, <<"snapshot">>)>>
        BY <2>1
  <2>3. /\ RoomTypes' /\ Streams' /\ CurrentBut(c)' /\ cMeta' = cMeta /\ cConfig' = cConfig /\ cStream' = cStream
        /\ cStudents'[c] = x /\ \A b \in Class : b # c => cStudents'[b] = cStudents[b]
        BY <1>1, <2>2, RosterStep
  <2>4. cCrashes' = 0 => Bare'
    <3>1. cMeta[c].teacher # None
          BY <1>1 DEF C!Exists
    <3> QED BY <1>1, <2>3, <3>1 DEF Bare
  <2>5. ASSUME cCrashes' = 0, NEW b \in C!Account PROVE Backed(b)'
    <3>1. CASE b = a
      <4>1. cConfig'[b] = d /\ b = a
            BY <1>3, <2>3, <2>5, <3>1
      <4>2. CASE d = None
            BY <4>1, <4>2 DEF Backed
      <4>3. CASE d = c
        <5>1. b \in DOMAIN cStudents'[c]
              BY <1>1, <2>3, <4>1, <4>3
        <5> QED BY <4>1, <4>3, <5>1 DEF Backed
      <4>4. d = None \/ d = c
            BY <1>1
      <4> QED BY <4>2, <4>3, <4>4, Zenon
    <3>2. CASE b # a
      <4>1. Backed(b) /\ cConfig[b] \in Class \cup {None}
            BY <1>1, <1>3, <2>5, <3>2 DEF BackedBut, RoomTypes
      <4> QED BY <1>1, <2>3, <3>2, <4>1 DEF Backed
    <3> QED BY <3>1, <3>2
  <2>6. Enlists(a, c, d, x)'
        BY <1>1, <2>2, <2>3, <2>4, <2>5 DEF Enlists, C!Exists, BackedBut
  <2> QED BY <2>3, <2>6 DEF RoomInv, C!TeacherKept
<1>4. CASE cTodo = <<Framed(c, <<"snapshot">>)>> /\ (cCrashes = 0 => BackedBut(None))
  <2>1. Head(cTodo) = Framed(c, <<"snapshot">>) /\ Tail(cTodo) = <<>>
        BY <1>4
  <2>2. RoomWrite(Framed(c, <<"snapshot">>)) /\ cTodo' = <<>>
        BY <2>1
  <2>3. /\ RoomTypes' /\ Streams' /\ CurrentBut(None)'
        /\ (BackedBut(None) => BackedBut(None)') /\ (Bare => Bare')
        BY <1>1, <2>2, ToldStepRooms, Snapshots
  <2>4. RoomsQuiet'
        BY <1>1, <1>4, <2>2, <2>3 DEF RoomsQuiet
  <2>5. cMeta' = cMeta
        BY <2>2, AnnounceWrite
  <2> QED BY <2>3, <2>4, <2>5 DEF RoomInv, C!TeacherKept
<1> QED BY <1>2, <1>3, <1>4 DEF Enlists

(* A class is created: the next write.                                         *)
LEMMA CreateWrite ==
  ASSUME RoomInv, NEW t \in Teacher, NEW c \in Class,
         Creates(t, c), RoomWrite(Head(cTodo)), cTodo' = Tail(cTodo), cCrashes' = cCrashes
  PROVE  RoomInv' /\ C!TeacherKept
<1> USE NoneAssumption
<1>1. /\ RoomTypes /\ Streams /\ CurrentBut(None) /\ CurrentBut(c) /\ t \in C!Account /\ t # None /\ c # None
      /\ \A e \in Stream : cStream[e].class # c
  <2>1. CurrentBut(None) /\ Streams /\ \A e \in Stream : cStream[e].class # c
        BY DEF RoomInv, Creates
  <2>2. CurrentBut(c)
    <3>1. \A e \in Stream : Subscribed(e) => cStream[e].class # None
          BY <2>1 DEF Streams, StreamShape, Subscribed
    <3> QED BY <2>1, <3>1 DEF CurrentBut
  <2> QED BY <2>1, <2>2 DEF RoomInv, C!Account
<1>2. ASSUME CurrentBut(c)', cStream' = cStream PROVE CurrentBut(None)' /\ \A e \in Stream : cStream'[e].class # c
      BY <1>1, <1>2 DEF CurrentBut
<1> DEFINE w1 == ConfigIs(t, c)
           w2 == RoomMetaIs(c, t)
           w3 == RosterIs(c, NoStudents)
           w4 == Framed(c, <<>>)
<1>3. CASE cTodo = <<w1, w2, w3, w4>> /\ cMeta[c].teacher = None /\ (cCrashes = 0 => BackedBut(None) /\ Bare)
  <2>1. RoomWrite(w1) /\ cTodo' = <<w2, w3, w4>>
    <3> HIDE DEF w1, w2, w3, w4
    <3>1. Head(cTodo) = w1 /\ Tail(cTodo) = <<w2, w3, w4>>
          BY <1>3
    <3> QED BY <3>1
  <2>2. /\ RoomTypes' /\ Streams' /\ CurrentBut(c)' /\ cMeta' = cMeta /\ cStudents' = cStudents /\ cStream' = cStream
        /\ cConfig'[t] = c /\ (BackedBut(None) => BackedBut(t)') /\ (Bare => Bare')
        BY <1>1, <2>1, ConfigStep
  <2>3. Creates(t, c)'
        BY <1>2, <1>3, <2>1, <2>2 DEF Creates
  <2> QED BY <2>2, <2>3 DEF RoomInv, C!TeacherKept
<1>4. CASE cTodo = <<w2, w3, w4>> /\ cMeta[c].teacher = None
           /\ (cCrashes = 0 => cConfig[t] = c /\ BackedBut(t) /\ Bare)
  <2>1. RoomWrite(w2) /\ cTodo' = <<w3, w4>>
    <3> HIDE DEF w2, w3, w4
    <3>1. Head(cTodo) = w2 /\ Tail(cTodo) = <<w3, w4>>
          BY <1>4
    <3> QED BY <3>1
  <2> DEFINE m == [teacher |-> t, version |-> 0]
  <2>2. cMeta' = [cMeta EXCEPT ![c] = m] /\ cConfig' = cConfig /\ cStudents' = cStudents /\ cStream' = cStream
        BY <2>1, MetaWrite
  <2>3. m \in RoomMeta /\ m.teacher = t
        BY <1>1, BoundAssumption DEF RoomMeta
  <2> HIDE DEF m
  <2>4. cMeta'[c] = m /\ \A d \in Class : d # c => cMeta'[d] = cMeta[d]
        BY <1>1, <2>2 DEF RoomTypes
  <2>5. RoomTypes'
        BY <1>1, <2>2, <2>3 DEF RoomTypes
  <2>6. Lasting /\ OthersStay(c)
        BY <1>1, <2>2, <2>3, <2>4 DEF Lasting, OthersStay, C!Exists
  <2>7. Streams' /\ CurrentBut(c)'
        BY <1>1, <2>2, <2>6, StreamsStay
  <2>8. cCrashes' = 0 => Bare' /\ DOMAIN cStudents'[c] = {}
        BY <1>1, <1>4, <2>2, <2>3, <2>4 DEF Bare
  <2>9. ASSUME cCrashes' = 0, NEW b \in C!Account PROVE Backed(b)'
    <3>1. CASE b = t
          BY <1>1, <1>4, <2>2, <2>3, <2>4, <2>9, <3>1 DEF Backed
    <3>2. CASE b # t
      <4>1. Backed(b) /\ cConfig[b] \in Class \cup {None} /\ b # None
            BY <1>1, <1>4, <2>9, <3>2 DEF BackedBut, RoomTypes, C!Account
      <4>2. cConfig[b] # c
        <5>1. DOMAIN cStudents[c] = {}
              BY <2>2, <2>8, <2>9
        <5> QED BY <1>1, <1>4, <4>1, <5>1 DEF Backed
      <4> QED BY <2>2, <2>4, <4>1, <4>2 DEF Backed
    <3> QED BY <3>1, <3>2
  <2>10. Creates(t, c)'
        BY <1>2, <2>1, <2>2, <2>7, <2>8, <2>9 DEF Creates, BackedBut
  <2>11. C!TeacherKept
        BY <1>4, <2>4 DEF C!TeacherKept, C!Exists
  <2> QED BY <2>5, <2>7, <2>10, <2>11 DEF RoomInv
<1>5. CASE cTodo = <<w3, w4>> /\ (cCrashes = 0 => BackedBut(None) /\ Bare /\ DOMAIN cStudents[c] = {})
  <2>1. RoomWrite(w3) /\ cTodo' = <<w4>>
    <3> HIDE DEF w3, w4
    <3>1. Head(cTodo) = w3 /\ Tail(cTodo) = <<w4>>
          BY <1>5
    <3> QED BY <3>1
  <2>2. DOMAIN NoStudents = {}
        BY DEF NoStudents
  <2>3. /\ RoomTypes' /\ Streams' /\ CurrentBut(c)' /\ cMeta' = cMeta /\ cConfig' = cConfig /\ cStream' = cStream
        /\ cStudents'[c] = NoStudents /\ \A b \in Class : b # c => cStudents'[b] = cStudents[b]
        BY <1>1, <2>1, <2>2, RosterStep
  <2>4. ASSUME cCrashes' = 0 PROVE Bare' /\ BackedBut(None)'
    <3>1. \A b \in Class : DOMAIN cStudents'[b] = DOMAIN cStudents[b]
          BY <1>5, <2>2, <2>3, <2>4
    <3>2. Bare'
          BY <1>5, <2>3, <2>4, <3>1 DEF Bare
    <3>3. BackedBut(None)'
          BY ZenonT(60), <1>1, <1>5, <2>3, <2>4, <3>1 DEF BackedBut, Backed, RoomTypes
    <3> QED BY <3>2, <3>3
  <2>5. Creates(t, c)'
        BY <1>2, <2>1, <2>3, <2>4 DEF Creates
  <2> QED BY <2>3, <2>5 DEF RoomInv, C!TeacherKept
<1>6. CASE cTodo = <<w4>> /\ (cCrashes = 0 => BackedBut(None) /\ Bare)
  <2>1. RoomWrite(w4) /\ cTodo' = <<>>
    <3> HIDE DEF w4
    <3>1. Head(cTodo) = w4 /\ Tail(cTodo) = <<>>
          BY <1>6
    <3> QED BY <3>1
  <2>2. /\ RoomTypes' /\ Streams' /\ CurrentBut(None)'
        /\ (BackedBut(None) => BackedBut(None)') /\ (Bare => Bare')
        BY <1>1, <2>1, ToldStepRooms, Snapshots
  <2>3. RoomsQuiet'
        BY <1>6, <2>1, <2>2 DEF RoomsQuiet
  <2>4. cMeta' = cMeta
        BY <2>1, AnnounceWrite
  <2> QED BY <2>2, <2>3, <2>4 DEF RoomInv, C!TeacherKept
<1> QED BY <1>3, <1>4, <1>5, <1>6 DEF Creates

(* Requests                                                                    *)

LEMMA CreateRoomStep ==
  ASSUME RoomInv, NEW t \in Teacher, NEW c \in Class, C!Create(t, c)
  PROVE  RoomInv' /\ C!TeacherKept
<1> USE NoneAssumption
<1>1. /\ cTodo = <<>> /\ ~C!Exists(c)
      /\ cTodo' = <<ConfigIs(t, c), RoomMetaIs(c, t), RosterIs(c, NoStudents), Framed(c, <<>>)>>
      /\ UNCHANGED <<cConfig, cMeta, cStudents, cStream, cCrashes>>
      BY Zenon DEF C!Create, C!Ready, C!Free, C!Fresh, ConfigIs, RoomMetaIs, RosterIs, Framed, NoStudents
<1>2. RoomTypes /\ Streams /\ RoomsQuiet
      BY <1>1, QuietIs
<1>3. RoomTypes'
      BY <1>1, <1>2 DEF RoomTypes
<1>4. Lasting /\ OthersStay(c) /\ CurrentBut(c)
      BY <1>1, <1>2 DEF Lasting, OthersStay, C!Exists, RoomsQuiet, CurrentBut, Streams, StreamShape, Subscribed
<1>5. Streams'
      BY <1>1, <1>2, <1>4, StreamsStay
<1>6. \A e \in Stream : cStream[e].class # c
      BY <1>1, <1>2 DEF Streams, StreamShape
<1>7. CurrentBut(None)'
      BY <1>1, <1>2 DEF RoomsQuiet, CurrentBut, Current, Subscribed, C!Snapshot
<1>8. cMeta'[c].teacher = None
      BY <1>1 DEF C!Exists
<1>9. cCrashes' = 0 => BackedBut(None)' /\ Bare'
      BY <1>1, <1>2 DEF RoomsQuiet, BackedBut, Backed, Bare
<1>10. Creates(t, c)'
      BY <1>1, <1>6, <1>7, <1>8, <1>9 DEF Creates
<1> QED BY <1>1, <1>3, <1>5, <1>10 DEF RoomInv, C!TeacherKept

LEMMA CurrentAll == ASSUME Streams, CurrentBut(None), NEW c PROVE CurrentBut(c)
<1>1. \A e \in Stream : Subscribed(e) => cStream[e].class # None
      BY DEF Streams, StreamShape, Subscribed
<1> QED BY <1>1 DEF CurrentBut

LEMMA EnlistStep ==
  ASSUME RoomInv, NEW a \in Student, NEW c \in Class, C!Exists(c), cTodo = <<>>,
         NEW d \in {c, None}, NEW x, DOMAIN x \subseteq Student, DOMAIN cStudents[c] \ {a} \subseteq DOMAIN x,
         d = c => a \in DOMAIN x,
         cTodo' = <<ConfigIs(a, d), RosterIs(c, x), Framed(c, <<"snapshot">>)>>,
         UNCHANGED <<cConfig, cMeta, cStudents, cStream, cCrashes>>
  PROVE  RoomInv' /\ C!TeacherKept
<1>1. RoomTypes /\ Streams /\ RoomsQuiet
      BY QuietIs
<1>2. CurrentBut(c)
      BY <1>1, CurrentAll DEF RoomsQuiet
<1>3. Lasting /\ OthersStay(c)
      BY DEF Lasting, OthersStay, C!Exists
<1>4. Streams' /\ CurrentBut(c)'
      BY <1>1, <1>2, <1>3, StreamsStay
<1>5. RoomTypes'
      BY <1>1 DEF RoomTypes
<1>6. cCrashes' = 0 => BackedBut(None)' /\ Bare'
      BY <1>1 DEF RoomsQuiet, BackedBut, Backed, Bare
<1>7. Enlists(a, c, d, x)'
      BY <1>4, <1>6 DEF Enlists, C!Exists
<1> QED BY <1>4, <1>5, <1>7 DEF RoomInv, C!TeacherKept

LEMMA JoinStep ==
  ASSUME RoomInv, NEW a \in Student, NEW c \in Class, C!Join(a, c)
  PROVE  RoomInv' /\ C!TeacherKept
<1> DEFINE x == C!Enrolled(c, a)
<1>1. /\ cTodo = <<>> /\ C!Exists(c)
      /\ cTodo' = <<ConfigIs(a, c), RosterIs(c, x), Framed(c, <<"snapshot">>)>>
      /\ UNCHANGED <<cConfig, cMeta, cStudents, cStream, cCrashes>>
      BY Zenon DEF C!Join, C!Ready, C!Free, ConfigIs, RosterIs, Framed
<1>2. DOMAIN x = DOMAIN cStudents[c] \cup {a}
      BY DEF C!Enrolled
<1>3. DOMAIN cStudents[c] \subseteq Student
      BY DEF RoomInv, RoomTypes
<1> HIDE DEF x
<1> QED BY <1>1, <1>2, <1>3, EnlistStep

LEMMA LeaveStep ==
  ASSUME RoomInv, NEW a \in Student, NEW c \in Class, C!Leave(a, c)
  PROVE  RoomInv' /\ C!TeacherKept
<1> DEFINE x == C!Dismissed(c, a)
<1>1. /\ cTodo = <<>> /\ C!Exists(c)
      /\ cTodo' = <<ConfigIs(a, None), RosterIs(c, x), Framed(c, <<"snapshot">>)>>
      /\ UNCHANGED <<cConfig, cMeta, cStudents, cStream, cCrashes>>
      BY Zenon DEF C!Leave, C!Ready, C!Free, C!LeaveFrames, ConfigIs, RosterIs, Framed
<1>2. DOMAIN x = DOMAIN cStudents[c] \ {a}
      BY DEF C!Dismissed
<1>3. DOMAIN cStudents[c] \subseteq Student
      BY DEF RoomInv, RoomTypes
<1>4. None # c
      BY NoneAssumption
<1> HIDE DEF x
<1> QED BY <1>1, <1>2, <1>3, <1>4, EnlistStep

(* A handler of one write: the class changes and its streams are told.         *)
LEMMA ChangeStep ==
  ASSUME RoomInv, NEW c \in Class, cTodo = <<>>, NEW q \in Seq(Frame), HasSnapshot(q), C!Announce(c, q),
         OthersStay(c), RoomTypes', cMeta'[c].teacher = cMeta[c].teacher,
         DOMAIN cStudents'[c] = DOMAIN cStudents[c], UNCHANGED <<cConfig, cTodo, cCrashes>>
  PROVE  RoomInv' /\ C!TeacherKept
<1>1. RoomTypes /\ Streams /\ RoomsQuiet
      BY QuietIs
<1>2. CurrentBut(c)
      BY <1>1, CurrentAll DEF RoomsQuiet
<1>3. \A d \in Class : cMeta'[d].teacher = cMeta[d].teacher /\ DOMAIN cStudents'[d] = DOMAIN cStudents[d]
      BY DEF OthersStay
<1>4. Lasting
      BY <1>3 DEF Lasting, C!Exists
<1>5. Streams' /\ CurrentBut(None)'
      BY <1>1, <1>2, <1>4, AnnounceStep
<1>6. cCrashes' = 0 => BackedBut(None)' /\ Bare'
      BY ZenonT(60), <1>1, <1>3 DEF RoomsQuiet, BackedBut, Backed, Bare, RoomTypes
<1>7. RoomsQuiet'
      BY <1>5, <1>6 DEF RoomsQuiet
<1>8. C!TeacherKept
      BY <1>3 DEF C!TeacherKept
<1> QED BY <1>5, <1>7, <1>8 DEF RoomInv

LEMMA UpdateMetaStep ==
  ASSUME RoomInv, NEW a, NEW c \in Class, C!UpdateMeta(a, c)
  PROVE  RoomInv' /\ C!TeacherKept
<1> DEFINE v == cMeta[c].version + 1
           m == [cMeta[c] EXCEPT !.version = v]
<1>1. /\ cTodo = <<>> /\ C!Announce(c, <<"snapshot">>) /\ cMeta[c].version < MaxChanges
      /\ cMeta' = [cMeta EXCEPT ![c] = m]
      /\ UNCHANGED <<cConfig, cStudents, cTodo, cCrashes>>
      BY Zenon DEF C!UpdateMeta, C!Ready, C!Free
<1>2. RoomTypes
      BY DEF RoomInv
<1>5. cMeta[c] \in RoomMeta
      BY <1>2 DEF RoomTypes
<1>6. v \in 0..MaxChanges
      BY <1>1, <1>5, BoundAssumption DEF RoomMeta
<1> HIDE DEF v
<1>3. m \in RoomMeta /\ m.teacher = cMeta[c].teacher
      BY <1>5, <1>6 DEF RoomMeta
<1> HIDE DEF m
<1>4. RoomTypes' /\ cMeta'[c].teacher = cMeta[c].teacher /\ OthersStay(c)
      BY <1>1, <1>2, <1>3 DEF RoomTypes, OthersStay
<1> QED BY <1>1, <1>4, Snapshots, ChangeStep

LEMMA UpdateStateStep ==
  ASSUME RoomInv, NEW a, NEW c \in Class, NEW s, C!UpdateState(a, c, s)
  PROVE  RoomInv' /\ C!TeacherKept
<1> DEFINE v == cStudents[c][s] + 1
           x == [cStudents[c] EXCEPT ![s] = v]
<1>1. /\ cTodo = <<>> /\ C!Announce(c, <<"snapshot">>)
      /\ cStudents' = [cStudents EXCEPT ![c] = x]
      /\ UNCHANGED <<cConfig, cMeta, cTodo, cCrashes>>
      BY Zenon DEF C!UpdateState, C!Ready, C!Free
<1>2. RoomTypes
      BY DEF RoomInv
<1>3. DOMAIN x = DOMAIN cStudents[c]
      OBVIOUS
<1> HIDE DEF x
<1>4. RoomTypes' /\ DOMAIN cStudents'[c] = DOMAIN cStudents[c] /\ OthersStay(c)
      BY <1>1, <1>2, <1>3 DEF RoomTypes, OthersStay
<1> QED BY <1>1, <1>4, Snapshots, ChangeStep

LEMMA MarkStep ==
  ASSUME RoomInv, NEW a, NEW c \in Class, C!MarkExplained(a, c)
  PROVE  RoomInv' /\ C!TeacherKept
<1>1. /\ cTodo = <<>> /\ C!Announce(c, <<"snapshot", "end">>)
      /\ UNCHANGED <<cConfig, cMeta, cTodo, cCrashes>>
      BY Zenon DEF C!MarkExplained, C!Ready, C!Free
<1>2. \E x : cStudents' = [cStudents EXCEPT ![c] = x] /\ DOMAIN x = DOMAIN cStudents[c]
  <2>1. PICK w \in SUBSET DOMAIN cStudents[c] :
          cStudents' = [cStudents EXCEPT ![c] = [s \in DOMAIN @ |-> IF s \in w THEN @[s] + 1 ELSE @[s]]]
        BY Zenon DEF C!MarkExplained
  <2> DEFINE x == [s \in DOMAIN cStudents[c] |-> IF s \in w THEN cStudents[c][s] + 1 ELSE cStudents[c][s]]
  <2>2. cStudents' = [cStudents EXCEPT ![c] = x] /\ DOMAIN x = DOMAIN cStudents[c]
        BY <2>1
  <2> HIDE DEF x
  <2> QED BY <2>2
<1>3. PICK x : cStudents' = [cStudents EXCEPT ![c] = x] /\ DOMAIN x = DOMAIN cStudents[c]
      BY <1>2
<1>4. RoomTypes
      BY DEF RoomInv
<1>5. RoomTypes' /\ DOMAIN cStudents'[c] = DOMAIN cStudents[c] /\ OthersStay(c)
      BY <1>1, <1>3, <1>4 DEF RoomTypes, OthersStay
<1> QED BY <1>1, <1>5, Snapshots, ChangeStep

(* Streams of events                                                           *)

LEMMA StreamStep ==
  ASSUME RoomInv, NEW e \in Stream, NEW r, StreamShape(r),
         r.class # None => C!Exists(r.class),
         cStream' = [cStream EXCEPT ![e] = r],
         r.at \in {"send", "wait"} =>
           \/ cTodo = <<>> /\ (HasSnapshot(r.queue) \/ r.shown = C!Snapshot(r.class))
           \/ /\ r.class = cStream[e].class /\ r.queue = cStream[e].queue /\ r.shown = cStream[e].shown
              /\ Subscribed(e),
         cTodo # <<>> => r.class \in {None, cStream[e].class},
         UNCHANGED <<cConfig, cMeta, cStudents, cTodo, cCrashes>>
  PROVE  RoomInv' /\ C!TeacherKept
<1> USE NoneAssumption
<1>1. RoomTypes /\ Streams
      BY DEF RoomInv
<1>2. cStream'[e] = r /\ \A f \in Stream : f # e => cStream'[f] = cStream[f]
      BY <1>1 DEF Streams
<1>3. RoomTypes'
      BY <1>1 DEF RoomTypes
<1>4. Streams'
  <2>1. cStream' = [f \in Stream |-> cStream'[f]]
        BY <1>1 DEF Streams
  <2>2. \A f \in Stream : StreamShape(cStream'[f])
        BY <1>1, <1>2 DEF Streams
  <2>3. \A f \in Stream : cStream'[f].class # None => cMeta[cStream'[f].class].teacher # None
        BY <1>1, <1>2 DEF Streams, C!Exists
  <2> QED BY <2>1, <2>2, <2>3 DEF Streams, C!Exists
<1>5. ASSUME NEW c, CurrentBut(c) PROVE CurrentBut(c)'
  <2> SUFFICES ASSUME NEW f \in Stream, Subscribed(f)', cStream'[f].class # c PROVE Current(f)'
      BY DEF CurrentBut
  <2>1. CASE f # e
    <3>1. Current(f)
          BY <1>2, <1>5, <2>1 DEF CurrentBut, Subscribed
    <3> QED BY <1>2, <2>1, <3>1 DEF Current, C!Snapshot
  <2>2. CASE f = e
    <3>1. r.at \in {"send", "wait"} /\ r.class # c
          BY <1>2, <2>2 DEF Subscribed
    <3>2. CASE HasSnapshot(r.queue) \/ r.shown = C!Snapshot(r.class)
          BY <1>2, <2>2, <3>2 DEF Current, C!Snapshot
    <3>3. CASE /\ r.class = cStream[e].class /\ r.queue = cStream[e].queue
               /\ r.shown = cStream[e].shown /\ Subscribed(e)
      <4>1. Current(e)
            BY <1>5, <3>1, <3>3 DEF CurrentBut
      <4> QED BY <1>2, <2>2, <3>3, <4>1 DEF Current, C!Snapshot
    <3> QED BY <3>1, <3>2, <3>3
  <2> QED BY <2>1, <2>2
<1>6. \A x : (BackedBut(x) => BackedBut(x)') /\ (Bare => Bare')
      BY DEF BackedBut, Backed, Bare
<1>7. CASE RoomsQuiet
  <2>1. RoomsQuiet'
        BY <1>5, <1>6, <1>7 DEF RoomsQuiet
  <2> QED BY <1>3, <1>4, <2>1 DEF RoomInv, C!TeacherKept
<1>8. ASSUME NEW t \in Teacher, NEW c \in Class, Creates(t, c) PROVE RoomInv'
  <2>1. \A f \in Stream : cStream'[f].class # c
    <3>1. cTodo # <<>> /\ c # None
          BY <1>8 DEF Creates
    <3> QED BY <1>2, <1>8, <3>1 DEF Creates
  <2>2. CurrentBut(None)'
        BY <1>5, <1>8 DEF Creates
  <2>3. Creates(t, c)'
        BY <1>6, <1>8, <2>1, <2>2 DEF Creates
  <2> QED BY <1>3, <1>4, <2>3 DEF RoomInv
<1>9. ASSUME NEW a \in Student, NEW c \in Class, NEW d \in Class \cup {None}, NEW x, Enlists(a, c, d, x)
      PROVE  RoomInv'
  <2>1. CurrentBut(c)'
        BY <1>5, <1>9 DEF Enlists
  <2>2. Enlists(a, c, d, x)'
        BY <1>6, <1>9, <2>1 DEF Enlists, C!Exists
  <2> QED BY <1>3, <1>4, <2>2 DEF RoomInv
<1>10. RoomInv'
       BY <1>7, <1>8, <1>9 DEF RoomInv
<1> QED BY <1>10 DEF C!TeacherKept

(* A field of a stream is set.                                                 *)
LEMMA ClassIs ==
  \A q, a, b, d, f, w : q = [class |-> a, queue |-> b, at |-> d, shown |-> f]
    => [q EXCEPT !.class = w] = [class |-> w, queue |-> b, at |-> d, shown |-> f]
OBVIOUS

LEMMA QueueIs ==
  \A q, a, b, d, f, w : q = [class |-> a, queue |-> b, at |-> d, shown |-> f]
    => [q EXCEPT !.queue = w] = [class |-> a, queue |-> w, at |-> d, shown |-> f]
OBVIOUS

LEMMA AtIs ==
  \A q, a, b, d, f, w : q = [class |-> a, queue |-> b, at |-> d, shown |-> f]
    => [q EXCEPT !.at = w] = [class |-> a, queue |-> b, at |-> w, shown |-> f]
OBVIOUS

LEMMA ShownIs ==
  \A q, a, b, d, f, w : q = [class |-> a, queue |-> b, at |-> d, shown |-> f]
    => [q EXCEPT !.shown = w] = [class |-> a, queue |-> b, at |-> d, shown |-> w]
OBVIOUS

LEMMA ConnectRoomStep ==
  ASSUME RoomInv, NEW e \in Stream, NEW c \in Class, C!Connect(e, c)
  PROVE  RoomInv' /\ C!TeacherKept
<1> USE NoneAssumption
<1> DEFINE z == <<>>
           r == [class |-> c, queue |-> z, at |-> "respond", shown |-> None]
<1>1. /\ cTodo = <<>> /\ C!Exists(c)
      /\ cStream' = [cStream EXCEPT ![e] = [C!Closed EXCEPT !.class = c, !.at = "respond"]]
      /\ UNCHANGED <<cConfig, cMeta, cStudents, cTodo, cCrashes>>
      BY Zenon DEF C!Connect, C!Free
<1>7. C!Closed = [class |-> None, queue |-> z, at |-> "closed", shown |-> None]
      BY Zenon DEF C!Closed
<1> DEFINE r1 == [C!Closed EXCEPT !.class = c]
<1>8. r1 = [class |-> c, queue |-> z, at |-> "closed", shown |-> None]
      BY <1>7, ClassIs
<1>2. [C!Closed EXCEPT !.class = c, !.at = "respond"] = r
  <2>1. [C!Closed EXCEPT !.class = c, !.at = "respond"] = [r1 EXCEPT !.at = "respond"]
        OBVIOUS
  <2> HIDE DEF r1
  <2>2. [r1 EXCEPT !.at = "respond"] = r
        BY <1>8, AtIs
  <2> QED BY <2>1, <2>2, Zenon
<1>3. z \in Seq(Frame)
      BY Snapshots
<1> HIDE DEF z
<1>4. StreamShape(r) /\ r.class = c /\ r.at = "respond"
      BY <1>3 DEF StreamShape
<1> HIDE DEF r, C!Closed
<1>5. cStream' = [cStream EXCEPT ![e] = r]
      BY <1>1, <1>2
<1>6. r.at \notin {"send", "wait"}
      BY <1>4
<1> QED BY <1>1, <1>4, <1>5, <1>6, StreamStep

LEMMA DisconnectStep ==
  ASSUME RoomInv, NEW e \in Stream, C!Disconnect(e)
  PROVE  RoomInv' /\ C!TeacherKept
<1>1. cStream' = [cStream EXCEPT ![e] = C!Closed] /\ UNCHANGED <<cConfig, cMeta, cStudents, cTodo, cCrashes>>
      BY Zenon DEF C!Disconnect
<1>2. StreamShape(C!Closed) /\ C!Closed.class = None /\ C!Closed.at = "closed"
      BY Snapshots DEF C!Closed, StreamShape
<1>3. C!Closed.at \notin {"send", "wait"}
      BY <1>2
<1> HIDE DEF C!Closed
<1> QED BY <1>1, <1>2, <1>3, StreamStep

LEMMA SubscribeStep ==
  ASSUME RoomInv, NEW e \in Stream, C!Subscribe(e)
  PROVE  RoomInv' /\ C!TeacherKept
<1> DEFINE o == cStream[e]
           s == C!Snapshot(o.class)
           r == [class |-> o.class, queue |-> o.queue, at |-> "send", shown |-> s]
<1>1. /\ cTodo = <<>> /\ cStream[e].at = "respond"
      /\ cStream' = [cStream EXCEPT ![e].at = "send", ![e].shown = s]
      /\ UNCHANGED <<cConfig, cMeta, cStudents, cTodo, cCrashes>>
      BY Zenon DEF C!Subscribe, C!Free
<1>2. Streams /\ StreamShape(o)
      BY DEF RoomInv, Streams
<1> HIDE DEF s
<1>3. o = [class |-> o.class, queue |-> o.queue, at |-> o.at, shown |-> o.shown]
      BY <1>2 DEF StreamShape
<1>4. [o EXCEPT !.at = "send"] = [class |-> o.class, queue |-> o.queue, at |-> "send", shown |-> o.shown]
      BY <1>3, AtIs
<1> DEFINE o1 == [o EXCEPT !.at = "send"]
<1>5. [o1 EXCEPT !.shown = s] = r
  <2> HIDE DEF o1
  <2>1. o1 = [class |-> o.class, queue |-> o.queue, at |-> "send", shown |-> o.shown]
        BY <1>4 DEF o1
  <2> QED BY <2>1, ShownIs
<1>6. cStream' = [[cStream EXCEPT ![e] = o1] EXCEPT ![e] = [[cStream EXCEPT ![e] = o1][e] EXCEPT !.shown = s]]
      BY <1>1
<1>7. r = [o1 EXCEPT !.shown = s]
      BY <1>5
<1>8. StreamShape(r) /\ r.class = o.class /\ r.at = "send" /\ r.shown = s
      BY <1>1, <1>2 DEF StreamShape
<1> HIDE DEF r, o1
<1>9. e \in DOMAIN cStream
      BY <1>2 DEF Streams
<1>10. [cStream EXCEPT ![e] = o1][e] = o1
       BY <1>9
<1>11. cStream' = [[cStream EXCEPT ![e] = o1] EXCEPT ![e] = r]
       BY <1>6, <1>7, <1>10
<1>12. cStream' = [cStream EXCEPT ![e] = r]
       BY <1>11
<1>13. r.class # None => C!Exists(r.class)
       BY <1>2, <1>8 DEF Streams
<1>14. r.shown = C!Snapshot(r.class)
       BY <1>8 DEF s
<1> QED BY <1>1, <1>8, <1>12, <1>13, <1>14, StreamStep

LEMMA SentStep ==
  ASSUME RoomInv, NEW e \in Stream, C!Sent(e)
  PROVE  RoomInv' /\ C!TeacherKept
<1> DEFINE o == cStream[e]
           r == [o EXCEPT !.at = "wait"]
           y == [class |-> o.class, queue |-> o.queue, at |-> "wait", shown |-> o.shown]
<1>1. /\ cStream[e].at = "send"
      /\ cStream' = [cStream EXCEPT ![e] = r]
      /\ UNCHANGED <<cConfig, cMeta, cStudents, cTodo, cCrashes>>
      BY Zenon DEF C!Sent
<1>2. Streams /\ StreamShape(o)
      BY DEF RoomInv, Streams
<1>3. o = [class |-> o.class, queue |-> o.queue, at |-> o.at, shown |-> o.shown]
      BY <1>2 DEF StreamShape
<1>5. r = y
      BY <1>3, AtIs
<1>6. StreamShape(y) /\ y.class = o.class /\ y.at = "wait" /\ y.shown = o.shown /\ y.queue = o.queue
      BY <1>1, <1>2 DEF StreamShape
<1> HIDE DEF r, y
<1>7. cStream' = [cStream EXCEPT ![e] = y]
      BY <1>1, <1>5
<1>8. y.class # None => C!Exists(y.class)
      BY <1>2, <1>6 DEF Streams
<1>9. Subscribed(e)
      BY <1>1 DEF Subscribed
<1> QED BY <1>1, <1>6, <1>7, <1>8, <1>9, StreamStep

LEMMA SetThrice ==
  ASSUME NEW f, NEW e \in DOMAIN f, NEW x, NEW y, NEW r
  PROVE  /\ [f EXCEPT ![e] = x][e] = x
         /\ [[f EXCEPT ![e] = x] EXCEPT ![e] = y][e] = y
         /\ [[f EXCEPT ![e] = x] EXCEPT ![e] = y] = [f EXCEPT ![e] = y]
         /\ [[[f EXCEPT ![e] = x] EXCEPT ![e] = y] EXCEPT ![e] = r] = [f EXCEPT ![e] = r]
OBVIOUS

LEMMA ForwardStep ==
  ASSUME RoomInv, NEW e \in Stream, C!Forward(e)
  PROVE  RoomInv' /\ C!TeacherKept
<1> DEFINE o == cStream[e]
           o1 == [o EXCEPT !.at = "send"]
           o2 == [o1 EXCEPT !.queue = Tail(o1.queue)]
           s == IF Head(o.queue) = "snapshot" THEN C!Snapshot(o.class) ELSE o2.shown
           o3 == [o2 EXCEPT !.shown = s]
           q == Tail(o.queue)
           r == [class |-> o.class, queue |-> q, at |-> "send", shown |-> s]
<1>1. /\ cTodo = <<>> /\ o.at = "wait" /\ o.queue # <<>>
      /\ UNCHANGED <<cConfig, cMeta, cStudents, cTodo, cCrashes>>
      BY Zenon DEF C!Forward, C!Free
<1>2. Streams /\ StreamShape(o)
      BY DEF RoomInv, Streams
<1>3. e \in DOMAIN cStream
      BY <1>2 DEF Streams
<1>4. cStream' = [cStream EXCEPT ![e] = o3]
  <2>1. cStream' = [cStream EXCEPT
          ![e].at = "send", ![e].queue = Tail(@),
          ![e].shown = IF Head(cStream[e].queue) = "snapshot" THEN C!Snapshot(cStream[e].class) ELSE @]
        BY Zenon DEF C!Forward
  <2> DEFINE f1 == [cStream EXCEPT ![e] = [cStream[e] EXCEPT !.at = "send"]]
             f2 == [f1 EXCEPT ![e] = [f1[e] EXCEPT !.queue = Tail(f1[e].queue)]]
             f3 == [f2 EXCEPT ![e] = [f2[e] EXCEPT !.shown =
                      IF Head(cStream[e].queue) = "snapshot" THEN C!Snapshot(cStream[e].class) ELSE f2[e].shown]]
  <2>2. cStream' = f3
        BY <2>1, Zenon
  <2>3. f1[e] = o1
        BY <1>3, SetThrice
  <2>4. f2 = [f1 EXCEPT ![e] = o2] /\ f2[e] = o2
        BY <1>3, <2>3, SetThrice, Zenon
  <2>5. f3 = [f2 EXCEPT ![e] = o3]
    <3> DEFINE F(x) == [x EXCEPT !.shown =
                          IF Head(cStream[e].queue) = "snapshot" THEN C!Snapshot(cStream[e].class) ELSE x.shown]
    <3>1. f3 = [f2 EXCEPT ![e] = F(f2[e])] /\ o3 = F(o2)
          BY Zenon
    <3> HIDE DEF F, f2, f3, o2, o3
    <3> QED BY <2>4, <3>1
  <2>6. f1 = [cStream EXCEPT ![e] = o1]
        OBVIOUS
  <2> HIDE DEF o1, o2, o3, f1, f2, f3
  <2> QED BY <1>3, <2>2, <2>4, <2>5, <2>6, SetThrice
<1>5. o = [class |-> o.class, queue |-> o.queue, at |-> o.at, shown |-> o.shown]
      BY <1>2 DEF StreamShape
<1>6. o1 = [class |-> o.class, queue |-> o.queue, at |-> "send", shown |-> o.shown]
      BY <1>5, AtIs
<1>7. o1.queue = o.queue
      BY <1>6
<1>8. o2 = [class |-> o.class, queue |-> q, at |-> "send", shown |-> o.shown]
  <2> DEFINE t == Tail(o1.queue)
  <2>1. t = q
        BY <1>7, Zenon
  <2> HIDE DEF o1, q, t
  <2>2. [o1 EXCEPT !.queue = t] = [class |-> o.class, queue |-> t, at |-> "send", shown |-> o.shown]
        BY <1>6, QueueIs
  <2>3. o2 = [o1 EXCEPT !.queue = t]
        BY Zenon DEF t
  <2> QED BY <2>1, <2>2, <2>3
<1>9. o2.shown = o.shown
      BY <1>8
<1>10. o3 = r
  <2> HIDE DEF o2, s, q
  <2> QED BY <1>8, ShownIs
<1>11. q \in Seq(Frame) /\ (HasSnapshot(o.queue) /\ Head(o.queue) # "snapshot" => HasSnapshot(q))
  <2>1. o.queue \in Seq(Frame)
        BY <1>2 DEF StreamShape
  <2> QED BY <1>1, <2>1, QueueTail
<1>12. s = IF Head(o.queue) = "snapshot" THEN C!Snapshot(o.class) ELSE o.shown
       BY <1>9, Zenon
<1> HIDE DEF s, o3, o2, q
<1>13. StreamShape(r) /\ r.class = o.class /\ r.at = "send" /\ r.shown = s /\ r.queue = q
       BY <1>1, <1>2, <1>11 DEF StreamShape
<1>14. Current(e)
       BY <1>1, <1>2, QuietIs, NoneAssumption DEF RoomsQuiet, CurrentBut, Subscribed, StreamShape
<1>15. HasSnapshot(q) \/ s = C!Snapshot(o.class)
       BY <1>11, <1>12, <1>14 DEF Current
<1> HIDE DEF r
<1>16. cStream' = [cStream EXCEPT ![e] = r]
       BY <1>4, <1>10
<1>17. r.class # None => C!Exists(r.class)
       BY <1>2, <1>13 DEF Streams
<1>18. HasSnapshot(r.queue) \/ r.shown = C!Snapshot(r.class)
       BY <1>13, <1>15
<1> QED BY <1>1, <1>13, <1>16, <1>17, <1>18, StreamStep

(* The process dies: the streams are closed, the documents stay.               *)
LEMMA RoomCrash == ASSUME RoomInv, C!Crash PROVE RoomInv' /\ C!TeacherKept
<1>1. /\ cCrashes' = cCrashes + 1 /\ cTodo' = <<>> /\ cStream' = [e \in Stream |-> C!Closed]
      /\ UNCHANGED <<cConfig, cMeta, cStudents>>
      BY Zenon DEF C!Crash
<1>2. StreamShape(C!Closed) /\ C!Closed.class = None /\ C!Closed.at = "closed"
      BY Snapshots DEF C!Closed, StreamShape
<1> HIDE DEF C!Closed
<1>3. Streams'
      BY <1>1, <1>2 DEF Streams
<1>4. RoomTypes' /\ cCrashes' # 0
      BY <1>1 DEF RoomInv, RoomTypes
<1>5. CurrentBut(None)'
      BY <1>1, <1>2 DEF CurrentBut, Subscribed
<1> QED BY <1>1, <1>3, <1>4, <1>5 DEF RoomInv, RoomsQuiet, C!TeacherKept

LEMMA RoomWriteStep == ASSUME RoomInv, C!Write PROVE RoomInv' /\ C!TeacherKept
<1>1. cTodo # <<>> /\ RoomWrite(Head(cTodo)) /\ cTodo' = Tail(cTodo) /\ cCrashes' = cCrashes
      BY Zenon DEF C!Write, RoomWrite
<1> QED BY <1>1, CreateWrite, EnlistWrite DEF RoomInv, RoomsQuiet

LEMMA RoomInit == C!Init => RoomInv
<1> SUFFICES ASSUME C!Init PROVE RoomInv
    OBVIOUS
<1>1. /\ cConfig = [a \in C!Account |-> None]
      /\ cMeta = [c \in Class |-> [teacher |-> None, version |-> 0]]
      /\ cStudents = [c \in Class |-> [s \in {} |-> 0]]
      /\ cStream = [e \in Stream |-> C!Closed]
      /\ cTodo = <<>> /\ cCrashes = 0
      BY Zenon DEF C!Init
<1>2. StreamShape(C!Closed) /\ C!Closed.class = None /\ C!Closed.at = "closed"
      BY Snapshots DEF C!Closed, StreamShape
<1> HIDE DEF C!Closed
<1>3. Streams /\ CurrentBut(None)
      BY <1>1, <1>2 DEF Streams, CurrentBut, Subscribed
<1>4. RoomTypes /\ BackedBut(None) /\ Bare
      BY <1>1, BoundAssumption DEF RoomTypes, RoomMeta, BackedBut, Backed, Bare
<1> QED BY <1>1, <1>3, <1>4 DEF RoomInv, RoomsQuiet

LEMMA RoomsStay == ASSUME RoomInv, UNCHANGED C!vars PROVE RoomInv' /\ C!TeacherKept
<1>1. UNCHANGED <<cConfig, cMeta, cStudents, cStream, cTodo, cCrashes>>
      BY Zenon DEF C!vars
<1>2. RoomTypes' /\ Streams'
      BY <1>1 DEF RoomInv, RoomTypes, Streams, C!Exists
<1>3. \A x : (CurrentBut(x) => CurrentBut(x)') /\ (BackedBut(x) => BackedBut(x)') /\ (Bare => Bare')
      BY <1>1 DEF CurrentBut, Subscribed, Current, C!Snapshot, BackedBut, Backed, Bare
<1>4. RoomsQuiet => RoomsQuiet'
      BY <1>1, <1>3 DEF RoomsQuiet
<1>5. \A t \in Teacher, c \in Class : Creates(t, c) => Creates(t, c)'
      BY <1>1, <1>3 DEF Creates
<1>6. \A a \in Student, c \in Class, d \in Class \cup {None} : \A x : Enlists(a, c, d, x) => Enlists(a, c, d, x)'
      BY <1>1, <1>3 DEF Enlists, C!Exists
<1> QED BY <1>1, <1>2, <1>4, <1>5, <1>6 DEF RoomInv, C!TeacherKept

LEMMA RoomStep == ASSUME RoomInv, [C!Next]_(C!vars) PROVE RoomInv' /\ C!TeacherKept
<1>1. CASE \E t \in Teacher, c \in Class : C!Create(t, c)
      BY <1>1, CreateRoomStep
<1>2. CASE \E a \in C!Account, c \in Class : C!UpdateMeta(a, c) \/ C!MarkExplained(a, c)
      BY <1>2, UpdateMetaStep, MarkStep
<1>3. CASE \E a \in Student, c \in Class : C!Join(a, c) \/ C!Leave(a, c)
      BY <1>3, JoinStep, LeaveStep
<1>4. CASE \E a \in C!Account, c \in Class, s \in Student : C!UpdateState(a, c, s)
      BY <1>4, UpdateStateStep
<1>5. CASE \E e \in Stream, c \in Class : C!Connect(e, c)
      BY <1>5, ConnectRoomStep
<1>6. CASE \E e \in Stream : C!Subscribe(e) \/ C!Sent(e) \/ C!Forward(e) \/ C!Disconnect(e)
      BY <1>6, SubscribeStep, SentStep, ForwardStep, DisconnectStep
<1>7. CASE C!Write
      BY <1>7, RoomWriteStep
<1>8. CASE C!Crash
      BY <1>8, RoomCrash
<1>9. CASE UNCHANGED C!vars
      BY <1>9, RoomsStay
<1> QED BY <1>1, <1>2, <1>3, <1>4, <1>5, <1>6, <1>7, <1>8, <1>9 DEF C!Next

(* However requests, streams and restarts interleave, a stream that waits has  *)
(* shown its client the class as it is, a class keeps its teacher, and without *)
(* a restart whoever is told to be in a class is its teacher or its student.   *)
THEOREM Rooms == C!Spec => ClassroomsHold
<1>1. RoomInv /\ [C!Next]_(C!vars) => RoomInv' /\ C!TeacherKept
      BY RoomStep
<1>2. RoomInv => C!StreamCurrent /\ C!ConfigBacked
      BY RoomFacts
<1> QED BY RoomInit, <1>1, <1>2, PTL DEF C!Spec, ClassroomsHold, C!ClassroomsHold

(* The documents of the classrooms and the streams have their types.           *)
THEOREM RoomsTyped == C!Spec => []C!ClassroomsTypeOK
<1>1. RoomInv /\ [C!Next]_(C!vars) => RoomInv'
      BY RoomStep
<1>2. RoomInv => C!ClassroomsTypeOK
      BY RoomFacts
<1> QED BY RoomInit, <1>1, <1>2, PTL DEF C!Spec

-----------------------------------------------------------------------------
(* Projects                                                                   *)

(* The keys of a project, or of all.                                          *)
Under(s) == {k \in P!Key : s = <<>> \/ \E d \in P!Document : k = P!Path(s, d)}
Slashed(s) == P!Dir(s) \o <<"/">>

(* The characters of paths.                                                   *)
Letter == {"projects", "/", "data.scn", "meta.doc", "chats", "metas.doc", "contexts"} \cup Chat
          \cup UNION {{s[i] : i \in DOMAIN s} : s \in Scene}

LEMMA SceneIs ==
  ASSUME NEW s \in Scene
  PROVE  /\ s \in Seq(Letter) /\ s # <<>> /\ Len(s) \in Nat
         /\ \A i \in 1..Len(s) : s[i] # "/"
<1>1. /\ s \in Seq({s[i] : i \in DOMAIN s}) /\ s # <<>>
      /\ \A i \in DOMAIN s : s[i] # "/"
      BY SceneAssumption, Zenon
<1>2. {s[i] : i \in DOMAIN s} \subseteq Letter
      BY Zenon DEF Letter
<1> HIDE DEF Letter
<1>3. s \in Seq(Letter)
      BY <1>1, <1>2, SeqMonotonic, Zenon
<1>4. Len(s) \in Nat /\ DOMAIN s = 1..Len(s)
      BY <1>3
<1> QED BY <1>1, <1>3, <1>4, Zenon

LEMMA Letters ==
  /\ "projects" \in Letter /\ "/" \in Letter /\ "data.scn" \in Letter /\ "meta.doc" \in Letter
  /\ "chats" \in Letter /\ "metas.doc" \in Letter /\ "contexts" \in Letter
  /\ \A c \in Chat : c \in Letter
BY Zenon DEF Letter

LEMMA One ==
  ASSUME NEW Elem, NEW x \in Elem PROVE <<x>> \in Seq(Elem) /\ Len(<<x>>) = 1 /\ <<x>>[1] = x
OBVIOUS

LEMMA Concat ==
  ASSUME NEW Elem, NEW u \in Seq(Elem), NEW v \in Seq(Elem)
  PROVE  /\ u \o v \in Seq(Elem) /\ Len(u \o v) = Len(u) + Len(v)
         /\ \A i \in 1..Len(u) : (u \o v)[i] = u[i]
         /\ \A i \in 1..Len(v) : (u \o v)[Len(u) + i] = v[i]
<1>1. /\ u \o v \in Seq(Elem) /\ Len(u \o v) = Len(u) + Len(v)
      /\ \A i \in 1..Len(u) + Len(v) : (u \o v)[i] = IF i <= Len(u) THEN u[i] ELSE v[i - Len(u)]
      BY ConcatProperties, Zenon
<1>2. Len(u) \in Nat /\ Len(v) \in Nat
      OBVIOUS
<1>3. ASSUME NEW i \in 1..Len(u) PROVE (u \o v)[i] = u[i]
      BY <1>1, <1>2
<1>4. ASSUME NEW i \in 1..Len(v) PROVE (u \o v)[Len(u) + i] = v[i]
  <2>1. Len(u) + i \in 1..Len(u) + Len(v) /\ ~(Len(u) + i <= Len(u)) /\ Len(u) + i - Len(u) = i
        BY <1>2
  <2> QED BY <1>1, <2>1
<1> QED BY <1>1, <1>3, <1>4

\* r is u followed by v.
Joins(r, u, v, Elem) ==
  /\ r \in Seq(Elem) /\ Len(r) = Len(u) + Len(v)
  /\ \A i \in 1..Len(u) : r[i] = u[i]
  /\ \A i \in 1..Len(v) : r[Len(u) + i] = v[i]

LEMMA ConcatJoins ==
  ASSUME NEW Elem, NEW u \in Seq(Elem), NEW v \in Seq(Elem)
  PROVE  Joins(u \o v, u, v, Elem)
<1>1. u \o v \in Seq(Elem) /\ Len(u \o v) = Len(u) + Len(v)
      BY Concat
<1>2. \A i \in 1..Len(u) : (u \o v)[i] = u[i]
      BY Concat
<1>3. \A i \in 1..Len(v) : (u \o v)[Len(u) + i] = v[i]
      BY Concat
<1> QED BY <1>1, <1>2, <1>3 DEF Joins

LEMMA SlashedIs ==
  ASSUME NEW s \in Scene
  PROVE  /\ Slashed(s) \in Seq(Letter) /\ Len(Slashed(s)) = Len(s) + 3
         /\ Slashed(s)[1] = "projects" /\ Slashed(s)[2] = "/" /\ Slashed(s)[Len(s) + 3] = "/"
         /\ \A i \in 1..Len(s) : Slashed(s)[i + 2] = s[i]
         /\ P!Dir(s) \in Seq(Letter) /\ Len(P!Dir(s)) = Len(s) + 2
         /\ \A i \in 1..Len(s) + 2 : P!Dir(s)[i] = Slashed(s)[i]
<1> DEFINE a == <<"projects">>
           b == <<"/">>
           c == a \o b
           p == c \o s
           q == p \o b
<1>1. s \in Seq(Letter) /\ s # <<>> /\ Len(s) \in Nat
      BY SceneIs, Zenon
<1>2. a \in Seq(Letter) /\ Len(a) = 1 /\ a[1] = "projects"
      BY Letters, One, Zenon
<1>3. b \in Seq(Letter) /\ Len(b) = 1 /\ b[1] = "/"
      BY Letters, One, Zenon
<1>4. P!Dir(s) = p /\ Slashed(s) = q
      BY <1>1, Zenon DEF P!Dir, P!Root, Slashed
<1> HIDE DEF a, b
<1>5. /\ c \in Seq(Letter) /\ Len(c) = Len(a) + Len(b)
      /\ \A i \in 1..Len(a) : c[i] = a[i]
      /\ \A i \in 1..Len(b) : c[Len(a) + i] = b[i]
      BY <1>2, <1>3, Concat
<1> HIDE DEF c
<1>6. Len(c) = 2 /\ c[1] = a[1] /\ c[2] = b[1]
      BY <1>2, <1>3, <1>5
<1>7. /\ p \in Seq(Letter) /\ Len(p) = Len(c) + Len(s)
      /\ \A i \in 1..Len(c) : p[i] = c[i]
      /\ \A i \in 1..Len(s) : p[Len(c) + i] = s[i]
  <2>1. s \in Seq(Letter) /\ c \in Seq(Letter)
        BY <1>1, <1>5, Zenon
  <2>2. Joins(p, c, s, Letter)
        BY <2>1, ConcatJoins, Zenon
  <2> HIDE DEF p
  <2> QED BY <2>2 DEF Joins
<1> HIDE DEF p
<1>8. /\ Len(p) = Len(s) + 2 /\ p[1] = a[1] /\ p[2] = b[1]
      /\ \A i \in 1..Len(s) : p[i + 2] = s[i]
      BY <1>1, <1>6, <1>7
<1>9. /\ q \in Seq(Letter) /\ Len(q) = Len(p) + Len(b)
      /\ \A i \in 1..Len(p) : q[i] = p[i]
      /\ \A i \in 1..Len(b) : q[Len(p) + i] = b[i]
  <2>1. p \in Seq(Letter) /\ b \in Seq(Letter)
        BY <1>3, <1>7, Zenon
  <2>2. Joins(q, p, b, Letter)
        BY <2>1, ConcatJoins, Zenon
  <2> HIDE DEF q
  <2> QED BY <2>2 DEF Joins
<1> HIDE DEF q
<1>10. /\ Len(q) = Len(s) + 3 /\ q[1] = a[1] /\ q[2] = b[1] /\ q[Len(s) + 3] = b[1]
       /\ \A i \in 1..Len(s) : q[i + 2] = s[i]
       /\ \A i \in 1..Len(s) + 2 : p[i] = q[i]
      BY <1>1, <1>3, <1>8, <1>9
<1> QED BY <1>2, <1>3, <1>4, <1>7, <1>8, <1>9, <1>10, Zenon

LEMMA OneMore ==
  ASSUME NEW Elem, NEW x \in Elem PROVE <<x>> \in Seq(Elem) /\ Len(<<x>>) > 0
OBVIOUS

LEMMA Three ==
  ASSUME NEW Elem, NEW x \in Elem, NEW y \in Elem, NEW z \in Elem
  PROVE  <<x, y, z>> \in Seq(Elem) /\ Len(<<x, y, z>>) > 0
OBVIOUS

LEMMA DocumentIs ==
  ASSUME NEW d \in P!Document PROVE d \in Seq(Letter) /\ Len(d) > 0
<1>1. CASE d = P!Data
      BY <1>1, Letters, OneMore, Zenon DEF P!Data
<1>2. CASE d = P!Meta
      BY <1>2, Letters, OneMore, Zenon DEF P!Meta
<1>3. CASE d = P!Chats
      BY <1>3, Letters, Three, Zenon DEF P!Chats
<1>4. CASE d = P!Contexts
      BY <1>4, Letters, Three, Zenon DEF P!Contexts
<1>5. ASSUME NEW c \in Chat, d = P!ChatDoc(c) PROVE d \in Seq(Letter) /\ Len(d) > 0
  <2> QED BY <1>5, Letters, Three, Zenon DEF P!ChatDoc
<1> QED BY <1>1, <1>2, <1>3, <1>4, <1>5, Zenon DEF P!Document

LEMMA PathIs ==
  ASSUME NEW s \in Scene, NEW d \in P!Document
  PROVE  /\ P!Path(s, d) \in Seq(Letter) /\ Len(P!Path(s, d)) = Len(s) + 3 + Len(d)
         /\ \A i \in 1..Len(s) + 3 : P!Path(s, d)[i] = Slashed(s)[i]
         /\ \A i \in 1..Len(d) : P!Path(s, d)[Len(s) + 3 + i] = d[i]
<1> DEFINE q == Slashed(s)
<1>1. q \in Seq(Letter) /\ Len(q) = Len(s) + 3 /\ s \in Seq(Letter)
      BY SlashedIs, SceneIs
<1>2. d \in Seq(Letter) /\ Len(d) > 0
      BY DocumentIs
<1>3. P!Path(s, d) = q \o d
      BY DEF P!Path, Slashed
<1> HIDE DEF q
<1>4. /\ q \o d \in Seq(Letter) /\ Len(q \o d) = Len(q) + Len(d)
      /\ \A i \in 1..Len(q) : (q \o d)[i] = q[i]
      /\ \A i \in 1..Len(d) : (q \o d)[Len(q) + i] = d[i]
      BY SMTT(30), <1>1, <1>2
<1> QED BY <1>1, <1>3, <1>4 DEF q

LEMMA PrefixIs ==
  ASSUME NEW u \in Seq(Letter), NEW v \in Seq(Letter)
  PROVE  P!IsPrefix(u, v) <=> Len(u) <= Len(v) /\ \A i \in 1..Len(u) : u[i] = v[i]
<1>1. CASE Len(u) <= Len(v)
  <2>1. /\ SubSeq(u, 1, Len(u)) \in Seq(Letter) /\ Len(SubSeq(u, 1, Len(u))) = Len(u)
        /\ \A i \in 1..Len(u) : SubSeq(u, 1, Len(u))[i] = u[i]
        OBVIOUS
  <2>2. /\ SubSeq(v, 1, Len(u)) \in Seq(Letter) /\ Len(SubSeq(v, 1, Len(u))) = Len(u)
        /\ \A i \in 1..Len(u) : SubSeq(v, 1, Len(u))[i] = v[i]
        BY <1>1
  <2>3. SubSeq(u, 1, Len(u)) = SubSeq(v, 1, Len(u)) <=> \A i \in 1..Len(u) : u[i] = v[i]
    <3>1. ASSUME \A i \in 1..Len(u) : u[i] = v[i]
          PROVE  SubSeq(u, 1, Len(u)) = SubSeq(v, 1, Len(u))
          BY <1>1, <3>1
    <3>2. ASSUME SubSeq(u, 1, Len(u)) = SubSeq(v, 1, Len(u)), NEW i \in 1..Len(u)
          PROVE  u[i] = v[i]
          BY <2>1, <2>2, <3>2
    <3> QED BY <3>1, <3>2
  <2> QED BY <1>1, <2>3 DEF P!IsPrefix
<1>2. CASE ~(Len(u) <= Len(v))
      BY <1>2 DEF P!IsPrefix
<1> QED BY <1>1, <1>2

(* An id has no slash: what begins like the path of a project and goes on with *)
(* one is of that project.                                                    *)
LEMMA OneProject ==
  ASSUME NEW s \in Scene, NEW t \in Scene, NEW v,
         \A i \in 1..Len(t) + 3 : v[i] = Slashed(t)[i],
         \A i \in 1..Len(s) + 3 : v[i] = Slashed(s)[i]
  PROVE  s = t
<1>1. /\ s \in Seq(Letter) /\ t \in Seq(Letter)
      /\ \A i \in 1..Len(s) : s[i] # "/"
      /\ \A i \in 1..Len(t) : t[i] # "/"
      BY SceneIs
<1>2. /\ \A i \in 1..Len(s) : v[i + 2] = s[i]
      /\ v[Len(s) + 3] = "/"
  <2>1. Len(s) \in Nat
        BY <1>1
  <2>2. /\ Slashed(s)[Len(s) + 3] = "/"
        /\ \A i \in 1..Len(s) : Slashed(s)[i + 2] = s[i]
        BY SlashedIs, Zenon
  <2>3. \A i \in 1..Len(s) + 3 : v[i] = Slashed(s)[i]
        OBVIOUS
  <2> QED BY <2>1, <2>2, <2>3
<1>3. /\ \A i \in 1..Len(t) : v[i + 2] = t[i]
      /\ v[Len(t) + 3] = "/"
  <2>1. Len(t) \in Nat
        BY <1>1
  <2>2. /\ Slashed(t)[Len(t) + 3] = "/"
        /\ \A i \in 1..Len(t) : Slashed(t)[i + 2] = t[i]
        BY SlashedIs, Zenon
  <2>3. \A i \in 1..Len(t) + 3 : v[i] = Slashed(t)[i]
        OBVIOUS
  <2> QED BY <2>1, <2>2, <2>3
<1>4. ~(Len(s) < Len(t))
  <2> SUFFICES ASSUME Len(s) < Len(t) PROVE FALSE
      OBVIOUS
  <2>1. Len(s) + 1 \in 1..Len(t) /\ (Len(s) + 1) + 2 = Len(s) + 3
        BY <1>1
  <2>2. v[Len(s) + 3] = t[Len(s) + 1]
        BY <1>3, <2>1
  <2> QED BY <1>1, <1>2, <2>1, <2>2
<1>5. ~(Len(t) < Len(s))
  <2> SUFFICES ASSUME Len(t) < Len(s) PROVE FALSE
      OBVIOUS
  <2>1. Len(t) + 1 \in 1..Len(s) /\ (Len(t) + 1) + 2 = Len(t) + 3
        BY <1>1
  <2>2. v[Len(t) + 3] = s[Len(t) + 1]
        BY <1>2, <2>1
  <2> QED BY <1>1, <1>3, <2>1, <2>2
<1>6. Len(s) = Len(t)
      BY <1>1, <1>4, <1>5
<1> QED BY <1>1, <1>2, <1>3, <1>6

LEMMA Beneath ==
  ASSUME NEW s \in Scene, NEW k \in P!Key
  PROVE  /\ P!IsPrefix(Slashed(s), k) <=> k \in Under(s)
         /\ k # P!Dir(s)
<1>1. PICK t \in Scene, d \in P!Document : k = P!Path(t, d)
      BY DEF P!Key
<1>2. /\ k \in Seq(Letter) /\ Len(k) = Len(t) + 3 + Len(d)
      /\ \A i \in 1..Len(t) + 3 : k[i] = Slashed(t)[i]
      BY <1>1, PathIs
<1>3. s \in Seq(Letter) /\ t \in Seq(Letter) /\ d \in Seq(Letter) /\ Len(d) > 0
      BY SceneIs, DocumentIs
<1>4. Slashed(s) \in Seq(Letter) /\ Len(Slashed(s)) = Len(s) + 3
      BY SlashedIs
<1>5. ASSUME P!IsPrefix(Slashed(s), k) PROVE k \in Under(s)
  <2>1. \A i \in 1..Len(s) + 3 : k[i] = Slashed(s)[i]
        BY <1>2, <1>4, <1>5, PrefixIs
  <2>2. s = t
        BY <1>2, <2>1, OneProject
  <2> QED BY <1>1, <2>2 DEF Under
<1>6. ASSUME k \in Under(s) PROVE P!IsPrefix(Slashed(s), k)
  <2>1. PICK e \in P!Document : k = P!Path(s, e)
        BY <1>6, SceneIs DEF Under
  <2>2. /\ Len(k) = Len(s) + 3 + Len(e)
        /\ \A i \in 1..Len(s) + 3 : k[i] = Slashed(s)[i]
        BY <2>1, PathIs
  <2>3. e \in Seq(Letter)
        BY DocumentIs
  <2>4. Len(s) \in Nat /\ Len(e) \in Nat
        BY <1>3, <2>3
  <2>5. Len(Slashed(s)) <= Len(k)
        BY <1>4, <2>2, <2>4
  <2>6. \A i \in 1..Len(Slashed(s)) : Slashed(s)[i] = k[i]
        BY <1>4, <2>2, Zenon
  <2> QED BY <1>2, <1>4, <2>5, <2>6, PrefixIs, Zenon
<1>7. k # P!Dir(s)
  <2> SUFFICES ASSUME k = P!Dir(s) PROVE FALSE
      OBVIOUS
  <2>1. /\ Len(k) = Len(s) + 2
        /\ \A i \in 1..Len(s) + 2 : k[i] = Slashed(s)[i]
        BY SlashedIs
  <2>2. Len(t) < Len(s)
        BY <1>2, <1>3, <2>1
  <2>3. Len(t) + 1 \in 1..Len(s) /\ Len(t) + 3 = (Len(t) + 1) + 2 /\ Len(t) + 3 \in 1..Len(s) + 2
        BY <1>3, <2>2
  <2>4. k[Len(t) + 3] = Slashed(t)[Len(t) + 3]
        BY SMTT(30), <1>2, <1>3
  <2>5. Slashed(t)[Len(t) + 3] = "/"
        BY SlashedIs
  <2>6. k[Len(t) + 3] = Slashed(s)[Len(t) + 3]
        BY <2>1, <2>3
  <2>7. Slashed(s)[(Len(t) + 1) + 2] = s[Len(t) + 1]
        BY <2>3, SlashedIs
  <2>8. s[Len(t) + 1] # "/"
        BY <1>3, <2>3, SceneIs
  <2> QED BY <2>3, <2>4, <2>5, <2>6, <2>7, <2>8
<1> QED BY <1>5, <1>6, <1>7

LEMMA BeneathAll ==
  ASSUME NEW k \in P!Key
  PROVE  P!IsPrefix(P!Dir(<<>>) \o <<"/">>, k) /\ k # P!Dir(<<>>)
<1>1. PICK t \in Scene, d \in P!Document : k = P!Path(t, d)
      BY DEF P!Key
<1>2. t \in Seq(Letter) /\ d \in Seq(Letter) /\ Len(d) > 0
      BY SceneIs, DocumentIs
<1>3. /\ k \in Seq(Letter) /\ Len(k) = Len(t) + 3 + Len(d)
      /\ \A i \in 1..Len(t) + 3 : k[i] = Slashed(t)[i]
      BY <1>1, PathIs
<1>4. k[1] = "projects" /\ k[2] = "/" /\ Len(k) > 2
  <2>1. Slashed(t)[1] = "projects" /\ Slashed(t)[2] = "/"
        BY SlashedIs, Zenon
  <2>2. Len(t) \in Nat /\ Len(d) \in Nat
        BY <1>2
  <2>3. 1 \in 1..Len(t) + 3 /\ 2 \in 1..Len(t) + 3 /\ Len(k) > 2
        BY <1>3, <2>2
  <2> QED BY <1>3, <2>1, <2>3, Zenon
<1> DEFINE a == P!Dir(<<>>)
           b == <<"/">>
           r == a \o b
<1>5. a \in Seq(Letter) /\ Len(a) = 1 /\ a[1] = "projects"
  <2>1. a = <<"projects">>
        BY Zenon DEF P!Dir, P!Root
  <2>2. <<"projects">> \in Seq(Letter) /\ Len(<<"projects">>) = 1 /\ <<"projects">>[1] = "projects"
        BY Letters, One, Zenon
  <2> QED BY <2>1, <2>2, Zenon
<1>6. b \in Seq(Letter) /\ Len(b) = 1 /\ b[1] = "/"
      BY Letters, One, Zenon
<1> HIDE DEF a, b
<1>7. /\ r \in Seq(Letter) /\ Len(r) = Len(a) + Len(b)
      /\ \A i \in 1..Len(a) : r[i] = a[i]
      /\ \A i \in 1..Len(b) : r[Len(a) + i] = b[i]
  <2>1. a \in Seq(Letter) /\ b \in Seq(Letter)
        BY <1>5, <1>6, Zenon
  <2>2. Joins(r, a, b, Letter)
        BY <2>1, ConcatJoins, Zenon
  <2> HIDE DEF r
  <2> QED BY <2>2 DEF Joins
<1> HIDE DEF r
<1>8. Len(r) = 2 /\ r[1] = a[1] /\ r[2] = b[1]
      BY <1>5, <1>6, <1>7
<1>9. \A i \in 1..Len(r) : r[i] = k[i]
  <2>1. r[1] = k[1] /\ r[2] = k[2]
        BY <1>4, <1>5, <1>6, <1>8, Zenon
  <2> QED BY <1>8, <2>1
<1>10. P!IsPrefix(r, k)
      BY SMTT(30), <1>3, <1>4, <1>7, <1>8, <1>9, PrefixIs
<1>11. k # a
      BY <1>4, <1>5
<1> QED BY <1>10, <1>11 DEF r, a, b

LEMMA DoomedAre ==
  ASSUME pDb \subseteq P!Key, NEW s \in Scene \cup {<<>>}
  PROVE  P!Doomed(P!Dir(s)) = pDb \cap Under(s) /\ P!Below(P!Dir(s)) = pDb \cap Under(s)
<1>1. ASSUME NEW k \in pDb
      PROVE  /\ P!IsPrefix(P!Dir(s) \o <<"/">>, k) <=> k \in Under(s)
             /\ k # P!Dir(s)
  <2>1. CASE s \in Scene
        BY <2>1, Beneath, Zenon DEF Slashed
  <2>2. CASE s = <<>>
    <3>1. k \in P!Key /\ k \in Under(<<>>)
          BY DEF Under
    <3> QED BY <2>2, <3>1, BeneathAll, Zenon
  <2> QED BY <2>1, <2>2
<1> QED BY <1>1, Zenon DEF P!Doomed, P!Below

LEMMA ProjectsApart ==
  ASSUME NEW s \in Scene, NEW t \in Scene, s # t PROVE Under(s) \cap Under(t) = {}
<1> SUFFICES ASSUME NEW k \in Under(s), k \in Under(t) PROVE FALSE
    OBVIOUS
<1>1. s # <<>> /\ t # <<>>
      BY SceneIs
<1>2. PICK d \in P!Document : k = P!Path(s, d)
      BY <1>1 DEF Under
<1>3. PICK e \in P!Document : k = P!Path(t, e)
      BY <1>1 DEF Under
<1>4. \A i \in 1..Len(s) + 3 : k[i] = Slashed(s)[i]
      BY <1>2, PathIs
<1>5. \A i \in 1..Len(t) + 3 : k[i] = Slashed(t)[i]
      BY <1>3, PathIs
<1> QED BY <1>4, <1>5, OneProject

(* What the handler has still to write or to delete.                          *)
Item == [op : {"put", "drop"}, key : P!Key]
Puts(s) == {P!Put(P!Path(s, d)) : d \in P!Document}

ProjectTypes ==
  pDb \subseteq P!Key /\ pAbout \in Scene \cup {<<>>} /\ pTorn \subseteq Scene /\ pTodo \in Seq(Item)

\* A save writes the scene before the document that lists it.
Putting ==
  /\ \A i \in 1..Len(pTodo) : pTodo[i].op = "put" /\ pTodo[i].key \in Under(pAbout)
  /\ Len(pTodo) > 0 => pAbout \in Scene
  /\ \A i \in 1..Len(pTodo) :
       pTodo[i].key = P!Path(pAbout, P!Meta) =>
         P!Path(pAbout, P!Data) \in pDb \/ \E j \in 1..i : pTodo[j].key = P!Path(pAbout, P!Data)

\* A delete takes its own, and has it all before it.
Dropping ==
  /\ \A i \in 1..Len(pTodo) : pTodo[i].op = "drop" /\ pTodo[i].key \in Under(pAbout)
  /\ \A k \in pDb \cap Under(pAbout) : \E i \in 1..Len(pTodo) : pTodo[i].key = k

Opens(s) == P!Path(s, P!Meta) \in pDb => P!Path(s, P!Data) \in pDb
Taken(s) == Len(pTodo) > 0 /\ pTodo[1].op = "drop" /\ pAbout \in {s, <<>>}
AllOpen == \A s \in Scene \ pTorn : Taken(s) \/ Opens(s)

ProjectInv == ProjectTypes /\ (Putting \/ Dropping) /\ AllOpen

LEMMA PutOf ==
  ASSUME NEW s \in Scene, NEW d \in P!Document
  PROVE  /\ P!Path(s, d) \in P!Key /\ P!Path(s, d) \in Under(s)
         /\ P!Put(P!Path(s, d)) \in Item /\ P!Put(P!Path(s, d)) \in Puts(s)
         /\ P!Put(P!Path(s, d)).op = "put" /\ P!Put(P!Path(s, d)).key = P!Path(s, d)
<1>1. P!Path(s, d) \in P!Key
      BY DEF P!Key
<1>2. P!Path(s, d) \in Under(s)
      BY <1>1, Zenon DEF Under
<1>3. P!Put(P!Path(s, d)) \in Puts(s)
      BY Zenon DEF Puts
<1>4. P!Put(P!Path(s, d)) = [op |-> "put", key |-> P!Path(s, d)]
      BY Zenon DEF P!Put
<1> QED BY <1>1, <1>2, <1>3, <1>4 DEF Item

LEMMA DropOf ==
  ASSUME NEW k \in P!Key PROVE P!Drop(k) \in Item /\ P!Drop(k).op = "drop" /\ P!Drop(k).key = k
BY DEF P!Drop, Item

LEMMA PutsAre ==
  ASSUME NEW s \in Scene, NEW w \in Puts(s)
  PROVE  w \in Item /\ w.op = "put" /\ w.key \in Under(s)
<1>1. PICK d \in P!Document : w = P!Put(P!Path(s, d))
      BY Zenon DEF Puts
<1> QED BY <1>1, PutOf

LEMMA Documents ==
  /\ P!Data \in P!Document /\ P!Meta \in P!Document /\ P!Chats \in P!Document
  /\ P!Contexts \in P!Document /\ \A c \in Chat : P!ChatDoc(c) \in P!Document
BY Zenon DEF P!Document

LEMMA DeletingIs ==
  ASSUME ProjectTypes PROVE P!Deleting <=> Len(pTodo) > 0 /\ pTodo[1].op = "drop"
<1>1. pTodo \in Seq(Item)
      BY Zenon DEF ProjectTypes
<1>2. pTodo # <<>> <=> Len(pTodo) > 0
      BY <1>1
<1>3. Head(pTodo) = pTodo[1]
      BY <1>1
<1> QED BY <1>2, <1>3, Zenon DEF P!Deleting

LEMMA AtRest ==
  ASSUME ProjectInv, P!Free PROVE Len(pTodo) = 0 /\ \A s \in Scene \ pTorn : Opens(s)
<1>1. Len(pTodo) = 0
      BY DEF P!Free
<1>2. ~(Len(pTodo) > 0)
      BY <1>1
<1> QED BY <1>1, <1>2, Zenon DEF ProjectInv, AllOpen, Taken

(* A handler that starts to write.                                            *)
LEMMA WritesStart ==
  ASSUME ProjectInv, P!Free, NEW s \in Scene, pAbout' = s, UNCHANGED <<pDb, pTorn>>,
         pTodo' \in Seq(Puts(s)),
         \A i \in 1..Len(pTodo') : pTodo'[i].key = P!Path(s, P!Meta) =>
           \E j \in 1..i : pTodo'[j].key = P!Path(s, P!Data)
  PROVE  ProjectInv'
<1>1. ASSUME NEW i \in 1..Len(pTodo')
      PROVE  pTodo'[i] \in Item /\ pTodo'[i].op = "put" /\ pTodo'[i].key \in Under(s)
  <2>1. pTodo'[i] \in Puts(s)
        BY ElementOfSeq
  <2> QED BY <2>1, PutsAre
<1>2. ProjectTypes'
  <2>1. Puts(s) \subseteq Item
        BY PutsAre
  <2>2. pTodo' \in Seq(Item)
        BY <2>1, SeqMonotonic, Zenon
  <2> QED BY <2>2, Zenon DEF ProjectInv, ProjectTypes
<1>3. Putting'
      BY <1>1, Zenon DEF Putting, Under
<1>4. AllOpen'
      BY AtRest DEF AllOpen, Opens
<1> QED BY <1>2, <1>3, <1>4, Zenon DEF ProjectInv

LEMMA SaveProject == ASSUME ProjectInv, NEW s \in Scene, P!Save(s) PROVE ProjectInv'
<1> DEFINE data == P!Put(P!Path(s, P!Data))
           meta == P!Put(P!Path(s, P!Meta))
           a == P!Missing(s, P!Chats)
           b == P!Missing(s, P!Contexts)
<1>1. PICK chat \in {<<>>} \cup {<<P!Put(P!Path(s, P!ChatDoc(c)))>> : c \in Chat} :
        pTodo' = ((<<data, meta>> \o a) \o b) \o chat
      BY Zenon DEF P!Save, P!Saves
<1>2. data \in Puts(s) /\ meta \in Puts(s)
      BY Documents, PutOf, Zenon
<1>3. <<>> \in Seq(Puts(s)) /\ \A w \in Puts(s) : <<w>> \in Seq(Puts(s))
      BY EmptySeq, One, Zenon
<1>4. a \in Seq(Puts(s)) /\ b \in Seq(Puts(s))
      BY <1>3, Documents, PutOf, Zenon DEF P!Missing
<1>5. chat \in Seq(Puts(s))
      BY <1>1, <1>3, Documents, PutOf, Zenon
<1> DEFINE first == <<data, meta>>
<1>6. first \in Seq(Puts(s)) /\ Len(first) = 2 /\ first[1] = data
      BY <1>2
<1> HIDE DEF first, a, b
<1> DEFINE fa == first \o a
           fb == fa \o b
           fc == fb \o chat
<1>7. fa \in Seq(Puts(s)) /\ Len(fa) >= 2 /\ fa[1] = data
  <2>1. /\ fa \in Seq(Puts(s)) /\ Len(fa) = Len(first) + Len(a)
        /\ \A i \in 1..Len(first) : fa[i] = first[i]
        BY <1>4, <1>6, Concat
  <2> HIDE DEF fa, data
  <2> QED BY <1>4, <1>6, <2>1
<1> HIDE DEF fa
<1>8. fb \in Seq(Puts(s)) /\ Len(fb) >= 2 /\ fb[1] = data
  <2>1. /\ fb \in Seq(Puts(s)) /\ Len(fb) = Len(fa) + Len(b)
        /\ \A i \in 1..Len(fa) : fb[i] = fa[i]
        BY <1>4, <1>7, Concat
  <2> HIDE DEF fb, data
  <2> QED BY <1>4, <1>7, <2>1
<1> HIDE DEF fb
<1>9. fc \in Seq(Puts(s)) /\ Len(fc) >= 2 /\ fc[1] = data
  <2>1. /\ fc \in Seq(Puts(s)) /\ Len(fc) = Len(fb) + Len(chat)
        /\ \A i \in 1..Len(fb) : fc[i] = fb[i]
        BY <1>5, <1>8, Concat
  <2> HIDE DEF fc, data
  <2> QED BY <1>5, <1>8, <2>1
<1>10. pTodo' = fc
      BY <1>1, Zenon DEF first, fa, fb, a, b
<1> HIDE DEF fc
<1>11. \A i \in 1..Len(pTodo') : \E j \in 1..i : pTodo'[j].key = P!Path(s, P!Data)
  <2>1. data.key = P!Path(s, P!Data)
        BY Documents, PutOf, Zenon
  <2>2. \A i \in 1..Len(fc) : 1 \in 1..i
        OBVIOUS
  <2> HIDE DEF data
  <2> QED BY <1>9, <1>10, <2>1, <2>2, Zenon
<1> QED BY <1>9, <1>10, <1>11, WritesStart DEF P!Save

LEMMA LastLetters ==
  ASSUME NEW s \in Scene, NEW c \in Chat PROVE P!Path(s, P!ChatDoc(c)) # P!Path(s, P!Meta)
<1>1. Len(P!ChatDoc(c)) = 3 /\ Len(P!Meta) = 1
      BY DEF P!ChatDoc, P!Meta
<1>2. /\ Len(P!Path(s, P!ChatDoc(c))) = Len(s) + 3 + Len(P!ChatDoc(c))
      /\ Len(P!Path(s, P!Meta)) = Len(s) + 3 + Len(P!Meta)
      BY Documents, PathIs
<1>3. Len(s) \in Nat
      BY SceneIs
<1> QED BY <1>1, <1>2, <1>3

LEMMA TouchProject ==
  ASSUME ProjectInv, NEW s \in Scene, NEW c \in Chat, P!TouchChat(s, c) PROVE ProjectInv'
<1> DEFINE w == P!Put(P!Path(s, P!ChatDoc(c)))
<1>1. w \in Puts(s) /\ w.key = P!Path(s, P!ChatDoc(c))
      BY Documents, PutOf, Zenon
<1>2. pTodo' = <<w>>
      BY Zenon DEF P!TouchChat
<1> HIDE DEF w
<1>3. pTodo' \in Seq(Puts(s)) /\ Len(pTodo') = 1 /\ pTodo'[1] = w
      BY <1>1, <1>2, One, Zenon
<1>4. \A i \in 1..Len(pTodo') : pTodo'[i].key # P!Path(s, P!Meta)
  <2>1. \A i \in 1..Len(pTodo') : i = 1
        BY <1>3
  <2> QED BY <1>1, <1>3, <2>1, LastLetters, Zenon
<1> QED BY <1>3, <1>4, WritesStart DEF P!TouchChat

LEMMA AscendingSame == \A T : P!Ascending(T) = D!Ascending(T)
BY Zenon DEF P!Ascending, D!Ascending, P!Cardinality, D!Cardinality

LEMMA DeleteProject ==
  ASSUME ProjectInv, NEW s \in Scene \cup {<<>>}, P!Delete(s) PROVE ProjectInv'
<1> DEFINE places == {n \in DOMAIN Order : Order[n] \in P!Doomed(P!Dir(s))}
           doomed == P!Ascending(places)
<1>1. /\ P!Free /\ pAbout' = s /\ pDb' = pDb /\ pTorn' = pTorn
      /\ pTodo' = [i \in DOMAIN doomed |-> P!Drop(Order[doomed[i]])]
      BY Zenon DEF P!Delete
<1>2. /\ pDb \subseteq P!Key
      /\ Order \in Seq(P!Key) /\ \A k \in P!Key : \E n \in DOMAIN Order : Order[n] = k
      BY OrderAssumption, Zenon DEF ProjectInv, ProjectTypes
<1>3. P!Doomed(P!Dir(s)) = pDb \cap Under(s)
      BY <1>2, DoomedAre, Zenon
<1>4. Len(Order) \in Nat /\ DOMAIN Order = 1..Len(Order)
      BY <1>2
<1>5. places \in SUBSET (1..Len(Order))
      BY <1>4
<1>6. \A i \in places : Order[i] \in pDb \cap Under(s)
      BY <1>3
<1>7. /\ doomed \in Seq(places)
      /\ \A i \in places : \E k \in 1..Len(doomed) : doomed[k] = i
  <2>1. doomed = D!Ascending(places)
        BY AscendingSame, Zenon
  <2> HIDE DEF places
  <2> QED BY <1>4, <1>5, <2>1, AscendingAll, Zenon
<1>8. \A k \in pDb \cap Under(s) : \E n \in places : Order[n] = k
      BY <1>2, <1>3
<1> HIDE DEF places, doomed
<1>9. Len(doomed) \in Nat /\ DOMAIN doomed = 1..Len(doomed) /\ \A i \in 1..Len(doomed) : doomed[i] \in places
      BY <1>7
<1>10. /\ Len(pTodo') = Len(doomed) /\ pTodo' \in Seq(Item)
       /\ \A i \in 1..Len(pTodo') :
            pTodo'[i].op = "drop" /\ pTodo'[i].key = Order[doomed[i]] /\ Order[doomed[i]] \in Under(s)
  <2>1. ASSUME NEW i \in 1..Len(doomed)
        PROVE  Order[doomed[i]] \in P!Key /\ Order[doomed[i]] \in Under(s)
        BY <1>2, <1>6, <1>9
  <2>2. ASSUME NEW i \in 1..Len(doomed)
        PROVE
          /\ P!Drop(Order[doomed[i]]) \in Item
          /\ P!Drop(Order[doomed[i]]).op = "drop" /\ P!Drop(Order[doomed[i]]).key = Order[doomed[i]]
        BY <2>1, DropOf, Zenon
  <2>3. pTodo' = [i \in 1..Len(doomed) |-> P!Drop(Order[doomed[i]])]
        BY <1>1, <1>9, Zenon
  <2>4. pTodo' \in [1..Len(doomed) -> Item]
        BY <2>2, <2>3, Zenon
  <2>5. pTodo' \in Seq(Item) /\ Len(pTodo') = Len(doomed)
        BY <1>9, <2>4
  <2> QED BY <2>1, <2>2, <2>3, <2>5
<1>11. ProjectTypes'
      BY <1>1, <1>10, Zenon DEF ProjectInv, ProjectTypes
<1>12. Dropping'
  <2>1. ASSUME NEW k \in pDb \cap Under(s) PROVE \E i \in 1..Len(pTodo') : pTodo'[i].key = k
    <3>1. PICK n \in places : Order[n] = k
          BY <1>8
    <3>2. PICK i \in 1..Len(doomed) : doomed[i] = n
          BY <1>7
    <3>3. i \in 1..Len(pTodo') /\ pTodo'[i].key = Order[doomed[i]]
          BY <1>10
    <3> QED BY <3>1, <3>2, <3>3
  <2>2. \A i \in 1..Len(pTodo') : pTodo'[i].op = "drop" /\ pTodo'[i].key \in Under(s)
        BY <1>10
  <2>3. Under(pAbout)' = Under(s)
        BY <1>1, Zenon DEF Under
  <2> QED BY <1>1, <2>1, <2>2, <2>3, Zenon DEF Dropping
<1>13. AllOpen'
      BY <1>1, AtRest DEF AllOpen, Opens
<1> QED BY <1>11, <1>12, <1>13, Zenon DEF ProjectInv

(* What is taken from the front of the queue.                                 *)
LEMMA FrontIs ==
  ASSUME ProjectTypes, pTodo # <<>>
  PROVE  /\ Len(pTodo) > 0 /\ Len(pTodo) \in Nat /\ Head(pTodo) = pTodo[1] /\ pTodo[1] \in Item
         /\ Tail(pTodo) \in Seq(Item) /\ Len(Tail(pTodo)) = Len(pTodo) - 1
         /\ \A i \in 1..Len(Tail(pTodo)) : Tail(pTodo)[i] = pTodo[i + 1]
         /\ Tail(pTodo) = <<>> <=> Len(pTodo) = 1
<1>1. pTodo \in Seq(Item)
      BY Zenon DEF ProjectTypes
<1>2. Len(pTodo) > 0 /\ Len(pTodo) \in Nat
      BY <1>1
<1>3. /\ Tail(pTodo) \in Seq(Item) /\ Len(Tail(pTodo)) = Len(pTodo) - 1
      /\ \A i \in 1..Len(Tail(pTodo)) : Tail(pTodo)[i] = pTodo[i + 1]
      BY <1>1, HeadTailProperties, Zenon
<1>4. Head(pTodo) = pTodo[1] /\ pTodo[1] \in Item
      BY <1>1, <1>2
<1> DEFINE t == Tail(pTodo)
<1>5. t \in Seq(Item) /\ Len(t) = Len(pTodo) - 1
      BY <1>3, Zenon
<1> HIDE DEF t
<1>6. t = <<>> <=> Len(t) = 0
      BY SMTT(30), <1>5
<1>7. t = <<>> <=> Len(pTodo) = 1
      BY <1>2, <1>5, <1>6
<1> QED BY <1>2, <1>3, <1>4, <1>7, Zenon DEF t

LEMMA PutStep ==
  ASSUME ProjectInv, Putting, P!Step
  PROVE  ProjectInv' /\ ~P!Deleting
<1> DEFINE k == pTodo[1].key
           t == Tail(pTodo)
<1>1. /\ ProjectTypes /\ AllOpen /\ pTodo # <<>>
      BY Zenon DEF ProjectInv, P!Step
<1>2. /\ Len(pTodo) > 0 /\ Len(pTodo) \in Nat /\ Head(pTodo) = pTodo[1] /\ pTodo[1] \in Item
      /\ t \in Seq(Item) /\ Len(t) = Len(pTodo) - 1
      /\ \A i \in 1..Len(t) : t[i] = pTodo[i + 1]
      /\ t = <<>> <=> Len(pTodo) = 1
      BY <1>1, FrontIs, Zenon
<1>3. 1 \in 1..Len(pTodo) /\ 1 \in 1..1
      BY <1>2
<1>4. pTodo[1].op = "put" /\ k \in Under(pAbout) /\ pAbout \in Scene
      BY <1>2, <1>3, Zenon DEF Putting
<1>5. /\ pDb' = pDb \cup {k} /\ pTodo' = t /\ pAbout' = pAbout
      /\ pTorn' = IF t = <<>> /\ P!Path(pAbout, P!Data) \in pDb' THEN pTorn \ {pAbout} ELSE pTorn
  <2>1. Head(pTodo).op = "put" /\ Head(pTodo).key = k
        BY <1>2, <1>4, Zenon
  <2> QED BY <2>1, Zenon DEF P!Step
<1>6. k \in P!Key
      BY <1>2 DEF Item
<1>7. ProjectTypes'
  <2>1. pDb' \subseteq P!Key /\ pTorn' \subseteq Scene
        BY <1>1, <1>5, <1>6 DEF ProjectTypes
  <2> QED BY <1>1, <1>2, <1>5, <2>1, Zenon DEF ProjectTypes
<1>8. k = P!Path(pAbout, P!Meta) => P!Path(pAbout, P!Data) \in pDb'
  <2>1. ASSUME NEW j \in 1..1 PROVE j = 1
        OBVIOUS
  <2> QED BY <1>3, <1>5, <2>1, Zenon DEF Putting
<1> HIDE DEF t
<1>9. ASSUME NEW i \in 1..Len(t) PROVE i + 1 \in 1..Len(pTodo) /\ t[i] = pTodo[i + 1]
      BY <1>2
<1>10. Putting'
  <2>1. \A i \in 1..Len(t) : t[i].op = "put" /\ t[i].key \in Under(pAbout)
        BY <1>9, Zenon DEF Putting
  <2>2. ASSUME NEW i \in 1..Len(t), t[i].key = P!Path(pAbout, P!Meta),
               P!Path(pAbout, P!Data) \notin pDb'
        PROVE  \E j \in 1..i : t[j].key = P!Path(pAbout, P!Data)
    <3>1. P!Path(pAbout, P!Data) \notin pDb /\ k # P!Path(pAbout, P!Data)
          BY <1>5, <2>2
    <3>2. PICK j \in 1..i + 1 : pTodo[j].key = P!Path(pAbout, P!Data)
          BY <1>9, <2>2, <3>1, Zenon DEF Putting
    <3>3. j # 1
          BY <3>1, <3>2, Zenon
    <3>4. j - 1 \in 1..i /\ j - 1 \in 1..Len(t) /\ (j - 1) + 1 = j
          BY <1>2, <3>2, <3>3
    <3>5. t[j - 1].key = P!Path(pAbout, P!Data)
          BY <1>9, <3>2, <3>4
    <3> QED BY <3>4, <3>5, Zenon
  <2> QED BY <1>4, <1>5, <2>1, <2>2, Zenon DEF Putting, Under
<1>11. AllOpen'
  <2> SUFFICES ASSUME NEW s \in Scene \ pTorn', P!Path(s, P!Meta) \in pDb' PROVE P!Path(s, P!Data) \in pDb'
      BY Zenon DEF AllOpen, Opens
  <2>1. P!Path(s, P!Meta) \in Under(s)
        BY Documents, PutOf, Zenon
  <2>2. CASE P!Path(s, P!Meta) = k
    <3>1. s = pAbout
          BY <1>4, <2>1, <2>2, ProjectsApart
    <3> QED BY <1>8, <2>2, <3>1, Zenon
  <2>3. CASE P!Path(s, P!Meta) # k
    <3>1. P!Path(s, P!Meta) \in pDb
          BY <1>5, <2>3
    <3>2. CASE s \in pTorn
          BY <1>5, <3>2
    <3>3. CASE s \notin pTorn
      <4>1. ~Taken(s)
            BY <1>4 DEF Taken
      <4>2. Opens(s)
            BY <1>1, <3>3, <4>1, Zenon DEF AllOpen
      <4> QED BY <1>5, <3>1, <4>2 DEF Opens
    <3> QED BY <3>2, <3>3
  <2> QED BY <2>2, <2>3
<1>12. ~P!Deleting
      BY <1>1, <1>4, DeletingIs
<1> QED BY <1>7, <1>10, <1>11, <1>12, Zenon DEF ProjectInv

LEMMA DropStep ==
  ASSUME ProjectInv, Dropping, P!Step
  PROVE  /\ ProjectInv'
         /\ \A s \in Scene : pAbout \notin {s, <<>>} => pDb' \cap Under(s) = pDb \cap Under(s)
<1> DEFINE k == pTodo[1].key
           t == Tail(pTodo)
<1>1. /\ ProjectTypes /\ AllOpen /\ pTodo # <<>>
      BY Zenon DEF ProjectInv, P!Step
<1>2. /\ Len(pTodo) > 0 /\ Len(pTodo) \in Nat /\ Head(pTodo) = pTodo[1] /\ pTodo[1] \in Item
      /\ t \in Seq(Item) /\ Len(t) = Len(pTodo) - 1
      /\ \A i \in 1..Len(t) : t[i] = pTodo[i + 1]
      BY <1>1, FrontIs, Zenon
<1>3. 1 \in 1..Len(pTodo)
      BY <1>2
<1>4. pTodo[1].op = "drop" /\ k \in Under(pAbout)
      BY <1>3, Zenon DEF Dropping
<1>5. /\ pDb' = pDb \ {k} /\ pTodo' = t /\ pAbout' = pAbout /\ pTorn' = pTorn
  <2>1. Head(pTodo).op = "drop" /\ Head(pTodo).key = k
        BY <1>2, <1>4, Zenon
  <2>2. Head(pTodo).op # "put"
        BY <2>1
  <2> QED BY <2>1, <2>2, Zenon DEF P!Step
<1>6. ProjectTypes'
      BY <1>1, <1>2, <1>5 DEF ProjectTypes
<1> HIDE DEF t
<1>7. ASSUME NEW i \in 1..Len(t) PROVE i + 1 \in 1..Len(pTodo) /\ t[i] = pTodo[i + 1]
      BY <1>2
<1>8. Dropping'
  <2>1. \A i \in 1..Len(t) : t[i].op = "drop" /\ t[i].key \in Under(pAbout)
        BY <1>7, ZenonT(60) DEF Dropping
  <2>2. ASSUME NEW x \in pDb' \cap Under(pAbout) PROVE \E i \in 1..Len(t) : t[i].key = x
    <3>1. x \in pDb \cap Under(pAbout) /\ x # k
          BY <1>5
    <3>2. PICK i \in 1..Len(pTodo) : pTodo[i].key = x
          BY <3>1, Zenon DEF Dropping
    <3>3. i # 1
          BY <3>1, <3>2, Zenon
    <3>4. i - 1 \in 1..Len(t) /\ (i - 1) + 1 = i
          BY <1>2, <3>2, <3>3
    <3>5. t[i - 1].key = x
          BY <1>7, <3>2, <3>4
    <3> QED BY <3>4, <3>5, Zenon
  <2> QED BY <1>5, <2>1, <2>2, Zenon DEF Dropping, Under
<1>9. ASSUME NEW s \in Scene, pAbout \notin {s, <<>>} PROVE k \notin Under(s)
  <2>1. pAbout \in Scene /\ pAbout # s
        BY <1>1, <1>9 DEF ProjectTypes
  <2> QED BY <1>4, <2>1, ProjectsApart
<1>10. AllOpen'
  <2> SUFFICES ASSUME NEW s \in Scene \ pTorn, ~Taken(s)', P!Path(s, P!Meta) \in pDb'
               PROVE  P!Path(s, P!Data) \in pDb'
      BY <1>5, Zenon DEF AllOpen, Opens
  <2>1. P!Path(s, P!Meta) \in Under(s) /\ P!Path(s, P!Data) \in Under(s)
        BY Documents, PutOf, Zenon
  <2>2. CASE pAbout \in {s, <<>>}
    <3>1. P!Path(s, P!Meta) \in Under(pAbout)
      <4>1. P!Path(s, P!Meta) \in P!Key
            BY Documents, PutOf, Zenon
      <4> QED BY <2>1, <2>2, <4>1, Zenon DEF Under
    <3>2. PICK i \in 1..Len(pTodo') : pTodo'[i].key = P!Path(s, P!Meta)
          BY <1>5, <1>8, <3>1, Zenon DEF Dropping, Under
    <3>3. Len(pTodo') > 0 /\ 1 \in 1..Len(pTodo')
          BY <1>2, <1>5, <3>2
    <3>4. pTodo'[1].op = "drop"
          BY <1>8, <3>3, Zenon DEF Dropping
    <3> QED BY <1>5, <2>2, <3>3, <3>4, Zenon DEF Taken
  <2>3. CASE pAbout \notin {s, <<>>}
    <3>1. k \notin Under(s)
          BY <1>9, <2>3
    <3>2. Opens(s)
          BY <1>1, <2>3, Zenon DEF AllOpen, Taken
    <3> QED BY <1>5, <2>1, <3>1, <3>2, Zenon DEF Opens
  <2> QED BY <2>2, <2>3
<1>11. ASSUME NEW s \in Scene, pAbout \notin {s, <<>>} PROVE pDb' \cap Under(s) = pDb \cap Under(s)
      BY <1>5, <1>9, <1>11
<1> QED BY <1>6, <1>8, <1>10, <1>11, Zenon DEF ProjectInv

LEMMA CrashProject == ASSUME ProjectInv, P!Crash PROVE ProjectInv'
<1>1. /\ ProjectTypes /\ AllOpen /\ pTodo' = <<>> /\ pDb' = pDb /\ pAbout' = pAbout
      /\ pTorn' = IF P!Deleting THEN pTorn \cup (IF pAbout = <<>> THEN Scene ELSE {pAbout}) ELSE pTorn
      BY Zenon DEF ProjectInv, P!Crash
<1>2. pTodo' \in Seq(Item) /\ Len(pTodo') = 0
      BY <1>1, EmptySeq, Zenon
<1>3. pTorn' \subseteq Scene
      BY <1>1 DEF ProjectTypes
<1>4. ProjectTypes'
      BY <1>1, <1>2, <1>3, Zenon DEF ProjectTypes
<1>5. Putting'
  <2>1. ~(Len(pTodo') > 0) /\ \A i \in 1..Len(pTodo') : FALSE
        BY <1>2
  <2> QED BY <2>1, Zenon DEF Putting
<1>6. AllOpen'
  <2> SUFFICES ASSUME NEW s \in Scene \ pTorn' PROVE Opens(s)
      BY <1>1, Zenon DEF AllOpen, Opens
  <2>1. s \notin pTorn
        BY <1>1
  <2>2. ~Taken(s)
    <3> SUFFICES ASSUME Taken(s) PROVE FALSE
        OBVIOUS
    <3>1. P!Deleting
          BY <1>1, DeletingIs, Zenon DEF Taken
    <3>2. s \in IF pAbout = <<>> THEN Scene ELSE {pAbout}
          BY Zenon DEF Taken
    <3> QED BY <1>1, <3>1, <3>2
  <2> QED BY <1>1, <2>1, <2>2, Zenon DEF AllOpen
<1> QED BY <1>4, <1>5, <1>6, Zenon DEF ProjectInv

LEMMA ProjectInit == ASSUME P!Init PROVE ProjectInv
<1>1. pDb = {} /\ pTodo = <<>> /\ pAbout = <<>> /\ pTorn = {}
      BY Zenon DEF P!Init
<1>2. pTodo \in Seq(Item) /\ Len(pTodo) = 0
      BY <1>1, EmptySeq, Zenon
<1>3. ProjectTypes
      BY <1>1, <1>2, Zenon DEF ProjectTypes
<1>4. Putting
  <2>1. ~(Len(pTodo) > 0) /\ \A i \in 1..Len(pTodo) : FALSE
        BY <1>2
  <2> QED BY <2>1, Zenon DEF Putting
<1>5. AllOpen
      BY <1>1, Zenon DEF AllOpen, Opens
<1> QED BY <1>3, <1>4, <1>5, Zenon DEF ProjectInv

LEMMA ProjectsStay == ASSUME ProjectInv, UNCHANGED P!vars PROVE ProjectInv'
<1>1. UNCHANGED <<pDb, pTodo, pAbout, pTorn>>
      BY Zenon DEF P!vars
<1> QED BY <1>1, Zenon DEF ProjectInv, ProjectTypes, Putting, Dropping, AllOpen, Taken, Opens, Under

LEMMA OpenAre == ASSUME ProjectInv PROVE P!ListedLoads
<1> SUFFICES ASSUME NEW s \in P!Listed \ pTorn, ~(P!Deleting /\ pAbout \in {s, <<>>})
             PROVE  P!Data \in P!Loaded(s)
    BY Zenon DEF P!ListedLoads
<1>1. s \in Scene \ pTorn /\ P!Path(s, P!Meta) \in pDb
      BY Zenon DEF P!Listed
<1>2. ~Taken(s)
      BY DeletingIs, Zenon DEF Taken, ProjectInv
<1>3. P!Path(s, P!Data) \in pDb
      BY <1>1, <1>2, Zenon DEF ProjectInv, AllOpen, Opens
<1> QED BY <1>1, <1>3, Documents, Zenon DEF P!Loaded

(* What a step leaves of every other project.                                 *)
LEMMA OwnAre ==
  ASSUME ProjectInv, ProjectInv',
         \A s \in Scene : P!Deleting /\ pAbout \notin {s, <<>>} => pDb' \cap Under(s) = pDb \cap Under(s)
  PROVE  P!DeletesOwn
<1> SUFFICES ASSUME NEW s \in Scene, P!Deleting, pAbout \notin {s, <<>>}
             PROVE  {k \in pDb' : P!IsPrefix(P!Dir(s) \o <<"/">>, k)} = P!Below(P!Dir(s))
    BY Zenon DEF P!DeletesOwn
<1>1. pDb \subseteq P!Key /\ pDb' \subseteq P!Key
      BY Zenon DEF ProjectInv, ProjectTypes
<1>2. P!Below(P!Dir(s)) = pDb \cap Under(s)
      BY <1>1, DoomedAre, Zenon
<1>3. {k \in pDb' : P!IsPrefix(P!Dir(s) \o <<"/">>, k)} = pDb' \cap Under(s)
  <2>1. \A k \in pDb' : P!IsPrefix(P!Dir(s) \o <<"/">>, k) <=> k \in Under(s)
        BY <1>1, Beneath, Zenon DEF Slashed
  <2> QED BY <2>1, Zenon
<1> QED BY <1>2, <1>3, Zenon

LEMMA ProjectStep ==
  ASSUME ProjectInv, [P!Next]_(P!vars) PROVE ProjectInv' /\ P!DeletesOwn /\ P!ListedLoads'
<1> SUFFICES /\ ProjectInv'
             /\ \A s \in Scene :
                  P!Deleting /\ pAbout \notin {s, <<>>} => pDb' \cap Under(s) = pDb \cap Under(s)
  <2>1. ASSUME ProjectInv' PROVE P!ListedLoads'
        BY <2>1, OpenAre, PTL
  <2> QED BY <2>1, OwnAre
<1>1. ASSUME P!Free PROVE ~P!Deleting
      BY <1>1 DEF P!Free, P!Deleting
<1>2. ASSUME NEW s \in Scene, P!Save(s) PROVE ProjectInv' /\ ~P!Deleting
      BY <1>1, <1>2, SaveProject DEF P!Save
<1>3. ASSUME NEW s \in Scene, NEW c \in Chat, P!TouchChat(s, c) PROVE ProjectInv' /\ ~P!Deleting
      BY <1>1, <1>3, TouchProject DEF P!TouchChat
<1>4. ASSUME NEW s \in Scene \cup {<<>>}, P!Delete(s) PROVE ProjectInv' /\ ~P!Deleting
      BY <1>1, <1>4, DeleteProject DEF P!Delete
<1>5. CASE P!Step
  <2>1. CASE Putting
        BY <1>5, <2>1, PutStep
  <2>2. CASE Dropping
        BY <1>5, <2>2, DropStep
  <2> QED BY <2>1, <2>2 DEF ProjectInv
<1>6. CASE P!Crash
      BY <1>6, CrashProject DEF P!Crash
<1>7. CASE UNCHANGED P!vars
      BY <1>7, ProjectsStay DEF P!vars
<1> QED BY <1>2, <1>3, <1>4, <1>5, <1>6, <1>7, Zenon DEF P!Next

(* The projects of an account, over its saves, deletes and restarts: what is  *)
(* listed opens, and a delete takes nothing of another project.               *)
THEOREM Projects == P!Spec => ProjectsHold
<1>1. P!Init => ProjectInv
      BY ProjectInit
<1>2. ProjectInv /\ [P!Next]_(P!vars) => ProjectInv' /\ [P!DeletesOwn /\ P!ListedLoads']_(P!vars)
      BY ProjectStep
<1> QED BY <1>1, <1>2, PTL DEF P!Spec, ProjectsHold, P!ProjectsHold

(* The documents of the projects and what is still to write have their types. *)
THEOREM ProjectsTyped == P!Spec => []P!ProjectStoreTypeOK
<1>1. P!Init => ProjectInv
      BY ProjectInit
<1>2. ProjectInv /\ [P!Next]_(P!vars) => ProjectInv'
      BY ProjectStep
<1>3. ProjectInv => P!ProjectStoreTypeOK
      BY Zenon DEF ProjectInv, ProjectTypes, P!ProjectStoreTypeOK
<1> QED BY <1>1, <1>2, <1>3, PTL DEF P!Spec

-----------------------------------------------------------------------------
(* Installer                                                                  *)

\* The folder itself is the empty path.
Top == <<>>
InFolder == UNION {{p[i] : i \in DOMAIN p} : p \in AllPaths}
FilesOf(v) == {Archive[v][i] : i \in DOMAIN Archive[v]}
DirsOf(v) == (UNION {I!Parents(p) : p \in FilesOf(v)}) \ {Top}
BothTools == {"ps1", "vbs"}
MarkedSteps == {"extract", "fill", "tools", "link", "manifest", "listing", "register"}

Steps ==
  /\ iScreen \in {"closed", "ready", "installing", "done", "error"}
  /\ iPc \in {"none", "validate", "marker", "marking"} \cup MarkedSteps
  /\ iUn \in {"none", "links", "files", "dirs", "tools", "marker", "manifest", "registry", "root"}
  /\ iMarker \in {"none", "torn", "valid"} /\ iTools \subseteq BothTools
  /\ iRegistered \in BOOLEAN /\ iCut \in BOOLEAN
  /\ iRest \in Seq(Seq(InFolder))

\* Directories and files, each in directories that are there.
Within ==
  /\ iDirs \subseteq Seq(InFolder) /\ DOMAIN iFiles \subseteq AllPaths
  /\ \A p \in DOMAIN iFiles :
       iFiles[p] \in Release \cup {"part", "user"} /\ I!Parents(p) \subseteq iDirs

\* The two programs do not run at a time, and an installer that is open is some version.
OneActs ==
  /\ iPc # "none" <=> iScreen = "installing"
  /\ iUn # "none" => iPc = "none"
  /\ iScreen # "closed" => iVersion \in Release

\* What the steps of an installation have done.
Progressed ==
  /\ iPc = "marking" => iMarker = "torn"
  /\ iPc \in MarkedSteps => iMarker = "valid"
  /\ iPc \in {"extract", "fill"} => iLeft \in Seq(FilesOf(iVersion))
  /\ iPc = "fill" => Len(iLeft) > 0 /\ Head(iLeft) \in DOMAIN iFiles
  /\ iPc \in {"link", "manifest", "listing", "register"} => iTools = BothTools
  /\ iPc = "listing" => iManifest.is = "torn"
  /\ iPc = "register" => iManifest.is = "whole"

\* A whole manifest lists what one version has.
ManifestTrue ==
  /\ iManifest.is \in {"none", "torn", "whole"}
  /\ iManifest.is = "whole" => \E v \in Release :
       iManifest.files = FilesOf(v) /\ iManifest.dirs \in I!Listings(DirsOf(v))

\* What the steps of an uninstallation have done.
Removed ==
  /\ iUn \in {"links", "files", "dirs", "tools", "marker"} => iMarker = "valid"
  /\ iUn \in {"links", "files", "dirs", "tools", "marker", "manifest"} => iManifest.is = "whole"
  /\ iUn \in {"marker", "manifest", "registry", "root"} => iTools = {}
  /\ iUn \in {"manifest", "registry", "root"} => iMarker = "none"
  /\ iUn \in {"registry", "root"} => iManifest.is = "none"
  /\ iUn = "root" => ~iRegistered

\* A folder that is not there holds nothing.
NoFolder ==
  Top \notin iDirs =>
    /\ iDirs = {} /\ iMarker = "none" /\ iManifest.is = "none" /\ iTools = {} /\ ~iRegistered
    /\ iUn = "none" /\ iPc \in {"none", "validate"}

\* A folder in which the user has files of another program is not installed into.
UsersOther ==
  \A p \in DOMAIN iFiles : iFiles[p] = "user" /\ p # OwnFile =>
    iMarker = "none" /\ iUn = "none" /\ iPc \in {"none", "validate"}

\* Files of the program are in a folder that is marked.
Marked == (\E p \in DOMAIN iFiles : iFiles[p] # "user") /\ ~iCut => iMarker # "none"

Removable ==
  iRegistered /\ iUn = "none" /\ ~iCut =>
    iTools = BothTools /\ iMarker # "none" /\ iManifest.is # "none"

\* A directory is in use, or still to be tried after all that are in it.
InUseBelow(d) == \E x \in iDirs \cup DOMAIN iFiles : d \in I!Parents(x)
ToTry(d) == \E i \in 1..Len(iRest) : iRest[i] = d
NoneEmpty ==
  /\ ~iCut => \A d \in iDirs \ {Top} : InUseBelow(d) \/ (iUn = "dirs" /\ ToTry(d))
  /\ \A i \in 1..Len(iRest) :
       /\ iRest[i] # Top
       /\ \A d \in I!Parents(iRest[i]) \ {Top} : \E j \in i + 1..Len(iRest) : iRest[j] = d

InstallerInv ==
  /\ Steps /\ Within /\ OneActs /\ Progressed /\ ManifestTrue /\ Removed /\ NoFolder
  /\ UsersOther /\ Marked /\ Removable /\ NoneEmpty

LEMMA PathsAre ==
  \A p \in AllPaths : p \in Seq(InFolder) /\ p # Top
<1> SUFFICES ASSUME NEW p \in AllPaths PROVE p \in Seq(InFolder) /\ p # Top
    OBVIOUS
<1>1. p \in Seq({p[i] : i \in DOMAIN p}) /\ p # <<>>
      BY ReleaseAssumption, Zenon
<1>2. {p[i] : i \in DOMAIN p} \subseteq InFolder
      BY Zenon DEF InFolder
<1> HIDE DEF InFolder
<1> QED BY <1>1, <1>2, SeqMonotonic, Zenon DEF Top

LEMMA ArchivesAre ==
  ASSUME NEW v \in Release
  PROVE  /\ FilesOf(v) \subseteq AllPaths /\ OwnFile \notin FilesOf(v)
         /\ Archive[v] \in Seq(FilesOf(v)) /\ I!Range(Archive[v]) = FilesOf(v)
<1>1. FilesOf(v) \subseteq AllPaths
      BY DEF AllPaths, Archived, FilesOf
<1> QED BY <1>1, ReleaseAssumption, Zenon DEF FilesOf, I!Range

LEMMA OwnsAre == OwnFile \in AllPaths /\ Program \in AllPaths
<1> QED BY Zenon DEF AllPaths

LEMMA TopIs == Top \in Seq(InFolder) /\ Len(Top) = 0 /\ \A x \in Seq(InFolder) : Len(x) = 0 => x = Top
<1>1. <<>> \in Seq(InFolder) /\ Len(<<>>) = 0
      BY EmptySeq, Zenon
<1>2. ASSUME NEW x \in Seq(InFolder), Len(x) = 0 PROVE x = <<>>
      BY <1>2
<1> QED BY <1>1, <1>2, Zenon DEF Top

(* Parents are the proper beginnings.                                         *)
LEMMA ParentMeans ==
  ASSUME NEW x \in Seq(InFolder), NEW d
  PROVE  d \in I!Parents(x) <=>
           d \in Seq(InFolder) /\ Len(d) < Len(x) /\ \A i \in 1..Len(d) : d[i] = x[i]
<1>0. Len(x) \in Nat /\ \A i \in 1..Len(x) : x[i] \in InFolder
      OBVIOUS
<1>1. ASSUME NEW n \in 0..Len(x) - 1
      PROVE  /\ SubSeq(x, 1, n) \in Seq(InFolder) /\ Len(SubSeq(x, 1, n)) = n
             /\ \A i \in 1..n : SubSeq(x, 1, n)[i] = x[i]
      BY <1>0
<1>2. ASSUME d \in I!Parents(x)
      PROVE  d \in Seq(InFolder) /\ Len(d) < Len(x) /\ \A i \in 1..Len(d) : d[i] = x[i]
  <2>1. PICK n \in 0..Len(x) - 1 : d = SubSeq(x, 1, n)
        BY <1>2, Zenon DEF I!Parents
  <2>2. d \in Seq(InFolder) /\ Len(d) = n /\ \A i \in 1..n : d[i] = x[i]
        BY <1>1, <2>1, Zenon
  <2> QED BY <1>0, <2>2
<1>3. ASSUME d \in Seq(InFolder), Len(d) < Len(x), \A i \in 1..Len(d) : d[i] = x[i]
      PROVE  d \in I!Parents(x)
  <2> DEFINE n == Len(d)
             t == SubSeq(x, 1, n)
  <2>1. n \in 0..Len(x) - 1
        BY <1>0, <1>3
  <2>2. t \in Seq(InFolder) /\ Len(t) = n /\ \A i \in 1..n : t[i] = x[i]
        BY <1>1, <2>1, Zenon
  <2>3. d = t
    <3> HIDE DEF t
    <3> QED BY <1>3, <2>2, SeqEqual
  <2> QED BY <2>1, <2>3, Zenon DEF I!Parents
<1> QED BY <1>2, <1>3, Zenon

LEMMA ParentIs ==
  ASSUME NEW x \in Seq(InFolder), NEW d \in Seq(InFolder)
  PROVE  (d # x /\ I!IsPrefix(d, x)) <=> d \in I!Parents(x)
<1>0. Len(x) \in Nat /\ Len(d) \in Nat
      OBVIOUS
<1>1. SubSeq(d, 1, Len(d)) = d
      BY SubSeqFull, Zenon
<1>2. ASSUME d # x, I!IsPrefix(d, x) PROVE d \in I!Parents(x)
  <2>1. Len(d) <= Len(x) /\ d = SubSeq(x, 1, Len(d))
        BY <1>1, <1>2, Zenon DEF I!IsPrefix
  <2>2. Len(d) # Len(x)
    <3> SUFFICES ASSUME Len(d) = Len(x) PROVE FALSE
        OBVIOUS
    <3>1. SubSeq(x, 1, Len(x)) = x
          BY SubSeqFull, Zenon
    <3> QED BY <1>2, <2>1, <3>1, Zenon
  <2>3. Len(d) \in 0..Len(x) - 1
        BY <1>0, <2>1, <2>2
  <2> QED BY <2>1, <2>3, Zenon DEF I!Parents
<1>3. ASSUME d \in I!Parents(x) PROVE d # x /\ I!IsPrefix(d, x)
  <2>1. PICK n \in 0..Len(x) - 1 : d = SubSeq(x, 1, n)
        BY <1>3, Zenon DEF I!Parents
  <2>2. Len(d) < Len(x)
        BY <1>3, ParentMeans, Zenon
  <2>3. Len(d) = n
    <3>1. Len(SubSeq(x, 1, n)) = n
          BY <1>0
    <3> QED BY <2>1, <3>1, Zenon
  <2>4. Len(d) <= Len(x) /\ d # x
        BY <1>0, <2>2
  <2> QED BY <1>1, <2>1, <2>3, <2>4, Zenon DEF I!IsPrefix
<1> QED BY <1>2, <1>3, Zenon

LEMMA ParentsIn ==
  ASSUME NEW x \in Seq(InFolder)
  PROVE  /\ \A d \in I!Parents(x) : d \in Seq(InFolder) /\ d # x /\ I!Parents(d) \subseteq I!Parents(x)
         /\ x # Top => Top \in I!Parents(x)
         /\ I!Parents(Top) = {}
<1>1. ASSUME NEW d \in I!Parents(x)
      PROVE  d \in Seq(InFolder) /\ d # x /\ I!Parents(d) \subseteq I!Parents(x)
  <2>1. d \in Seq(InFolder) /\ Len(d) < Len(x) /\ \A i \in 1..Len(d) : d[i] = x[i]
        BY ParentMeans, Zenon
  <2>2. d # x
        BY <2>1
  <2>3. ASSUME NEW c \in I!Parents(d) PROVE c \in I!Parents(x)
    <3>1. c \in Seq(InFolder) /\ Len(c) < Len(d) /\ \A i \in 1..Len(c) : c[i] = d[i]
          BY <2>1, ParentMeans, Zenon
    <3>2. Len(c) < Len(x) /\ \A i \in 1..Len(c) : c[i] = x[i]
          BY <2>1, <3>1
    <3> QED BY <3>1, <3>2, ParentMeans, Zenon
  <2> QED BY <2>1, <2>2, <2>3, Zenon
<1>2. ASSUME x # Top PROVE Top \in I!Parents(x)
  <2>1. Top \in Seq(InFolder) /\ Len(Top) = 0 /\ Len(x) # 0
        BY <1>2, TopIs, Zenon
  <2>2. Len(Top) < Len(x) /\ \A i \in 1..Len(Top) : Top[i] = x[i]
        BY <2>1
  <2> QED BY <2>1, <2>2, ParentMeans, Zenon
<1>3. I!Parents(Top) = {}
  <2>1. ASSUME NEW d \in I!Parents(Top) PROVE FALSE
    <3>1. d \in Seq(InFolder) /\ Len(d) < Len(Top) /\ Len(Top) = 0
          BY ParentMeans, TopIs, Zenon
    <3> QED BY <3>1
  <2> QED BY <2>1, Zenon
<1> QED BY <1>1, <1>2, <1>3, Zenon

LEMMA SparedIs ==
  ASSUME Within, NEW d \in Seq(InFolder)
  PROVE  I!Spared(d) = IF InUseBelow(d) THEN iDirs ELSE iDirs \ {d}
<1>1. iDirs \cup DOMAIN iFiles \subseteq Seq(InFolder)
      BY PathsAre, Zenon DEF Within
<1>2. I!Below(d, iDirs \cup DOMAIN iFiles) = {} <=> ~InUseBelow(d)
      BY <1>1, ParentIs, Zenon DEF I!Below, InUseBelow
<1> QED BY <1>2, Zenon DEF I!Spared

(* What is left of a sequence.                                                *)
LEMMA LeftIs ==
  ASSUME NEW T, NEW x \in Seq(T), Len(x) > 0
  PROVE  /\ Head(x) \in T /\ Head(x) = x[1] /\ Tail(x) \in Seq(T) /\ Len(Tail(x)) = Len(x) - 1
         /\ \A i \in 1..Len(x) - 1 : Tail(x)[i] = x[i + 1]
<1>1. x # <<>>
      OBVIOUS
<1> QED BY <1>1, HeadTailProperties

LEMMA NothingLeft ==
  ASSUME NEW T, NEW x \in Seq(T), x # <<>> PROVE Len(x) \in Nat /\ Len(x) > 0
<1> QED OBVIOUS

(* A file is put into the folder with the directories it is in.               *)
LEMMA PutWithin ==
  ASSUME Within, NEW p \in AllPaths, NEW c \in Release \cup {"part", "user"},
         iDirs' = iDirs \cup I!Parents(p), iFiles' = I!Put(p, c)
  PROVE  Within' /\ DOMAIN iFiles' = DOMAIN iFiles \cup {p} /\ iFiles'[p] = c
         /\ \A q \in DOMAIN iFiles \ {p} : iFiles'[q] = iFiles[q]
<1>1. /\ DOMAIN iFiles' = DOMAIN iFiles \cup {p}
      /\ \A q \in DOMAIN iFiles' : iFiles'[q] = IF q = p THEN c ELSE iFiles[q]
      BY DEF I!Put
<1>2. I!Parents(p) \subseteq Seq(InFolder)
      BY PathsAre, ParentMeans, Zenon
<1>3. iDirs' \subseteq Seq(InFolder) /\ DOMAIN iFiles' \subseteq AllPaths
      BY <1>1, <1>2, Zenon DEF Within
<1>4. ASSUME NEW q \in DOMAIN iFiles'
      PROVE  iFiles'[q] \in Release \cup {"part", "user"} /\ I!Parents(q) \subseteq iDirs'
      BY <1>1, <1>4, Zenon DEF Within
<1> QED BY <1>1, <1>3, <1>4, Zenon DEF Within

(* A directory goes only when nothing is in it.                               *)
LEMMA SparedWithin ==
  ASSUME Within, NEW d \in Seq(InFolder), iDirs' = I!Spared(d), iFiles' = iFiles
  PROVE  Within'
<1>1. iDirs' \subseteq iDirs
      BY SparedIs, Zenon
<1>2. ASSUME NEW p \in DOMAIN iFiles PROVE I!Parents(p) \subseteq iDirs'
  <2>1. CASE InUseBelow(d)
        BY <1>2, <2>1, SparedIs, Zenon DEF Within
  <2>2. CASE ~InUseBelow(d)
    <3>1. d \notin I!Parents(p)
          BY <1>2, <2>2, Zenon DEF InUseBelow
    <3>2. iDirs' = iDirs \ {d}
          BY <2>2, SparedIs, Zenon
    <3> QED BY <1>2, <3>1, <3>2, Zenon DEF Within
  <2> QED BY <2>1, <2>2, Zenon
<1> QED BY <1>1, <1>2, Zenon DEF Within

LEMMA NoneEmptyStays ==
  ASSUME NoneEmpty, iDirs' = iDirs, iFiles' = iFiles, iRest' = iRest, iCut => iCut',
         iUn = "dirs" => iUn' = "dirs"
  PROVE  NoneEmpty'
<1>1. \A d : InUseBelow(d)' <=> InUseBelow(d)
      BY Zenon DEF InUseBelow
<1>2. \A d : ToTry(d)' <=> ToTry(d)
      BY Zenon DEF ToTry
<1>3. ~iCut' => \A d \in iDirs' \ {Top} : InUseBelow(d)' \/ (iUn' = "dirs" /\ ToTry(d)')
      BY <1>1, <1>2, Zenon DEF NoneEmpty
<1>4. \A i \in 1..Len(iRest') :
        /\ iRest'[i] # Top
        /\ \A d \in I!Parents(iRest'[i]) \ {Top} : \E j \in i + 1..Len(iRest') : iRest'[j] = d
      BY Zenon DEF NoneEmpty
<1> QED BY <1>3, <1>4, Zenon DEF NoneEmpty

LEMMA OntoFinite ==
  ASSUME NEW T, IsFiniteSet(T), NEW f, DOMAIN f = T, f = [x \in T |-> f[x]]
  PROVE  IsFiniteSet({f[x] : x \in T})
<1> DEFINE onto == {f[x] : x \in T}
<1>1. f \in Surjection(T, onto)
      BY DEF Surjection
<1> QED BY <1>1, FS_Surjection, Zenon

LEMMA FilesFinite == ASSUME NEW v \in Release PROVE IsFiniteSet(DirsOf(v))
<1>1. Archive[v] \in Seq(FilesOf(v)) /\ FilesOf(v) \subseteq AllPaths
      BY ArchivesAre, Zenon
<1>2. IsFiniteSet(FilesOf(v))
  <2> DEFINE n == Len(Archive[v])
  <2>1. n \in Nat /\ DOMAIN Archive[v] = 1..n
        BY <1>1
  <2> HIDE DEF n
  <2>2. IsFiniteSet(1..n)
        BY <2>1, FS_Interval, 1 \in Int, n \in Int
  <2>3. Archive[v] = [i \in 1..n |-> Archive[v][i]]
        BY <1>1, <2>1
  <2>4. IsFiniteSet({Archive[v][i] : i \in 1..n})
    <3> DEFINE f == Archive[v]
    <3>1. DOMAIN f = 1..n /\ f = [i \in 1..n |-> f[i]]
          BY <2>1, <2>3
    <3> HIDE DEF f
    <3>2. IsFiniteSet({f[i] : i \in 1..n})
          BY <2>2, <3>1, OntoFinite, Zenon
    <3> QED BY <3>2, Zenon DEF f
  <2> QED BY <2>1, <2>4, Zenon DEF FilesOf
<1>3. ASSUME NEW x \in Seq(InFolder) PROVE IsFiniteSet(I!Parents(x))
  <2> DEFINE n == Len(x) - 1
  <2>1. n \in Int
        OBVIOUS
  <2> HIDE DEF n
  <2>2. IsFiniteSet(0..n)
        BY <2>1, FS_Interval, 0 \in Int
  <2>3. I!Parents(x) = {SubSeq(x, 1, m) : m \in 0..n}
        BY Zenon DEF I!Parents, n
  <2> DEFINE f == [m \in 0..n |-> SubSeq(x, 1, m)]
  <2>4. DOMAIN f = 0..n /\ f = [m \in 0..n |-> f[m]] /\ \A m \in 0..n : f[m] = SubSeq(x, 1, m)
        BY Zenon
  <2> HIDE DEF f
  <2>5. IsFiniteSet({f[m] : m \in 0..n})
        BY <2>2, <2>4, OntoFinite, Zenon
  <2>6. {f[m] : m \in 0..n} = I!Parents(x)
        BY <2>3, <2>4, Zenon
  <2> QED BY <2>5, <2>6, Zenon
<1>4. IsFiniteSet({I!Parents(p) : p \in FilesOf(v)})
  <2> DEFINE f == [p \in FilesOf(v) |-> I!Parents(p)]
  <2>1. /\ DOMAIN f = FilesOf(v) /\ f = [p \in FilesOf(v) |-> f[p]]
        /\ \A p \in FilesOf(v) : f[p] = I!Parents(p)
        BY Zenon
  <2> HIDE DEF f
  <2>2. IsFiniteSet({f[p] : p \in FilesOf(v)})
        BY <1>2, <2>1, OntoFinite, ZenonT(60)
  <2>3. {f[p] : p \in FilesOf(v)} = {I!Parents(p) : p \in FilesOf(v)}
        BY <2>1, Zenon
  <2> QED BY <2>2, <2>3, Zenon
<1>5. \A s \in {I!Parents(p) : p \in FilesOf(v)} : IsFiniteSet(s)
      BY <1>1, <1>3, PathsAre, Zenon
<1>6. IsFiniteSet(UNION {I!Parents(p) : p \in FilesOf(v)})
      BY <1>4, <1>5, FS_UNION, Zenon
<1>7. DirsOf(v) \subseteq UNION {I!Parents(p) : p \in FilesOf(v)}
      BY Zenon DEF DirsOf
<1> QED BY <1>6, <1>7, FS_Subset, Zenon

LEMMA ListingIs ==
  ASSUME NEW v \in Release, NEW list \in I!Listings(DirsOf(v))
  PROVE  /\ list \in Seq(DirsOf(v)) /\ \A d \in DirsOf(v) : \E i \in 1..Len(list) : list[i] = d
         /\ \A i, j \in 1..Len(list) : i < j => list[i] \notin I!Parents(list[j])
<1> DEFINE n == Cardinality(DirsOf(v))
<1>1. n \in Nat
      BY FilesFinite, FS_CardinalityType, Zenon
<1>2. I!Cardinality(DirsOf(v)) = n
      BY Zenon DEF I!Cardinality, Cardinality
<1>3. /\ list \in [1..n -> DirsOf(v)] /\ I!Range(list) = DirsOf(v)
      /\ \A i, j \in DOMAIN list : i < j => list[i] \notin I!Parents(list[j])
      BY <1>2, Zenon DEF I!Listings
<1> HIDE DEF n
<1>4. list \in Seq(DirsOf(v)) /\ Len(list) = n /\ DOMAIN list = 1..n
      BY <1>1, <1>3
<1>5. \A d \in DirsOf(v) : \E i \in DOMAIN list : list[i] = d
      BY <1>3, Zenon DEF I!Range
<1> QED BY <1>3, <1>4, <1>5, Zenon

(* The directories of a version are those its files are in, all the way up.   *)
LEMMA DirsAre ==
  ASSUME NEW v \in Release
  PROVE  /\ DirsOf(v) \subseteq Seq(InFolder) \ {Top}
         /\ \A x \in FilesOf(v) \cup DirsOf(v) : I!Parents(x) \ {Top} \subseteq DirsOf(v)
<1>1. FilesOf(v) \subseteq Seq(InFolder)
      BY ArchivesAre, PathsAre, Zenon
<1>2. \A d : d \in DirsOf(v) <=> d # Top /\ \E p \in FilesOf(v) : d \in I!Parents(p)
  <2>1. \A d : d \in UNION {I!Parents(p) : p \in FilesOf(v)}
                <=> \E p \in FilesOf(v) : d \in I!Parents(p)
        OBVIOUS
  <2> DEFINE all == UNION {I!Parents(p) : p \in FilesOf(v)}
  <2>2. DirsOf(v) = all \ {Top}
        BY Zenon DEF DirsOf
  <2> HIDE DEF all
  <2>3. \A d : d \in all <=> \E p \in FilesOf(v) : d \in I!Parents(p)
        BY <2>1, Zenon DEF all
  <2> QED BY <2>2, <2>3, Zenon
<1>3. ASSUME NEW x \in DirsOf(v)
      PROVE  x \in Seq(InFolder) /\ x # Top /\ I!Parents(x) \ {Top} \subseteq DirsOf(v)
  <2>1. PICK p \in FilesOf(v) : x \in I!Parents(p)
        BY <1>2, Zenon
  <2>2. p \in Seq(InFolder)
        BY <1>1, <2>1, Zenon
  <2>3. x \in Seq(InFolder) /\ I!Parents(x) \subseteq I!Parents(p)
        BY <2>1, <2>2, ParentsIn, Zenon
  <2> QED BY <1>2, <2>1, <2>3, Zenon
<1>4. ASSUME NEW x \in FilesOf(v) PROVE I!Parents(x) \ {Top} \subseteq DirsOf(v)
      BY <1>2, Zenon
<1> QED BY <1>3, <1>4, Zenon

LEMMA FillsAt ==
  ASSUME InstallerInv, iPc = "extract" \/ iPc = "fill", iLeft # <<>>
  PROVE  /\ iVersion \in Release /\ iLeft \in Seq(FilesOf(iVersion)) /\ Len(iLeft) > 0
         /\ Head(iLeft) \in FilesOf(iVersion) /\ Tail(iLeft) \in Seq(FilesOf(iVersion))
         /\ Head(iLeft) \in AllPaths /\ Head(iLeft) # OwnFile
<1>1. iVersion \in Release
      BY Zenon DEF InstallerInv, OneActs
<1>2. iLeft \in Seq(FilesOf(iVersion))
      BY Zenon DEF InstallerInv, Progressed
<1>3. Len(iLeft) > 0
      BY <1>2, NothingLeft, Zenon
<1>4. Head(iLeft) \in FilesOf(iVersion) /\ Tail(iLeft) \in Seq(FilesOf(iVersion))
      BY <1>2, <1>3, LeftIs, Zenon
<1> QED BY <1>1, <1>2, <1>3, <1>4, ArchivesAre, Zenon

LEMMA ValidateWithin == ASSUME InstallerInv, I!Validate PROVE Within'
<1>1. iDirs' = iDirs \cup {Top} /\ iFiles' = iFiles
      BY Zenon DEF I!Validate, Top
<1> QED BY <1>1, TopIs, Zenon DEF InstallerInv, Within

LEMMA WriteMarkerProgressed == ASSUME InstallerInv, I!WriteMarker PROVE Progressed'
<1>1. iVersion \in Release /\ iVersion' = iVersion
      BY Zenon DEF InstallerInv, OneActs, I!WriteMarker, I!Goes
<1>2. iPc' = "marking" \/ (iPc' = "extract" /\ iLeft' = Archive[iVersion])
      BY Zenon DEF InstallerInv, I!WriteMarker, I!Goes
<1>3. iPc' \in {"extract", "fill"} => iLeft' \in Seq(FilesOf(iVersion'))
      BY <1>1, <1>2, ArchivesAre, Zenon
<1>4. (iPc' = "marking" => iMarker' = "torn") /\ (iPc' \in MarkedSteps => iMarker' = "valid")
      BY DEF I!WriteMarker, I!Goes, MarkedSteps
<1> QED BY <1>2, <1>3, <1>4, Zenon DEF Progressed

LEMMA WriteMarkerNoneEmpty == ASSUME InstallerInv, I!WriteMarker PROVE NoneEmpty'
<1>1. iDirs' = iDirs /\ iFiles' = iFiles /\ iRest' = iRest /\ iCut' = iCut /\ iUn' = iUn
      BY Zenon DEF I!WriteMarker, I!Goes
<1> QED BY <1>1, NoneEmptyStays, Zenon DEF InstallerInv

LEMMA ExtractWithin == ASSUME InstallerInv, I!Extract PROVE Within'
<1>1. iPc = "extract" /\ iLeft # <<>>
      BY Zenon DEF I!Extract
<1>2. Head(iLeft) \in AllPaths /\ "part" \in Release \cup {"part", "user"}
      BY <1>1, FillsAt, Zenon
<1>3. iDirs' = iDirs \cup I!Parents(Head(iLeft)) /\ iFiles' = I!Put(Head(iLeft), "part")
      BY Zenon DEF I!Extract
<1> HIDE DEF I!Extract
<1> QED BY <1>2, <1>3, PutWithin, Zenon DEF InstallerInv

LEMMA FillAt ==
  ASSUME InstallerInv, I!Fill
  PROVE  /\ Within' /\ iVersion # "user" /\ iVersion \in Release
         /\ Head(iLeft) # OwnFile /\ iFiles'[Head(iLeft)] = iVersion
         /\ DOMAIN iFiles' = DOMAIN iFiles \cup {Head(iLeft)}
         /\ \A q \in DOMAIN iFiles \ {Head(iLeft)} : iFiles'[q] = iFiles[q]
<1>1. iPc = "fill" /\ Len(iLeft) > 0
      BY Zenon DEF InstallerInv, Progressed, I!Fill
<1>2. iLeft # <<>>
      BY <1>1
<1>3. Head(iLeft) \in AllPaths /\ Head(iLeft) # OwnFile /\ iVersion \in Release
      BY <1>1, <1>2, FillsAt, Zenon
<1>4. iDirs' = iDirs /\ iFiles' = I!Put(Head(iLeft), iVersion)
      BY Zenon DEF I!Fill
<1>5. Head(iLeft) \in DOMAIN iFiles
      BY <1>1, Zenon DEF InstallerInv, Progressed
<1>6. iDirs' = iDirs \cup I!Parents(Head(iLeft))
      BY <1>4, <1>5, Zenon DEF InstallerInv, Within
<1>7. iVersion # "user"
      BY <1>3, ReleaseAssumption, Zenon
<1> QED BY <1>3, <1>4, <1>6, <1>7, PutWithin, Zenon DEF InstallerInv

LEMMA FillUsersOther == ASSUME InstallerInv, I!Fill PROVE UsersOther'
<1>1. iPc = "fill"
      BY Zenon DEF I!Fill
<1>2. \A p \in DOMAIN iFiles : iFiles[p] = "user" => p = OwnFile
      BY <1>1, Zenon DEF InstallerInv, UsersOther
<1> QED BY <1>2, FillAt, Zenon DEF UsersOther

LEMMA WriteManifestProgressed == ASSUME InstallerInv, I!WriteManifest PROVE Progressed'
<1>1. /\ iMarker' = iMarker /\ iTools' = iTools /\ iPc \in {"manifest", "listing"}
      /\ iPc' = IF iPc = "manifest" THEN "listing" ELSE "register"
      BY Zenon DEF I!WriteManifest, I!Goes
<1>2. iManifest'.is = IF iPc = "manifest" THEN "torn" ELSE "whole"
  <2>1. IF iPc = "manifest" THEN iManifest' = I!Blank("torn")
                            ELSE \E list : iManifest' = I!Listed(list)
        BY Zenon DEF I!WriteManifest
  <2>2. I!Blank("torn").is = "torn" /\ \A list : I!Listed(list).is = "whole"
        BY DEF I!Blank, I!Listed
  <2> QED BY <2>1, <2>2, Zenon
<1>3. iMarker = "valid" /\ iTools = BothTools
      BY <1>1, Zenon DEF InstallerInv, Progressed, MarkedSteps
<1> QED BY <1>1, <1>2, <1>3, Zenon DEF Progressed, MarkedSteps

LEMMA WriteManifestTrue == ASSUME InstallerInv, I!WriteManifest PROVE ManifestTrue'
<1>1. CASE iPc = "manifest"
  <2>1. iManifest' = I!Blank("torn")
        BY <1>1, Zenon DEF I!WriteManifest
  <2>2. iManifest'.is = "torn"
        BY <2>1 DEF I!Blank
  <2> QED BY <2>2, Zenon DEF ManifestTrue
<1>2. CASE iPc # "manifest"
  <2>1. iVersion \in Release
        BY Zenon DEF InstallerInv, OneActs, I!WriteManifest
  <2>2. I!Entries = FilesOf(iVersion)
        BY <2>1, ArchivesAre, Zenon DEF I!Entries
  <2>3. (UNION {I!Parents(p) : p \in I!Entries}) \ {<<>>} = DirsOf(iVersion)
        BY <2>2, Zenon DEF DirsOf, Top
  <2>4. PICK list \in I!Listings(DirsOf(iVersion)) : iManifest' = I!Listed(list)
        BY <1>2, <2>3, Zenon DEF I!WriteManifest
  <2>5. iManifest'.is = "whole" /\ iManifest'.files = I!Entries /\ iManifest'.dirs = list
        BY <2>4 DEF I!Listed
  <2> QED BY <2>1, <2>2, <2>4, <2>5, Zenon DEF ManifestTrue
<1> QED BY <1>1, <1>2, Zenon

LEMMA WriteManifestRemovable == ASSUME InstallerInv, I!WriteManifest PROVE Removable'
<1>1. /\ iMarker' = iMarker /\ iTools' = iTools /\ iPc \in {"manifest", "listing"}
      BY Zenon DEF I!WriteManifest, I!Goes
<1>2. iManifest'.is # "none"
  <2>1. iManifest' = I!Blank("torn") \/ \E list : iManifest' = I!Listed(list)
        BY Zenon DEF I!WriteManifest
  <2>2. I!Blank("torn").is # "none" /\ \A list : I!Listed(list).is # "none"
        BY DEF I!Blank, I!Listed
  <2> QED BY <2>1, <2>2, Zenon
<1>3. iMarker = "valid" /\ iTools = BothTools
      BY <1>1, Zenon DEF InstallerInv, Progressed, MarkedSteps
<1> QED BY <1>1, <1>2, <1>3, Zenon DEF Removable

LEMMA WriteManifestNoneEmpty == ASSUME InstallerInv, I!WriteManifest PROVE NoneEmpty'
<1>1. iDirs' = iDirs /\ iFiles' = iFiles /\ iRest' = iRest /\ iCut' = iCut /\ iUn' = iUn
      BY Zenon DEF I!WriteManifest, I!Goes
<1> QED BY <1>1, NoneEmptyStays, Zenon DEF InstallerInv

(* Another folder holds nothing of an earlier one.                            *)
LEMMA BrowseAt ==
  ASSUME InstallerInv, I!Browse
  PROVE  /\ Within' /\ iMarker = "none" /\ iUn = "none" /\ iPc = "none" /\ iFiles = <<>>
         /\ \A d \in iDirs' \ {Top} : \E x \in DOMAIN iFiles' : d \in I!Parents(x)
         /\ \A p \in DOMAIN iFiles' : iFiles'[p] = "user"
<1>1. iScreen = "ready" /\ iDirs = {}
      BY Zenon DEF I!Browse
<1>2. iPc = "none" /\ iMarker = "none" /\ iUn = "none"
      BY <1>1, Zenon DEF InstallerInv, OneActs, NoFolder
<1>3. PICK held \in {{}, {Program}} :
        /\ iDirs' = {<<>>} \cup UNION {I!Parents(p) : p \in held}
        /\ iFiles' = [p \in held |-> "user"]
      BY Zenon DEF I!Browse
<1>4. held \subseteq AllPaths
      BY <1>3, OwnsAre, Zenon
<1>5. DOMAIN iFiles' = held /\ \A p \in held : iFiles'[p] = "user"
      BY <1>3
<1>6. iDirs' = {Top} \cup UNION {I!Parents(p) : p \in held}
      BY <1>3, Zenon DEF Top
<1>7. \A p \in held : I!Parents(p) \subseteq Seq(InFolder)
      BY <1>4, PathsAre, ParentMeans, Zenon
<1>8. Within'
  <2>1. iDirs' \subseteq Seq(InFolder)
        BY <1>6, <1>7, TopIs, Zenon
  <2>2. ASSUME NEW p \in DOMAIN iFiles'
        PROVE  iFiles'[p] \in Release \cup {"part", "user"} /\ I!Parents(p) \subseteq iDirs'
        BY <1>5, <1>6, <2>2, Zenon
  <2> QED BY <1>4, <1>5, <2>1, <2>2, Zenon DEF Within
<1>9. DOMAIN iFiles = {}
  <2> SUFFICES ASSUME NEW p \in DOMAIN iFiles PROVE FALSE
      BY Zenon
  <2>1. Top \in I!Parents(p)
        BY PathsAre, ParentsIn, Zenon DEF InstallerInv, Within
  <2> QED BY <1>1, <2>1, Zenon DEF InstallerInv, Within
<1>10. iFiles = <<>>
      BY <1>9 DEF InstallerInv, Within
<1> QED BY <1>2, <1>5, <1>6, <1>8, <1>10, Zenon

LEMMA BrowseNoneEmpty == ASSUME InstallerInv, I!Browse PROVE NoneEmpty'
<1>1. iRest' = iRest
      BY Zenon DEF I!Browse
<1>2. \A d \in iDirs' \ {Top} : InUseBelow(d)'
      BY BrowseAt, Zenon DEF InUseBelow
<1>3. \A i \in 1..Len(iRest') :
        /\ iRest'[i] # Top
        /\ \A d \in I!Parents(iRest'[i]) \ {Top} : \E j \in i + 1..Len(iRest') : iRest'[j] = d
      BY <1>1, Zenon DEF InstallerInv, NoneEmpty
<1> QED BY <1>2, <1>3, Zenon DEF NoneEmpty

LEMMA BrowseUsersOther == ASSUME InstallerInv, I!Browse PROVE UsersOther'
<1>1. iMarker' = iMarker /\ iUn' = iUn /\ iPc' = iPc
      BY Zenon DEF I!Browse
<1> QED BY <1>1, BrowseAt, Zenon DEF UsersOther

LEMMA AddOwnWithin == ASSUME InstallerInv, I!AddOwn PROVE Within'
<1>1. iDirs' = iDirs \cup I!Parents(OwnFile) /\ iFiles' = I!Put(OwnFile, "user")
      BY Zenon DEF I!AddOwn
<1>2. OwnFile \in AllPaths /\ "user" \in Release \cup {"part", "user"}
      BY OwnsAre, Zenon
<1> QED BY <1>1, <1>2, PutWithin, Zenon DEF InstallerInv

LEMMA UninstallNoneEmpty == ASSUME InstallerInv, I!Uninstall PROVE NoneEmpty'
<1>1. iDirs' = iDirs /\ iFiles' = iFiles /\ iRest' = iRest /\ iCut' = iCut /\ iUn = "none"
      BY Zenon DEF I!Uninstall, I!folder
<1> QED BY <1>1, NoneEmptyStays, Zenon DEF InstallerInv

LEMMA UnFilesAt ==
  ASSUME InstallerInv, I!UnFiles
  PROVE  /\ DOMAIN iFiles' \subseteq DOMAIN iFiles /\ \A p \in DOMAIN iFiles' : iFiles'[p] = iFiles[p]
         /\ iDirs' = iDirs /\ iCut' = iCut /\ iUn = "files" /\ iUn' = "dirs"
         /\ \E v \in Release : /\ iRest' \in I!Listings(DirsOf(v))
                               /\ \A p \in DOMAIN iFiles \ FilesOf(v) : p \in DOMAIN iFiles'
<1>1. /\ iUn = "files" /\ iUn' = "dirs" /\ iDirs' = iDirs /\ iCut' = iCut
      /\ iFiles' = I!Without({p \in iManifest.files : ~I!InUse(p)}) /\ iRest' = iManifest.dirs
      BY Zenon DEF I!UnFiles, I!Then
<1>2. iManifest.is = "whole"
      BY <1>1, Zenon DEF InstallerInv, Removed
<1>3. PICK v \in Release :
        iManifest.files = FilesOf(v) /\ iManifest.dirs \in I!Listings(DirsOf(v))
      BY <1>2, Zenon DEF InstallerInv, ManifestTrue
<1> DEFINE gone == {p \in iManifest.files : ~I!InUse(p)}
<1>4. gone \subseteq FilesOf(v)
      BY <1>3, Zenon
<1>5. iFiles' = [p \in DOMAIN iFiles \ gone |-> iFiles[p]]
      BY <1>1, Zenon DEF I!Without
<1> HIDE DEF gone
<1>6. DOMAIN iFiles' = DOMAIN iFiles \ gone /\ \A p \in DOMAIN iFiles' : iFiles'[p] = iFiles[p]
      BY <1>5
<1> QED BY <1>1, <1>3, <1>4, <1>6, Zenon

LEMMA UnFilesSteps == ASSUME InstallerInv, I!UnFiles PROVE Steps'
<1>1. PICK v \in Release : iRest' \in I!Listings(DirsOf(v))
      BY UnFilesAt, Zenon
<1>2. iRest' \in Seq(DirsOf(v)) /\ DirsOf(v) \subseteq Seq(InFolder)
      BY <1>1, ListingIs, DirsAre, Zenon
<1>3. iRest' \in Seq(Seq(InFolder))
      BY <1>2, SeqMonotonic, Zenon
<1>4. /\ iScreen' = iScreen /\ iPc' = iPc /\ iUn' = "dirs" /\ iMarker' = iMarker
      /\ iTools' = iTools /\ iRegistered' = iRegistered /\ iCut' = iCut
      BY Zenon DEF I!UnFiles, I!Then
<1> QED BY <1>3, <1>4, Zenon DEF InstallerInv, Steps

LEMMA UnFilesWithin == ASSUME InstallerInv, I!UnFiles PROVE Within'
<1> QED BY UnFilesAt, Zenon DEF InstallerInv, Within

LEMMA UnFilesNoneEmpty == ASSUME InstallerInv, I!UnFiles PROVE NoneEmpty'
<1>1. PICK v \in Release : /\ iRest' \in I!Listings(DirsOf(v))
                           /\ \A p \in DOMAIN iFiles \ FilesOf(v) : p \in DOMAIN iFiles'
      BY UnFilesAt, Zenon
<1> DEFINE rest == iRest'
<1>2. /\ rest \in Seq(DirsOf(v)) /\ \A d \in DirsOf(v) : \E i \in 1..Len(rest) : rest[i] = d
      /\ \A i, j \in 1..Len(rest) : i < j => rest[i] \notin I!Parents(rest[j])
      BY <1>1, ListingIs, Zenon
<1>3. ASSUME NEW d \in iDirs' \ {Top}, ~iCut' PROVE InUseBelow(d)' \/ (iUn' = "dirs" /\ ToTry(d)')
  <2>1. CASE d \in DirsOf(v)
        BY <1>2, <2>1, UnFilesAt, Zenon DEF ToTry
  <2>2. CASE d \notin DirsOf(v)
    <3>1. InUseBelow(d)
          BY <1>3, UnFilesAt, Zenon DEF InstallerInv, NoneEmpty
    <3>2. PICK x \in iDirs \cup DOMAIN iFiles : d \in I!Parents(x)
          BY <3>1, Zenon DEF InUseBelow
    <3>3. x \notin FilesOf(v)
          BY <1>3, <2>2, <3>2, DirsAre, Zenon
    <3>4. x \in iDirs' \cup DOMAIN iFiles'
          BY <1>1, <3>2, <3>3, UnFilesAt, Zenon
    <3> QED BY <3>2, <3>4, Zenon DEF InUseBelow
  <2> QED BY <2>1, <2>2, Zenon
<1> HIDE DEF rest
<1>4. ASSUME NEW i \in 1..Len(rest)
      PROVE  /\ rest[i] # Top
             /\ \A d \in I!Parents(rest[i]) \ {Top} : \E j \in i + 1..Len(rest) : rest[j] = d
  <2>1. rest[i] \in DirsOf(v)
        BY <1>2, <1>4
  <2>2. ASSUME NEW d \in I!Parents(rest[i]) \ {Top}
        PROVE  \E j \in i + 1..Len(rest) : rest[j] = d
    <3>1. d \in DirsOf(v) /\ d # rest[i]
          BY <2>1, DirsAre, ParentsIn, Zenon
    <3>2. PICK j \in 1..Len(rest) : rest[j] = d
          BY <1>2, <3>1, Zenon
    <3>3. i # j /\ ~(j < i)
          BY <1>2, <3>1, <3>2, Zenon
    <3>4. Len(rest) \in Nat
          BY <1>2
    <3>5. j \in i + 1..Len(rest)
          BY <3>3, <3>4
    <3> QED BY <3>2, <3>5, Zenon
  <2> QED BY <2>1, <2>2, DirsAre, Zenon
<1> QED BY <1>3, <1>4, Zenon DEF NoneEmpty, rest

(* One directory: the next one to try goes unless something is in it.         *)
LEMMA UnDirsAt ==
  ASSUME InstallerInv, I!UnDirs
  PROVE  /\ iFiles' = iFiles /\ iCut' = iCut /\ iUn = "dirs" /\ iDirs' \subseteq iDirs
         /\ \/ /\ Len(iRest) = 0 /\ iDirs' = iDirs /\ iRest' = iRest
            \/ /\ Len(iRest) > 0 /\ iRest[1] \in Seq(InFolder) /\ iDirs' = I!Spared(iRest[1])
               /\ iUn' = "dirs" /\ iRest' = Tail(iRest)
<1>1. iFiles' = iFiles /\ iCut' = iCut /\ iUn = "dirs"
      BY Zenon DEF I!UnDirs
<1>2. iRest \in Seq(Seq(InFolder))
      BY Zenon DEF InstallerInv, Steps
<1>3. CASE iRest = <<>>
  <2>1. iDirs' = iDirs /\ iRest' = iRest
        BY <1>3, Zenon DEF I!UnDirs
  <2>2. Len(iRest) = 0
        BY <1>3
  <2> QED BY <1>1, <2>1, <2>2, Zenon
<1>4. CASE iRest # <<>>
  <2>1. Len(iRest) > 0
        BY <1>2, <1>4, NothingLeft, Zenon
  <2>2. Head(iRest) = iRest[1] /\ iRest[1] \in Seq(InFolder)
        BY <1>2, <2>1, LeftIs, Zenon
  <2>3. iDirs' = I!Spared(Head(iRest)) /\ iUn' = "dirs" /\ iRest' = Tail(iRest)
        BY <1>4, Zenon DEF I!UnDirs, I!Then
  <2>4. iDirs' \subseteq iDirs
        BY <2>2, <2>3, SparedIs, Zenon DEF InstallerInv
  <2> QED BY <1>1, <2>1, <2>2, <2>3, <2>4, Zenon
<1> QED BY <1>3, <1>4, Zenon

LEMMA UnDirsSteps == ASSUME InstallerInv, I!UnDirs PROVE Steps'
<1>1. iRest' \in Seq(Seq(InFolder))
      BY UnDirsAt, LeftIs, Zenon DEF InstallerInv, Steps
<1>2. /\ iScreen' = iScreen /\ iPc' = iPc /\ iUn' \in {"dirs", "tools"} /\ iMarker' = iMarker
      /\ iTools' = iTools /\ iRegistered' = iRegistered /\ iCut' = iCut
      BY Zenon DEF I!UnDirs, I!Then
<1> QED BY <1>1, <1>2, Zenon DEF InstallerInv, Steps

LEMMA UnDirsWithin == ASSUME InstallerInv, I!UnDirs PROVE Within'
<1>1. CASE iDirs' = iDirs
      BY <1>1, UnDirsAt, Zenon DEF InstallerInv, Within
<1>2. CASE iDirs' # iDirs
      BY <1>2, UnDirsAt, SparedWithin, Zenon DEF InstallerInv
<1> QED BY <1>1, <1>2, Zenon

LEMMA UnDirsNoFolder == ASSUME InstallerInv, I!UnDirs PROVE NoFolder'
<1>1. Top \in iDirs
      BY UnDirsAt, Zenon DEF InstallerInv, NoFolder
<1>2. Len(iRest) > 0 => iRest[1] # Top
  <2> SUFFICES ASSUME Len(iRest) > 0 PROVE iRest[1] # Top
      OBVIOUS
  <2>1. 1 \in 1..Len(iRest)
        BY DEF InstallerInv, Steps
  <2> QED BY <2>1, Zenon DEF InstallerInv, NoneEmpty
<1>3. Top \in iDirs'
      BY <1>1, <1>2, UnDirsAt, SparedIs, ZenonT(60) DEF InstallerInv
<1> QED BY <1>3, Zenon DEF NoFolder

LEMMA UnDirsNoneEmpty == ASSUME InstallerInv, I!UnDirs PROVE NoneEmpty'
<1> DEFINE n == Len(iRest)
           t == iRest'
<1>0. n \in Nat
      BY DEF InstallerInv, Steps
<1>1. \A i \in 1..n :
        /\ iRest[i] # Top
        /\ \A d \in I!Parents(iRest[i]) \ {Top} : \E j \in i + 1..n : iRest[j] = d
      BY Zenon DEF InstallerInv, NoneEmpty
<1>2. ~iCut => \A d \in iDirs \ {Top} : InUseBelow(d) \/ \E i \in 1..n : iRest[i] = d
      BY Zenon DEF InstallerInv, NoneEmpty, ToTry
<1>3. CASE n = 0
  <2>1. iDirs' = iDirs /\ iFiles' = iFiles /\ iRest' = iRest /\ iCut' = iCut
        BY <1>3, UnDirsAt
  <2>2. 1..n = {}
        BY <1>3
  <2>3. \A d : InUseBelow(d)' <=> InUseBelow(d)
        BY <2>1, Zenon DEF InUseBelow
  <2>4. ~iCut' => \A d \in iDirs' \ {Top} : InUseBelow(d)'
        BY <1>2, <2>1, <2>2, <2>3, Zenon
  <2>5. 1..Len(iRest') = {}
        BY <2>1, <2>2, Zenon
  <2> QED BY <2>4, <2>5, Zenon DEF NoneEmpty
<1>4. CASE n > 0
  <2> DEFINE h == iRest[1]
  <2>1. /\ h \in Seq(InFolder) /\ iDirs' = I!Spared(h) /\ iUn' = "dirs" /\ iRest' = Tail(iRest)
        /\ iFiles' = iFiles /\ iCut' = iCut /\ iDirs' \subseteq iDirs
        BY <1>4, UnDirsAt
  <2>2. Len(t) = n - 1 /\ \A i \in 1..n - 1 : t[i] = iRest[i + 1]
    <3>1. iRest \in Seq(Seq(InFolder))
          BY Zenon DEF InstallerInv, Steps
    <3>2. Len(Tail(iRest)) = n - 1 /\ \A i \in 1..n - 1 : Tail(iRest)[i] = iRest[i + 1]
          BY <1>4, <3>1, LeftIs, Zenon
    <3> QED BY <2>1, <3>2, Zenon
  <2>3. iDirs' = IF InUseBelow(h) THEN iDirs ELSE iDirs \ {h}
        BY <2>1, SparedIs, Zenon DEF InstallerInv
  <2>4. \A d : (\E i \in 2..n : iRest[i] = d) => ToTry(d)'
    <3> SUFFICES ASSUME NEW d, NEW i \in 2..n, iRest[i] = d PROVE \E m \in 1..Len(t) : t[m] = d
        BY Zenon DEF ToTry
    <3>1. i - 1 \in 1..Len(t) /\ (i - 1) + 1 = i /\ i - 1 \in 1..n - 1
          BY <1>0, <2>2
    <3> HIDE DEF t
    <3> QED BY <2>2, <3>1
  <2>5. ASSUME ~iCut', NEW d \in iDirs' \ {Top} PROVE InUseBelow(d)' \/ ToTry(d)'
    <3>1. CASE InUseBelow(d)
      <4>1. PICK x \in iDirs \cup DOMAIN iFiles : d \in I!Parents(x)
            BY <3>1, Zenon DEF InUseBelow
      <4>2. CASE x \in iDirs' \cup DOMAIN iFiles'
            BY <4>1, <4>2, Zenon DEF InUseBelow
      <4>3. CASE x \notin iDirs' \cup DOMAIN iFiles'
        <5>1. x = h
              BY <2>1, <2>3, <4>1, <4>3, Zenon
        <5>2. 1 \in 1..n /\ 1 + 1 = 2
              BY <1>0, <1>4
        <5>3. \E j \in 1 + 1..n : iRest[j] = d
              BY <1>1, <2>5, <4>1, <5>1, <5>2, Zenon
        <5> QED BY <2>4, <5>2, <5>3
      <4> QED BY <4>2, <4>3, Zenon
    <3>2. CASE ~InUseBelow(d)
      <4>1. PICK i \in 1..n : iRest[i] = d
            BY <1>2, <2>1, <2>5, <3>2, Zenon
      <4>2. d # h
            BY <2>3, <2>5, <3>2, Zenon
      <4>3. i \in 2..n
            BY <1>0, <4>1, <4>2
      <4> QED BY <2>4, <4>1, <4>3, Zenon
    <3> QED BY <3>1, <3>2, Zenon
  <2>6. ASSUME NEW i \in 1..Len(t)
        PROVE  /\ t[i] # Top
               /\ \A d \in I!Parents(t[i]) \ {Top} : \E j \in i + 1..Len(t) : t[j] = d
    <3> HIDE DEF t
    <3>1. i + 1 \in 1..n /\ i \in 1..n - 1
          BY <1>0, <2>2
    <3>2. t[i] = iRest[i + 1]
          BY <2>2, <3>1, Zenon
    <3>3. ASSUME NEW d \in I!Parents(t[i]) \ {Top} PROVE \E j \in i + 1..Len(t) : t[j] = d
      <4>1. PICK k \in (i + 1) + 1..n : iRest[k] = d
            BY <1>1, <3>1, <3>2, Zenon
      <4>2. k - 1 \in i + 1..Len(t) /\ k - 1 \in 1..n - 1 /\ (k - 1) + 1 = k
            BY <1>0, <2>2, <3>1
      <4>3. t[k - 1] = iRest[(k - 1) + 1]
            BY <2>2, <4>2, Zenon
      <4>4. t[k - 1] = d
            BY <4>1, <4>2, <4>3, Zenon
      <4> QED BY <4>2, <4>4, Zenon
    <3> QED BY <1>1, <3>1, <3>2, <3>3, Zenon
  <2> QED BY <2>1, <2>5, <2>6, Zenon DEF NoneEmpty
<1> QED BY <1>0, <1>3, <1>4

LEMMA UnRegistryNoneEmpty == ASSUME InstallerInv, I!UnRegistry PROVE NoneEmpty'
<1>1. iDirs' = iDirs /\ iFiles' = iFiles /\ iRest' = iRest /\ iCut' = iCut /\ iUn = "registry"
      BY Zenon DEF I!UnRegistry, I!Then
<1> QED BY <1>1, NoneEmptyStays, Zenon DEF InstallerInv

LEMMA UnRootAt ==
  ASSUME InstallerInv, I!UnRoot
  PROVE  /\ iFiles' = iFiles /\ iCut' = iCut /\ iRest' = iRest /\ iUn = "root" /\ Top \in iDirs
         /\ iDirs' = I!Spared(Top) /\ iDirs' = IF InUseBelow(Top) THEN iDirs ELSE iDirs \ {Top}
         /\ \A x \in (iDirs \cup DOMAIN iFiles) \ {Top} : InUseBelow(Top)
<1>1. /\ iFiles' = iFiles /\ iCut' = iCut /\ iRest' = iRest /\ iUn = "root"
      /\ iDirs' = I!Spared(Top)
      BY Zenon DEF I!UnRoot, Top
<1>2. Top \in iDirs
      BY <1>1, Zenon DEF InstallerInv, NoFolder
<1>3. \A x \in (iDirs \cup DOMAIN iFiles) \ {Top} : InUseBelow(Top)
  <2> SUFFICES ASSUME NEW x \in (iDirs \cup DOMAIN iFiles) \ {Top} PROVE InUseBelow(Top)
      BY Zenon
  <2>1. x \in Seq(InFolder)
        BY PathsAre, Zenon DEF InstallerInv, Within
  <2>2. Top \in I!Parents(x)
        BY <2>1, ParentsIn, Zenon
  <2> QED BY <2>2, Zenon DEF InUseBelow
<1> QED BY <1>1, <1>2, <1>3, TopIs, SparedIs, Zenon DEF InstallerInv

LEMMA UnRootWithin == ASSUME InstallerInv, I!UnRoot PROVE Within'
<1> QED BY UnRootAt, TopIs, SparedWithin, Zenon DEF InstallerInv

LEMMA UnRootNoFolder == ASSUME InstallerInv, I!UnRoot PROVE NoFolder'
<1>1. /\ iMarker' = iMarker /\ iManifest' = iManifest /\ iTools' = iTools
      /\ iRegistered' = iRegistered /\ iUn = "root" /\ iUn' = "none" /\ iPc' = iPc
      BY Zenon DEF I!UnRoot, I!Then
<1>2. iMarker = "none" /\ iManifest.is = "none" /\ iTools = {} /\ ~iRegistered /\ iPc = "none"
      BY <1>1, Zenon DEF InstallerInv, Removed, OneActs
<1>3. Top \notin iDirs' => iDirs' = {}
      BY UnRootAt, Zenon
<1> QED BY <1>1, <1>2, <1>3, Zenon DEF NoFolder

LEMMA UnRootNoneEmpty == ASSUME InstallerInv, I!UnRoot PROVE NoneEmpty'
<1>1. ASSUME ~iCut', NEW d \in iDirs' \ {Top} PROVE InUseBelow(d)'
  <2>1. d \in iDirs /\ InUseBelow(d)
        BY <1>1, UnRootAt, Zenon DEF InstallerInv, NoneEmpty
  <2>2. PICK x \in iDirs \cup DOMAIN iFiles : d \in I!Parents(x)
        BY <2>1, Zenon DEF InUseBelow
  <2>3. x # Top
        BY <2>2, TopIs, ParentsIn, Zenon
  <2>4. x \in iDirs' \cup DOMAIN iFiles'
        BY <2>2, <2>3, UnRootAt, Zenon
  <2> QED BY <2>2, <2>4, Zenon DEF InUseBelow
<1>2. \A i \in 1..Len(iRest') :
        /\ iRest'[i] # Top
        /\ \A d \in I!Parents(iRest'[i]) \ {Top} : \E j \in i + 1..Len(iRest') : iRest'[j] = d
      BY UnRootAt, Zenon DEF InstallerInv, NoneEmpty
<1> QED BY <1>1, <1>2, Zenon DEF NoneEmpty

LEMMA AddOwnNoneEmpty == ASSUME InstallerInv, I!AddOwn PROVE NoneEmpty'
<1>1. iDirs' = iDirs /\ iRest' = iRest /\ iCut' = iCut /\ iUn' = iUn
      BY Zenon DEF I!AddOwn
<1>2. DOMAIN iFiles \subseteq DOMAIN iFiles'
      BY DEF I!AddOwn, I!Put
<1>3. \A d : InUseBelow(d) => InUseBelow(d)'
      BY <1>1, <1>2, Zenon DEF InUseBelow
<1>4. \A d : ToTry(d) <=> ToTry(d)'
      BY <1>1, Zenon DEF ToTry
<1>5. ~iCut' => \A d \in iDirs' \ {Top} : InUseBelow(d)' \/ (iUn' = "dirs" /\ ToTry(d)')
      BY <1>1, <1>3, <1>4, Zenon DEF InstallerInv, NoneEmpty
<1>6. \A i \in 1..Len(iRest') :
        /\ iRest'[i] # Top
        /\ \A d \in I!Parents(iRest'[i]) \ {Top} : \E j \in i + 1..Len(iRest') : iRest'[j] = d
      BY <1>1, Zenon DEF InstallerInv, NoneEmpty
<1> QED BY <1>5, <1>6, Zenon DEF NoneEmpty

LEMMA RegisterNoneEmpty == ASSUME InstallerInv, I!Register PROVE NoneEmpty'
<1>1. iDirs' = iDirs /\ iFiles' = iFiles /\ iRest' = iRest /\ iCut' = iCut /\ iUn' = iUn
      BY Zenon DEF I!Register
<1> QED BY <1>1, NoneEmptyStays, Zenon DEF InstallerInv

LEMMA StutterNoneEmpty == ASSUME InstallerInv, UNCHANGED I!vars PROVE NoneEmpty'
<1>1. iDirs' = iDirs /\ iFiles' = iFiles /\ iRest' = iRest /\ iCut' = iCut /\ iUn' = iUn
      BY Zenon DEF I!vars, I!folder
<1> QED BY <1>1, NoneEmptyStays, Zenon DEF InstallerInv

LEMMA InValidate == ASSUME InstallerInv, I!Validate PROVE InstallerInv'
<1> USE DEF InstallerInv, OneActs, Steps, MarkedSteps, BothTools, I!Validate, I!Goes, I!Accepts,
      I!IsEmpty
<1>1. Within'
      BY ValidateWithin, Zenon
<1>2. Steps' /\ OneActs'
      OBVIOUS
<1>3. Progressed'
      BY DEF Progressed, Within
<1>4. ManifestTrue' /\ Removed'
      BY DEF ManifestTrue, Removed, Progressed
<1>5. NoFolder'
      BY DEF NoFolder, Removed, Top
<1>6. UsersOther'
      BY DEF UsersOther, Progressed, Removed
<1>7. Marked' /\ Removable'
      BY DEF Marked, Progressed, Removed, Removable
<1>8. NoneEmpty'
      BY DEF NoneEmpty, Within, Top, Progressed, Removed, InUseBelow, ToTry
<1> QED BY <1>1, <1>2, <1>3, <1>4, <1>5, <1>6, <1>7, <1>8, Zenon

LEMMA InWriteMarker == ASSUME InstallerInv, I!WriteMarker PROVE InstallerInv'
<1> USE DEF InstallerInv, OneActs, Steps, MarkedSteps, BothTools, I!WriteMarker, I!Goes
<1>1. Progressed' /\ NoneEmpty'
      BY WriteMarkerProgressed, WriteMarkerNoneEmpty, Zenon
<1>2. Steps' /\ OneActs'
      OBVIOUS
<1>3. ManifestTrue' /\ Removed'
      BY DEF ManifestTrue, Removed, Progressed
<1>4. Within'
      BY DEF Within, Progressed, Top
<1>5. NoFolder'
      BY DEF NoFolder, Removed
<1>6. UsersOther'
      BY DEF UsersOther, Progressed, Removed
<1>7. Marked' /\ Removable'
      BY DEF Marked, Progressed, Removed, Removable
<1> QED BY <1>1, <1>2, <1>3, <1>4, <1>5, <1>6, <1>7, Zenon

LEMMA InExtract == ASSUME InstallerInv, I!Extract PROVE InstallerInv'
<1> USE DEF InstallerInv, OneActs, Steps, MarkedSteps, BothTools, I!Extract, I!Goes, I!InUse,
      I!Put
<1>1. Within'
      BY ExtractWithin, Zenon
<1>2. Steps' /\ OneActs'
      OBVIOUS
<1>3. Progressed'
      BY DEF Progressed, Within
<1>4. ManifestTrue' /\ Removed'
      BY DEF ManifestTrue, Removed, Progressed
<1>5. NoFolder'
      BY DEF NoFolder, Removed
<1>6. UsersOther'
      BY DEF UsersOther, Progressed, Removed
<1>7. Marked' /\ Removable'
      BY DEF Marked, Progressed, Removed, Removable
<1>8. NoneEmpty'
      BY DEF NoneEmpty, Within, Top, Progressed, Removed, InUseBelow, ToTry
<1> QED BY <1>1, <1>2, <1>3, <1>4, <1>5, <1>6, <1>7, <1>8, Zenon

LEMMA InFill == ASSUME InstallerInv, I!Fill PROVE InstallerInv'
<1> USE DEF InstallerInv, OneActs, Steps, MarkedSteps, BothTools, I!Fill, I!Goes, I!Put
<1>1. Within' /\ UsersOther'
      BY FillAt, FillUsersOther, Zenon
<1>2. Steps' /\ OneActs'
      OBVIOUS
<1>3. Progressed'
      BY DEF Progressed, Within
<1>4. ManifestTrue' /\ Removed'
      BY DEF ManifestTrue, Removed, Progressed
<1>5. NoFolder'
      BY DEF NoFolder, Removed
<1>6. Marked' /\ Removable'
      BY DEF Marked, Progressed, Removed, Removable
<1>7. NoneEmpty'
      BY DEF NoneEmpty, Within, Top, Progressed, Removed, InUseBelow, ToTry
<1> QED BY <1>1, <1>2, <1>3, <1>4, <1>5, <1>6, <1>7, Zenon

LEMMA InLinkProgram == ASSUME InstallerInv, I!LinkProgram PROVE InstallerInv'
<1> USE DEF InstallerInv, OneActs, Steps, MarkedSteps, BothTools, I!LinkProgram, I!Goes
<1>1. Steps' /\ OneActs'
      OBVIOUS
<1>2. Progressed'
      BY DEF Progressed, Within
<1>3. ManifestTrue' /\ Removed'
      BY DEF ManifestTrue, Removed, Progressed
<1>4. Within'
      BY DEF Within, Progressed, Top
<1>5. NoFolder'
      BY DEF NoFolder, Removed
<1>6. UsersOther'
      BY DEF UsersOther, Progressed, Removed
<1>7. Marked' /\ Removable'
      BY DEF Marked, Progressed, Removed, Removable
<1>8. NoneEmpty'
      BY DEF NoneEmpty, Within, Top, Progressed, Removed, InUseBelow, ToTry
<1> QED BY <1>1, <1>2, <1>3, <1>4, <1>5, <1>6, <1>7, <1>8, Zenon

LEMMA InWriteTools == ASSUME InstallerInv, I!WriteTools PROVE InstallerInv'
<1> USE DEF InstallerInv, OneActs, Steps, MarkedSteps, BothTools, I!WriteTools, I!Goes
<1>1. Steps' /\ OneActs'
      OBVIOUS
<1>2. Progressed'
      BY DEF Progressed, Within
<1>3. ManifestTrue' /\ Removed'
      BY DEF ManifestTrue, Removed, Progressed
<1>4. Within'
      BY DEF Within, Progressed, Top
<1>5. NoFolder'
      BY DEF NoFolder, Removed
<1>6. UsersOther'
      BY DEF UsersOther, Progressed, Removed
<1>7. Marked' /\ Removable'
      BY DEF Marked, Progressed, Removed, Removable
<1>8. NoneEmpty'
      BY DEF NoneEmpty, Within, Top, Progressed, Removed, InUseBelow, ToTry
<1> QED BY <1>1, <1>2, <1>3, <1>4, <1>5, <1>6, <1>7, <1>8, Zenon

LEMMA InLinkUninstaller == ASSUME InstallerInv, I!LinkUninstaller PROVE InstallerInv'
<1> USE DEF InstallerInv, OneActs, Steps, MarkedSteps, BothTools, I!LinkUninstaller, I!Goes
<1>1. Steps' /\ OneActs'
      OBVIOUS
<1>2. Progressed'
      BY DEF Progressed, Within
<1>3. ManifestTrue' /\ Removed'
      BY DEF ManifestTrue, Removed, Progressed
<1>4. Within'
      BY DEF Within, Progressed, Top
<1>5. NoFolder'
      BY DEF NoFolder, Removed
<1>6. UsersOther'
      BY DEF UsersOther, Progressed, Removed
<1>7. Marked' /\ Removable'
      BY DEF Marked, Progressed, Removed, Removable
<1>8. NoneEmpty'
      BY DEF NoneEmpty, Within, Top, Progressed, Removed, InUseBelow, ToTry
<1> QED BY <1>1, <1>2, <1>3, <1>4, <1>5, <1>6, <1>7, <1>8, Zenon

LEMMA InWriteManifest == ASSUME InstallerInv, I!WriteManifest PROVE InstallerInv'
<1> USE DEF InstallerInv, OneActs, Steps, MarkedSteps, BothTools, I!WriteManifest, I!Goes,
      I!Blank, I!Listed
<1>1. Progressed' /\ ManifestTrue' /\ Removable' /\ NoneEmpty'
      BY WriteManifestProgressed, WriteManifestTrue, WriteManifestRemovable,
         WriteManifestNoneEmpty, Zenon
<1>2. Steps' /\ OneActs'
      OBVIOUS
<1>3. Removed'
      BY DEF Removed, Progressed
<1>4. Within'
      BY DEF Within, Progressed, Top
<1>5. NoFolder'
      BY DEF NoFolder, Removed
<1>6. UsersOther'
      BY DEF UsersOther, Progressed, Removed
<1>7. Marked'
      BY DEF Marked, Progressed, Removed
<1> QED BY <1>1, <1>2, <1>3, <1>4, <1>5, <1>6, <1>7, Zenon

LEMMA InRegister == ASSUME InstallerInv, I!Register PROVE InstallerInv'
<1> USE DEF InstallerInv, OneActs, Steps, MarkedSteps, BothTools, I!Register
<1>1. NoneEmpty'
      BY RegisterNoneEmpty, Zenon
<1>2. Steps' /\ OneActs'
      OBVIOUS
<1>3. Progressed'
      BY DEF Progressed, Within
<1>4. ManifestTrue' /\ Removed'
      BY DEF ManifestTrue, Removed, Progressed
<1>5. Within'
      BY DEF Within, Progressed, Top
<1>6. NoFolder'
      BY DEF NoFolder, Removed
<1>7. UsersOther'
      BY DEF UsersOther, Progressed, Removed
<1>8. Marked' /\ Removable'
      BY DEF Marked, Progressed, Removed, Removable
<1> QED BY <1>1, <1>2, <1>3, <1>4, <1>5, <1>6, <1>7, <1>8, Zenon

LEMMA InFails == ASSUME InstallerInv, I!Fails PROVE InstallerInv'
<1> USE DEF InstallerInv, OneActs, Steps, MarkedSteps, BothTools, I!Fails, I!folder
<1>1. Steps' /\ OneActs'
      OBVIOUS
<1>2. Progressed'
      BY DEF Progressed, Within
<1>3. ManifestTrue' /\ Removed'
      BY DEF ManifestTrue, Removed, Progressed
<1>4. Within'
      BY DEF Within, Progressed, Top
<1>5. NoFolder'
      BY DEF NoFolder, Removed
<1>6. UsersOther'
      BY DEF UsersOther, Progressed, Removed
<1>7. Marked' /\ Removable'
      BY DEF Marked, Progressed, Removed, Removable
<1>8. NoneEmpty'
      BY DEF NoneEmpty, Within, Top, Progressed, Removed, InUseBelow, ToTry
<1> QED BY <1>1, <1>2, <1>3, <1>4, <1>5, <1>6, <1>7, <1>8, Zenon

LEMMA InOpen == ASSUME InstallerInv, I!Open PROVE InstallerInv'
<1> USE DEF InstallerInv, OneActs, Steps, MarkedSteps, BothTools, I!Open, I!folder
<1>1. Steps' /\ OneActs'
      OBVIOUS
<1>2. Progressed'
      BY DEF Progressed, Within
<1>3. ManifestTrue' /\ Removed'
      BY DEF ManifestTrue, Removed, Progressed
<1>4. Within'
      BY DEF Within, Progressed, Top
<1>5. NoFolder'
      BY DEF NoFolder, Removed
<1>6. UsersOther'
      BY DEF UsersOther, Progressed, Removed
<1>7. Marked' /\ Removable'
      BY DEF Marked, Progressed, Removed, Removable
<1>8. NoneEmpty'
      BY DEF NoneEmpty, Within, Top, Progressed, Removed, InUseBelow, ToTry
<1> QED BY <1>1, <1>2, <1>3, <1>4, <1>5, <1>6, <1>7, <1>8, Zenon

LEMMA InBrowse == ASSUME InstallerInv, I!Browse PROVE InstallerInv'
<1> USE DEF InstallerInv, OneActs, Steps, MarkedSteps, BothTools, I!Browse
<1>1. Within' /\ UsersOther' /\ NoneEmpty'
      BY BrowseAt, BrowseUsersOther, BrowseNoneEmpty, Zenon
<1>2. Steps' /\ OneActs'
      OBVIOUS
<1>3. Progressed'
      BY DEF Progressed, Within
<1>4. ManifestTrue' /\ Removed'
      BY DEF ManifestTrue, Removed, Progressed
<1>5. NoFolder'
      BY DEF NoFolder, Removed, Top
<1>6. Marked' /\ Removable'
      BY DEF Marked, Progressed, Removed, Removable
<1> QED BY <1>1, <1>2, <1>3, <1>4, <1>5, <1>6, Zenon

LEMMA InClick == ASSUME InstallerInv, I!Click PROVE InstallerInv'
<1> USE DEF InstallerInv, OneActs, Steps, MarkedSteps, BothTools, I!Click, I!folder
<1>1. Steps' /\ OneActs'
      OBVIOUS
<1>2. Progressed'
      BY DEF Progressed, Within
<1>3. ManifestTrue' /\ Removed'
      BY DEF ManifestTrue, Removed, Progressed
<1>4. Within'
      BY DEF Within, Progressed, Top
<1>5. NoFolder'
      BY DEF NoFolder, Removed
<1>6. UsersOther'
      BY DEF UsersOther, Progressed, Removed
<1>7. Marked' /\ Removable'
      BY DEF Marked, Progressed, Removed, Removable
<1>8. NoneEmpty'
      BY DEF NoneEmpty, Within, Top, Progressed, Removed, InUseBelow, ToTry
<1> QED BY <1>1, <1>2, <1>3, <1>4, <1>5, <1>6, <1>7, <1>8, Zenon

LEMMA InRetry == ASSUME InstallerInv, I!Retry PROVE InstallerInv'
<1> USE DEF InstallerInv, OneActs, Steps, MarkedSteps, BothTools, I!Retry, I!folder
<1>1. Steps' /\ OneActs'
      OBVIOUS
<1>2. Progressed'
      BY DEF Progressed, Within
<1>3. ManifestTrue' /\ Removed'
      BY DEF ManifestTrue, Removed, Progressed
<1>4. Within'
      BY DEF Within, Progressed, Top
<1>5. NoFolder'
      BY DEF NoFolder, Removed
<1>6. UsersOther'
      BY DEF UsersOther, Progressed, Removed
<1>7. Marked' /\ Removable'
      BY DEF Marked, Progressed, Removed, Removable
<1>8. NoneEmpty'
      BY DEF NoneEmpty, Within, Top, Progressed, Removed, InUseBelow, ToTry
<1> QED BY <1>1, <1>2, <1>3, <1>4, <1>5, <1>6, <1>7, <1>8, Zenon

LEMMA InClose == ASSUME InstallerInv, I!Close PROVE InstallerInv'
<1> USE DEF InstallerInv, OneActs, Steps, MarkedSteps, BothTools, I!Close, I!folder
<1>1. Steps' /\ OneActs'
      OBVIOUS
<1>2. Progressed'
      BY DEF Progressed, Within
<1>3. ManifestTrue' /\ Removed'
      BY DEF ManifestTrue, Removed, Progressed
<1>4. Within'
      BY DEF Within, Progressed, Top
<1>5. NoFolder'
      BY DEF NoFolder, Removed
<1>6. UsersOther'
      BY DEF UsersOther, Progressed, Removed
<1>7. Marked' /\ Removable'
      BY DEF Marked, Progressed, Removed, Removable
<1>8. NoneEmpty'
      BY DEF NoneEmpty, Within, Top, Progressed, Removed, InUseBelow, ToTry
<1> QED BY <1>1, <1>2, <1>3, <1>4, <1>5, <1>6, <1>7, <1>8, Zenon

LEMMA InLaunchGame == ASSUME InstallerInv, I!LaunchGame PROVE InstallerInv'
<1> USE DEF InstallerInv, OneActs, Steps, MarkedSteps, BothTools, I!LaunchGame, I!folder
<1>1. Steps' /\ OneActs'
      OBVIOUS
<1>2. Progressed'
      BY DEF Progressed, Within
<1>3. ManifestTrue' /\ Removed'
      BY DEF ManifestTrue, Removed, Progressed
<1>4. Within'
      BY DEF Within, Progressed, Top
<1>5. NoFolder'
      BY DEF NoFolder, Removed
<1>6. UsersOther'
      BY DEF UsersOther, Progressed, Removed
<1>7. Marked' /\ Removable'
      BY DEF Marked, Progressed, Removed, Removable
<1>8. NoneEmpty'
      BY DEF NoneEmpty, Within, Top, Progressed, Removed, InUseBelow, ToTry
<1> QED BY <1>1, <1>2, <1>3, <1>4, <1>5, <1>6, <1>7, <1>8, Zenon

LEMMA InQuit == ASSUME InstallerInv, I!Quit PROVE InstallerInv'
<1> USE DEF InstallerInv, OneActs, Steps, MarkedSteps, BothTools, I!Quit, I!folder
<1>1. Steps' /\ OneActs'
      OBVIOUS
<1>2. Progressed'
      BY DEF Progressed, Within
<1>3. ManifestTrue' /\ Removed'
      BY DEF ManifestTrue, Removed, Progressed
<1>4. Within'
      BY DEF Within, Progressed, Top
<1>5. NoFolder'
      BY DEF NoFolder, Removed
<1>6. UsersOther'
      BY DEF UsersOther, Progressed, Removed
<1>7. Marked' /\ Removable'
      BY DEF Marked, Progressed, Removed, Removable
<1>8. NoneEmpty'
      BY DEF NoneEmpty, Within, Top, Progressed, Removed, InUseBelow, ToTry
<1> QED BY <1>1, <1>2, <1>3, <1>4, <1>5, <1>6, <1>7, <1>8, Zenon

LEMMA InAddOwn == ASSUME InstallerInv, I!AddOwn PROVE InstallerInv'
<1> USE DEF InstallerInv, OneActs, Steps, MarkedSteps, BothTools, I!AddOwn, I!Put
<1>1. Within' /\ NoneEmpty'
      BY AddOwnWithin, AddOwnNoneEmpty, Zenon
<1>2. Steps' /\ OneActs'
      OBVIOUS
<1>3. Progressed'
      BY DEF Progressed, Within
<1>4. ManifestTrue' /\ Removed'
      BY DEF ManifestTrue, Removed, Progressed
<1>5. NoFolder'
      BY DEF NoFolder, Removed
<1>6. UsersOther'
      BY DEF UsersOther, Progressed, Removed
<1>7. Marked' /\ Removable'
      BY DEF Marked, Progressed, Removed, Removable
<1> QED BY <1>1, <1>2, <1>3, <1>4, <1>5, <1>6, <1>7, Zenon

LEMMA InUninstall == ASSUME InstallerInv, I!Uninstall PROVE InstallerInv'
<1> USE DEF InstallerInv, OneActs, Steps, MarkedSteps, BothTools, I!Uninstall, I!folder
<1>1. NoneEmpty'
      BY UninstallNoneEmpty, Zenon
<1>2. Steps' /\ OneActs'
      OBVIOUS
<1>3. Progressed'
      BY DEF Progressed, Within
<1>4. ManifestTrue' /\ Removed'
      BY DEF ManifestTrue, Removed, Progressed
<1>5. Within'
      BY DEF Within, Progressed, Top
<1>6. NoFolder'
      BY DEF NoFolder, Removed
<1>7. UsersOther'
      BY DEF UsersOther, Progressed, Removed
<1>8. Marked' /\ Removable'
      BY DEF Marked, Progressed, Removed, Removable
<1> QED BY <1>1, <1>2, <1>3, <1>4, <1>5, <1>6, <1>7, <1>8, Zenon

LEMMA InUnLinks == ASSUME InstallerInv, I!UnLinks PROVE InstallerInv'
<1> USE DEF InstallerInv, OneActs, Steps, MarkedSteps, BothTools, I!UnLinks, I!Then
<1>1. Steps' /\ OneActs'
      OBVIOUS
<1>2. Progressed'
      BY DEF Progressed, Within
<1>3. ManifestTrue' /\ Removed'
      BY DEF ManifestTrue, Removed, Progressed
<1>4. Within'
      BY DEF Within, Progressed, Top
<1>5. NoFolder'
      BY DEF NoFolder, Removed
<1>6. UsersOther'
      BY DEF UsersOther, Progressed, Removed
<1>7. Marked' /\ Removable'
      BY DEF Marked, Progressed, Removed, Removable
<1>8. NoneEmpty'
      BY DEF NoneEmpty, Within, Top, Progressed, Removed, InUseBelow, ToTry
<1> QED BY <1>1, <1>2, <1>3, <1>4, <1>5, <1>6, <1>7, <1>8, Zenon

LEMMA InUnFiles == ASSUME InstallerInv, I!UnFiles PROVE InstallerInv'
<1> USE DEF InstallerInv, OneActs, Steps, MarkedSteps, BothTools, I!UnFiles, I!Then, I!Without,
      I!InUse
<1>1. Steps' /\ Within' /\ NoneEmpty'
      BY UnFilesSteps, UnFilesWithin, UnFilesNoneEmpty, Zenon
<1>2. OneActs'
      OBVIOUS
<1>3. Progressed'
      BY DEF Progressed, Within
<1>4. ManifestTrue' /\ Removed'
      BY DEF ManifestTrue, Removed, Progressed
<1>5. NoFolder'
      BY DEF NoFolder, Removed
<1>6. UsersOther'
      BY DEF UsersOther, Progressed, Removed
<1>7. Marked' /\ Removable'
      BY DEF Marked, Progressed, Removed, Removable
<1> QED BY <1>1, <1>2, <1>3, <1>4, <1>5, <1>6, <1>7, Zenon

LEMMA InUnDirs == ASSUME InstallerInv, I!UnDirs PROVE InstallerInv'
<1> USE DEF InstallerInv, OneActs, Steps, MarkedSteps, BothTools, I!UnDirs, I!Then
<1>1. Steps' /\ Within' /\ NoFolder' /\ NoneEmpty'
      BY UnDirsSteps, UnDirsWithin, UnDirsNoFolder, UnDirsNoneEmpty, Zenon
<1>2. OneActs'
      OBVIOUS
<1>3. Progressed'
      BY DEF Progressed, Within
<1>4. ManifestTrue' /\ Removed'
      BY DEF ManifestTrue, Removed, Progressed
<1>5. UsersOther'
      BY DEF UsersOther, Progressed, Removed
<1>6. Marked' /\ Removable'
      BY DEF Marked, Progressed, Removed, Removable
<1> QED BY <1>1, <1>2, <1>3, <1>4, <1>5, <1>6, Zenon

LEMMA InUnTools == ASSUME InstallerInv, I!UnTools PROVE InstallerInv'
<1> USE DEF InstallerInv, OneActs, Steps, MarkedSteps, BothTools, I!UnTools, I!Then
<1>1. Steps' /\ OneActs'
      OBVIOUS
<1>2. Progressed'
      BY DEF Progressed, Within
<1>3. ManifestTrue' /\ Removed'
      BY DEF ManifestTrue, Removed, Progressed
<1>4. Within'
      BY DEF Within, Progressed, Top
<1>5. NoFolder'
      BY DEF NoFolder, Removed
<1>6. UsersOther'
      BY DEF UsersOther, Progressed, Removed
<1>7. Marked' /\ Removable'
      BY SMTT(30) DEF Marked, Progressed, Removed, Removable
<1>8. NoneEmpty'
      BY DEF NoneEmpty, Within, Top, Progressed, Removed, InUseBelow, ToTry
<1> QED BY <1>1, <1>2, <1>3, <1>4, <1>5, <1>6, <1>7, <1>8, Zenon

LEMMA InUnMarker == ASSUME InstallerInv, I!UnMarker PROVE InstallerInv'
<1> USE DEF InstallerInv, OneActs, Steps, MarkedSteps, BothTools, I!UnMarker, I!Then
<1>1. Steps' /\ OneActs'
      OBVIOUS
<1>2. Progressed'
      BY DEF Progressed, Within
<1>3. ManifestTrue' /\ Removed'
      BY DEF ManifestTrue, Removed, Progressed
<1>4. Within'
      BY DEF Within, Progressed, Top
<1>5. NoFolder'
      BY DEF NoFolder, Removed
<1>6. UsersOther'
      BY DEF UsersOther, Progressed, Removed
<1>7. Marked' /\ Removable'
      BY DEF Marked, Progressed, Removed, Removable
<1>8. NoneEmpty'
      BY DEF NoneEmpty, Within, Top, Progressed, Removed, InUseBelow, ToTry
<1> QED BY <1>1, <1>2, <1>3, <1>4, <1>5, <1>6, <1>7, <1>8, Zenon

LEMMA InUnManifest == ASSUME InstallerInv, I!UnManifest PROVE InstallerInv'
<1> USE DEF InstallerInv, OneActs, Steps, MarkedSteps, BothTools, I!UnManifest, I!Then, I!Blank
<1>1. Steps' /\ OneActs'
      OBVIOUS
<1>2. Progressed'
      BY DEF Progressed, Within
<1>3. ManifestTrue' /\ Removed'
      BY DEF ManifestTrue, Removed, Progressed
<1>4. Within'
      BY DEF Within, Progressed, Top
<1>5. NoFolder'
      BY DEF NoFolder, Removed
<1>6. UsersOther'
      BY DEF UsersOther, Progressed, Removed
<1>7. Marked' /\ Removable'
      BY DEF Marked, Progressed, Removed, Removable
<1>8. NoneEmpty'
      BY DEF NoneEmpty, Within, Top, Progressed, Removed, InUseBelow, ToTry
<1> QED BY <1>1, <1>2, <1>3, <1>4, <1>5, <1>6, <1>7, <1>8, Zenon

LEMMA InUnRegistry == ASSUME InstallerInv, I!UnRegistry PROVE InstallerInv'
<1> USE DEF InstallerInv, OneActs, Steps, MarkedSteps, BothTools, I!UnRegistry, I!Then
<1>1. NoneEmpty'
      BY UnRegistryNoneEmpty, Zenon
<1>2. Steps' /\ OneActs'
      OBVIOUS
<1>3. Progressed'
      BY DEF Progressed, Within
<1>4. ManifestTrue' /\ Removed'
      BY DEF ManifestTrue, Removed, Progressed
<1>5. Within'
      BY DEF Within, Progressed, Top
<1>6. NoFolder'
      BY DEF NoFolder, Removed
<1>7. UsersOther'
      BY DEF UsersOther, Progressed, Removed
<1>8. Marked' /\ Removable'
      BY DEF Marked, Progressed, Removed, Removable
<1> QED BY <1>1, <1>2, <1>3, <1>4, <1>5, <1>6, <1>7, <1>8, Zenon

LEMMA InUnRoot == ASSUME InstallerInv, I!UnRoot PROVE InstallerInv'
<1> USE DEF InstallerInv, OneActs, Steps, MarkedSteps, BothTools, I!UnRoot, I!Then
<1>1. Within' /\ NoFolder' /\ NoneEmpty'
      BY UnRootWithin, UnRootNoFolder, UnRootNoneEmpty, Zenon
<1>2. Steps' /\ OneActs'
      OBVIOUS
<1>3. Progressed'
      BY DEF Progressed, Within
<1>4. ManifestTrue' /\ Removed'
      BY DEF ManifestTrue, Removed, Progressed
<1>5. UsersOther'
      BY DEF UsersOther, Progressed, Removed
<1>6. Marked' /\ Removable'
      BY DEF Marked, Progressed, Removed, Removable
<1> QED BY <1>1, <1>2, <1>3, <1>4, <1>5, <1>6, Zenon

LEMMA InUnCut == ASSUME InstallerInv, I!UnCut PROVE InstallerInv'
<1> USE DEF InstallerInv, OneActs, Steps, MarkedSteps, BothTools, I!UnCut, I!Then, I!folder
<1>1. Steps' /\ OneActs'
      OBVIOUS
<1>2. Progressed'
      BY DEF Progressed, Within
<1>3. ManifestTrue' /\ Removed'
      BY DEF ManifestTrue, Removed, Progressed
<1>4. Within'
      BY DEF Within, Progressed, Top
<1>5. NoFolder'
      BY DEF NoFolder, Removed
<1>6. UsersOther'
      BY DEF UsersOther, Progressed, Removed
<1>7. Marked' /\ Removable'
      BY DEF Marked, Progressed, Removed, Removable
<1>8. NoneEmpty'
      BY DEF NoneEmpty, Within, Top, Progressed, Removed, InUseBelow, ToTry
<1> QED BY <1>1, <1>2, <1>3, <1>4, <1>5, <1>6, <1>7, <1>8, Zenon

LEMMA InStutter == ASSUME InstallerInv, UNCHANGED I!vars PROVE InstallerInv'
<1> USE DEF InstallerInv, OneActs, Steps, MarkedSteps, BothTools, I!vars, I!folder
<1>1. NoneEmpty'
      BY StutterNoneEmpty, Zenon
<1>2. Steps' /\ OneActs'
      OBVIOUS
<1>3. Progressed'
      BY DEF Progressed, Within
<1>4. ManifestTrue' /\ Removed'
      BY DEF ManifestTrue, Removed, Progressed
<1>5. Within'
      BY DEF Within, Progressed, Top
<1>6. NoFolder'
      BY DEF NoFolder, Removed
<1>7. UsersOther'
      BY DEF UsersOther, Progressed, Removed
<1>8. Marked' /\ Removable'
      BY DEF Marked, Progressed, Removed, Removable
<1> QED BY <1>1, <1>2, <1>3, <1>4, <1>5, <1>6, <1>7, <1>8, Zenon

LEMMA InInit == ASSUME I!Init PROVE InstallerInv
<1>1. /\ iScreen = "closed" /\ iPc = "none" /\ iUn = "none" /\ iDirs = {} /\ iFiles = <<>>
      /\ iMarker = "none" /\ iTools = {} /\ iRegistered = FALSE /\ iCut = FALSE /\ iRest = <<>>
      /\ iManifest = I!Blank("none")
      BY Zenon DEF I!Init
<1>2. iManifest.is = "none"
      BY <1>1 DEF I!Blank
<1>3. DOMAIN iFiles = {} /\ iRest \in Seq(Seq(InFolder)) /\ 1..Len(iRest) = {}
      BY <1>1
<1>4. Steps
      BY <1>1, <1>3, Zenon DEF Steps
<1>5. NoneEmpty
      BY <1>1, <1>3, Zenon DEF NoneEmpty
<1>6. Progressed /\ OneActs /\ Removed
      BY <1>1 DEF Progressed, OneActs, Removed, MarkedSteps
<1>7. Within /\ ManifestTrue /\ NoFolder /\ UsersOther /\ Marked /\ Removable
      BY <1>1, <1>2, <1>3, Zenon DEF Within, ManifestTrue, NoFolder, UsersOther, Marked, Removable
<1> QED BY <1>4, <1>5, <1>6, <1>7, Zenon DEF InstallerInv

LEMMA InInstaller == ASSUME InstallerInv, [I!Next]_(I!vars) PROVE InstallerInv'
<1>1. CASE I!Install
      BY <1>1, InValidate, InWriteMarker, InExtract, InFill, InLinkProgram, InWriteTools,
         InLinkUninstaller, InWriteManifest, InRegister, InFails, Zenon DEF I!Install
<1>2. CASE \/ I!Open \/ I!Browse \/ I!Click \/ I!Retry \/ I!Close \/ I!LaunchGame \/ I!Quit
           \/ I!AddOwn \/ UNCHANGED I!vars
      BY <1>2, InOpen, InBrowse, InClick, InRetry, InClose, InLaunchGame, InQuit, InAddOwn,
         InStutter, Zenon
<1>3. CASE \/ I!Uninstall \/ I!UnLinks \/ I!UnFiles \/ I!UnDirs \/ I!UnTools \/ I!UnMarker
           \/ I!UnManifest \/ I!UnRegistry \/ I!UnRoot \/ I!UnCut
      BY <1>3, InUninstall, InUnLinks, InUnFiles, InUnDirs, InUnTools, InUnMarker, InUnManifest,
         InUnRegistry, InUnRoot, InUnCut, Zenon
<1> QED BY <1>1, <1>2, <1>3, Zenon DEF I!Next

(* Which steps write files, and which end an uninstallation.                  *)
LEMMA FilesWritten ==
  ASSUME [I!Next]_(I!vars), iFiles' # iFiles
  PROVE  I!Extract \/ I!Fill \/ I!Browse \/ I!AddOwn \/ I!UnFiles
<1>1. CASE I!Install
      BY <1>1, Zenon DEF I!Install, I!Validate, I!WriteMarker, I!LinkProgram, I!WriteTools,
         I!LinkUninstaller, I!WriteManifest, I!Register, I!Fails, I!folder
<1>2. CASE \/ I!Open \/ I!Browse \/ I!Click \/ I!Retry \/ I!Close \/ I!LaunchGame \/ I!Quit
           \/ I!AddOwn \/ UNCHANGED I!vars
      BY <1>2, Zenon DEF I!Open, I!Click, I!Retry, I!Close, I!LaunchGame, I!Quit, I!vars, I!folder
<1>3. CASE \/ I!Uninstall \/ I!UnLinks \/ I!UnFiles \/ I!UnDirs \/ I!UnTools \/ I!UnMarker
           \/ I!UnManifest \/ I!UnRegistry \/ I!UnRoot \/ I!UnCut
      BY <1>3, Zenon DEF I!Uninstall, I!UnLinks, I!UnDirs, I!UnTools, I!UnMarker, I!UnManifest,
         I!UnRegistry, I!UnRoot, I!UnCut, I!folder
<1> QED BY <1>1, <1>2, <1>3, Zenon DEF I!Next

LEMMA UninstallEnds ==
  ASSUME [I!Next]_(I!vars), iUn = "root", iUn' = "none" PROVE I!UnRoot \/ I!UnCut
<1>1. iUn' # iUn
      OBVIOUS
<1>2. CASE I!Install
      BY <1>1, <1>2, Zenon DEF I!Install, I!Validate, I!WriteMarker, I!Extract, I!Fill,
         I!LinkProgram, I!WriteTools, I!LinkUninstaller, I!WriteManifest, I!Register, I!Fails,
         I!Goes
<1>3. CASE \/ I!Open \/ I!Browse \/ I!Click \/ I!Retry \/ I!Close \/ I!LaunchGame \/ I!Quit
           \/ I!AddOwn \/ UNCHANGED I!vars
      BY <1>1, <1>3, Zenon DEF I!Open, I!Browse, I!Click, I!Retry, I!Close, I!LaunchGame, I!Quit,
         I!AddOwn, I!vars
<1>4. CASE \/ I!Uninstall \/ I!UnLinks \/ I!UnFiles \/ I!UnDirs \/ I!UnTools \/ I!UnMarker
           \/ I!UnManifest \/ I!UnRegistry \/ I!UnRoot \/ I!UnCut
      BY <1>1, <1>4 DEF I!Uninstall, I!UnLinks, I!UnFiles, I!UnDirs, I!UnTools, I!UnMarker,
         I!UnManifest, I!UnRegistry, I!Then
<1> QED BY <1>2, <1>3, <1>4, Zenon DEF I!Next

LEMMA OwnFiles == ASSUME InstallerInv, [I!Next]_(I!vars) PROVE I!OwnFilesKept
<1> SUFFICES ASSUME NEW p \in DOMAIN iFiles, iFiles[p] = "user"
             PROVE  p \in DOMAIN iFiles' /\ iFiles'[p] = "user"
    BY Zenon DEF I!OwnFilesKept
<1>1. p = OwnFile \/ (iUn = "none" /\ iPc \in {"none", "validate"})
      BY Zenon DEF InstallerInv, UsersOther
<1>2. CASE iFiles' = iFiles
      BY <1>2, Zenon
<1>3. CASE I!Extract
  <2>1. iPc = "extract" /\ iLeft # <<>> /\ iFiles' = I!Put(Head(iLeft), "part")
        /\ iDirs' = iDirs \cup I!Parents(Head(iLeft))
        BY <1>3, Zenon DEF I!Extract
  <2>2. Head(iLeft) \in AllPaths /\ Head(iLeft) # OwnFile
        BY <2>1, FillsAt, Zenon
  <2>3. p = OwnFile
        BY <1>1, <2>1
  <2> QED BY <2>1, <2>2, <2>3, PutWithin, Zenon DEF InstallerInv
<1>4. CASE I!Fill
  <2>1. p = OwnFile
        BY <1>1, <1>4 DEF I!Fill
  <2> QED BY <1>4, <2>1, FillAt, Zenon
<1>5. CASE I!Browse
  <2>1. iFiles = <<>>
        BY <1>5, BrowseAt, Zenon
  <2>2. DOMAIN iFiles = {}
        BY <2>1
  <2> QED BY <2>2, Zenon
<1>6. CASE I!AddOwn
      BY <1>6 DEF I!AddOwn, I!Put
<1>7. CASE I!UnFiles
  <2>1. p = OwnFile /\ iUn = "files"
        BY <1>1, <1>7 DEF I!UnFiles
  <2> QED BY <1>7, <2>1, UnFilesAt, ArchivesAre, Zenon
<1> QED BY <1>2, <1>3, <1>4, <1>5, <1>6, <1>7, FilesWritten, Zenon

LEMMA NoneLeft == ASSUME InstallerInv, [I!Next]_(I!vars) PROVE I!NoEmptyLeft
<1> SUFFICES ASSUME iUn = "root", iUn' = "none", ~iCut', NEW p \in iDirs'
             PROVE  I!Below(p, DOMAIN iFiles' \cup iDirs') # {}
    BY Zenon DEF I!NoEmptyLeft
<1>1. I!UnRoot
  <2>1. I!UnCut => iCut'
        BY Zenon DEF I!UnCut
  <2> QED BY <2>1, UninstallEnds, Zenon
<1>2. InUseBelow(p)'
  <2>1. CASE p = Top
    <3>1. InUseBelow(Top) /\ iDirs' = iDirs /\ iFiles' = iFiles
          BY <1>1, <2>1, UnRootAt, Zenon
    <3> QED BY <2>1, <3>1, Zenon DEF InUseBelow
  <2>2. CASE p # Top
        BY <1>1, <2>2, UnRootNoneEmpty DEF NoneEmpty
  <2> QED BY <2>1, <2>2, Zenon
<1>3. PICK x \in iDirs' \cup DOMAIN iFiles' : p \in I!Parents(x)
      BY <1>2, Zenon DEF InUseBelow
<1>4. p \in Seq(InFolder) /\ x \in Seq(InFolder)
      BY <1>1, UnRootWithin, PathsAre, Zenon DEF Within
<1>5. p # x /\ I!IsPrefix(p, x)
      BY <1>3, <1>4, ParentIs, Zenon
<1> QED BY <1>3, <1>5, Zenon DEF I!Below

LEMMA InstallerIs ==
  ASSUME InstallerInv PROVE I!InstallerTypeOK /\ I!ListedIsRemovable /\ I!Repeatable
<1>1. I!InstallerTypeOK
  <2>1. (iPc # "none") <=> iScreen = "installing"
        BY Zenon DEF InstallerInv, OneActs
  <2>2. \A p \in DOMAIN iFiles : iFiles[p] \in I!Held /\ I!Parents(p) \subseteq iDirs
        BY Zenon DEF InstallerInv, Within, I!Held
  <2> QED BY <2>1, <2>2, Zenon DEF InstallerInv, Steps, BothTools, I!InstallerTypeOK
<1>2. I!ListedIsRemovable
      BY Zenon DEF InstallerInv, Removable, BothTools, I!ListedIsRemovable
<1>3. I!Repeatable
      BY Zenon DEF InstallerInv, Marked, Steps, I!Repeatable, I!Accepts
<1> QED BY <1>1, <1>2, <1>3, Zenon

(* The user's files are kept by installers and uninstallers, whatever fails;  *)
(* the folder can be installed into again, and removed.                       *)
THEOREM Installs == I!Spec => InstallerHolds
<1>1. I!Init => InstallerInv
      BY InInit
<1>2. InstallerInv /\ [I!Next]_(I!vars) => InstallerInv'
      BY InInstaller
<1>3. InstallerInv /\ [I!Next]_(I!vars) => I!OwnFilesKept /\ I!NoEmptyLeft
      BY OwnFiles, NoneLeft
<1>4. InstallerInv => I!ListedIsRemovable /\ I!Repeatable
      BY InstallerIs
<1> QED BY <1>1, <1>2, <1>3, <1>4, PTL DEF I!Spec, InstallerHolds, I!InstallerHolds

(* The folder and the two programs have their types.                          *)
THEOREM InstallsTyped == I!Spec => []I!InstallerTypeOK
<1>1. I!Init => InstallerInv
      BY InInit
<1>2. InstallerInv /\ [I!Next]_(I!vars) => InstallerInv'
      BY InInstaller
<1>3. InstallerInv => I!InstallerTypeOK
      BY InstallerIs
<1> QED BY <1>1, <1>2, <1>3, PTL DEF I!Spec

-----------------------------------------------------------------------------
(* A run of the composition is one of each component, of which all but one     *)
(* stand still.                                                                *)
LEMMA AccountsStill ==
  /\ sVars = S!vars /\ cVars = C!vars /\ pVars = P!vars /\ (UNCHANGED iVars => UNCHANGED I!vars)
  /\ sVars' = S!vars' /\ cVars' = C!vars' /\ pVars' = P!vars'
<1>1. sVars = S!vars /\ sVars' = S!vars'
      BY Zenon DEF sVars, S!vars
<1>2. cVars = C!vars /\ cVars' = C!vars'
      BY Zenon DEF cVars, C!vars
<1>3. pVars = P!vars /\ pVars' = P!vars'
      BY Zenon DEF pVars, P!vars
<1>4. UNCHANGED iVars => UNCHANGED I!vars
      BY Zenon DEF iVars, I!vars, I!folder
<1> QED BY <1>1, <1>2, <1>3, <1>4

LEMMA AccountsStep ==
  ASSUME [StoreNext]_<<part, vars, bVars, sVars, cVars, pVars, iVars, oVars, lVars, aVars, dVars>>
  PROVE  [S!Next]_(S!vars) /\ [C!Next]_(C!vars) /\ [P!Next]_(P!vars) /\ [I!Next]_(I!vars)
<1>1. CASE StoreNext
  <2>1. S!Next \/ sVars' = sVars
        BY <1>1, Zenon DEF StoreNext
  <2>2. C!Next \/ cVars' = cVars
        BY <1>1, Zenon DEF StoreNext
  <2>3. P!Next \/ pVars' = pVars
        BY <1>1, Zenon DEF StoreNext
  <2>4. I!Next \/ UNCHANGED iVars
        BY <1>1, Zenon DEF StoreNext
  <2> QED BY <2>1, <2>2, <2>3, <2>4, AccountsStill, Zenon
<1>2. CASE UNCHANGED <<part, vars, bVars, sVars, cVars, pVars, iVars, oVars, lVars, aVars, dVars>>
  <2>1. sVars' = sVars /\ cVars' = cVars /\ pVars' = pVars /\ UNCHANGED iVars
        BY <1>2, Zenon
  <2> QED BY <2>1, AccountsStill, Zenon
<1> QED BY <1>1, <1>2

LEMMA AccountSpecs == StoreSpec => S!Spec /\ C!Spec /\ P!Spec /\ I!Spec
<1>1. StoreInit => S!Init /\ C!Init /\ P!Init /\ I!Init
      BY Zenon DEF StoreInit
<1> QED BY <1>1, AccountsStep, PTL DEF StoreSpec, S!Spec, C!Spec, P!Spec, I!Spec

(* Devices are woken, lost attempts stay lost and names have one bearer, in    *)
(* every run of the composition.                                               *)
THEOREM SignInKept == StoreSpec => SignInHolds
BY AccountSpecs, SignedIn, PTL

(* Streams of classes show what is, classes keep their teachers and members,   *)
(* in every run of the composition.                                            *)
THEOREM ClassroomsKept == StoreSpec => ClassroomsHold
BY AccountSpecs, Rooms, PTL

(* Whatever project is listed opens, and a delete leaves the documents of other *)
(* projects alone, in every run of the composition.                            *)
THEOREM ProjectsKept == StoreSpec => ProjectsHold
BY AccountSpecs, Projects, PTL

(* Installers and uninstallers keep the user's files and leave a folder that   *)
(* can be used again and no empty directory, in every run of the composition.  *)
THEOREM InstallerKept == StoreSpec => InstallerHolds
BY AccountSpecs, Installs, PTL

(* The documents of every component have their types, in every run of the      *)
(* composition.                                                                *)
THEOREM DocumentsTyped == StoreSpec => []DocumentsTypeOK
<1>1. B!BillingTypeOK /\ S!SignInTypeOK /\ C!ClassroomsTypeOK /\ P!ProjectStoreTypeOK
      /\ I!InstallerTypeOK /\ O!ApiProjectsTypeOK /\ L!ApiClassroomsTypeOK /\ A!AudioBatchTypeOK
      /\ D!ApiDatasetsTypeOK => DocumentsTypeOK
      BY Zenon DEF DocumentsTypeOK
<1> QED BY <1>1, PartSpecs, AccountSpecs, BillingTyped, SignInTyped, RoomsTyped, ProjectsTyped,
           InstallsTyped, Served, Classes, Audio, Trainings, PTL
=============================================================================
