-------------------------- MODULE Assistant_proof --------------------------
(* What is stored in a chat of the assistant, for any number of talks,        *)
(* accounts and edits and any caps, and what the runs of the model and the    *)
(* talks of the API service keep, for any number of threads and clients.      *)
EXTENDS Assistant, SequenceTheorems, FiniteSetTheorems, TLAPS

-----------------------------------------------------------------------------
(* What is stored in a chat *)
Retention == Limit["retained"]

Msgs(messages) == {messages[i] : i \in DOMAIN messages}

\* An answer is behind its question, and nothing is stored twice.
Paired(messages) == \A i \in 2..Len(messages) :
    messages[i][2] = "model" => messages[i - 1] = <<messages[i][1], "user">>
Distinct(messages) == \A i, j \in DOMAIN messages : messages[i] = messages[j] => i = j

Sound(d) == /\ d \in Chat /\ Len(d.messages) <= Retention
            /\ Paired(d.messages) /\ Distinct(d.messages)

Stored == {"thinking", "answered", "failed"}

TypeInv ==
    /\ \A a \in Account : Sound(chat[a])
    /\ \A t \in Talk : Sound(talk[t].data)
    /\ chat \in [Account -> Chat] /\ talk \in [Talk -> Call]
    /\ cut \in [Account -> SUBSET Message]

\* A thread that has run has told what it leaves, and a talk that waits for one
\* has stored its question and the graph the client shows.
CallInv == \A t \in Talk :
    /\ talk[t].pc = "answered" => talk[t].thread \in {"said", "silent"}
    /\ talk[t].pc \notin Stored => talk[t].thread = "none"
    /\ t \in Once => talk[t].pc \in {"new", "denied", "thinking", "answered"}
    /\ t \notin Once /\ talk[t].pc \in {"updated", "thinking"} =>
           talk[t].data.graph = talk[t].graph
    /\ t \notin Once /\ talk[t].pc = "thinking" =>
           /\ talk[t].data.messages # <<>>
           /\ talk[t].data.messages[Len(talk[t].data.messages)] = <<t, "user">>

\* A message is of a talk that has stored it.
Known(m) == /\ talk[m[1]].pc \in Stored
            /\ m[2] = "model" => talk[m[1]].pc = "answered"
KnownInv ==
    /\ \A a \in Account : \A m \in Msgs(chat[a].messages) \cup cut[a] : Known(m)
    /\ \A t \in Talk : \A m \in Msgs(talk[t].data.messages) : Known(m)

Kept(messages, t) == Len(messages) = Retention \/ Has(messages, LastOf(t))

\* No other talk is open with one that is alone, which wrote the chat last; what
\* it leaves is in the copy of every talk opened after it.
AloneInv == \A t, u \in Talk \ Once : talk[t].alone /\ Owner[t] = Owner[u] =>
    /\ Open(t) /\ Open(u) => t = u
    /\ talk[t].pc \in {"updated", "thinking"} => chat[Owner[t]] = talk[t].data
    /\ talk[t].pc = "answered" /\ Open(u) => Kept(talk[u].data.messages, t)

\* What was cut is in no copy that is still to be written.
CutInv == \A t \in Talk : Open(t) =>
    \A m \in Msgs(talk[t].data.messages) : m \notin cut[Owner[t]]

IInv == TypeInv /\ CallInv /\ KnownInv /\ AloneInv /\ CutInv /\ HistoryKept /\ CutStays

-----------------------------------------------------------------------------
\* What SubSeq keeps of a chat: order, neighbours and distinctness.
LEMMA PartSound ==
    ASSUME NEW s \in Seq(Message), NEW m \in 1..Len(s), NEW n \in m..Len(s),
           Paired(s), Distinct(s)
    PROVE  /\ SubSeq(s, m, n) \in Seq(Message) /\ Len(SubSeq(s, m, n)) = n - m + 1
           /\ \A i \in 1..n - m + 1 : SubSeq(s, m, n)[i] = s[m + i - 1]
           /\ Paired(SubSeq(s, m, n)) /\ Distinct(SubSeq(s, m, n))
           /\ Msgs(SubSeq(s, m, n)) = {s[i] : i \in m..n}
<1> DEFINE r == SubSeq(s, m, n)
<1>1. /\ m \in Int /\ n \in Int /\ m >= 1 /\ m <= n /\ n <= Len(s) /\ Len(s) \in Nat
      /\ DOMAIN s = 1..Len(s) /\ \A i \in m..n : s[i] \in Message
  OBVIOUS
<1>2. /\ r \in Seq(Message) /\ Len(r) = n - m + 1
      /\ \A i \in 1..n - m + 1 : r[i] = s[m + i - 1]
  BY <1>1, SubSeqProperties
<1>3. DOMAIN r = 1..n - m + 1
  BY <1>2
<1> HIDE DEF r
<1>4. Paired(r)
  <2> SUFFICES ASSUME NEW i \in 2..Len(r), r[i][2] = "model"
               PROVE  r[i - 1] = <<r[i][1], "user">>
    BY DEF Paired
  <2>1. r[i] = s[m + i - 1] /\ r[i - 1] = s[m + i - 2]
    <3>1. i - 1 \in 1..n - m + 1 /\ i \in 1..n - m + 1
      BY <1>1, <1>2
    <3>2. r[i - 1] = s[m + (i - 1) - 1]
      BY <1>2, <3>1
    <3> QED BY <1>1, <1>2, <3>1, <3>2
  <2>2. m + i - 1 \in 2..Len(s) /\ (m + i - 1) - 1 = m + i - 2
    BY <1>1, <1>2
  <2> QED BY <2>1, <2>2 DEF Paired
<1>5. Distinct(r)
  <2> SUFFICES ASSUME NEW i \in DOMAIN r, NEW j \in DOMAIN r, r[i] = r[j] PROVE i = j
    BY DEF Distinct
  <2>1. r[i] = s[m + i - 1] /\ r[j] = s[m + j - 1]
    BY <1>2, <1>3
  <2>2. m + i - 1 \in DOMAIN s /\ m + j - 1 \in DOMAIN s
    BY <1>1, <1>3
  <2>3. m + i - 1 = m + j - 1
    BY <2>1, <2>2 DEF Distinct
  <2> QED BY <1>1, <1>3, <2>3
<1>6. Msgs(r) = {s[i] : i \in m..n}
  <2>1. ASSUME NEW i \in DOMAIN r PROVE r[i] \in {s[k] : k \in m..n}
    <3>1. i \in 1..n - m + 1
      BY <1>3
    <3>2. r[i] = s[m + i - 1] /\ m + i - 1 \in m..n
      BY SMTT(30), <1>1, <1>2, <3>1
    <3> QED BY <3>2
  <2>2. ASSUME NEW i \in m..n PROVE s[i] \in Msgs(r)
    <3>1. i - m + 1 \in 1..n - m + 1 /\ m + (i - m + 1) - 1 = i
      BY <1>1
    <3>2. r[i - m + 1] = s[i]
      BY <1>2, <3>1
    <3> QED BY <1>3, <3>1, <3>2 DEF Msgs
  <2> QED BY <2>1, <2>2 DEF Msgs
<1> QED BY <1>2, <1>4, <1>5, <1>6 DEF r

\* A new message comes last; what it pushes out is the oldest one.
LEMMA RetainedSound ==
    ASSUME NEW s \in Seq(Message), Len(s) <= Retention, Paired(s), Distinct(s),
           NEW x \in Message, x \notin Msgs(s),
           x[2] = "model" => s # <<>> /\ s[Len(s)] = <<x[1], "user">>
    PROVE  /\ Retained(Append(s, x)) \in Seq(Message)
           /\ Len(Retained(Append(s, x))) <= Retention
           /\ Paired(Retained(Append(s, x))) /\ Distinct(Retained(Append(s, x)))
           /\ Retained(Append(s, x)) # <<>>
           /\ Retained(Append(s, x))[Len(Retained(Append(s, x)))] = x
           /\ x \in Msgs(Retained(Append(s, x)))
           /\ Msgs(Retained(Append(s, x))) \subseteq Msgs(s) \cup {x}
           /\ Len(s) = Retention => Len(Retained(Append(s, x))) = Retention
           /\ \/ Len(Retained(Append(s, x))) = Retention
              \/ Msgs(s) \subseteq Msgs(Retained(Append(s, x)))
<1> DEFINE b == Append(s, x)
           m == IF Len(b) > Retention THEN Len(b) - Retention + 1 ELSE 1
           r == SubSeq(b, m, Len(b))
<1>1. /\ b \in Seq(Message) /\ Len(b) = Len(s) + 1 /\ Len(s) \in Nat
      /\ DOMAIN s = 1..Len(s) /\ DOMAIN b = 1..Len(s) + 1
      /\ b[Len(s) + 1] = x /\ \A i \in 1..Len(s) : b[i] = s[i]
  OBVIOUS
<1>2. Retention \in Nat /\ Retention > 0
  BY LimitAssumption DEF Retention, Caps
<1>3. Retained(b) = r
  BY DEF Retained, Retention
<1> HIDE DEF b, m, r
<1>4. Len(b) = Len(s) + 1 /\ Len(s) \in Nat /\ Len(s) <= Retention
  BY <1>1
<1>5. \/ m = 1 /\ Len(b) <= Retention
      \/ m = 2 /\ Len(s) = Retention
  <2>1. CASE Len(b) > Retention
    <3>1. m = Len(b) - Retention + 1
      BY <2>1 DEF m
    <3>2. Len(s) = Retention
      BY <1>4, <1>2, <2>1
    <3> QED BY <1>4, <1>2, <3>1, <3>2
  <2>2. CASE ~(Len(b) > Retention)
    <3>1. m = 1
      BY <2>2 DEF m
    <3> QED BY <1>4, <1>2, <2>2, <3>1
  <2> QED BY <2>1, <2>2
<1>6. Paired(b)
  <2> SUFFICES ASSUME NEW i \in 2..Len(b), b[i][2] = "model"
               PROVE  b[i - 1] = <<b[i][1], "user">>
    BY DEF Paired
  <2>1. CASE i = Len(s) + 1
    <3>1. s # <<>> /\ s[Len(s)] = <<x[1], "user">> /\ Len(s) \in 1..Len(s)
      BY <1>1, <2>1
    <3> QED BY <1>1, <2>1, <3>1
  <2>2. CASE i # Len(s) + 1
    <3>1. i \in 2..Len(s) /\ i - 1 \in 1..Len(s) /\ i \in 1..Len(s)
      BY <1>1, <2>2
    <3> QED BY <1>1, <3>1 DEF Paired
  <2> QED BY <2>1, <2>2
<1>7. Distinct(b)
  <2> SUFFICES ASSUME NEW i \in DOMAIN b, NEW j \in DOMAIN b, b[i] = b[j], i # j
               PROVE  FALSE
    BY DEF Distinct
  <2>1. i \in 1..Len(s) + 1 /\ j \in 1..Len(s) + 1
    BY <1>1
  <2>2. CASE i \in 1..Len(s) /\ j \in 1..Len(s)
    BY <1>1, <2>2 DEF Distinct
  <2>3. CASE i = Len(s) + 1
    <3>1. j \in 1..Len(s) /\ s[j] = x
      BY <1>1, <2>1, <2>3
    <3> QED BY <1>1, <3>1 DEF Msgs
  <2>4. CASE j = Len(s) + 1
    <3>1. i \in 1..Len(s) /\ s[i] = x
      BY <1>1, <2>1, <2>4
    <3> QED BY <1>1, <3>1 DEF Msgs
  <2> QED BY <1>1, <2>1, <2>2, <2>3, <2>4
<1>8. m \in 1..Len(b) /\ Len(b) \in m..Len(b)
  <2>1. Len(b) >= 1 /\ m >= 1 /\ m <= Len(b) /\ m \in Nat
    BY <1>2, <1>4, <1>5
  <2> QED BY <1>4, <2>1
<1>9. /\ r \in Seq(Message) /\ Len(r) = Len(b) - m + 1
      /\ \A i \in 1..Len(b) - m + 1 : r[i] = b[m + i - 1]
      /\ Paired(r) /\ Distinct(r) /\ Msgs(r) = {b[i] : i \in m..Len(b)}
  BY SMTT(30), <1>1, <1>8, <1>6, <1>7, PartSound DEF r
<1>10. Len(r) <= Retention /\ Len(r) >= 1 /\ (m = 2 => Len(r) = Retention)
  <2>1. Len(r) = Len(b) - m + 1 /\ m \in Nat /\ Len(b) \in Nat /\ m <= Len(b)
    BY <1>8, <1>9
  <2> HIDE DEF r
  <2> QED BY <1>2, <1>4, <1>5, <2>1
<1>11. r # <<>> /\ r[Len(r)] = x
  <2>1. Len(r) \in 1..Len(b) - m + 1 /\ m + Len(r) - 1 = Len(s) + 1
    BY <1>1, <1>5, <1>9, <1>10
  <2> QED BY <1>1, <1>9, <1>10, <2>1
<1>12. x \in Msgs(r)
  BY <1>9, <1>10, <1>11 DEF Msgs
<1>13. Msgs(r) \subseteq Msgs(s) \cup {x}
  <2>1. ASSUME NEW i \in m..Len(b) PROVE b[i] \in Msgs(s) \cup {x}
    BY <1>1, <1>5 DEF Msgs
  <2> QED BY <1>9, <2>1
<1>14. m = 1 => Msgs(s) \subseteq Msgs(r)
  <2> SUFFICES ASSUME m = 1, NEW i \in 1..Len(s) PROVE s[i] \in Msgs(r)
    BY <1>1 DEF Msgs
  <2>1. i \in m..Len(b) /\ b[i] = s[i]
    BY <1>1
  <2> QED BY <1>9, <2>1
<1>15. ASSUME Len(s) = Retention PROVE m = 2
  <2>1. ~(Len(b) <= Retention)
    BY <1>2, <1>4, <1>15
  <2> QED BY <1>5, <2>1
<1>16. /\ r \in Seq(Message) /\ Len(r) <= Retention /\ Paired(r) /\ Distinct(r)
       /\ r # <<>> /\ r[Len(r)] = x /\ x \in Msgs(r) /\ Msgs(r) \subseteq Msgs(s) \cup {x}
       /\ Len(s) = Retention => Len(r) = Retention
       /\ Len(r) = Retention \/ Msgs(s) \subseteq Msgs(r)
  BY <1>5, <1>9, <1>10, <1>11, <1>12, <1>13, <1>14, <1>15
<1> QED BY <1>3, <1>16 DEF b

\* The empty chat is one.
LEMMA EmptySound == Sound(EmptyChat) /\ Msgs(<<>>) = {}
<1>1. EmptyChat.messages = <<>> /\ <<>> \in Seq(Message) /\ Len(<<>>) = 0
  BY EmptySeq DEF EmptyChat
<1>2. Retention \in Nat /\ Retention > 0
  BY LimitAssumption DEF Retention, Caps
<1> QED BY <1>1, <1>2 DEF Sound, EmptyChat, Chat, Paired, Distinct, Msgs

\* Messages of chats, copies and cuts are messages.
LEMMA KnownMessages ==
    ASSUME TypeInv
    PROVE  /\ \A a \in Account : \A m \in Msgs(chat[a].messages) \cup cut[a] : m \in Message
           /\ \A t \in Talk : \A m \in Msgs(talk[t].data.messages) : m \in Message
<1>1. ASSUME NEW d, Sound(d), NEW m \in Msgs(d.messages) PROVE m \in Message
  <2>1. d.messages \in Seq(Message)
    BY <1>1 DEF Sound, Chat
  <2>2. PICK i \in DOMAIN d.messages : m = d.messages[i]
    BY DEF Msgs
  <2> QED BY <2>1, <2>2
<1> QED BY <1>1 DEF TypeInv

\* What a call adds to its copy of the chat.
LEMMA WithSound ==
    ASSUME IInv, NEW t \in Talk, t \notin Once, NEW role \in {"user", "model"},
           talk[t].pc = IF role = "user" THEN "updated" ELSE "thinking"
    PROVE  /\ Sound(With(t, role)) /\ With(t, role).graph = talk[t].data.graph
           /\ With(t, role).messages # <<>>
           /\ With(t, role).messages[Len(With(t, role).messages)] = <<t, role>>
           /\ Has(With(t, role).messages, <<t, role>>)
           /\ Msgs(With(t, role).messages) \subseteq
                 Msgs(talk[t].data.messages) \cup {<<t, role>>}
           /\ \A v : Kept(talk[t].data.messages, v) => Kept(With(t, role).messages, v)
<1> DEFINE s == talk[t].data.messages
           x == <<t, role>>
           r == Retained(Append(s, x))
<1>1. Sound(talk[t].data) /\ talk[t].data \in Chat
  BY DEF IInv, TypeInv, Sound
<1>2. With(t, role) = [talk[t].data EXCEPT !.messages = r]
  BY DEF With
<1>3. /\ s \in Seq(Message) /\ Len(s) <= Retention /\ Paired(s) /\ Distinct(s)
      /\ talk[t].data.graph \in Graph \cup {NoGraph}
  BY <1>1 DEF Sound, Chat
<1>4. x \in Message /\ x[1] = t /\ x[2] = role
  BY DEF Message
<1>5. x \notin Msgs(s)
  <2>1. \A m \in Msgs(s) : Known(m)
    BY DEF IInv, KnownInv
  <2>2. ~Known(x)
    BY <1>4 DEF Known, Stored
  <2> QED BY <2>1, <2>2
<1>6. x[2] = "model" => s # <<>> /\ s[Len(s)] = <<x[1], "user">>
  BY <1>4 DEF IInv, CallInv
<1>7. With(t, role).messages = r /\ With(t, role).graph = talk[t].data.graph
      /\ With(t, role) = [messages |-> r, graph |-> talk[t].data.graph]
  BY <1>1, <1>2 DEF Chat
<1> HIDE DEF s, x
<1>8. /\ r \in Seq(Message) /\ Len(r) <= Retention /\ Paired(r) /\ Distinct(r)
      /\ r # <<>> /\ r[Len(r)] = x /\ x \in Msgs(r) /\ Msgs(r) \subseteq Msgs(s) \cup {x}
      /\ Len(s) = Retention => Len(r) = Retention
      /\ Len(r) = Retention \/ Msgs(s) \subseteq Msgs(r)
  BY <1>3, <1>4, <1>5, <1>6, RetainedSound
<1> HIDE DEF r
<1>9. Sound(With(t, role))
  BY <1>3, <1>7, <1>8 DEF Sound, Chat
<1>10. Has(r, x)
  BY <1>8 DEF Has, Msgs
<1>11. ASSUME NEW v, Kept(s, v) PROVE Kept(r, v)
  BY <1>8, <1>11 DEF Kept, Has, Msgs
<1> QED BY <1>7, <1>8, <1>9, <1>10, <1>11 DEF s, x

-----------------------------------------------------------------------------
\* A call goes on without touching a chat.
LEMMA QuietStep ==
    ASSUME IInv, NEW t \in Talk, NEW r \in Call, talk' = [talk EXCEPT ![t] = r],
           UNCHANGED <<chat, cut>>,
           r.data = talk[t].data, r.graph = talk[t].graph, r.alone = talk[t].alone,
           \/ r.pc = talk[t].pc /\ r.pc \in {"thinking", "failed"}
           \/ talk[t].pc = "new" /\ r.pc = "denied" /\ r.thread = "none"
           \/ talk[t].pc = "open" /\ r.pc = "asked" /\ r.thread = "none"
           \/ talk[t].pc = "new" /\ r.pc = "thinking" /\ t \in Once
    PROVE  IInv'
<1>1. talk \in [Talk -> Call]
  BY DEF IInv, TypeInv
<1>2. ASSUME NEW u \in Talk
      PROVE  /\ talk'[u].data = talk[u].data /\ talk'[u].graph = talk[u].graph
             /\ talk'[u].alone = talk[u].alone
             /\ talk'[u].pc = "answered" <=> talk[u].pc = "answered"
             /\ talk[u].pc \in Stored => talk'[u].pc \in Stored
             /\ u \notin Once /\ talk'[u].pc \in {"updated", "thinking"} =>
                   talk'[u].pc = talk[u].pc
             /\ Open(u)' = Open(u)
             /\ talk[u].pc = "answered" => LastOf(u)' = LastOf(u)
  <2>1. CASE u = t
    <3>1. talk'[u] = r
      BY <1>1, <2>1
    <3> QED BY <2>1, <3>1 DEF Stored, Open, IInv, CallInv
  <2>2. CASE u # t
    <3>1. talk'[u] = talk[u]
      BY <1>1, <2>2
    <3> QED BY <3>1 DEF Open, LastOf
  <2> QED BY <2>1, <2>2
<1>3. TypeInv'
  <2>1. talk' \in [Talk -> Call]
    BY <1>1
  <2> QED BY <1>2, <2>1 DEF IInv, TypeInv
<1>4. CallInv'
  <2> SUFFICES ASSUME NEW u \in Talk
               PROVE  /\ talk'[u].pc = "answered" => talk'[u].thread \in {"said", "silent"}
                      /\ talk'[u].pc \notin Stored => talk'[u].thread = "none"
                      /\ u \in Once => talk'[u].pc \in {"new", "denied", "thinking", "answered"}
    BY <1>2 DEF IInv, CallInv
  <2>1. CASE u = t
    <3>1. talk'[u] = r
      BY <1>1, <2>1
    <3> QED BY <2>1, <3>1 DEF Stored, IInv, CallInv
  <2>2. CASE u # t
    <3>1. talk'[u] = talk[u]
      BY <1>1, <2>2
    <3> QED BY <3>1 DEF IInv, CallInv
  <2> QED BY <2>1, <2>2
<1>5. ASSUME NEW m \in Message, Known(m) PROVE Known(m)'
  <2>1. m[1] \in Talk
    BY DEF Message
  <2> QED BY <1>2, <1>5, <2>1 DEF Known
<1>6. KnownInv'
  BY <1>2, <1>5, KnownMessages DEF IInv, KnownInv
<1>7. AloneInv' /\ HistoryKept'
  BY <1>2, OwnerAssumption DEF IInv, AloneInv, HistoryKept, Kept
<1>8. CutInv' /\ CutStays'
  BY <1>2 DEF IInv, CutInv, CutStays
<1> QED BY <1>3, <1>4, <1>6, <1>7, <1>8 DEF IInv

\* A call without a chat goes on as before: the graph, copies and flags of the
\* other calls are theirs.
LEMMA OthersSame ==
    ASSUME IInv, NEW t \in Talk, NEW r \in Call, talk' = [talk EXCEPT ![t] = r]
    PROVE  /\ talk'[t] = r /\ talk' \in [Talk -> Call]
           /\ \A u \in Talk \ {t} : /\ talk'[u] = talk[u] /\ Open(u)' = Open(u)
                                    /\ LastOf(u)' = LastOf(u)
<1>1. talk \in [Talk -> Call]
  BY DEF IInv, TypeInv
<1>2. \A u \in Talk \ {t} : talk'[u] = talk[u]
  BY <1>1
<1> QED BY <1>1, <1>2 DEF Open, LastOf

\* A message that is known stays known when its call goes on.
LEMMA KnownStays ==
    ASSUME \A u \in Talk : /\ talk[u].pc \in Stored => talk'[u].pc \in Stored
                           /\ talk[u].pc = "answered" => talk'[u].pc = "answered",
           NEW m \in Message, Known(m)
    PROVE  Known(m)'
<1>1. m[1] \in Talk
  BY DEF Message
<1> QED BY <1>1 DEF Known

\* A call leaves its copy and, unless its answer is the last step, the chat alone.
LEMMA CloseStep ==
    ASSUME IInv, NEW t \in Talk, NEW r \in Call, talk' = [talk EXCEPT ![t] = r],
           UNCHANGED <<chat, cut>>,
           r.data = EmptyChat, r.alone = talk[t].alone,
           \/ r.pc = "failed" /\ Open(t)
           \/ /\ r.pc = "answered" /\ talk[t].pc = "thinking"
              /\ (r.thread = "said" /\ t \in Once) \/ r.thread = "silent"
    PROVE  IInv'
<1>1. /\ talk'[t] = r /\ talk' \in [Talk -> Call]
      /\ \A u \in Talk \ {t} : /\ talk'[u] = talk[u] /\ Open(u)' = Open(u)
                               /\ LastOf(u)' = LastOf(u)
  BY OthersSame
<1>2. ~Open(t)' /\ talk'[t].pc \in Stored /\ talk[t].pc # "answered"
  BY <1>1 DEF Open, Stored
<1>3. Sound(EmptyChat) /\ Msgs(EmptyChat.messages) = {}
  BY EmptySound DEF EmptyChat
<1>4. TypeInv'
  BY <1>1, <1>3 DEF IInv, TypeInv
<1>5. CallInv'
  BY <1>1, <1>2 DEF IInv, CallInv, Open, Stored
<1>6. KnownInv'
  <2>1. \A u \in Talk : /\ talk[u].pc \in Stored => talk'[u].pc \in Stored
                        /\ talk[u].pc = "answered" => talk'[u].pc = "answered"
    BY <1>1, <1>2
  <2>2. \A m \in Message : Known(m) => Known(m)'
    BY <2>1, KnownStays
  <2>3. /\ \A a \in Account : \A m \in Msgs(chat[a].messages) \cup cut[a] : m \in Message
        /\ \A u \in Talk : \A m \in Msgs(talk[u].data.messages) : m \in Message
    BY KnownMessages DEF IInv
  <2> QED BY <1>1, <1>3, <2>2, <2>3 DEF IInv, KnownInv
<1>7. t \notin Once /\ r.pc = "answered" /\ r.alone => Has(chat[Owner[t]].messages, LastOf(t)')
  <2> SUFFICES ASSUME t \notin Once, r.pc = "answered", r.alone
               PROVE  Has(chat[Owner[t]].messages, <<t, "user">>)
    BY <1>1 DEF LastOf
  <2>1. chat[Owner[t]] = talk[t].data
    BY DEF IInv, AloneInv
  <2>2. /\ talk[t].data.messages # <<>>
        /\ talk[t].data.messages[Len(talk[t].data.messages)] = <<t, "user">>
    BY DEF IInv, CallInv
  <2>3. talk[t].data.messages \in Seq(Message)
    BY DEF IInv, TypeInv, Sound, Chat
  <2>4. Len(talk[t].data.messages) \in DOMAIN talk[t].data.messages
    BY <2>2, <2>3
  <2> QED BY <2>1, <2>2, <2>4 DEF Has
<1>8. AloneInv'
  <2> SUFFICES ASSUME NEW v \in Talk \ Once, NEW u \in Talk \ Once,
                      talk'[v].alone, Owner[v] = Owner[u]
               PROVE  /\ Open(v)' /\ Open(u)' => v = u
                      /\ talk'[v].pc \in {"updated", "thinking"} => chat[Owner[v]] = talk'[v].data
                      /\ talk'[v].pc = "answered" /\ Open(u)' => Kept(talk[u].data.messages, v)'
    BY DEF AloneInv
  <2>1. CASE v # t /\ u # t
    BY <1>1, <2>1 DEF IInv, AloneInv, Kept
  <2>2. CASE u = t /\ v # t
    BY <1>1, <1>2, <2>2 DEF IInv, AloneInv
  <2>3. CASE v = t
    <3>1. talk'[t].pc \notin {"updated", "thinking"}
      BY <1>1
    <3>2. talk'[t].pc = "answered" => Open(t) /\ talk[t].alone
      BY <1>1, <2>3 DEF Open
    <3>3. talk'[t].pc = "answered" => ~Open(u)'
      BY <1>1, <1>2, <2>3, <3>2 DEF IInv, AloneInv
    <3> QED BY <1>2, <2>3, <3>1, <3>3
  <2> QED BY <2>1, <2>2, <2>3
<1>9. CutInv' /\ CutStays'
  BY <1>1, <1>2 DEF IInv, CutInv, CutStays
<1>10. HistoryKept'
  BY <1>1, <1>2, <1>7 DEF IInv, HistoryKept
<1> QED BY <1>4, <1>5, <1>6, <1>8, <1>9, <1>10 DEF IInv

\* A talk opens with a copy of what is stored, or of nothing if it is cleared.
LEMMA OpenStep ==
    ASSUME IInv, NEW t \in Talk, NEW g \in Graph, NEW clear \in BOOLEAN,
           OpenTalk(t, g, clear)
    PROVE  IInv'
<1> DEFINE a == Owner[t]
           d == IF clear THEN [chat[a] EXCEPT !.messages = <<>>] ELSE chat[a]
<1>1. talk \in [Talk -> Call] /\ a \in Account /\ chat' = chat /\ cut' = cut
  BY OwnerAssumption DEF IInv, TypeInv, OpenTalk, edited
<1>2. Sound(chat[a]) /\ chat[a] \in Chat
  BY <1>1 DEF IInv, TypeInv, Sound
<1>3. /\ Sound(d) /\ Msgs(d.messages) \subseteq Msgs(chat[a].messages)
      /\ ~clear => d = chat[a]
  <2>1. CASE clear
    <3>1. d = [messages |-> <<>>, graph |-> chat[a].graph] /\ d.messages = <<>>
      BY <1>2, <2>1 DEF Chat
    <3> HIDE DEF d
    <3> QED BY <1>2, <2>1, <3>1, EmptySound
            DEF Sound, Chat, EmptyChat, Paired, Distinct
  <2>2. CASE ~clear
    BY <1>2, <2>2
  <2> QED BY <2>1, <2>2
<1> HIDE DEF d
<1>4. /\ talk[t].pc = "new" /\ t \notin Once
      /\ talk'[t].pc = "open" /\ talk'[t].data = d /\ talk'[t].graph = g
      /\ talk'[t].thread = "none" /\ talk'[t] \in Call
      /\ talk'[t].alone => \A u \in Talk \ {t} : Owner[u] = a /\ u \notin Once => ~Open(u)
  <2>1. talk[t] \in Call /\ talk[t].pc = "new" /\ t \notin Once /\ talk[t].thread = "none"
    BY <1>1 DEF OpenTalk, IInv, CallInv, Stored
  <2>2. talk'[t] = [talk[t] EXCEPT !.pc = "open", !.graph = g,
           !.alone = ~\E o \in {u \in Talk \ {t} : Owner[u] = a /\ u \notin Once} : Open(o),
           !.data = d]
    BY <1>1 DEF OpenTalk, d
  <2>3. d \in Chat
    BY <1>3 DEF Sound
  <2> QED BY <2>1, <2>2, <2>3 DEF Call
<1>5. ASSUME NEW u \in Talk \ {t}
      PROVE  /\ talk'[u].pc = talk[u].pc /\ talk'[u].data = talk[u].data
             /\ talk'[u].graph = talk[u].graph /\ talk'[u].thread = talk[u].thread
             /\ talk'[u].alone => talk[u].alone
             /\ talk'[u].alone /\ Owner[u] = a /\ u \notin Once => ~clear /\ ~Open(u)
             /\ talk'[u] \in Call
  <2>1. talk[u] \in Call
    BY <1>1
  <2>2. talk'[u] = [talk[u] EXCEPT !.alone =
           @ /\ ~(u \in {v \in Talk \ {t} : Owner[v] = a /\ v \notin Once} /\ (clear \/ Open(u)))]
    BY <1>1 DEF OpenTalk
  <2> QED BY <2>1, <2>2 DEF Call
<1>6. \A u \in Talk \ {t} : Open(u)' = Open(u) /\ LastOf(u)' = LastOf(u)
  BY <1>5 DEF Open, LastOf
<1>7. TypeInv'
  <2>1. talk' \in [Talk -> Call]
    <3>1. talk' = [u \in Talk |-> talk'[u]]
      BY DEF OpenTalk
    <3> QED BY <1>4, <1>5, <3>1
  <2> QED BY <1>1, <1>3, <1>4, <1>5, <2>1 DEF IInv, TypeInv
<1>8. CallInv'
  BY <1>4, <1>5 DEF IInv, CallInv, Stored
<1>9. KnownInv'
  <2>1. \A u \in Talk : /\ talk[u].pc \in Stored => talk'[u].pc \in Stored
                        /\ talk[u].pc = "answered" => talk'[u].pc = "answered"
    BY <1>4, <1>5 DEF Stored
  <2>2. \A m \in Message : Known(m) => Known(m)'
    BY <2>1, KnownStays
  <2>3. /\ \A b \in Account : \A m \in Msgs(chat[b].messages) \cup cut[b] : m \in Message
        /\ \A u \in Talk : \A m \in Msgs(talk[u].data.messages) : m \in Message
    BY KnownMessages DEF IInv
  <2> QED BY <1>1, <1>3, <1>4, <1>5, <2>2, <2>3 DEF IInv, KnownInv
<1>10. AloneInv'
  <2> SUFFICES ASSUME NEW v \in Talk \ Once, NEW u \in Talk \ Once,
                      talk'[v].alone, Owner[v] = Owner[u]
               PROVE  /\ Open(v)' /\ Open(u)' => v = u
                      /\ talk'[v].pc \in {"updated", "thinking"} => chat[Owner[v]] = talk'[v].data
                      /\ talk'[v].pc = "answered" /\ Open(u)' => Kept(talk[u].data.messages, v)'
    BY <1>1 DEF AloneInv
  <2>1. CASE v # t /\ u # t
    BY <1>5, <1>6, <2>1 DEF IInv, AloneInv, Kept
  <2>2. CASE v # t /\ u = t
    <3>1. ~clear /\ ~Open(v) /\ talk[v].alone
      BY <1>5, <2>2
    <3>2. ~Open(v)' /\ talk'[v].pc = talk[v].pc
      BY <1>5, <1>6, <2>2, <3>1
    <3>3. talk[v].pc = "answered" => Kept(chat[a].messages, v)
      BY <2>2, <3>1 DEF IInv, HistoryKept, Kept, Retention
    <3>4. talk'[u].data = chat[a] /\ LastOf(v)' = LastOf(v)
      BY <1>3, <1>4, <1>6, <2>2, <3>1
    <3>5. talk'[v].pc = "answered" => Kept(talk[u].data.messages, v)'
      BY <3>2, <3>3, <3>4 DEF Kept
    <3>6. talk[v].pc \notin {"updated", "thinking"}
      BY <2>2, <3>1 DEF Open
    <3> QED BY <3>2, <3>5, <3>6
  <2>3. CASE v = t
    BY <1>4, <1>6, <2>3
  <2> QED BY <2>1, <2>2, <2>3
<1>11. CutInv'
  <2>1. \A m \in Msgs(d.messages) : m \notin cut[a]
    <3>1. \A m \in Msgs(chat[a].messages) : m \notin cut[a]
      BY <1>1 DEF IInv, CutStays, Msgs
    <3> QED BY <1>3, <3>1
  <2> QED BY <1>1, <1>4, <1>5, <1>6, <2>1 DEF IInv, CutInv
<1>12. HistoryKept' /\ CutStays'
  BY <1>1, <1>4, <1>5, <1>6 DEF IInv, HistoryKept, CutStays
<1> QED BY <1>7, <1>8, <1>9, <1>10, <1>11, <1>12 DEF IInv

\* A talk writes its copy, perhaps with a message of its own, over the chat.
LEMMA WriteStep ==
    ASSUME IInv, NEW t \in Talk, t \notin Once, Open(t), NEW d, Sound(d),
           NEW r \in Call, talk' = [talk EXCEPT ![t] = r],
           chat' = [chat EXCEPT ![Owner[t]] = d], cut' = cut,
           Sound(r.data), r.alone = talk[t].alone,
           talk[t].pc \in Stored => r.pc \in Stored,
           \/ r.pc = "updated" /\ r.data = d /\ r.thread = "none"
           \/ /\ r.pc = "thinking" /\ r.data = d
              /\ d.messages # <<>> /\ d.messages[Len(d.messages)] = <<t, "user">>
           \/ r.pc = "answered" /\ r.data = EmptyChat /\ r.thread = "said"
              /\ Has(d.messages, <<t, "model">>),
           r.pc \in {"updated", "thinking"} => d.graph = r.graph,
           \A m \in Msgs(d.messages) :
               \/ m \in Msgs(talk[t].data.messages)
               \/ /\ ~Known(m) /\ m[1] = t /\ r.pc \in Stored
                  /\ m[2] = "model" => r.pc = "answered",
           \A v : Kept(talk[t].data.messages, v) => Kept(d.messages, v)
    PROVE  IInv'
<1> DEFINE a == Owner[t]
<1>1. /\ talk'[t] = r /\ talk' \in [Talk -> Call]
      /\ \A u \in Talk \ {t} : /\ talk'[u] = talk[u] /\ Open(u)' = Open(u)
                               /\ LastOf(u)' = LastOf(u)
  BY OthersSame
<1>2. /\ a \in Account /\ chat \in [Account -> Chat] /\ chat'[a] = d
      /\ \A b \in Account \ {a} : chat'[b] = chat[b]
  BY OwnerAssumption DEF IInv, TypeInv
<1>3. TypeInv'
  <2>1. chat' \in [Account -> Chat]
    BY <1>2 DEF Sound
  <2> QED BY <1>1, <1>2, <2>1 DEF IInv, TypeInv
<1>4. CallInv'
  BY <1>1 DEF IInv, CallInv, Stored
<1>5. /\ talk[t].pc # "answered" /\ Open(t)' = (r.pc \in {"updated", "thinking"})
      /\ r.pc \in {"updated", "thinking", "answered"}
  BY <1>1 DEF Open
<1>6. \A m \in Message : Known(m) => Known(m)'
  <2>1. \A u \in Talk : /\ talk[u].pc \in Stored => talk'[u].pc \in Stored
                        /\ talk[u].pc = "answered" => talk'[u].pc = "answered"
    BY <1>1, <1>5
  <2> QED BY <2>1, KnownStays
<1>7. /\ \A b \in Account : \A m \in Msgs(chat[b].messages) \cup cut[b] : m \in Message /\ Known(m)
      /\ \A u \in Talk : \A m \in Msgs(talk[u].data.messages) : m \in Message /\ Known(m)
  BY KnownMessages DEF IInv, KnownInv
<1>8. \A m \in Msgs(d.messages) : Known(m)' /\ m \notin cut[a]
  <2> SUFFICES ASSUME NEW m \in Msgs(d.messages) PROVE Known(m)' /\ m \notin cut[a]
    OBVIOUS
  <2>1. CASE m \in Msgs(talk[t].data.messages)
    BY <1>6, <1>7, <2>1 DEF IInv, CutInv
  <2>2. CASE m \notin Msgs(talk[t].data.messages)
    <3>1. ~Known(m) /\ m[1] = t /\ r.pc \in Stored /\ (m[2] = "model" => r.pc = "answered")
      BY <2>2
    <3>2. Known(m)'
      BY <1>1, <3>1 DEF Known
    <3>3. m \notin cut[a]
      BY <1>2, <1>7, <3>1
    <3> QED BY <3>2, <3>3
  <2> QED BY <2>1, <2>2
<1>9. \A m \in Msgs(r.data.messages) : m \in Msgs(d.messages)
  BY EmptySound DEF EmptyChat
<1>10. KnownInv'
  <2>1. \A b \in Account : \A m \in Msgs(chat'[b].messages) \cup cut'[b] : Known(m)'
    BY <1>2, <1>6, <1>7, <1>8
  <2>2. \A u \in Talk : \A m \in Msgs(talk'[u].data.messages) : Known(m)'
    BY <1>1, <1>6, <1>7, <1>8, <1>9
  <2>3. \A s : Msgs(s)' = Msgs(s)
    OBVIOUS
  <2> QED BY <2>1, <2>2 DEF KnownInv, Msgs
<1>11. ASSUME NEW v \in Talk \ Once, v # t, Owner[v] = a, talk[v].alone
       PROVE  ~Open(v) /\ (talk[v].pc = "answered" => Kept(d.messages, v))
  BY <1>11 DEF IInv, AloneInv
<1>12. AloneInv'
  <2> SUFFICES ASSUME NEW v \in Talk \ Once, NEW u \in Talk \ Once,
                      talk'[v].alone, Owner[v] = Owner[u]
               PROVE  /\ Open(v)' /\ Open(u)' => v = u
                      /\ talk'[v].pc \in {"updated", "thinking"} => chat'[Owner[v]] = talk'[v].data
                      /\ talk'[v].pc = "answered" /\ Open(u)' => Kept(talk[u].data.messages, v)'
    BY DEF AloneInv
  <2>1. CASE v # t /\ Owner[v] # a
    <3>1. u # t /\ Owner[v] \in Account
      BY <2>1, OwnerAssumption
    <3>2. chat'[Owner[v]] = chat[Owner[v]]
      BY <1>2, <2>1, <3>1
    <3> QED BY <1>1, <2>1, <3>1, <3>2 DEF IInv, AloneInv, Kept
  <2>2. CASE v # t /\ Owner[v] = a
    <3>1. talk'[v] = talk[v] /\ ~Open(v) /\ ~Open(v)' /\ LastOf(v)' = LastOf(v)
      BY <1>1, <1>11, <2>2
    <3>2. talk[v].pc \notin {"updated", "thinking"}
      BY <3>1 DEF Open
    <3>3. ASSUME talk[v].pc = "answered", Open(u)' PROVE Kept(talk[u].data.messages, v)'
      <4>1. CASE u = t
        <5>1. talk'[u].data = d
          BY <1>1, <1>5, <3>3, <4>1
        <5> QED BY <1>11, <2>2, <3>1, <3>3, <5>1 DEF Kept
      <4>2. CASE u # t
        <5>1. talk'[u] = talk[u] /\ Open(u)
          BY <1>1, <3>3, <4>2
        <5> QED BY <3>1, <3>3, <5>1 DEF IInv, AloneInv, Kept
      <4> QED BY <4>1, <4>2
    <3> QED BY <3>1, <3>2, <3>3
  <2>3. CASE v = t
    <3>1. talk[t].alone
      BY <1>1, <2>3
    <3>2. \A w \in Talk \ Once : w # t /\ Owner[w] = a => ~Open(w)'
      BY <1>1, <3>1 DEF IInv, AloneInv
    <3>3. r.pc \in {"updated", "thinking"} => r.data = d
      OBVIOUS
    <3>4. r.pc = "answered" => ~Open(t)'
      BY <1>5
    <3> QED BY <1>1, <1>2, <2>3, <3>2, <3>3, <3>4
  <2> QED BY <2>1, <2>2, <2>3
<1>13. CutInv'
  <2> SUFFICES ASSUME NEW u \in Talk, Open(u)', NEW m \in Msgs(talk'[u].data.messages)
               PROVE  m \notin cut[Owner[u]]
    BY DEF CutInv, Msgs
  <2>1. CASE u = t
    BY <1>1, <1>8, <1>9, <2>1
  <2>2. CASE u # t
    BY <1>1, <2>2 DEF IInv, CutInv
  <2> QED BY <2>1, <2>2
<1>14. CutStays'
  <2> SUFFICES ASSUME NEW b \in Account, NEW i \in DOMAIN chat'[b].messages
               PROVE  chat'[b].messages[i] \notin cut[b]
    BY DEF CutStays
  <2>1. CASE b = a
    BY <1>2, <1>8, <2>1 DEF Msgs
  <2>2. CASE b # a
    BY <1>2, <2>2 DEF IInv, CutStays
  <2> QED BY <2>1, <2>2
<1>15. HistoryKept'
  <2> SUFFICES ASSUME NEW v \in Talk \ Once, talk'[v].pc = "answered", talk'[v].alone
               PROVE  /\ Len(chat'[Owner[v]].messages) = Retention
                      \/ Has(chat[Owner[v]].messages, LastOf(v))'
    BY DEF HistoryKept, Retention
  <2>1. CASE v = t
    <3>1. LastOf(v)' = <<t, "model">>
      BY <1>1, <2>1 DEF LastOf
    <3> QED BY <1>1, <1>2, <2>1, <3>1 DEF Has
  <2>2. CASE v # t /\ Owner[v] = a
    BY <1>1, <1>2, <1>11, <2>2 DEF Kept, Has
  <2>3. CASE v # t /\ Owner[v] # a
    <3>1. chat'[Owner[v]] = chat[Owner[v]] /\ talk'[v] = talk[v] /\ LastOf(v)' = LastOf(v)
      BY <1>1, <1>2, <2>3, OwnerAssumption
    <3> QED BY <3>1 DEF IInv, HistoryKept, Retention, Has
  <2> QED BY <2>1, <2>2, <2>3
<1> QED BY <1>3, <1>4, <1>10, <1>12, <1>13, <1>14, <1>15 DEF IInv

\* StoreGraph writes the chat as it was when the talk opened, with a new graph.
LEMMA StoreGraphStep ==
    ASSUME IInv, NEW t \in Talk, NEW sent \in BOOLEAN, StoreGraph(t, sent)
    PROVE  IInv'
<1> DEFINE d == [talk[t].data EXCEPT !.graph = IF sent THEN talk[t].graph ELSE @]
           r == [talk[t] EXCEPT !.pc = "updated", !.data = d]
<1>1. /\ talk[t] \in Call /\ talk[t].pc \in {"open", "asked"} /\ t \notin Once
      /\ talk[t].thread = "none" /\ Sound(talk[t].data) /\ talk[t].data \in Chat
      /\ sent \/ talk[t].data.graph = talk[t].graph
  BY DEF StoreGraph, NeedsSummary, IInv, TypeInv, CallInv, Stored, Sound
<1>2. /\ talk' = [talk EXCEPT ![t] = r] /\ cut' = cut
      /\ chat' = [chat EXCEPT ![Owner[t]] = d]
  BY DEF StoreGraph, edited
<1>3. d = [messages |-> talk[t].data.messages, graph |-> talk[t].graph]
      /\ talk[t].graph \in Graph \cup {NoGraph}
  BY <1>1 DEF Chat, Call
<1> HIDE DEF d
<1>4. Sound(d) /\ d \in Chat /\ d.messages = talk[t].data.messages /\ d.graph = talk[t].graph
  BY <1>1, <1>3 DEF Sound, Chat
<1>5. /\ r \in Call /\ r.pc = "updated" /\ r.data = d /\ r.graph = talk[t].graph
      /\ r.thread = "none" /\ r.alone = talk[t].alone
  BY <1>1, <1>4 DEF Call
<1> HIDE DEF r
<1>6. Open(t) /\ talk[t].pc \notin Stored
  BY <1>1 DEF Open, Stored
<1> QED BY ZenonT(60), <1>1, <1>2, <1>4, <1>5, <1>6, WriteStep

\* Ask adds the question.
LEMMA AskStep ==
    ASSUME IInv, NEW t \in Talk, Ask(t)
    PROVE  IInv'
<1> DEFINE d == With(t, "user")
           r == [talk[t] EXCEPT !.pc = "thinking", !.data = d, !.thread = "running"]
<1>1. talk[t] \in Call /\ talk[t].pc = "updated" /\ t \notin Once
  BY DEF Ask, IInv, TypeInv, CallInv
<1>2. /\ talk' = [talk EXCEPT ![t] = r] /\ cut' = cut
      /\ chat' = [chat EXCEPT ![Owner[t]] = d]
  BY DEF Ask, edited
<1>3. /\ Sound(d) /\ d.graph = talk[t].data.graph
      /\ d.messages # <<>> /\ d.messages[Len(d.messages)] = <<t, "user">>
      /\ Msgs(d.messages) \subseteq Msgs(talk[t].data.messages) \cup {<<t, "user">>}
      /\ \A v : Kept(talk[t].data.messages, v) => Kept(d.messages, v)
  BY <1>1, WithSound
<1> HIDE DEF d
<1>4. /\ r \in Call /\ r.pc = "thinking" /\ r.data = d /\ r.graph = talk[t].graph
      /\ r.alone = talk[t].alone
  BY <1>1, <1>3 DEF Call, Sound
<1> HIDE DEF r
<1>5. Open(t) /\ talk[t].pc \notin Stored /\ ~Known(<<t, "user">>) /\ "thinking" \in Stored
      /\ talk[t].data.graph = talk[t].graph
  BY <1>1 DEF Open, Stored, Known, IInv, CallInv
<1>6. \A m \in Msgs(d.messages) :
        \/ m \in Msgs(talk[t].data.messages)
        \/ /\ ~Known(m) /\ m[1] = t /\ r.pc \in Stored
           /\ m[2] = "model" => r.pc = "answered"
  BY <1>3, <1>4, <1>5
<1> QED BY ZenonT(60), <1>1, <1>2, <1>3, <1>4, <1>5, <1>6, WriteStep

\* Answer adds what the model said, if it is a talk and the model said anything.
LEMMA AnswerStep ==
    ASSUME IInv, NEW t \in Talk, NEW raised \in BOOLEAN, Answer(t, raised)
    PROVE  IInv'
<1> DEFINE d == With(t, "model")
           r == [talk[t] EXCEPT !.pc = "answered", !.data = EmptyChat, !.graph = NoGraph]
<1>1. /\ talk[t] \in Call /\ talk[t].pc = "thinking" /\ talk[t].thread \in {"said", "silent"}
      /\ talk' = [talk EXCEPT ![t] = r] /\ cut' = cut
      /\ chat' = IF talk[t].thread = "said" /\ t \notin Once
                 THEN [chat EXCEPT ![Owner[t]] = d] ELSE chat
  BY DEF Answer, edited, IInv, TypeInv
<1>2. /\ r \in Call /\ r.pc = "answered" /\ r.data = EmptyChat
      /\ r.alone = talk[t].alone /\ r.thread = talk[t].thread
  BY <1>1, EmptySound DEF Call, Sound
<1> HIDE DEF d, r
<1>3. CASE talk[t].thread = "said" /\ t \notin Once
  <2>1. /\ Sound(d) /\ Has(d.messages, <<t, "model">>)
        /\ Msgs(d.messages) \subseteq Msgs(talk[t].data.messages) \cup {<<t, "model">>}
        /\ \A v : Kept(talk[t].data.messages, v) => Kept(d.messages, v)
    BY <1>1, <1>3, WithSound DEF d
  <2>2. Open(t) /\ ~Known(<<t, "model">>) /\ "answered" \in Stored
    BY <1>1, <1>3 DEF Open, Stored, Known
  <2>3. \A m \in Msgs(d.messages) :
          \/ m \in Msgs(talk[t].data.messages)
          \/ /\ ~Known(m) /\ m[1] = t /\ r.pc \in Stored
             /\ m[2] = "model" => r.pc = "answered"
    BY <1>2, <2>1, <2>2
  <2>4. Sound(r.data) /\ chat' = [chat EXCEPT ![Owner[t]] = d]
    BY <1>1, <1>2, <1>3, EmptySound
  <2> QED BY <1>1, <1>2, <1>3, <2>1, <2>2, <2>3, <2>4, WriteStep
<1>4. CASE ~(talk[t].thread = "said" /\ t \notin Once)
  <2>1. chat' = chat
    BY <1>1, <1>4
  <2> QED BY <1>1, <1>2, <1>4, <2>1, CloseStep
<1> QED BY <1>3, <1>4

\* Fail ends a talk and leaves the chat as it is.
LEMMA FailStep ==
    ASSUME IInv, NEW t \in Talk, Fail(t)
    PROVE  IInv'
<1> DEFINE r == [talk[t] EXCEPT !.pc = "failed", !.data = EmptyChat,
                                !.graph = NoGraph, !.stop = TRUE]
<1>1. talk[t] \in Call /\ Open(t) /\ talk' = [talk EXCEPT ![t] = r]
      /\ UNCHANGED <<chat, cut>>
  BY DEF Fail, edited, IInv, TypeInv
<1>2. r \in Call /\ r.pc = "failed" /\ r.data = EmptyChat /\ r.alone = talk[t].alone
  BY <1>1, EmptySound DEF Call, Sound
<1> HIDE DEF r
<1> QED BY <1>1, <1>2, CloseStep

\* Steps of handlers and threads that touch no chat.
LEMMA OtherStep ==
    ASSUME IInv, NEW t \in Talk, Deny(t) \/ AskSummary(t) \/ AskOnce(t) \/ Run(t)
    PROVE  IInv'
<1>1. talk[t] \in Call /\ UNCHANGED <<chat, cut>> /\ talk \in [Talk -> Call]
  BY DEF Deny, AskSummary, AskOnce, Run, CheckBuild, RecordBuild, EndRun, edited,
         IInv, TypeInv
<1>2. CASE Deny(t)
  <2> DEFINE r == [talk[t] EXCEPT !.pc = "denied"]
  <2>1. talk[t].pc = "new" /\ talk[t].thread = "none" /\ talk' = [talk EXCEPT ![t] = r]
    BY <1>2 DEF Deny, IInv, CallInv, Stored
  <2>2. /\ r \in Call /\ r.pc = "denied" /\ r.thread = talk[t].thread
        /\ r.data = talk[t].data /\ r.graph = talk[t].graph /\ r.alone = talk[t].alone
    BY <1>1 DEF Call
  <2> HIDE DEF r
  <2> QED BY <1>1, <2>1, <2>2, QuietStep
<1>3. CASE AskSummary(t)
  <2> DEFINE r == [talk[t] EXCEPT !.pc = "asked"]
  <2>1. talk[t].pc = "open" /\ talk[t].thread = "none" /\ talk' = [talk EXCEPT ![t] = r]
    BY <1>3 DEF AskSummary, IInv, CallInv, Stored
  <2>2. /\ r \in Call /\ r.pc = "asked" /\ r.thread = talk[t].thread
        /\ r.data = talk[t].data /\ r.graph = talk[t].graph /\ r.alone = talk[t].alone
    BY <1>1 DEF Call
  <2> HIDE DEF r
  <2> QED BY <1>1, <2>1, <2>2, QuietStep
<1>4. CASE AskOnce(t)
  <2> DEFINE r == [talk[t] EXCEPT !.pc = "thinking", !.thread = "running"]
  <2>1. talk[t].pc = "new" /\ t \in Once /\ talk' = [talk EXCEPT ![t] = r]
    BY <1>4 DEF AskOnce
  <2>2. /\ r \in Call /\ r.pc = "thinking"
        /\ r.data = talk[t].data /\ r.graph = talk[t].graph /\ r.alone = talk[t].alone
    BY <1>1 DEF Call
  <2> HIDE DEF r
  <2> QED BY <1>1, <2>1, <2>2, QuietStep
<1>5. CASE Run(t)
  <2>1. talk[t].thread \in {"running", "passed"}
    BY <1>5 DEF Run, CheckBuild, RecordBuild, EndRun
  <2>2. talk[t].pc \in {"thinking", "failed"}
    BY <2>1 DEF IInv, CallInv, Stored
  <2>3. PICK r : /\ talk' = [talk EXCEPT ![t] = r] /\ r \in Call /\ r.pc = talk[t].pc
                 /\ r.data = talk[t].data /\ r.graph = talk[t].graph /\ r.alone = talk[t].alone
    <3>1. CASE CheckBuild(t)
      <4>1. PICK th \in {"running", "passed"} : talk' = [talk EXCEPT ![t].thread = th]
        BY <2>1, <3>1 DEF CheckBuild
      <4> DEFINE r == [talk[t] EXCEPT !.thread = th]
      <4>2. r \in Call /\ r.pc = talk[t].pc /\ r.data = talk[t].data
            /\ r.graph = talk[t].graph /\ r.alone = talk[t].alone
        BY <1>1 DEF Call
      <4>3. talk' = [talk EXCEPT ![t] = r]
        BY <4>1
      <4> QED BY <4>2, <4>3
    <3>2. CASE RecordBuild(t)
      <4> DEFINE r == [talk[t] EXCEPT !.thread = "running", !.called = TRUE]
      <4>1. r \in Call /\ r.pc = talk[t].pc /\ r.data = talk[t].data
            /\ r.graph = talk[t].graph /\ r.alone = talk[t].alone
        BY <1>1 DEF Call
      <4>2. talk' = [talk EXCEPT ![t] = r]
        BY <3>2 DEF RecordBuild
      <4> QED BY <4>1, <4>2
    <3>3. CASE EndRun(t)
      <4>1. PICK th \in {"said", "silent"} : talk' = [talk EXCEPT ![t].thread = th]
        BY <3>3 DEF EndRun
      <4> DEFINE r == [talk[t] EXCEPT !.thread = th]
      <4>2. r \in Call /\ r.pc = talk[t].pc /\ r.data = talk[t].data
            /\ r.graph = talk[t].graph /\ r.alone = talk[t].alone
        BY <1>1 DEF Call
      <4>3. talk' = [talk EXCEPT ![t] = r]
        BY <4>1
      <4> QED BY <4>2, <4>3
    <3> QED BY <1>5, <3>1, <3>2, <3>3 DEF Run
  <2> QED BY <1>1, <2>2, <2>3, QuietStep
<1> QED BY <1>2, <1>3, <1>4, <1>5

\* A chat is cut or cleared from outside: a prefix of it remains.
LEMMA EditStep ==
    ASSUME IInv, NEW a \in Account, NEW d, NEW gone, Edit(a, d, gone), Sound(d),
           Msgs(d.messages) \cup gone = Msgs(chat[a].messages),
           Msgs(d.messages) \cap gone = {}
    PROVE  IInv'
<1>1. /\ talk \in [Talk -> Call] /\ chat \in [Account -> Chat]
      /\ chat'[a] = d /\ \A b \in Account \ {a} : chat'[b] = chat[b]
      /\ chat' = [chat EXCEPT ![a] = d] /\ cut \in [Account -> SUBSET Message]
  BY DEF Edit, IInv, TypeInv
<1>2. /\ gone \subseteq Message
      /\ \A m \in Msgs(d.messages) \cup gone : m \in Message /\ Known(m) /\ m \notin cut[a]
  <2>1. /\ \A m \in Msgs(chat[a].messages) : m \in Message
    BY KnownMessages DEF IInv
  <2>2. \A m \in Msgs(chat[a].messages) : Known(m) /\ m \notin cut[a]
    BY DEF IInv, KnownInv, CutStays, Msgs
  <2> QED BY <2>1, <2>2
<1>3. /\ \A b \in Account : cut'[b] = cut[b] \/ (b = a /\ cut'[b] = cut[b] \cup gone)
      /\ (\E u \in Talk : Owner[u] = a /\ Open(u)) => cut' = cut
      /\ cut' \in [Account -> SUBSET Message]
  <2>1. CASE \E u \in Talk : Owner[u] = a /\ Open(u)
    BY <1>1, <2>1 DEF Edit
  <2>2. CASE ~\E u \in Talk : Owner[u] = a /\ Open(u)
    <3>1. cut' = [cut EXCEPT ![a] = cut[a] \cup gone]
      BY <2>2 DEF Edit
    <3> QED BY <1>1, <1>2, <2>2, <3>1
  <2> QED BY <2>1, <2>2
<1>4. ASSUME NEW u \in Talk
      PROVE  /\ talk'[u].pc = talk[u].pc /\ talk'[u].data = talk[u].data
             /\ talk'[u].graph = talk[u].graph /\ talk'[u].thread = talk[u].thread
             /\ talk'[u].alone => talk[u].alone
             /\ talk'[u].alone /\ Owner[u] = a =>
                   ~Open(u) /\ Has(chat[a].messages, LastOf(u)) /\ \A m \in gone : m[1] # u
             /\ talk'[u] \in Call /\ Open(u)' = Open(u) /\ LastOf(u)' = LastOf(u)
  <2>1. talk[u] \in Call
    BY <1>1
  <2>2. talk'[u] = [talk[u] EXCEPT !.alone =
           @ /\ ~(/\ Owner[u] = a
                  /\ \/ Open(u) \/ ~Has(chat[a].messages, LastOf(u))
                     \/ \E m \in gone : m[1] = u)]
    BY DEF Edit
  <2>3. /\ talk'[u].pc = talk[u].pc /\ talk'[u].data = talk[u].data
        /\ talk'[u].graph = talk[u].graph /\ talk'[u].thread = talk[u].thread
        /\ talk'[u].alone => talk[u].alone
        /\ talk'[u].alone /\ Owner[u] = a =>
              ~Open(u) /\ Has(chat[a].messages, LastOf(u)) /\ \A m \in gone : m[1] # u
        /\ talk'[u] \in Call
    BY <2>1, <2>2 DEF Call
  <2> QED BY <2>3 DEF Open, LastOf
<1>5. TypeInv'
  <2>1. talk' \in [Talk -> Call]
    <3>1. talk' = [u \in Talk |-> talk'[u]]
      BY DEF Edit
    <3> QED BY <1>4, <3>1
  <2>2. chat' \in [Account -> Chat]
    BY <1>1 DEF Sound
  <2> QED BY <1>1, <1>3, <1>4, <2>1, <2>2 DEF IInv, TypeInv
<1>6. CallInv'
  BY <1>4 DEF IInv, CallInv
<1>7. KnownInv'
  <2>1. \A m \in Message : Known(m) => Known(m)'
    BY <1>4, KnownStays
  <2>2. /\ \A b \in Account : \A m \in Msgs(chat[b].messages) \cup cut[b] : m \in Message /\ Known(m)
        /\ \A u \in Talk : \A m \in Msgs(talk[u].data.messages) : m \in Message /\ Known(m)
    BY KnownMessages DEF IInv, KnownInv
  <2>3. \A b \in Account : \A m \in Msgs(chat'[b].messages) \cup cut'[b] : Known(m)'
    BY <1>1, <1>2, <1>3, <2>1, <2>2
  <2>4. \A u \in Talk : \A m \in Msgs(talk'[u].data.messages) : Known(m)'
    BY <1>4, <2>1, <2>2
  <2> QED BY <2>3, <2>4 DEF KnownInv, Msgs
<1>8. AloneInv'
  <2> SUFFICES ASSUME NEW v \in Talk \ Once, NEW u \in Talk \ Once,
                      talk'[v].alone, Owner[v] = Owner[u]
               PROVE  /\ Open(v)' /\ Open(u)' => v = u
                      /\ talk'[v].pc \in {"updated", "thinking"} => chat'[Owner[v]] = talk'[v].data
                      /\ talk'[v].pc = "answered" /\ Open(u)' => Kept(talk[u].data.messages, v)'
    BY DEF AloneInv
  <2>1. talk[v].pc \in {"updated", "thinking"} => Owner[v] # a
    BY <1>4 DEF Open
  <2>2. talk[v].pc \in {"updated", "thinking"} => chat'[Owner[v]] = chat[Owner[v]]
    BY <1>1, <2>1, OwnerAssumption
  <2>3. talk'[v].pc = "answered" /\ Open(u)' => Kept(talk[u].data.messages, v)'
    BY <1>4 DEF IInv, AloneInv, Kept
  <2> QED BY <1>4, <2>2, <2>3 DEF IInv, AloneInv
<1>9. CutInv'
  <2> SUFFICES ASSUME NEW u \in Talk, Open(u)', NEW m \in Msgs(talk'[u].data.messages)
               PROVE  m \notin cut'[Owner[u]]
    BY DEF CutInv, Msgs
  <2>1. cut'[Owner[u]] = cut[Owner[u]]
    BY <1>3, <1>4, OwnerAssumption
  <2> QED BY <1>4, <2>1 DEF IInv, CutInv
<1>10. CutStays'
  <2> SUFFICES ASSUME NEW b \in Account, NEW i \in DOMAIN chat'[b].messages
               PROVE  chat'[b].messages[i] \notin cut'[b]
    BY DEF CutStays
  <2>1. CASE b = a
    <3>1. chat'[b].messages[i] \in Msgs(d.messages)
      BY <1>1, <2>1 DEF Msgs
    <3> QED BY <1>2, <1>3, <2>1, <3>1
  <2>2. CASE b # a
    BY <1>1, <1>3, <2>2 DEF IInv, CutStays
  <2> QED BY <2>1, <2>2
<1>11. HistoryKept'
  <2> SUFFICES ASSUME NEW v \in Talk \ Once, talk'[v].pc = "answered", talk'[v].alone
               PROVE  \/ Len(chat'[Owner[v]].messages) = Retention
                      \/ Has(chat[Owner[v]].messages, LastOf(v))'
    BY DEF HistoryKept, Retention
  <2>1. CASE Owner[v] = a
    <3>1. Has(chat[a].messages, LastOf(v)) /\ \A m \in gone : m[1] # v
      BY <1>4, <2>1
    <3>2. LastOf(v) \in Msgs(chat[a].messages) /\ LastOf(v) \notin gone
      BY <3>1 DEF Has, Msgs, LastOf
    <3>3. LastOf(v)' \in Msgs(d.messages)
      BY <1>4, <3>2
    <3> QED BY <1>1, <2>1, <3>3 DEF Has, Msgs
  <2>2. CASE Owner[v] # a
    <3>1. chat'[Owner[v]] = chat[Owner[v]] /\ LastOf(v)' = LastOf(v)
      BY <1>1, <1>4, <2>2, OwnerAssumption
    <3> QED BY <1>4, <3>1 DEF IInv, HistoryKept, Retention, Has
  <2> QED BY <2>1, <2>2
<1> QED BY <1>5, <1>6, <1>7, <1>8, <1>9, <1>10, <1>11 DEF IInv

\* The two edits: a suffix of the chat is cut, or all of it.
LEMMA EditsStep ==
    ASSUME IInv, NEW a \in Account, CutChat(a) \/ ClearChat(a)
    PROVE  IInv'
<1> DEFINE s == chat[a].messages
<1>1. /\ Sound(chat[a]) /\ chat[a] \in Chat /\ s \in Seq(Message)
      /\ Paired(s) /\ Distinct(s) /\ Len(s) <= Retention
      /\ DOMAIN s = 1..Len(s) /\ Len(s) \in Nat
  BY DEF IInv, TypeInv, Sound, Chat
<1>2. Retention \in Nat
  BY LimitAssumption DEF Retention, Caps
<1>3. ASSUME NEW i \in DOMAIN s, Edit(a, [chat[a] EXCEPT !.messages = UpTo(s, i)], From(s, i + 1))
      PROVE  IInv'
  <2> DEFINE q == UpTo(s, i)
             d == [chat[a] EXCEPT !.messages = q]
  <2>1. /\ q \in Seq(Message) /\ Len(q) = i /\ Paired(q) /\ Distinct(q)
        /\ Msgs(q) = {s[j] : j \in 1..i} /\ i \in Nat /\ i <= Len(s)
    <3>1. 1 \in 1..Len(s) /\ i \in 1..Len(s) /\ i - 1 + 1 = i
      BY <1>1
    <3> HIDE DEF s
    <3> QED BY <1>1, <3>1, PartSound DEF UpTo
  <2> HIDE DEF q
  <2>2. d = [messages |-> q, graph |-> chat[a].graph] /\ d.messages = q
        /\ chat[a].graph \in Graph \cup {NoGraph}
    BY <1>1 DEF Chat
  <2> HIDE DEF d
  <2>3. d \in Chat
    BY <2>1, <2>2 DEF Chat
  <2>4. Len(q) <= Retention
    BY <1>1, <1>2, <2>1
  <2>5. Sound(d)
    BY <2>1, <2>2, <2>3, <2>4 DEF Sound
  <2>6. Msgs(s) = {s[j] : j \in 1..i} \cup From(s, i + 1)
    BY <1>1 DEF Msgs, From
  <2>7. {s[j] : j \in 1..i} \cap From(s, i + 1) = {}
    <3> SUFFICES ASSUME NEW j \in 1..i, NEW k \in i + 1..Len(s), s[j] = s[k] PROVE FALSE
      BY DEF From
    <3> QED BY <1>1 DEF Distinct
  <2> QED BY <1>3, <2>1, <2>2, <2>6, <2>7, <2>5, EditStep DEF d, q
<1>4. CASE ClearChat(a)
  <2>1. From(s, 1) = Msgs(s) /\ EmptyChat.messages = <<>>
    BY <1>1 DEF From, Msgs, EmptyChat
  <2>2. Msgs(EmptyChat.messages) = {} /\ Sound(EmptyChat)
    BY <2>1, EmptySound
  <2> QED BY <1>4, <2>1, <2>2, EditStep DEF ClearChat
<1> QED BY <1>3, <1>4 DEF CutChat

-----------------------------------------------------------------------------
LEMMA InitIInv == Init => IInv
<1> SUFFICES ASSUME Init PROVE IInv
  OBVIOUS
<1>1. Sound(EmptyChat) /\ EmptyChat \in Chat /\ Msgs(EmptyChat.messages) = {}
  BY EmptySound DEF Sound, EmptyChat
<1>2. /\ \A a \in Account : chat[a] = EmptyChat /\ cut[a] = {}
      /\ \A t \in Talk : /\ talk[t].data = EmptyChat /\ talk[t].pc = "new"
                         /\ talk[t].thread = "none" /\ talk[t] \in Call
  BY <1>1 DEF Init, Call
<1>3. TypeInv
  BY <1>1, <1>2 DEF Init, TypeInv
<1>4. CallInv /\ KnownInv /\ AloneInv /\ CutInv /\ HistoryKept
  BY <1>1, <1>2 DEF CallInv, KnownInv, AloneInv, CutInv, HistoryKept, Open, Stored
<1>5. CutStays
  BY <1>2 DEF CutStays
<1> QED BY <1>3, <1>4, <1>5 DEF IInv

LEMMA NextIInv == IInv /\ [Next]_vars => IInv'
<1> SUFFICES ASSUME IInv, [Next]_vars PROVE IInv'
  OBVIOUS
<1>1. CASE UNCHANGED <<chat, talk, cut>>
  <2>1. TypeInv' /\ CallInv' /\ CutInv' /\ CutStays'
    BY <1>1 DEF IInv, TypeInv, CallInv, CutInv, CutStays, Open
  <2>2. \A t \in Talk : LastOf(t)' = LastOf(t) /\ Open(t)' = Open(t)
    BY <1>1 DEF LastOf, Open
  <2>3. AloneInv' /\ HistoryKept'
    BY <1>1, <2>2 DEF IInv, AloneInv, HistoryKept, Kept, Has
  <2>4. \A m : Known(m)' = Known(m)
    BY <1>1 DEF Known
  <2>5. KnownInv'
    BY <1>1, <2>4 DEF IInv, KnownInv, Msgs
  <2> QED BY <2>1, <2>3, <2>5 DEF IInv
<1>2. ASSUME NEW t \in Talk, Handle(t) PROVE IInv'
  BY <1>2, OtherStep, OpenStep, StoreGraphStep, AskStep, AnswerStep, FailStep DEF Handle
<1>3. ASSUME NEW t \in Talk, Run(t) PROVE IInv'
  BY <1>3, OtherStep
<1> QED BY <1>1, <1>2, <1>3, EditsStep DEF Next, Tick, vars, edited

\* In every reachable state and for any talks, accounts, edits and caps, a stored
\* answer is behind its question; what a talk stored is there until it is trimmed,
\* cleared or cut, if no other talk was open with it; the model is asked about the
\* graph its client shows; and what was cut between two talks does not come back.
THEOREM Chats == Spec => []ChatKept
<1>1. IInv => ChatKept
  <2> SUFFICES ASSUME IInv PROVE AnswersFollow /\ GraphCurrent
    BY DEF IInv, ChatKept
  <2>1. AnswersFollow
    BY DEF IInv, TypeInv, Sound, Paired, AnswersFollow
  <2>2. GraphCurrent
    BY DEF IInv, CallInv, GraphCurrent
  <2> QED BY <2>1, <2>2
<1> QED BY <1>1, InitIInv, NextIInv, PTL DEF Spec

-----------------------------------------------------------------------------
(* The limiter *)

LEMMA CountingTo ==
    ASSUME NEW n \in Nat
    PROVE  IsFiniteSet(1..n) /\ Cardinality(1..n) = n
<1>1. \A a, b \in Int : /\ IsFiniteSet(a..b)
                        /\ Cardinality(a..b) = IF a > b THEN 0 ELSE b - a + 1
  BY FS_Interval, Zenon
<1>2. 1 \in Int /\ n \in Int
  OBVIOUS
<1>3. IsFiniteSet(1..n) /\ Cardinality(1..n) = IF 1 > n THEN 0 ELSE n - 1 + 1
  BY <1>1, <1>2, Zenon
<1>4. (IF 1 > n THEN 0 ELSE n - 1 + 1) = n
  OBVIOUS
<1> QED BY <1>3, <1>4

Older(at, now) == ~(at + Day >= now)
Aged(log, now) == {i \in DOMAIN log : \A j \in 1..i : Older(log[j][2], now)}
Cut(log, now) == SubSeq(log, Cardinality(Aged(log, now)) + 1, Len(log))
Hits(log, a, window, now) == {i \in DOMAIN log : log[i][1] = a /\ log[i][2] + window >= now}

\* log is what is left of whole when k entries, all older than a day, have been
\* dropped from its left.
Drops(log, whole, k, now) ==
    /\ Len(log) = Len(whole) - k
    /\ \A i \in 1..Len(log) : log[i] = whole[k + i]
    /\ \A i \in 1..k : Older(whole[i][2], now)
Rest(log, whole, now) == \E k \in 0..Len(whole) : Drops(log, whole, k, now)

\* What _prune_deque drops from the left is a stretch of old entries, and the first
\* that it leaves is recent.
LEMMA AgedStretch ==
    ASSUME NEW log \in Seq(Stamp), NEW now \in Nat
    PROVE  \E c \in 0..Len(log) :
               /\ Aged(log, now) = 1..c /\ Cardinality(Aged(log, now)) = c
               /\ \A i \in 1..c : Older(log[i][2], now)
               /\ c < Len(log) => ~Older(log[c + 1][2], now)
<1> DEFINE S == Aged(log, now)
           c == Cardinality(S)
<1>1. Len(log) \in Nat /\ DOMAIN log = 1..Len(log) /\ S \subseteq 1..Len(log)
  <2>1. Len(log) \in Nat /\ DOMAIN log = 1..Len(log)
    OBVIOUS
  <2> QED BY <2>1, Zenon DEF Aged
<1>2. \A i \in S : 1..i \subseteq S
  <2> SUFFICES ASSUME NEW i \in S, NEW j \in 1..i PROVE j \in S
    OBVIOUS
  <2>1. i \in 1..Len(log) /\ \A l \in 1..i : Older(log[l][2], now)
    BY <1>1, Zenon DEF Aged
  <2>2. j \in DOMAIN log /\ 1..j \subseteq 1..i
    BY <1>1, <2>1
  <2> QED BY <2>1, <2>2, Zenon DEF Aged
<1> HIDE DEF S
<1>3. IsFiniteSet(1..Len(log)) /\ Cardinality(1..Len(log)) = Len(log)
  BY <1>1, CountingTo, Zenon
<1>4. IsFiniteSet(S) /\ c \in Nat /\ c <= Len(log)
  <2>1. IsFiniteSet(S) /\ Cardinality(S) <= Cardinality(1..Len(log))
    BY <1>1, <1>3, FS_Subset, Zenon
  <2>2. Cardinality(S) \in Nat
    BY <2>1, FS_CardinalityType, Zenon
  <2> QED BY <2>1, <2>2, <1>3, Zenon
<1>5. \A i \in S : i <= c
  <2> SUFFICES ASSUME NEW i \in S PROVE i <= c
    OBVIOUS
  <2>1. i \in Nat /\ i > 0
    BY <1>1
  <2>2. Cardinality(1..i) = i
    BY <2>1, CountingTo, Zenon
  <2>3. Cardinality(1..i) <= Cardinality(S)
    BY <1>2, <1>4, FS_Subset
  <2> QED BY <2>2, <2>3
<1>6. S = 1..c
  <2>1. S \in SUBSET (1..c)
    BY <1>1, <1>4, <1>5
  <2>2. IsFiniteSet(1..c) /\ Cardinality(1..c) = c
    BY <1>4, CountingTo, Zenon
  <2> QED BY <2>1, <2>2, FS_Subset
<1>7. c \in 0..Len(log)
  BY <1>4
<1>8. \A i \in 1..c : Older(log[i][2], now)
  BY <1>6, <1>1, <1>4 DEF S, Aged
<1>9. ASSUME c < Len(log), Older(log[c + 1][2], now) PROVE FALSE
  <2>1. c + 1 \in DOMAIN log /\ \A j \in 1..c + 1 : j \in 1..c \/ j = c + 1
    BY <1>1, <1>4, <1>9
  <2>2. c + 1 \in S
    BY <2>1, <1>8, <1>9 DEF S, Aged
  <2> QED BY <2>2, <1>5, <1>4
<1> QED BY <1>6, <1>7, <1>8, <1>9 DEF S

LEMMA CutDrops ==
    ASSUME NEW log \in Seq(Stamp), NEW now \in Nat
    PROVE  /\ Cut(log, now) \in Seq(Stamp) /\ Rest(Cut(log, now), log, now)
           /\ Len(Cut(log, now)) = Len(log) - Cardinality(Aged(log, now))
           /\ Cut(log, now) # <<>> => ~Older(Cut(log, now)[1][2], now)
<1>1. PICK c \in 0..Len(log) :
               /\ Aged(log, now) = 1..c /\ Cardinality(Aged(log, now)) = c
               /\ \A i \in 1..c : Older(log[i][2], now)
               /\ c < Len(log) => ~Older(log[c + 1][2], now)
  BY AgedStretch
<1>2. /\ c \in Nat /\ Len(log) \in Nat /\ c <= Len(log) /\ DOMAIN log = 1..Len(log)
      /\ \A i \in 1..Len(log) : log[i] \in Stamp
  BY <1>1
<1> DEFINE r == SubSeq(log, c + 1, Len(log))
<1>3. Cut(log, now) = r
  BY <1>1 DEF Cut
<1>4. /\ r \in Seq(Stamp) /\ Len(r) = Len(log) - c
      /\ \A i \in 1..Len(log) - c : r[i] = log[c + i]
  <2>1. \A i \in (c + 1)..Len(log) : log[i] \in Stamp
    BY <1>2
  <2>2. /\ r \in Seq(Stamp)
        /\ Len(r) = IF c + 1 <= Len(log) THEN Len(log) - (c + 1) + 1 ELSE 0
        /\ \A i \in 1 .. Len(log) - (c + 1) + 1 : r[i] = log[(c + 1) + i - 1]
    <3>1. c + 1 \in Int /\ Len(log) \in Int
      BY <1>2
    <3> QED BY <2>1, <3>1, SubSeqProperties
  <2> HIDE DEF r
  <2>3. Len(r) = Len(log) - c
    <3>1. ASSUME NEW n \in Nat, NEW d \in Nat, d <= n
          PROVE  (IF d + 1 <= n THEN n - (d + 1) + 1 ELSE 0) = n - d
      BY <3>1
    <3>2. (IF c + 1 <= Len(log) THEN Len(log) - (c + 1) + 1 ELSE 0) = Len(log) - c
      BY <3>1, <1>2, Zenon
    <3>3. Len(r) = IF c + 1 <= Len(log) THEN Len(log) - (c + 1) + 1 ELSE 0
      BY <2>2
    <3> QED BY <3>2, <3>3
  <2>4. ASSUME NEW i \in 1..Len(log) - c PROVE r[i] = log[c + i]
    <3>1. i \in 1 .. Len(log) - (c + 1) + 1 /\ (c + 1) + i - 1 = c + i
      BY <1>2
    <3> QED BY <3>1, <2>2
  <2> QED BY <2>2, <2>3, <2>4
<1> HIDE DEF r
<1>5. Drops(r, log, c, now)
  BY <1>4, <1>1 DEF Drops
<1>6. r # <<>> => ~Older(r[1][2], now)
  <2> SUFFICES ASSUME r # <<>> PROVE ~Older(r[1][2], now)
    OBVIOUS
  <2>1. Len(r) \in Nat \ {0}
    BY <1>4, EmptySeq, Zenon
  <2>2. c < Len(log) /\ 1 \in 1..Len(log) - c
    <3>1. Len(log) - c \in Nat \ {0}
      BY <2>1, <1>4, Zenon
    <3>2. ASSUME NEW n \in Nat, NEW d \in Nat, n - d \in Nat \ {0}
          PROVE  d < n /\ 1 \in 1..n - d
      BY <3>2
    <3> QED BY <3>1, <3>2, <1>2, Zenon
  <2> QED BY <2>2, <1>4, <1>1
<1> QED BY <1>1, <1>3, <1>4, <1>5, <1>6 DEF Rest

\* What is dropped counts in no window.
LEMMA RestHits ==
    ASSUME NEW log \in Seq(Stamp), NEW whole \in Seq(Stamp), NEW now \in Nat, NEW a,
           NEW window \in Nat, window <= Day, Rest(log, whole, now)
    PROVE  Cardinality(Hits(log, a, window, now)) = Cardinality(Hits(whole, a, window, now))
<1>1. PICK k \in 0..Len(whole) : Drops(log, whole, k, now)
  BY DEF Rest
<1> DEFINE S == Hits(log, a, window, now)
           Later == Hits(whole, a, window, now)
           f == [i \in S |-> k + i]
<1>2. /\ Len(log) \in Nat /\ Len(whole) \in Nat /\ k \in Nat /\ k <= Len(whole)
      /\ DOMAIN log = 1..Len(log) /\ DOMAIN whole = 1..Len(whole) /\ Len(log) = Len(whole) - k
      /\ \A i \in 1..Len(log) : log[i] = whole[k + i]
      /\ \A i \in 1..k : Older(whole[i][2], now)
  BY <1>1 DEF Drops
<1>3. /\ \A i \in S : i \in 1..Len(log) /\ log[i][1] = a /\ log[i][2] + window >= now
      /\ \A i \in 1..Len(log) : log[i][1] = a /\ log[i][2] + window >= now => i \in S
      /\ \A i \in Later : i \in 1..Len(whole) /\ whole[i][1] = a /\ whole[i][2] + window >= now
      /\ \A i \in 1..Len(whole) : whole[i][1] = a /\ whole[i][2] + window >= now => i \in Later
  BY <1>2 DEF Hits
<1> HIDE DEF S, Later
<1>4. \A i \in S : k + i \in Later
  <2> SUFFICES ASSUME NEW i \in S PROVE k + i \in Later
    OBVIOUS
  <2>1. i \in 1..Len(log) /\ log[i][1] = a /\ log[i][2] + window >= now
    BY <1>3, Zenon
  <2>2. log[i] = whole[k + i]
    BY <2>1, <1>2, Zenon
  <2>3. k + i \in 1..Len(whole)
    <3>1. Len(log) \in Nat /\ Len(whole) \in Nat /\ k \in Nat /\ Len(log) = Len(whole) - k
      BY <1>2, Zenon
    <3> QED BY <2>1, <3>1
  <2>4. whole[k + i][1] = a /\ whole[k + i][2] + window >= now
    BY <2>1, <2>2, Zenon
  <2> QED BY <2>3, <2>4, <1>3, Zenon
<1>5. \A j \in Later : j - k \in S /\ k + (j - k) = j
  <2> SUFFICES ASSUME NEW j \in Later PROVE j - k \in S /\ k + (j - k) = j
    OBVIOUS
  <2>1. j \in 1..Len(whole) /\ whole[j][2] + window >= now /\ whole[j][1] = a
    BY <1>3
  <2>2. whole[j] \in Stamp
    BY <2>1
  <2>3. whole[j][2] \in Nat
    BY <2>2, WindowAssumption DEF Stamp
  <2>4. whole[j][2] + Day >= now
    BY SMTT(30), <2>1, <2>3, WindowAssumption
  <2>5. j \notin 1..k
    BY <2>4, <1>2 DEF Older
  <2>6. j - k \in 1..Len(log) /\ k + (j - k) = j
    BY <2>1, <2>5, <1>2
  <2>7. log[j - k] = whole[j]
    BY <2>6, <1>2
  <2> QED BY <2>1, <2>6, <2>7, <1>3
<1>6. f \in Bijection(S, Later)
  <2>1. f \in [S -> Later]
    BY <1>4
  <2>2. \A x, y \in S : f[x] = f[y] => x = y
    <3> SUFFICES ASSUME NEW x \in S, NEW y \in S, k + x = k + y PROVE x = y
      OBVIOUS
    <3>1. x \in Int /\ y \in Int
      BY <1>3
    <3> QED BY <3>1, <1>2
  <2>3. \A t \in Later : \E x \in S : f[x] = t
    BY <1>5
  <2>4. f \in Injection(S, Later)
    <3>1. DOMAIN f = S
      BY <2>1
    <3> QED BY <2>1, <2>2, <3>1, Zenon DEF Injection, IsInjective
  <2>5. f \in Surjection(S, Later)
    BY <2>1, <2>3, Zenon DEF Surjection
  <2> QED BY <2>4, <2>5, Zenon DEF Bijection
<1>7. IsFiniteSet(S)
  <2>1. IsFiniteSet(1..Len(log))
    BY <1>2, CountingTo, Zenon
  <2>2. S \in SUBSET (1..Len(log))
    BY <1>3
  <2> QED BY <2>1, <2>2, FS_Subset
<1>8. Cardinality(Later) = Cardinality(S)
  BY <1>6, <1>7, FS_Bijection DEF ExistsBijection
<1> QED BY <1>8 DEF S, Later

LEMMA LogFacts ==
    ASSUME NEW log \in Seq(Stamp)
    PROVE  /\ Len(log) \in Nat /\ DOMAIN log = 1..Len(log)
           /\ \A i \in DOMAIN log : log[i] \in Stamp /\ log[i][2] \in Nat
<1>1. Len(log) \in Nat /\ DOMAIN log = 1..Len(log)
  OBVIOUS
<1>2. \A i \in DOMAIN log : log[i] \in Stamp
  BY <1>1
<1>3. \A s \in Stamp : s[2] \in Nat
  BY WindowAssumption DEF Stamp
<1> QED BY <1>1, <1>2, <1>3

\* To drop from what is left is to drop from the whole.
LEMMA CutRest ==
    ASSUME NEW log \in Seq(Stamp), NEW whole \in Seq(Stamp), NEW now \in Nat,
           Rest(log, whole, now)
    PROVE  Rest(Cut(log, now), whole, now)
<1>1. PICK k \in 0..Len(whole) : Drops(log, whole, k, now)
  BY DEF Rest
<1> DEFINE r == Cut(log, now)
<1>2. PICK c \in 0..Len(log) : Drops(r, log, c, now)
  BY CutDrops DEF Rest
<1> HIDE DEF r
<1>3. /\ Len(log) \in Nat /\ Len(whole) \in Nat /\ k \in Nat /\ c \in Nat
      /\ k <= Len(whole) /\ c <= Len(log) /\ Len(log) = Len(whole) - k
  BY <1>1, LogFacts DEF Drops
<1>4. Len(r) = Len(whole) - (k + c) /\ k + c \in 0..Len(whole)
  <2>1. Len(r) = Len(log) - c
    BY <1>2 DEF Drops
  <2> QED BY <2>1, <1>3
<1>5. ASSUME NEW i \in 1..Len(r) PROVE r[i] = whole[(k + c) + i]
  <2>1. r[i] = log[c + i]
    BY <1>2 DEF Drops
  <2>2. c + i \in 1..Len(log) /\ k + (c + i) = (k + c) + i
    BY <1>3, <1>4
  <2>3. log[c + i] = whole[k + (c + i)]
    BY <2>2, <1>1 DEF Drops
  <2> QED BY <2>1, <2>2, <2>3
<1>6. ASSUME NEW i \in 1..k + c PROVE Older(whole[i][2], now)
  <2>1. CASE i \in 1..k
    BY <2>1, <1>1 DEF Drops
  <2>2. CASE i \notin 1..k
    <3>1. i - k \in 1..c /\ i - k \in 1..Len(log) /\ k + (i - k) = i
      BY <2>2, <1>3
    <3>2. Older(log[i - k][2], now) /\ log[i - k] = whole[k + (i - k)]
      BY <3>1, <1>1, <1>2 DEF Drops
    <3> QED BY <3>1, <3>2
  <2> QED BY <2>1, <2>2
<1>7. Drops(r, whole, k + c, now)
  BY <1>4, <1>5, <1>6 DEF Drops
<1> QED BY <1>4, <1>7 DEF Rest, r

\* Nothing more is left of the whole log than of what is left of it.
LEMMA RestShorter ==
    ASSUME NEW log \in Seq(Stamp), NEW whole \in Seq(Stamp), NEW now \in Nat,
           Rest(log, whole, now)
    PROVE  Len(Cut(whole, now)) <= Len(Cut(log, now))
<1>1. PICK k \in 0..Len(whole) : Drops(Cut(log, now), whole, k, now)
  BY CutRest DEF Rest
<1>2. PICK c \in 0..Len(whole) :
        Aged(whole, now) = 1..c /\ Cardinality(Aged(whole, now)) = c
  BY AgedStretch
<1>3. Len(whole) \in Nat /\ k \in Nat /\ c \in Nat /\ DOMAIN whole = 1..Len(whole)
  BY LogFacts
<1>4. k <= c
  <2>1. CASE k = 0
    BY <2>1, <1>3
  <2>2. CASE k # 0
    <3>1. k \in DOMAIN whole /\ \A j \in 1..k : Older(whole[j][2], now)
      BY <2>2, <1>1, <1>3 DEF Drops
    <3>2. k \in Aged(whole, now)
      BY <3>1, Zenon DEF Aged
    <3> QED BY <3>2, <1>2, <1>3
  <2> QED BY <2>1, <2>2
<1>5. Len(Cut(log, now)) = Len(whole) - k
  BY <1>1 DEF Drops
<1>6. Len(Cut(whole, now)) = Len(whole) - c
  BY <1>2, CutDrops
<1> QED BY <1>3, <1>4, <1>5, <1>6

LEMMA AppendRest ==
    ASSUME NEW log \in Seq(Stamp), NEW whole \in Seq(Stamp), NEW now \in Nat,
           NEW s \in Stamp, Rest(log, whole, now)
    PROVE  Rest(Append(log, s), Append(whole, s), now)
<1>1. PICK k \in 0..Len(whole) : Drops(log, whole, k, now)
  BY DEF Rest
<1>2. /\ Len(log) \in Nat /\ Len(whole) \in Nat /\ k \in Nat /\ k <= Len(whole)
      /\ Len(log) = Len(whole) - k
  BY <1>1, LogFacts DEF Drops
<1> DEFINE l == Append(log, s)
           w == Append(whole, s)
<1>3. /\ Len(l) = Len(log) + 1 /\ \A i \in 1..Len(log) : l[i] = log[i]
      /\ l[Len(log) + 1] = s
  BY AppendProperties
<1>4. /\ Len(w) = Len(whole) + 1 /\ \A i \in 1..Len(whole) : w[i] = whole[i]
      /\ w[Len(whole) + 1] = s
  BY AppendProperties
<1> HIDE DEF l, w
<1>5. Len(l) = Len(w) - k /\ k \in 0..Len(w)
  BY <1>2, <1>3, <1>4
<1>6. ASSUME NEW i \in 1..Len(l) PROVE l[i] = w[k + i]
  <2>1. CASE i = Len(log) + 1
    <3>1. k + i = Len(whole) + 1
      BY <2>1, <1>2
    <3> QED BY <2>1, <3>1, <1>3, <1>4
  <2>2. CASE i # Len(log) + 1
    <3>1. i \in 1..Len(log) /\ k + i \in 1..Len(whole)
      BY <2>2, <1>2, <1>3
    <3>2. log[i] = whole[k + i]
      BY <3>1, <1>1 DEF Drops
    <3> QED BY <3>1, <3>2, <1>3, <1>4
  <2> QED BY <2>1, <2>2
<1>7. ASSUME NEW i \in 1..k PROVE Older(w[i][2], now)
  <2>1. i \in 1..Len(whole)
    BY <1>2
  <2>2. Older(whole[i][2], now)
    BY <1>1 DEF Drops
  <2> QED BY <2>1, <2>2, <1>4
<1>8. Drops(l, w, k, now)
  BY <1>5, <1>6, <1>7 DEF Drops
<1> QED BY <1>5, <1>8 DEF Rest, l, w

\* A record counts once, for its account.
LEMMA AppendHits ==
    ASSUME NEW log \in Seq(Stamp), NEW now \in 0..MaxClock, NEW a, NEW b \in Account,
           NEW window \in Nat
    PROVE  /\ Cardinality(Hits(log, a, window, now)) \in Nat
           /\ Cardinality(Hits(Append(log, <<b, now>>), a, window, now))
                 = Cardinality(Hits(log, a, window, now)) + (IF a = b THEN 1 ELSE 0)
<1> DEFINE l == Append(log, <<b, now>>)
           S == Hits(log, a, window, now)
           n == Len(log) + 1
<1>1. Len(log) \in Nat /\ DOMAIN log = 1..Len(log) /\ n \in Nat /\ now \in Nat
  BY LogFacts, WindowAssumption
<1>2. <<b, now>> \in Stamp
  BY DEF Stamp
<1>3. /\ l \in Seq(Stamp) /\ Len(l) = n /\ \A i \in 1..Len(log) : l[i] = log[i]
      /\ l[n] = <<b, now>>
  BY <1>2, AppendProperties
<1>4. DOMAIN l = 1..n /\ 1..n = 1..Len(log) \cup {n} /\ n \notin 1..Len(log)
  BY <1>1, <1>3
<1>5. <<b, now>>[1] = b /\ <<b, now>>[2] = now /\ now + window >= now
  BY <1>1
<1> HIDE DEF l, n
<1>6. Hits(l, a, window, now) = IF a = b THEN S \cup {n} ELSE S
  <2>1. ASSUME NEW i \in 1..Len(log)
        PROVE  i \in Hits(l, a, window, now) <=> i \in S
    BY <1>1, <1>3, <1>4, Zenon DEF Hits
  <2>2. n \in Hits(l, a, window, now) <=> a = b
    BY <1>3, <1>4, <1>5, Zenon DEF Hits
  <2>3. Hits(l, a, window, now) \subseteq 1..Len(log) \cup {n}
    BY <1>4, Zenon DEF Hits
  <2>4. S \subseteq 1..Len(log)
    BY <1>1, Zenon DEF Hits
  <2> DEFINE H == Hits(l, a, window, now)
  <2> HIDE DEF S, H
  <2>5. CASE a = b
    <3>1. H \subseteq S \cup {n} /\ S \cup {n} \subseteq H
      BY <2>1, <2>2, <2>3, <2>4, <2>5, Zenon DEF H
    <3> QED BY <3>1, <2>5 DEF H
  <2>6. CASE a # b
    <3>1. H \subseteq S /\ S \subseteq H
      BY <2>1, <2>2, <2>3, <2>4, <2>6, Zenon DEF H
    <3> QED BY <3>1, <2>6 DEF H
  <2> QED BY <2>5, <2>6
<1>7. S \subseteq 1..Len(log) /\ n \notin S
  BY <1>1, <1>4, Zenon DEF Hits
<1> HIDE DEF S
<1>8. IsFiniteSet(S)
  <2>1. S \in SUBSET (1..Len(log))
    BY <1>7
  <2> QED BY <2>1, <1>1, CountingTo, FS_Subset, Zenon
<1>9. Cardinality(S) \in Nat /\ Cardinality(S \cup {n}) = Cardinality(S) + 1
  BY <1>7, <1>8, FS_CardinalityType, FS_AddElement
<1> QED BY <1>6, <1>9 DEF S, l

\* As time goes by, less counts and less is left.
LEMMA LaterHits ==
    ASSUME NEW log \in Seq(Stamp), NEW now \in Nat, NEW later \in Nat, now <= later
    PROVE  /\ \A a, window : window \in Nat =>
                 /\ Cardinality(Hits(log, a, window, later)) \in Nat
                 /\ Cardinality(Hits(log, a, window, now)) \in Nat
                 /\ Cardinality(Hits(log, a, window, later))
                      <= Cardinality(Hits(log, a, window, now))
           /\ Len(Cut(log, later)) <= Len(Cut(log, now))
           /\ \A whole \in Seq(Stamp) : Rest(log, whole, now) => Rest(log, whole, later)
<1>1. /\ Len(log) \in Nat /\ DOMAIN log = 1..Len(log)
      /\ \A i \in DOMAIN log : log[i][2] \in Nat
  BY LogFacts
<1>2. ASSUME NEW a, NEW window, window \in Nat
      PROVE  /\ Cardinality(Hits(log, a, window, later)) \in Nat
             /\ Cardinality(Hits(log, a, window, now)) \in Nat
             /\ Cardinality(Hits(log, a, window, later))
                      <= Cardinality(Hits(log, a, window, now))
  <2> DEFINE S == Hits(log, a, window, now)
             Later == Hits(log, a, window, later)
  <2>1. S \subseteq DOMAIN log /\ Later \subseteq DOMAIN log
    BY Zenon DEF Hits
  <2>2. Later \subseteq S
    <3> SUFFICES ASSUME NEW i \in Later PROVE i \in S
      OBVIOUS
    <3>1. i \in DOMAIN log /\ log[i][1] = a /\ log[i][2] + window >= later
      BY Zenon DEF Hits
    <3>2. log[i][2] + window >= now
      BY <3>1, <1>1, <1>2
    <3> QED BY <3>1, <3>2, Zenon DEF Hits
  <2> HIDE DEF S, Later
  <2>3. IsFiniteSet(S)
    <3>1. S \in SUBSET (1..Len(log))
      BY <2>1, <1>1
    <3> QED BY <3>1, <1>1, CountingTo, FS_Subset, Zenon
  <2>4. IsFiniteSet(Later) /\ Cardinality(Later) <= Cardinality(S)
    <3>1. Later \in SUBSET S
      BY <2>2
    <3> QED BY <3>1, <2>3, FS_Subset, Zenon
  <2>5. Cardinality(S) \in Nat /\ Cardinality(Later) \in Nat
    BY <2>3, <2>4, FS_CardinalityType
  <2> QED BY <2>4, <2>5 DEF S, Later
<1>3. \A at \in Nat : Older(at, now) => Older(at, later)
  BY WindowAssumption DEF Older
<1>4. Len(Cut(log, later)) <= Len(Cut(log, now))
  <2>1. PICK k \in 0..Len(log) : Aged(log, now) = 1..k /\ Cardinality(Aged(log, now)) = k
    BY AgedStretch
  <2>2. PICK c \in 0..Len(log) : Aged(log, later) = 1..c /\ Cardinality(Aged(log, later)) = c
    BY AgedStretch
  <2>3. Aged(log, now) \subseteq Aged(log, later)
    <3> SUFFICES ASSUME NEW i \in Aged(log, now) PROVE i \in Aged(log, later)
      OBVIOUS
    <3>1. i \in DOMAIN log /\ \A j \in 1..i : Older(log[j][2], now)
      BY Zenon DEF Aged
    <3>2. \A j \in 1..i : j \in DOMAIN log
      BY <3>1, <1>1
    <3>3. \A j \in 1..i : Older(log[j][2], later)
      BY <3>1, <3>2, <1>1, <1>3, Zenon
    <3> QED BY <3>1, <3>3, Zenon DEF Aged
  <2>4. k <= c
    <3>1. CASE k = 0
      BY <3>1, <1>1
    <3>2. CASE k # 0
      <4>1. k \in 1..k
        BY <3>2, <1>1
      <4>2. k \in 1..c
        BY <4>1, <2>1, <2>2, <2>3, Zenon
      <4> QED BY <4>2
    <3> QED BY <3>1, <3>2
  <2>5. Len(Cut(log, now)) = Len(log) - k /\ Len(Cut(log, later)) = Len(log) - c
    BY <2>1, <2>2, CutDrops
  <2> QED BY <1>1, <2>4, <2>5
<1>5. ASSUME NEW whole \in Seq(Stamp), Rest(log, whole, now) PROVE Rest(log, whole, later)
  <2>1. PICK k \in 0..Len(whole) : Drops(log, whole, k, now)
    BY <1>5 DEF Rest
  <2>2. \A i \in 1..k : whole[i][2] \in Nat
    <3>1. \A i \in 1..k : i \in DOMAIN whole
      BY LogFacts
    <3> QED BY <3>1, LogFacts
  <2>3. \A i \in 1..k : Older(whole[i][2], later)
    BY <2>1, <2>2, <1>3 DEF Drops
  <2>4. Drops(log, whole, k, later)
    BY <2>1, <2>3 DEF Drops
  <2> QED BY <2>4 DEF Rest
<1> QED BY <1>2, <1>4, <1>5

\* The stamps of a log ascend up to now; the builds of an account are apart; and
\* its last recent one is long enough ago for another.
Ordered(log, now) ==
    /\ \A i, j \in DOMAIN log : i < j => log[i][2] <= log[j][2]
    /\ \A i \in DOMAIN log : log[i][2] <= now
Apart(log, a) == \A i, j \in DOMAIN log : i < j /\ log[i][1] = a /\ log[j][1] = a =>
    log[i][2] + Limit["interval"] <= log[j][2]
Spaced(log, a, now) == \A i \in DOMAIN log : log[i][1] = a /\ ~Older(log[i][2], now) =>
    log[i][2] + Limit["interval"] <= now

Passed(t) == talk[t].thread = "passed"

LEMMA Windows == /\ FiveMinutes \in Nat /\ FiveMinutes <= Day /\ Hour \in Nat /\ Hour <= Day
                 /\ Day \in Nat /\ Day <= Day
                 /\ \A c \in Caps : Limit[c] \in Nat
BY WindowAssumption, LimitAssumption

\* The operators of the module, for a log and a time.
LEMMA Reading ==
    /\ \A log : Pruned(log) = Cut(log, clock)
    /\ \A log, a, window : CountOf(log, a, window) = Cardinality(Hits(log, a, window, clock))
BY DEF Pruned, Stale, Cut, Aged, Older, CountOf, Hits, Recent

RequestCaps(log, now) ==
    /\ \A a \in Account :
        /\ Cardinality(Hits(log, a, FiveMinutes, now)) <= Limit["user5m"]
        /\ Cardinality(Hits(log, a, Hour, now)) <= Limit["userHour"]
        /\ Cardinality(Hits(log, a, Day, now)) <= Limit["userDay"]
    /\ Len(Cut(log, now)) <= Limit["globalDay"]

\* What a group may get beyond its cap, of the most threads it had between check and record.
Over(n) == IF n = 0 THEN 0 ELSE n - 1

\* Builds that count, and threads that may record one: B of them now and R at most so far.
Sums(log, now, B, R) ==
    /\ \A a \in Account :
        /\ Cardinality(Hits(log, a, Hour, now)) + B[{a}] <= Limit["buildsHour"] + Over(R[{a}])
        /\ Cardinality(Hits(log, a, Day, now)) + B[{a}] <= Limit["buildsDay"] + Over(R[{a}])
    /\ Len(Cut(log, now)) + B[Account] <= Limit["buildsGlobal"] + Over(R[Account])

LEMMA CapsReading ==
    /\ RequestsCapped <=> RequestCaps(served, clock)
    /\ (/\ \A a \in Account :
            /\ Cardinality(Hits(builds, a, Hour, clock)) <= Limit["buildsHour"] + Over(raced[{a}])
            /\ Cardinality(Hits(builds, a, Day, clock)) <= Limit["buildsDay"] + Over(raced[{a}])
            /\ Over(raced[{a}]) = 0 => Apart(builds, a)
        /\ Len(Cut(builds, clock)) <= Limit["buildsGlobal"] + Over(raced[Account]))
       => BuildsCapped
<1>1. RequestsCapped <=> RequestCaps(served, clock)
  BY Reading, Zenon DEF RequestsCapped, RequestCaps
<1>2. /\ \A a : CountOf(builds, a, Hour) = Cardinality(Hits(builds, a, Hour, clock))
      /\ \A a : CountOf(builds, a, Day) = Cardinality(Hits(builds, a, Day, clock))
      /\ Pruned(builds) = Cut(builds, clock)
      /\ \A g : Extra(g) = Over(raced[g])
  BY Reading, Zenon DEF Extra, Over
<1> QED BY <1>1, <1>2, Zenon DEF BuildsCapped, Apart

\* A step of the limiter that records nothing, and one that records a request.
LEMMA RequestsStep ==
    ASSUME clock \in 0..MaxClock, requests \in Seq(Stamp), served \in Seq(Stamp),
           Rest(requests, served, clock), RequestCaps(served, clock),
           \/ clock' = clock /\ served' = served /\ requests' \in {requests, Pruned(requests)}
           \/ clock' = clock /\ \E a \in Account : RequestAllowed(a) /\ RecordRequest(a)
           \/ Tick
    PROVE  /\ clock' \in 0..MaxClock /\ requests' \in Seq(Stamp) /\ served' \in Seq(Stamp)
           /\ Rest(requests', served', clock') /\ RequestCaps(served', clock')
<1> DEFINE r == Cut(requests, clock)
<1>1. clock \in Nat /\ Pruned(requests) = r /\ Pruned(builds) = Cut(builds, clock)
  BY Reading, WindowAssumption
<1>2. r \in Seq(Stamp) /\ Rest(r, served, clock)
  BY <1>1, CutDrops, CutRest
<1> HIDE DEF r
<1>3. CASE clock' = clock /\ served' = served /\ requests' \in {requests, Pruned(requests)}
  BY <1>1, <1>2, <1>3
<1>4. ASSUME clock' = clock, NEW a \in Account, RequestAllowed(a), RecordRequest(a)
      PROVE  /\ requests' \in Seq(Stamp) /\ served' \in Seq(Stamp)
             /\ Rest(requests', served', clock') /\ RequestCaps(served', clock')
  <2> DEFINE s == <<a, clock>>
  <2>1. s \in Stamp
    BY DEF Stamp
  <2>2. requests' = Append(r, s) /\ served' = Append(served, s)
    BY <1>4, <1>1 DEF RecordRequest
  <2>3. Append(r, s) \in Seq(Stamp) /\ Append(served, s) \in Seq(Stamp)
    BY <2>1, <1>2, AppendProperties
  <2>4. Rest(Append(r, s), Append(served, s), clock)
    BY <2>1, <1>1, <1>2, AppendRest
  <2>5. /\ Cardinality(Hits(requests, a, FiveMinutes, clock)) < Limit["user5m"]
        /\ Cardinality(Hits(requests, a, Hour, clock)) < Limit["userHour"]
        /\ Cardinality(Hits(requests, a, Day, clock)) < Limit["userDay"]
        /\ Len(r) < Limit["globalDay"]
    <3>1. /\ CountOf(requests, a, FiveMinutes) = Cardinality(Hits(requests, a, FiveMinutes, clock))
          /\ CountOf(requests, a, Hour) = Cardinality(Hits(requests, a, Hour, clock))
          /\ CountOf(requests, a, Day) = Cardinality(Hits(requests, a, Day, clock))
      BY Reading, Zenon
    <3> QED BY <1>1, <1>4, <3>1 DEF RequestAllowed
  <2>6. ASSUME NEW b \in Account, NEW window \in Nat, window <= Day, NEW cap \in Nat,
               Cardinality(Hits(served, b, window, clock)) <= cap,
               Cardinality(Hits(requests, a, window, clock)) < cap
        PROVE  Cardinality(Hits(Append(served, s), b, window, clock)) <= cap
    <3>1. Cardinality(Hits(requests, a, window, clock)) = Cardinality(Hits(served, a, window, clock))
      BY <1>1, <2>6, RestHits
    <3>2. /\ Cardinality(Hits(served, b, window, clock)) \in Nat
          /\ Cardinality(Hits(Append(served, s), b, window, clock))
               = Cardinality(Hits(served, b, window, clock)) + (IF b = a THEN 1 ELSE 0)
      BY AppendHits
    <3>3. CASE b = a
      BY <2>6, <3>1, <3>2, <3>3
    <3>4. CASE b # a
      BY <2>6, <3>2, <3>4
    <3> QED BY <3>3, <3>4
  <2>7. Len(Cut(Append(served, s), clock)) <= Limit["globalDay"]
    <3>1. Len(Cut(Append(served, s), clock)) <= Len(Cut(Append(r, s), clock))
      BY <1>1, <2>3, <2>4, RestShorter
    <3>2. Len(Cut(Append(r, s), clock)) <= Len(Append(r, s)) /\ Len(Cut(Append(r, s), clock)) \in Nat
      <4>1. PICK k \in 0..Len(Append(r, s)) : Drops(Cut(Append(r, s), clock), Append(r, s), k, clock)
        BY <1>1, <2>3, CutDrops DEF Rest
      <4>2. Len(Cut(Append(r, s), clock)) = Len(Append(r, s)) - k
        BY <4>1 DEF Drops
      <4> QED BY <4>2, <2>3, LogFacts
    <3>3. Len(Append(r, s)) = Len(r) + 1 /\ Len(r) \in Nat
      BY <1>2, <2>1, AppendProperties
    <3>4. Len(Cut(Append(served, s), clock)) \in Nat
      BY <1>1, <2>3, CutDrops, LogFacts
    <3>5. Limit["globalDay"] \in Nat
      BY Windows DEF Caps
    <3> HIDE DEF s
    <3> QED BY <3>1, <3>2, <3>3, <3>4, <3>5, <2>5
  <2> HIDE DEF s
  <2>8. RequestCaps(Append(served, s), clock)
    <3>1. Limit["user5m"] \in Nat /\ Limit["userHour"] \in Nat /\ Limit["userDay"] \in Nat
      BY Windows DEF Caps
    <3>2. ASSUME NEW b \in Account
          PROVE  /\ Cardinality(Hits(Append(served, s), b, FiveMinutes, clock)) <= Limit["user5m"]
                 /\ Cardinality(Hits(Append(served, s), b, Hour, clock)) <= Limit["userHour"]
                 /\ Cardinality(Hits(Append(served, s), b, Day, clock)) <= Limit["userDay"]
      BY <3>1, <2>5, <2>6, Windows DEF RequestCaps
    <3> QED BY <3>2, <2>7 DEF RequestCaps
  <2> QED BY <1>4, <2>2, <2>3, <2>4, <2>8
<1>5. CASE Tick
  <2>1. /\ clock' \in 0..MaxClock /\ clock' \in Nat /\ clock <= clock'
        /\ requests' = requests /\ served' = served
    BY <1>5, <1>1, WindowAssumption DEF Tick
  <2>2. Rest(requests, served, clock')
    BY <1>1, <2>1, LaterHits
  <2>3. /\ Len(Cut(served, clock')) <= Len(Cut(served, clock))
        /\ Len(Cut(served, clock')) \in Nat /\ Len(Cut(served, clock)) \in Nat
    BY <1>1, <2>1, LaterHits, CutDrops, LogFacts
  <2>4. ASSUME NEW a \in Account, NEW window \in Nat, NEW cap \in Nat,
               Cardinality(Hits(served, a, window, clock)) <= cap
        PROVE  Cardinality(Hits(served, a, window, clock')) <= cap
    <3>1. /\ Cardinality(Hits(served, a, window, clock')) \in Nat
          /\ Cardinality(Hits(served, a, window, clock)) \in Nat
          /\ Cardinality(Hits(served, a, window, clock'))
               <= Cardinality(Hits(served, a, window, clock))
      BY <1>1, <2>1, LaterHits
    <3> QED BY <2>4, <3>1
  <2>5. /\ Limit["user5m"] \in Nat /\ Limit["userHour"] \in Nat /\ Limit["userDay"] \in Nat
        /\ Limit["globalDay"] \in Nat
    BY Windows DEF Caps
  <2>6. Len(Cut(served, clock')) <= Limit["globalDay"]
    BY <2>3, <2>5 DEF RequestCaps
  <2>7. RequestCaps(served, clock')
    BY <2>4, <2>5, <2>6, Windows DEF RequestCaps
  <2> QED BY <2>1, <2>2, <2>7
<1> QED BY <1>3, <1>4, <1>5

\* What is left of a log is as ordered and as far apart; pruned, it is all recent.
LEMMA RestKeeps ==
    ASSUME NEW log \in Seq(Stamp), NEW whole \in Seq(Stamp), NEW now \in Nat,
           Rest(log, whole, now)
    PROVE  /\ Ordered(whole, now) => Ordered(log, now)
           /\ \A a : Apart(whole, a) => Apart(log, a)
           /\ \A a : Spaced(whole, a, now) => Spaced(log, a, now)
<1>1. PICK k \in 0..Len(whole) : Drops(log, whole, k, now)
  BY DEF Rest
<1>2. /\ \A i \in DOMAIN log : k + i \in DOMAIN whole /\ log[i] = whole[k + i]
      /\ \A i, j \in DOMAIN log : i < j => k + i < k + j
  <2>1. /\ Len(log) \in Nat /\ Len(whole) \in Nat /\ k \in Nat /\ k <= Len(whole)
        /\ DOMAIN log = 1..Len(log) /\ DOMAIN whole = 1..Len(whole)
        /\ Len(log) = Len(whole) - k
    BY <1>1, LogFacts DEF Drops
  <2>2. \A i \in 1..Len(log) : log[i] = whole[k + i]
    BY <1>1 DEF Drops
  <2>3. /\ \A i \in 1..Len(log) : k + i \in 1..Len(whole)
        /\ \A i, j \in 1..Len(log) : i < j => k + i < k + j
    BY <2>1
  <2> QED BY <2>1, <2>2, <2>3
<1>3. ASSUME Ordered(whole, now) PROVE Ordered(log, now)
  BY <1>2, <1>3, Zenon DEF Ordered
<1>4. ASSUME NEW a, Apart(whole, a) PROVE Apart(log, a)
  BY <1>2, <1>4, Zenon DEF Apart
<1>5. ASSUME NEW a, Spaced(whole, a, now) PROVE Spaced(log, a, now)
  BY <1>2, <1>5, Zenon DEF Spaced
<1> QED BY <1>3, <1>4, <1>5

LEMMA CutRecent ==
    ASSUME NEW log \in Seq(Stamp), NEW now \in Nat, Ordered(log, now)
    PROVE  \A i \in DOMAIN Cut(log, now) : ~Older(Cut(log, now)[i][2], now)
<1> DEFINE r == Cut(log, now)
<1>1. r \in Seq(Stamp) /\ Rest(r, log, now) /\ (r # <<>> => ~Older(r[1][2], now))
  BY CutDrops
<1> HIDE DEF r
<1>2. Ordered(r, now)
  BY <1>1, RestKeeps
<1> SUFFICES ASSUME NEW i \in DOMAIN r PROVE ~Older(r[i][2], now)
  BY DEF r
<1>3. /\ i \in 1..Len(r) /\ Len(r) \in Nat /\ 1 \in DOMAIN r
      /\ r[i][2] \in Nat /\ r[1][2] \in Nat
  BY <1>1, LogFacts
<1>4. r # <<>>
  BY <1>1, <1>3, EmptySeq
<1>5. r[1][2] <= r[i][2]
  <2>1. CASE i = 1
    BY <2>1, <1>3
  <2>2. CASE i # 1
    <3>1. 1 < i
      BY <2>2, <1>3
    <3> QED BY <3>1, <1>2, <1>3 DEF Ordered
  <2> QED BY <2>1, <2>2
<1> QED BY <1>1, <1>3, <1>4, <1>5, WindowAssumption DEF Older

\* One more record leaves the order, and what is apart if its account may build.
LEMMA AppendKeeps ==
    ASSUME NEW log \in Seq(Stamp), NEW now \in 0..MaxClock, NEW a \in Account,
           Ordered(log, now), \A i \in DOMAIN log : ~Older(log[i][2], now)
    PROVE  /\ Append(log, <<a, now>>) \in Seq(Stamp)
           /\ Ordered(Append(log, <<a, now>>), now)
           /\ Apart(log, a) /\ Spaced(log, a, now) => Apart(Append(log, <<a, now>>), a)
           /\ \A b : b # a => /\ Apart(log, b) => Apart(Append(log, <<a, now>>), b)
                              /\ Spaced(log, b, now) => Spaced(Append(log, <<a, now>>), b, now)
<1> DEFINE s == <<a, now>>
           l == Append(log, s)
           n == Len(log) + 1
<1>1. s \in Stamp /\ s[1] = a /\ s[2] = now
  BY DEF Stamp
<1>2. /\ l \in Seq(Stamp) /\ Len(l) = n /\ \A i \in 1..Len(log) : l[i] = log[i]
      /\ l[n] = s
  BY <1>1, AppendProperties
<1>3. /\ Len(log) \in Nat /\ DOMAIN log = 1..Len(log) /\ now \in Nat
      /\ \A i \in DOMAIN log : log[i][2] \in Nat
  BY LogFacts, WindowAssumption
<1> HIDE DEF s, l
<1>4. /\ \A i \in DOMAIN l : (i \in DOMAIN log /\ l[i] = log[i]) \/ (i = n /\ l[i] = s)
      /\ \A i, j \in DOMAIN l : i < j => i \in DOMAIN log /\ l[i] = log[i]
  <2>1. DOMAIN l = 1..n
    BY <1>2, LogFacts
  <2>2. \A i \in 1..n : i \in 1..Len(log) \/ i = n
    BY <1>3
  <2>3. \A i, j \in 1..n : i < j => i \in 1..Len(log)
    BY <1>3
  <2> QED BY <2>1, <2>2, <2>3, <1>2, <1>3, Zenon
<1>5. Ordered(l, now)
  <2>1. ASSUME NEW i \in DOMAIN l PROVE l[i][2] <= now
    BY <1>1, <1>3, <1>4 DEF Ordered
  <2>2. ASSUME NEW i \in DOMAIN l, NEW j \in DOMAIN l, i < j PROVE l[i][2] <= l[j][2]
    BY <1>1, <1>3, <1>4, <2>2, Zenon DEF Ordered
  <2> QED BY <2>1, <2>2, Zenon DEF Ordered
<1>6. ASSUME Apart(log, a), Spaced(log, a, now) PROVE Apart(l, a)
  BY <1>1, <1>4, <1>6, Zenon DEF Apart, Spaced
<1>7. ASSUME NEW b, b # a, Apart(log, b) PROVE Apart(l, b)
  BY <1>1, <1>4, <1>7, Zenon DEF Apart
<1>8. ASSUME NEW b, b # a, Spaced(log, b, now) PROVE Spaced(l, b, now)
  BY <1>1, <1>4, <1>8, Zenon DEF Spaced
<1> QED BY <1>2, <1>5, <1>6, <1>7, <1>8 DEF l, s

Waiting == [g \in Group |-> Cardinality(Between(g))]

\* Never more threads were between check and record than were counted.
RaceOK == /\ raced \in [Group -> Nat]
          /\ \A g \in Group : IsFiniteSet(Between(g)) /\ Cardinality(Between(g)) <= raced[g]
Grown == raced' \in [Group -> Nat] /\ \A g \in Group : raced[g] <= raced'[g]

\* A thread that was alone between the two may still record.
Turns == \A t \in Talk : Passed(t) /\ raced[{Owner[t]}] <= 1 => Spaced(builds, Owner[t], clock)

Builds == /\ builds \in Seq(Stamp) /\ Ordered(builds, clock)
          /\ RaceOK /\ Sums(builds, clock, Waiting, raced) /\ Turns
          /\ \A a \in Account : raced[{a}] <= 1 => Apart(builds, a)

LEMMA Groups == Account \in Group /\ \A a \in Account : {a} \in Group
BY DEF Group

LEMMA OverMore == \A m, n \in Nat : /\ Over(m) \in Nat /\ m <= Over(m) + 1
                                    /\ m <= n => Over(m) <= Over(n)
                                    /\ m = 0 => Over(m) = 0
                                    /\ m # 0 => Over(m) = m - 1
BY DEF Over

LEMMA HitsNat ==
    ASSUME NEW log \in Seq(Stamp), NEW now \in Nat
    PROVE  /\ \A a : /\ Cardinality(Hits(log, a, Hour, now)) \in Nat
                     /\ Cardinality(Hits(log, a, Day, now)) \in Nat
           /\ Cut(log, now) \in Seq(Stamp) /\ Len(Cut(log, now)) \in Nat
           /\ Len(Cut(log, now)) <= Len(log) /\ Len(log) \in Nat
<1>1. \A a : /\ Cardinality(Hits(log, a, Hour, now)) \in Nat
             /\ Cardinality(Hits(log, a, Day, now)) \in Nat
  <2>1. now <= now
    OBVIOUS
  <2> QED BY <2>1, Windows, LaterHits, Zenon
<1>2. PICK k \in 0..Len(log) : Drops(Cut(log, now), log, k, now)
  BY CutDrops DEF Rest
<1>3. Cut(log, now) \in Seq(Stamp)
  BY CutDrops
<1>4. Len(Cut(log, now)) = Len(log) - k
  BY <1>2 DEF Drops
<1>5. Len(log) \in Nat /\ Len(Cut(log, now)) \in Nat
  BY <1>3, LogFacts
<1> QED BY <1>1, <1>3, <1>4, <1>5

\* Fewer threads, or more that were counted, leave it as it is.
LEMMA FewerSums ==
    ASSUME NEW log \in Seq(Stamp), NEW now \in Nat,
           NEW B \in [Group -> Nat], NEW R \in [Group -> Nat],
           NEW C \in [Group -> Nat], NEW Q \in [Group -> Nat],
           \A g \in Group : C[g] <= B[g] /\ R[g] <= Q[g], Sums(log, now, B, R)
    PROVE  Sums(log, now, C, Q)
<1>1. /\ Limit["buildsHour"] \in Nat /\ Limit["buildsDay"] \in Nat
      /\ Limit["buildsGlobal"] \in Nat
  BY Windows DEF Caps
<1>2. ASSUME NEW g \in Group
      PROVE  /\ C[g] \in Nat /\ B[g] \in Nat /\ Over(R[g]) \in Nat /\ Over(Q[g]) \in Nat
             /\ C[g] <= B[g] /\ Over(R[g]) <= Over(Q[g])
  BY OverMore
<1>3. ASSUME NEW n \in Nat, NEW cap \in Nat, NEW g \in Group, n + B[g] <= cap + Over(R[g])
      PROVE  n + C[g] <= cap + Over(Q[g])
  BY <1>2, <1>3
<1>4. /\ \A a : /\ Cardinality(Hits(log, a, Hour, now)) \in Nat
                /\ Cardinality(Hits(log, a, Day, now)) \in Nat
      /\ Len(Cut(log, now)) \in Nat
  BY HitsNat
<1> QED BY <1>1, <1>3, <1>4, Groups, Zenon DEF Sums

LEMMA PruneBuilds ==
    ASSUME NEW log \in Seq(Stamp), NEW now \in Nat, Ordered(log, now)
    PROVE  LET r == Cut(log, now) IN
           /\ r \in Seq(Stamp) /\ Ordered(r, now)
           /\ \A i \in DOMAIN r : ~Older(r[i][2], now)
           /\ \A a : /\ Cardinality(Hits(r, a, Hour, now)) = Cardinality(Hits(log, a, Hour, now))
                     /\ Cardinality(Hits(r, a, Day, now)) = Cardinality(Hits(log, a, Day, now))
           /\ Len(r) \in Nat /\ Len(Cut(r, now)) \in Nat /\ Len(Cut(r, now)) <= Len(r)
           /\ \A a : /\ Apart(log, a) => Apart(r, a)
                     /\ Spaced(log, a, now) => Spaced(r, a, now)
           /\ \A B, R \in [Group -> Nat] : Sums(log, now, B, R) => Sums(r, now, B, R)
<1> DEFINE r == Cut(log, now)
<1>1. r \in Seq(Stamp) /\ Rest(r, log, now)
  BY CutDrops
<1>2. \A i \in DOMAIN r : ~Older(r[i][2], now)
  BY CutRecent
<1> HIDE DEF r
<1>3. \A a : /\ Cardinality(Hits(r, a, Hour, now)) = Cardinality(Hits(log, a, Hour, now))
             /\ Cardinality(Hits(r, a, Day, now)) = Cardinality(Hits(log, a, Day, now))
  BY <1>1, Windows, RestHits
<1>4. /\ Ordered(r, now) /\ \A a : Apart(log, a) => Apart(r, a)
      /\ \A a : Spaced(log, a, now) => Spaced(r, a, now)
  BY <1>1, RestKeeps
<1>5. Len(r) \in Nat /\ Len(Cut(r, now)) \in Nat /\ Len(Cut(r, now)) <= Len(r)
  BY <1>1, HitsNat
<1>6. ASSUME NEW B \in [Group -> Nat], NEW R \in [Group -> Nat], Sums(log, now, B, R)
      PROVE  Sums(r, now, B, R)
  <2>1. Limit["buildsGlobal"] \in Nat /\ B[Account] \in Nat /\ Over(R[Account]) \in Nat
    <3>1. B[Account] \in Nat /\ R[Account] \in Nat
      BY Groups
    <3> QED BY <3>1, Windows, OverMore DEF Caps
  <2>2. Len(r) + B[Account] <= Limit["buildsGlobal"] + Over(R[Account])
    BY <1>6 DEF Sums, r
  <2>3. Len(Cut(r, now)) + B[Account] <= Limit["buildsGlobal"] + Over(R[Account])
    BY <1>5, <2>1, <2>2
  <2> QED BY <1>3, <1>6, <2>3 DEF Sums
<1> QED BY <1>1, <1>2, <1>3, <1>4, <1>5, <1>6 DEF r

\* No thread comes between check and record.
LEMMA FewerWait ==
    ASSUME RaceOK, Grown, \A t \in Talk : Passed(t)' => Passed(t)
    PROVE  /\ RaceOK' /\ Waiting \in [Group -> Nat] /\ Waiting' \in [Group -> Nat]
           /\ \A g \in Group : Waiting'[g] <= Waiting[g]
<1>1. ASSUME NEW g \in Group
      PROVE  /\ IsFiniteSet(Between(g)') /\ Cardinality(Between(g)') <= Cardinality(Between(g))
             /\ Cardinality(Between(g)) \in Nat /\ Cardinality(Between(g)') \in Nat
             /\ Cardinality(Between(g)') <= raced'[g]
  <2>1. Between(g)' \in SUBSET Between(g)
    BY DEF Between, Passed
  <2>2. IsFiniteSet(Between(g)) /\ Cardinality(Between(g)) <= raced[g]
    BY DEF RaceOK
  <2>3. IsFiniteSet(Between(g)') /\ Cardinality(Between(g)') <= Cardinality(Between(g))
    BY <2>1, <2>2, FS_Subset, Zenon
  <2>4. Cardinality(Between(g)) \in Nat /\ Cardinality(Between(g)') \in Nat
    BY <2>2, <2>3, FS_CardinalityType, Zenon
  <2>5. raced[g] \in Nat /\ raced'[g] \in Nat /\ raced[g] <= raced'[g]
    BY DEF RaceOK, Grown
  <2> QED BY <2>2, <2>3, <2>4, <2>5
<1>2. Waiting \in [Group -> Nat] /\ Waiting' \in [Group -> Nat]
  BY <1>1, Zenon DEF Waiting
<1>3. \A g \in Group : Waiting'[g] <= Waiting[g]
  BY <1>1, Zenon DEF Waiting
<1>4. RaceOK'
  BY <1>1, Zenon DEF RaceOK, Grown
<1> QED BY <1>2, <1>3, <1>4

\* No thread passes its check and none records a build.
LEMMA IdleBuilds ==
    ASSUME clock \in 0..MaxClock, Builds, clock' = clock, Grown,
           builds' \in {builds, Pruned(builds)},
           \A t \in Talk : Passed(t)' => Passed(t)
    PROVE  Builds'
<1>1. clock \in Nat /\ builds' \in {builds, Cut(builds, clock)}
  BY Reading, WindowAssumption
<1>2. /\ RaceOK' /\ Waiting \in [Group -> Nat] /\ Waiting' \in [Group -> Nat]
      /\ \A g \in Group : Waiting'[g] <= Waiting[g]
  BY FewerWait DEF Builds
<1>3. /\ builds' \in Seq(Stamp) /\ Ordered(builds', clock)
      /\ \A a : /\ Apart(builds, a) => Apart(builds', a)
                /\ Spaced(builds, a, clock) => Spaced(builds', a, clock)
      /\ Sums(builds', clock, Waiting, raced)
  <2>1. CASE builds' = builds
    BY <2>1 DEF Builds
  <2>2. CASE builds' = Cut(builds, clock)
    BY <2>2, <1>1, <1>2, PruneBuilds DEF Builds, RaceOK
  <2> QED BY <1>1, <2>1, <2>2
<1>4. raced \in [Group -> Nat] /\ \A a \in Account : raced'[{a}] <= 1 => raced[{a}] <= 1
  <2>1. \A g \in Group : raced[g] \in Nat /\ raced'[g] \in Nat /\ raced[g] <= raced'[g]
    BY DEF Builds, RaceOK, Grown
  <2>2. \A a \in Account : raced'[{a}] <= 1 => raced[{a}] <= 1
    BY <2>1, Groups
  <2> QED BY <2>2 DEF Builds, RaceOK
<1>5. Sums(builds', clock, Waiting', raced')
  BY <1>1, <1>2, <1>3, <1>4, FewerSums DEF Grown
<1>6. Turns'
  <2> SUFFICES ASSUME NEW t \in Talk, Passed(t)', raced'[{Owner[t]}] <= 1
               PROVE  Spaced(builds', Owner[t], clock)
    BY DEF Turns, Spaced, Older
  <2>1. Passed(t) /\ raced[{Owner[t]}] <= 1
    BY <1>4, OwnerAssumption
  <2> QED BY <2>1, <1>3 DEF Builds, Turns
<1>7. \A a \in Account : raced'[{a}] <= 1 => Apart(builds', a)
  BY <1>3, <1>4 DEF Builds
<1>8. Ordered(builds', clock') /\ Sums(builds', clock', Waiting', raced')
  BY <1>3, <1>5
<1>9. (\A a \in Account : raced[{a}] <= 1 => Apart(builds, a))'
  BY <1>7 DEF Apart
<1> QED BY <1>2, <1>3, <1>6, <1>8, <1>9 DEF Builds

\* A thread that comes between check and record, or leaves.
LEMMA Between1 ==
    ASSUME NEW t \in Talk, NEW g, IsFiniteSet(Between(g)),
           \A u \in Talk : u # t => (Passed(u)' <=> Passed(u)), Passed(t)' <=> ~Passed(t)
    PROVE  /\ IsFiniteSet(Between(g)') /\ Cardinality(Between(g)) \in Nat
           /\ Cardinality(Between(g)') \in Nat
           /\ Owner[t] \notin g => Cardinality(Between(g)') = Cardinality(Between(g))
           /\ Owner[t] \in g /\ Passed(t)' => Cardinality(Between(g)') = Cardinality(Between(g)) + 1
           /\ Owner[t] \in g /\ Passed(t) => Cardinality(Between(g)') + 1 = Cardinality(Between(g))
<1>1. \A u : /\ u \in Between(g) <=> u \in Talk /\ Passed(u) /\ Owner[u] \in g
             /\ u \in Between(g)' <=> u \in Talk /\ Passed(u)' /\ Owner[u] \in g
  BY DEF Between, Passed
<1> DEFINE S == Between(g)
           P == Between(g)'
<1> HIDE DEF S, P
<1>2. CASE Owner[t] \notin g
  <2>1. P = S
    BY <1>1, <1>2, Zenon DEF S, P
  <2> QED BY <1>2, <2>1, FS_CardinalityType DEF S, P
<1>3. CASE Owner[t] \in g /\ Passed(t)'
  <2>1. t \notin S /\ P = S \cup {t}
    <3>1. t \notin S /\ t \in P /\ \A u : u # t => (u \in P <=> u \in S)
      BY <1>1, <1>3, Zenon DEF S, P
    <3> QED BY <3>1
  <2>2. IsFiniteSet(P) /\ Cardinality(P) = Cardinality(S) + 1 /\ Cardinality(S) \in Nat
    BY <2>1, FS_AddElement, FS_CardinalityType DEF S
  <2> QED BY <1>3, <2>2, FS_CardinalityType DEF S, P
<1>4. CASE Owner[t] \in g /\ Passed(t)
  <2>1. t \notin P /\ S = P \cup {t} /\ P \in SUBSET S
    <3>1. t \in S /\ t \notin P /\ \A u : u # t => (u \in P <=> u \in S)
      BY <1>1, <1>4, Zenon DEF S, P
    <3> QED BY <3>1
  <2>2. IsFiniteSet(P)
    BY <2>1, FS_Subset, Zenon DEF S
  <2>3. Cardinality(S) = Cardinality(P) + 1 /\ Cardinality(S) \in Nat /\ Cardinality(P) \in Nat
    BY <2>1, <2>2, FS_AddElement, FS_CardinalityType
  <2> QED BY <1>4, <2>2, <2>3 DEF S, P
<1> QED BY <1>2, <1>3, <1>4

\* Two threads of an account between check and record are counted as two.
LEMMA TwoBetween ==
    ASSUME NEW t \in Talk, NEW v \in Talk, v # t, NEW g, Owner[t] \in g, Owner[v] \in g,
           IsFiniteSet(Between(g)), Passed(t), Passed(v)
    PROVE  Cardinality(Between(g)) \in Nat /\ Cardinality(Between(g)) > 1
<1>1. {t, v} \in SUBSET Between(g)
  BY DEF Between, Passed
<1>2. Cardinality({t, v}) = 2
  <2>1. IsFiniteSet({t}) /\ Cardinality({t}) = 1
    BY FS_Singleton
  <2>2. Cardinality({t} \cup {v}) = Cardinality({t}) + 1
    BY <2>1, FS_AddElement
  <2>3. {t, v} = {t} \cup {v}
    OBVIOUS
  <2> QED BY <2>1, <2>2, <2>3
<1>3. Cardinality({t, v}) <= Cardinality(Between(g)) /\ Cardinality(Between(g)) \in Nat
  BY <1>1, FS_Subset, FS_CardinalityType, Zenon
<1> QED BY <1>2, <1>3

LEMMA CheckStep ==
    ASSUME talk \in [Talk -> Call], clock \in 0..MaxClock, Builds,
           NEW t \in Talk, CheckBuild(t)
    PROVE  Builds'
<1> DEFINE a == Owner[t]
<1>1. clock \in Nat /\ builds' = Cut(builds, clock) /\ clock' = clock /\ a \in Account
  <2>1. clock \in Nat /\ a \in Account /\ Pruned(builds) = Cut(builds, clock)
    BY Reading, WindowAssumption, OwnerAssumption
  <2>2. builds' = Pruned(builds) /\ clock' = clock
    BY Zenon DEF CheckBuild
  <2> QED BY <2>1, <2>2
<1>2. \A u \in Talk : u # t => (Passed(u)' <=> Passed(u))
  BY DEF CheckBuild, Passed
<1>3. /\ ~Passed(t) /\ (Passed(t)' <=> BuildAllowed(a))
      /\ \A u : Passed(u)' <=> talk'[u].thread = "passed"
  BY DEF CheckBuild, Passed, Call
<1>4. ASSUME NEW g \in Group
      PROVE  /\ IsFiniteSet(Between(g)') /\ Cardinality(Between(g)') \in Nat
             /\ Cardinality(Between(g)) \in Nat /\ raced[g] \in Nat
             /\ a \notin g => Cardinality(Between(g)') = Cardinality(Between(g))
             /\ a \in g /\ Passed(t)' => Cardinality(Between(g)') = Cardinality(Between(g)) + 1
             /\ raced'[g] = IF Cardinality(Between(g)') > raced[g] THEN Cardinality(Between(g)')
                            ELSE raced[g]
  <2>1. IsFiniteSet(Between(g)) /\ raced[g] \in Nat
    BY DEF Builds, RaceOK
  <2>2. raced'[g] = IF Cardinality(Between(g)') > raced[g] THEN Cardinality(Between(g)')
                    ELSE raced[g]
    BY Zenon DEF CheckBuild
  <2>3. CASE Passed(t)'
    BY <1>2, <1>3, <2>1, <2>2, <2>3, Between1
  <2>4. CASE ~Passed(t)'
    <3>1. Between(g)' = Between(g)
      <4>1. \A u \in Talk : Passed(u)' <=> Passed(u)
        BY <1>2, <1>3, <2>4
      <4> QED BY <4>1 DEF Between, Passed
    <3> QED BY <2>1, <2>2, <2>4, <3>1, FS_CardinalityType
  <2> QED BY <2>3, <2>4
<1>5. /\ \A g \in Group : raced[g] <= raced'[g] /\ Cardinality(Between(g)') <= raced'[g]
      /\ \A g \in Group : raced'[g] \in Nat
  BY <1>4
<1>6. Grown /\ RaceOK'
  <2>1. raced' \in [Group -> Nat]
    BY <1>5, Zenon DEF CheckBuild
  <2> QED BY <1>4, <1>5, <2>1 DEF Grown, RaceOK
<1>7. CASE ~BuildAllowed(a)
  <2>1. \A u \in Talk : Passed(u)' => Passed(u)
    BY <1>2, <1>3, <1>7
  <2> QED BY <2>1, <1>1, <1>6, Reading, IdleBuilds
<1>8. CASE BuildAllowed(a)
  <2>1. /\ Cardinality(Hits(builds, a, Hour, clock)) < Limit["buildsHour"]
        /\ Cardinality(Hits(builds, a, Day, clock)) < Limit["buildsDay"]
        /\ Len(Cut(builds, clock)) < Limit["buildsGlobal"]
        /\ Spaced(builds, a, clock)
    <3>1. /\ CountOf(builds, a, Hour) = Cardinality(Hits(builds, a, Hour, clock))
          /\ CountOf(builds, a, Day) = Cardinality(Hits(builds, a, Day, clock))
          /\ Pruned(builds) = Cut(builds, clock)
      BY Reading, Zenon
    <3>2. Spaced(builds, a, clock)
      BY <1>8 DEF BuildAllowed, Spaced, Older, Recent
    <3> QED BY <1>8, <3>1, <3>2 DEF BuildAllowed
  <2>2. /\ builds' \in Seq(Stamp) /\ Ordered(builds', clock)
        /\ \A b : /\ Cardinality(Hits(builds', b, Hour, clock)) = Cardinality(Hits(builds, b, Hour, clock))
                  /\ Cardinality(Hits(builds', b, Day, clock)) = Cardinality(Hits(builds, b, Day, clock))
                  /\ Apart(builds, b) => Apart(builds', b)
                  /\ Spaced(builds, b, clock) => Spaced(builds', b, clock)
        /\ Len(Cut(builds', clock)) \in Nat /\ Len(Cut(builds', clock)) <= Len(Cut(builds, clock))
        /\ Len(Cut(builds, clock)) \in Nat
    BY <1>1, PruneBuilds DEF Builds
  <2>3. \A b \in Account : raced'[{b}] <= 1 => raced[{b}] <= 1
    BY <1>4, <1>5, Groups
  <2>4. Sums(builds', clock, Waiting', raced')
    <3>1. \A g \in Group : Waiting[g] = Cardinality(Between(g)) /\ Waiting'[g] = Cardinality(Between(g)')
      BY Zenon DEF Waiting
    <3>2. ASSUME NEW g \in Group, a \in g, NEW n \in Nat, NEW cap \in Nat, n < cap
          PROVE  n + Waiting'[g] <= cap + Over(raced'[g])
      <4>1. Waiting'[g] \in Nat /\ raced'[g] \in Nat /\ Waiting'[g] <= raced'[g]
        BY <1>4, <1>5, <3>1
      <4>2. Over(raced'[g]) \in Nat /\ raced'[g] <= Over(raced'[g]) + 1
        BY <4>1, OverMore
      <4> QED BY <3>2, <4>1, <4>2
    <3>3. ASSUME NEW b \in Account, b # a, NEW n \in Nat, NEW cap \in Nat,
                 n + Waiting[{b}] <= cap + Over(raced[{b}])
          PROVE  n + Waiting'[{b}] <= cap + Over(raced'[{b}])
      <4>1. {b} \in Group /\ a \notin {b}
        BY <3>3, Groups
      <4>2. Waiting'[{b}] = Waiting[{b}] /\ Waiting[{b}] \in Nat
        BY <4>1, <1>4, <3>1
      <4>3. Over(raced[{b}]) \in Nat /\ Over(raced'[{b}]) \in Nat /\ Over(raced[{b}]) <= Over(raced'[{b}])
        <5>1. raced[{b}] \in Nat /\ raced'[{b}] \in Nat /\ raced[{b}] <= raced'[{b}]
          BY <4>1, <1>4, <1>5
        <5> QED BY <5>1, OverMore
      <4> QED BY <3>3, <4>2, <4>3
    <3>4. Limit["buildsHour"] \in Nat /\ Limit["buildsDay"] \in Nat /\ Limit["buildsGlobal"] \in Nat
      BY Windows DEF Caps
    <3>5. \A b : /\ Cardinality(Hits(builds, b, Hour, clock)) \in Nat
                 /\ Cardinality(Hits(builds, b, Day, clock)) \in Nat
      BY <1>1, HitsNat DEF Builds
    <3>6. ASSUME NEW b \in Account
          PROVE  /\ Cardinality(Hits(builds', b, Hour, clock)) + Waiting'[{b}]
                      <= Limit["buildsHour"] + Over(raced'[{b}])
                 /\ Cardinality(Hits(builds', b, Day, clock)) + Waiting'[{b}]
                      <= Limit["buildsDay"] + Over(raced'[{b}])
      <4>1. CASE b = a
        BY <4>1, <2>1, <2>2, <3>2, <3>4, <3>5, Groups
      <4>2. CASE b # a
        <5>1. /\ Cardinality(Hits(builds, b, Hour, clock)) + Waiting[{b}]
                   <= Limit["buildsHour"] + Over(raced[{b}])
              /\ Cardinality(Hits(builds, b, Day, clock)) + Waiting[{b}]
                   <= Limit["buildsDay"] + Over(raced[{b}])
          BY Zenon DEF Builds, Sums
        <5> QED BY <4>2, <5>1, <2>2, <3>3, <3>4, <3>5
      <4> QED BY <4>1, <4>2
    <3>7. Len(Cut(builds', clock)) + Waiting'[Account] <= Limit["buildsGlobal"] + Over(raced'[Account])
      <4>1. Len(Cut(builds', clock)) < Limit["buildsGlobal"]
        BY <2>1, <2>2, <3>4
      <4> QED BY <4>1, <1>1, <2>2, <3>2, <3>4, Groups
    <3> QED BY <3>6, <3>7 DEF Sums
  <2>5. Turns'
    <3> SUFFICES ASSUME NEW v \in Talk, Passed(v)', raced'[{Owner[v]}] <= 1
                 PROVE  Spaced(builds', Owner[v], clock)
      BY <1>1 DEF Turns, Spaced, Older
    <3>1. CASE v = t
      BY <3>1, <2>1, <2>2
    <3>2. CASE v # t
      <4>1. Passed(v) /\ raced[{Owner[v]}] <= 1
        BY <3>2, <1>2, <2>3, OwnerAssumption
      <4> QED BY <4>1, <2>2 DEF Builds, Turns
    <3> QED BY <3>1, <3>2
  <2>6. \A b \in Account : raced'[{b}] <= 1 => Apart(builds', b)
    BY <2>2, <2>3 DEF Builds
  <2>7. Ordered(builds', clock') /\ Sums(builds', clock', Waiting', raced')
    BY <1>1, <2>2, <2>4
  <2>8. (\A b \in Account : raced[{b}] <= 1 => Apart(builds, b))'
    BY <2>6 DEF Apart
  <2> QED BY <1>6, <2>2, <2>5, <2>7, <2>8 DEF Builds
<1> QED BY <1>7, <1>8

LEMMA RecordStep ==
    ASSUME talk \in [Talk -> Call], clock \in 0..MaxClock, Builds,
           NEW t \in Talk, RecordBuild(t)
    PROVE  Builds'
<1> DEFINE a == Owner[t]
           r == Cut(builds, clock)
           l == Append(r, <<a, clock>>)
<1>1. /\ clock \in Nat /\ builds' = l /\ clock' = clock /\ a \in Account /\ raced' = raced
      /\ Passed(t) /\ ~Passed(t)'
  <2>1. clock \in Nat /\ a \in Account /\ Pruned(builds) = Cut(builds, clock)
    BY Reading, WindowAssumption, OwnerAssumption
  <2>2. /\ builds' = Append(Pruned(builds), <<a, clock>>) /\ clock' = clock /\ raced' = raced
        /\ talk[t].thread = "passed"
        /\ talk' = [talk EXCEPT ![t].thread = "running", ![t].called = TRUE]
    BY Zenon DEF RecordBuild
  <2>3. talk'[t].thread = "running"
    BY <2>2 DEF Call
  <2> QED BY <2>1, <2>2, <2>3 DEF Passed
<1>2. \A u \in Talk : u # t => (Passed(u)' <=> Passed(u))
  BY DEF RecordBuild, Passed
<1>3. /\ r \in Seq(Stamp) /\ Ordered(r, clock)
      /\ \A i \in DOMAIN r : ~Older(r[i][2], clock)
      /\ \A b : /\ Apart(builds, b) => Apart(r, b)
                /\ Spaced(builds, b, clock) => Spaced(r, b, clock)
                /\ Cardinality(Hits(r, b, Hour, clock)) = Cardinality(Hits(builds, b, Hour, clock))
                /\ Cardinality(Hits(r, b, Day, clock)) = Cardinality(Hits(builds, b, Day, clock))
  BY <1>1, PruneBuilds DEF Builds
<1> HIDE DEF r
<1>4. /\ l \in Seq(Stamp) /\ Ordered(l, clock)
      /\ Apart(r, a) /\ Spaced(r, a, clock) => Apart(l, a)
      /\ \A b : b # a => /\ Apart(r, b) => Apart(l, b)
                         /\ Spaced(r, b, clock) => Spaced(l, b, clock)
  BY <1>1, <1>3, AppendKeeps
<1>5. \A b, window : window \in Nat =>
        /\ Cardinality(Hits(r, b, window, clock)) \in Nat
        /\ Cardinality(Hits(l, b, window, clock))
             = Cardinality(Hits(r, b, window, clock)) + (IF b = a THEN 1 ELSE 0)
  <2>1. r \in Seq(Stamp) /\ a \in Account
    BY <1>1, <1>3
  <2> QED BY <2>1, AppendHits
<1>6. Len(l) = Len(r) + 1 /\ Len(r) \in Nat
  <2>1. <<a, clock>> \in Stamp
    BY <1>1 DEF Stamp
  <2> QED BY <2>1, <1>3, AppendProperties, LenProperties
<1> HIDE DEF l
<1>7. ASSUME NEW g \in Group
      PROVE  /\ IsFiniteSet(Between(g)') /\ Waiting[g] \in Nat /\ Waiting'[g] \in Nat
             /\ a \notin g => Waiting'[g] = Waiting[g]
             /\ a \in g => Waiting'[g] + 1 = Waiting[g]
             /\ Waiting[g] <= raced[g] /\ raced[g] \in Nat
             /\ Waiting'[g] = Cardinality(Between(g)')
  <2>1. IsFiniteSet(Between(g)) /\ raced[g] \in Nat /\ Cardinality(Between(g)) <= raced[g]
    BY DEF Builds, RaceOK
  <2>2. Waiting[g] = Cardinality(Between(g)) /\ Waiting'[g] = Cardinality(Between(g)')
    BY Zenon DEF Waiting
  <2> QED BY <1>1, <1>2, <2>1, <2>2, Between1
<1>8. RaceOK'
  <2>1. \A g \in Group : IsFiniteSet(Between(g)') /\ Cardinality(Between(g)') <= raced'[g]
    <3> SUFFICES ASSUME NEW g \in Group
                 PROVE  IsFiniteSet(Between(g)') /\ Cardinality(Between(g)') <= raced'[g]
      OBVIOUS
    <3>1. Waiting'[g] <= raced[g]
      BY <1>7
    <3> QED BY <3>1, <1>1, <1>7
  <2>2. raced' \in [Group -> Nat]
    BY <1>1 DEF Builds, RaceOK
  <2> QED BY <2>1, <2>2 DEF RaceOK
<1>9. Sums(l, clock, Waiting', raced)
  <2>1. Limit["buildsHour"] \in Nat /\ Limit["buildsDay"] \in Nat /\ Limit["buildsGlobal"] \in Nat
    BY Windows DEF Caps
  <2>2. \A g \in Group : Over(raced[g]) \in Nat
    BY <1>7, OverMore
  <2>3. ASSUME NEW b \in Account
        PROVE  /\ Cardinality(Hits(l, b, Hour, clock)) + Waiting'[{b}]
                    = Cardinality(Hits(builds, b, Hour, clock)) + Waiting[{b}]
               /\ Cardinality(Hits(l, b, Day, clock)) + Waiting'[{b}]
                    = Cardinality(Hits(builds, b, Day, clock)) + Waiting[{b}]
    <3>1. {b} \in Group /\ (a \in {b} <=> b = a)
      BY Groups
    <3>2. /\ Cardinality(Hits(builds, b, Hour, clock)) \in Nat
          /\ Cardinality(Hits(l, b, Hour, clock))
               = Cardinality(Hits(builds, b, Hour, clock)) + (IF b = a THEN 1 ELSE 0)
          /\ Cardinality(Hits(builds, b, Day, clock)) \in Nat
          /\ Cardinality(Hits(l, b, Day, clock))
               = Cardinality(Hits(builds, b, Day, clock)) + (IF b = a THEN 1 ELSE 0)
      BY <1>3, <1>5, Windows, Zenon
    <3>3. CASE b = a
      <4>1. Waiting'[{b}] + 1 = Waiting[{b}] /\ Waiting'[{b}] \in Nat
        BY <3>1, <3>3, <1>7
      <4> QED BY <3>2, <3>3, <4>1
    <3>4. CASE b # a
      <4>1. Waiting'[{b}] = Waiting[{b}] /\ Waiting'[{b}] \in Nat
        BY <3>1, <3>4, <1>7
      <4> QED BY <3>2, <3>4, <4>1
    <3> QED BY <3>3, <3>4
  <2>4. Len(Cut(l, clock)) + Waiting'[Account] <= Limit["buildsGlobal"] + Over(raced[Account])
    <3>1. Len(Cut(l, clock)) \in Nat /\ Len(Cut(l, clock)) <= Len(r) + 1
      BY <1>1, <1>4, <1>6, HitsNat
    <3>2. Waiting'[Account] + 1 = Waiting[Account] /\ Waiting'[Account] \in Nat
      BY <1>1, <1>7, Groups
    <3>3. Len(r) + Waiting[Account] <= Limit["buildsGlobal"] + Over(raced[Account])
      BY Zenon DEF Builds, Sums, r
    <3>4. Over(raced[Account]) \in Nat
      BY <2>2, Groups
    <3> QED BY <2>1, <3>1, <3>2, <3>3, <3>4, <1>6
  <2>5. \A b \in Account :
          /\ Cardinality(Hits(l, b, Hour, clock)) + Waiting'[{b}] <= Limit["buildsHour"] + Over(raced[{b}])
          /\ Cardinality(Hits(l, b, Day, clock)) + Waiting'[{b}] <= Limit["buildsDay"] + Over(raced[{b}])
    BY <2>3, Zenon DEF Builds, Sums
  <2> QED BY <2>4, <2>5 DEF Sums
<1>10. \A b \in Account : raced[{b}] <= 1 => Apart(l, b)
  <2> SUFFICES ASSUME NEW b \in Account, raced[{b}] <= 1 PROVE Apart(l, b)
    OBVIOUS
  <2>1. Apart(r, b)
    BY <1>3 DEF Builds
  <2>2. CASE b = a
    <3>1. Spaced(r, a, clock)
      BY <1>1, <1>3, <2>2 DEF Builds, Turns
    <3> QED BY <2>1, <2>2, <3>1, <1>4
  <2> QED BY <2>1, <2>2, <1>4
<1>11. Turns'
  <2> SUFFICES ASSUME NEW v \in Talk, Passed(v)', raced[{Owner[v]}] <= 1
               PROVE  Spaced(l, Owner[v], clock)
    BY <1>1 DEF Turns, Spaced, Older
  <2>1. v # t /\ Passed(v) /\ Owner[v] \in Account
    BY <1>1, <1>2, OwnerAssumption
  <2>2. Owner[v] # a
    <3> SUFFICES ASSUME Owner[v] = a PROVE FALSE
      OBVIOUS
    <3>1. {a} \in Group /\ raced[{a}] <= 1
      BY <1>1, Groups
    <3>2. IsFiniteSet(Between({a})) /\ Cardinality(Between({a})) <= raced[{a}] /\ raced[{a}] \in Nat
      BY <3>1 DEF Builds, RaceOK
    <3>3. Cardinality(Between({a})) \in Nat /\ Cardinality(Between({a})) > 1
      BY <2>1, <1>1, <3>2, TwoBetween
    <3> QED BY <3>1, <3>2, <3>3
  <2>3. Spaced(builds, Owner[v], clock)
    BY <2>1 DEF Builds, Turns
  <2> QED BY <2>2, <2>3, <1>3, <1>4
<1>12. builds' \in Seq(Stamp) /\ Ordered(builds', clock') /\ Sums(builds', clock', Waiting', raced')
  BY <1>1, <1>4, <1>9
<1>13. (\A b \in Account : raced[{b}] <= 1 => Apart(builds, b))'
  BY <1>1, <1>10 DEF Apart
<1> QED BY <1>8, <1>11, <1>12, <1>13 DEF Builds

LEMMA TickBuilds ==
    ASSUME clock \in 0..MaxClock, Builds, Tick PROVE Builds'
<1>1. /\ clock \in Nat /\ clock' \in Nat /\ clock <= clock' /\ builds' = builds
      /\ raced' = raced /\ talk' = talk
  BY WindowAssumption DEF Tick
<1>2. /\ builds \in Seq(Stamp) /\ Ordered(builds, clock)
      /\ \A i \in DOMAIN builds : builds[i][2] \in Nat
  BY LogFacts DEF Builds
<1>3. Ordered(builds, clock')
  <2>1. \A i \in DOMAIN builds : builds[i][2] <= clock'
    BY <1>1, <1>2 DEF Ordered
  <2> QED BY <2>1, <1>2 DEF Ordered
<1>4. ASSUME NEW a, Spaced(builds, a, clock) PROVE Spaced(builds, a, clock')
  <2> SUFFICES ASSUME NEW i \in DOMAIN builds, builds[i][1] = a, ~Older(builds[i][2], clock')
               PROVE  builds[i][2] + Limit["interval"] <= clock'
    BY DEF Spaced
  <2>1. ~Older(builds[i][2], clock)
    BY <1>1, <1>2, WindowAssumption DEF Older
  <2>2. builds[i][2] + Limit["interval"] <= clock
    BY <2>1, <1>4 DEF Spaced
  <2>3. Limit["interval"] \in Nat
    BY Windows DEF Caps
  <2> QED BY <2>2, <2>3, <1>1, <1>2
<1>5. /\ \A a, window : window \in Nat =>
             /\ Cardinality(Hits(builds, a, window, clock')) \in Nat
             /\ Cardinality(Hits(builds, a, window, clock)) \in Nat
             /\ Cardinality(Hits(builds, a, window, clock'))
                  <= Cardinality(Hits(builds, a, window, clock))
      /\ Len(Cut(builds, clock')) <= Len(Cut(builds, clock))
      /\ Len(Cut(builds, clock')) \in Nat /\ Len(Cut(builds, clock)) \in Nat
  BY <1>1, <1>2, LaterHits, HitsNat
<1>6. Between(Account)' = Between(Account) /\ \A g : Between(g)' = Between(g)
  BY <1>1 DEF Between
<1>7. Waiting' = Waiting
  BY <1>6 DEF Waiting
<1>8. RaceOK'
  BY <1>1, <1>6 DEF Builds, RaceOK
<1>9. Sums(builds, clock', Waiting, raced)
  <2>1. ASSUME NEW g \in Group PROVE Waiting[g] \in Nat /\ Over(raced[g]) \in Nat
    <3>1. IsFiniteSet(Between(g)) /\ raced[g] \in Nat
      BY DEF Builds, RaceOK
    <3>2. Cardinality(Between(g)) \in Nat /\ Waiting[g] = Cardinality(Between(g))
      BY <3>1, FS_CardinalityType DEF Waiting
    <3> QED BY <3>1, <3>2, OverMore
  <2>2. Limit["buildsHour"] \in Nat /\ Limit["buildsDay"] \in Nat /\ Limit["buildsGlobal"] \in Nat
    BY Windows DEF Caps
  <2>3. ASSUME NEW g \in Group, NEW n \in Nat, NEW m \in Nat, m <= n, NEW cap \in Nat,
               n + Waiting[g] <= cap + Over(raced[g])
        PROVE  m + Waiting[g] <= cap + Over(raced[g])
    BY <2>1, <2>3
  <2>4. ASSUME NEW a \in Account
        PROVE  /\ Cardinality(Hits(builds, a, Hour, clock')) + Waiting[{a}]
                    <= Limit["buildsHour"] + Over(raced[{a}])
               /\ Cardinality(Hits(builds, a, Day, clock')) + Waiting[{a}]
                    <= Limit["buildsDay"] + Over(raced[{a}])
    <3>1. /\ Cardinality(Hits(builds, a, Hour, clock)) + Waiting[{a}]
               <= Limit["buildsHour"] + Over(raced[{a}])
          /\ Cardinality(Hits(builds, a, Day, clock)) + Waiting[{a}]
               <= Limit["buildsDay"] + Over(raced[{a}])
      BY Zenon DEF Builds, Sums
    <3> QED BY <3>1, <1>5, <2>2, <2>3, Windows, Groups, Zenon
  <2>5. Len(Cut(builds, clock')) + Waiting[Account] <= Limit["buildsGlobal"] + Over(raced[Account])
    <3>1. Len(Cut(builds, clock)) + Waiting[Account] <= Limit["buildsGlobal"] + Over(raced[Account])
      BY Zenon DEF Builds, Sums
    <3> QED BY <3>1, <1>5, <2>2, <2>3, Groups, Zenon
  <2> QED BY <2>4, <2>5 DEF Sums
<1>10. Turns'
  BY <1>1, <1>4 DEF Builds, Turns, Passed, Spaced, Older
<1>11. Ordered(builds', clock') /\ Sums(builds', clock', Waiting', raced')
  BY <1>1, <1>3, <1>7, <1>9
<1>12. (\A a \in Account : raced[{a}] <= 1 => Apart(builds, a))'
  BY <1>1 DEF Builds, Apart
<1> QED BY <1>1, <1>2, <1>8, <1>10, <1>11, <1>12 DEF Builds

\* What is pruned is older than any window; and the threads between check and record,
\* with the builds that count, are no more than the caps and what had raced allow.
LimitInv ==
    /\ clock \in 0..MaxClock /\ requests \in Seq(Stamp) /\ served \in Seq(Stamp)
    /\ Rest(requests, served, clock) /\ RequestCaps(served, clock)
    /\ Builds

\* Every step is one of these for the limiter.
LEMMA LimiterStep ==
    ASSUME talk \in [Talk -> Call], talk' \in [Talk -> Call], [Next]_vars
    PROVE  /\ \/ clock' = clock /\ served' = served /\ requests' \in {requests, Pruned(requests)}
              \/ clock' = clock /\ \E a \in Account : RequestAllowed(a) /\ RecordRequest(a)
              \/ Tick
           /\ \/ /\ clock' = clock /\ raced' = raced
                 /\ builds' \in {builds, Pruned(builds)}
                 /\ \A t \in Talk : Passed(t)' => Passed(t)
              \/ \E t \in Talk : CheckBuild(t) \/ RecordBuild(t)
              \/ Tick
<1> DEFINE Quiet == clock' = clock /\ served' = served /\ requests' \in {requests, Pruned(requests)}
           Asked == clock' = clock /\ \E a \in Account : RequestAllowed(a) /\ RecordRequest(a)
           Idle == /\ clock' = clock /\ raced' = raced
                   /\ builds' \in {builds, Pruned(builds)}
                   /\ \A t \in Talk : Passed(t)' => Passed(t)
<1>1. CASE UNCHANGED vars
  <2>1. Quiet /\ Idle
    BY <1>1 DEF vars, edited, Passed
  <2> QED BY <2>1
<1>2. ASSUME NEW t \in Talk, Handle(t) PROVE (Quiet \/ Asked) /\ Idle
  <2>1. CASE Deny(t)
    <3>1. \A u \in Talk : talk'[u].thread = talk[u].thread
      BY <2>1 DEF Deny, Call
    <3> QED BY <2>1, <3>1, Zenon DEF Deny, Passed
  <2>2. ASSUME NEW g \in Graph, NEW clear \in BOOLEAN, OpenTalk(t, g, clear)
        PROVE  Asked /\ Idle
    <3>1. \A u \in Talk : talk'[u].thread = talk[u].thread
      <4> DEFINE others == {u \in Talk \ {t} : Owner[u] = Owner[t] /\ u \notin Once}
                 alone(u) == ~(u \in others /\ (clear \/ Open(u)))
                 own == [talk[t] EXCEPT !.pc = "open", !.graph = g,
                              !.alone = ~\E o \in others : Open(o),
                              !.data = IF clear THEN [chat[Owner[t]] EXCEPT !.messages = <<>>]
                                       ELSE chat[Owner[t]]]
      <4>1. talk' = [u \in Talk |-> IF u = t THEN own
                                    ELSE [talk[u] EXCEPT !.alone = @ /\ alone(u)]]
        BY <2>2, Zenon DEF OpenTalk
      <4>2. own.thread = talk[t].thread
        BY DEF Call
      <4> HIDE DEF own, alone, others
      <4> QED BY <4>1, <4>2 DEF Call
    <3>2. Owner[t] \in Account /\ RequestAllowed(Owner[t]) /\ RecordRequest(Owner[t])
      BY <2>2, OwnerAssumption, Zenon DEF OpenTalk
    <3>3. clock' = clock /\ raced' = raced /\ builds' = Pruned(builds)
      BY <2>2, <3>2, Zenon DEF OpenTalk, RecordRequest
    <3> QED BY <3>1, <3>2, <3>3, Zenon DEF Passed
  <2>3. CASE AskSummary(t)
    <3>1. \A u \in Talk : talk'[u].thread = talk[u].thread
      BY <2>3 DEF AskSummary, Call
    <3> QED BY <2>3, <3>1, Zenon DEF AskSummary, Passed
  <2>4. ASSUME NEW sent \in BOOLEAN, StoreGraph(t, sent) PROVE Quiet /\ Idle
    <3>1. \A u \in Talk : talk'[u].thread = talk[u].thread
      BY <2>4 DEF StoreGraph, Call
    <3> QED BY <2>4, <3>1, Zenon DEF StoreGraph, Passed
  <2>5. CASE Ask(t)
    <3>1. \A u \in Talk : talk'[u].thread \in {talk[u].thread, "running"}
      BY <2>5 DEF Ask, Call
    <3>2. clock' = clock /\ served' = served /\ requests' = requests /\ raced' = raced /\ builds' = builds
      BY <2>5, Zenon DEF Ask
    <3> QED BY <3>1, <3>2 DEF Passed
  <2>6. CASE AskOnce(t)
    <3>1. \A u \in Talk : talk'[u].thread \in {talk[u].thread, "running"}
      BY <2>6 DEF AskOnce, Call
    <3>2. Owner[t] \in Account /\ RequestAllowed(Owner[t]) /\ RecordRequest(Owner[t])
      BY <2>6, OwnerAssumption, Zenon DEF AskOnce
    <3>3. clock' = clock /\ raced' = raced /\ builds' = Pruned(builds)
      BY <2>6, <3>2, Zenon DEF AskOnce, RecordRequest
    <3> QED BY <3>1, <3>2, <3>3 DEF Passed
  <2>7. CASE Fail(t)
    <3>1. \A u \in Talk : talk'[u].thread = talk[u].thread
      BY <2>7 DEF Fail, Call
    <3> QED BY <2>7, <3>1, Zenon DEF Fail, Passed
  <2>8. ASSUME NEW raised \in BOOLEAN, Answer(t, raised) PROVE Quiet /\ Idle
    <3>1. \A u \in Talk : talk'[u].thread = talk[u].thread
      BY <2>8 DEF Answer, Call
    <3> QED BY <2>8, <3>1, Zenon DEF Answer, Passed
  <2> QED BY <1>2, <2>1, <2>2, <2>3, <2>4, <2>5, <2>6, <2>7, <2>8, Zenon DEF Handle
<1>3. ASSUME NEW t \in Talk, Run(t) PROVE Quiet /\ (Idle \/ CheckBuild(t) \/ RecordBuild(t))
  <2>1. CASE CheckBuild(t)
    BY <2>1, Zenon DEF CheckBuild
  <2>2. CASE RecordBuild(t)
    BY <2>2, Zenon DEF RecordBuild
  <2>3. CASE EndRun(t)
    <3>1. \A u \in Talk : talk'[u].thread \in {talk[u].thread, "said", "silent"}
      BY <2>3 DEF EndRun, Call
    <3>2. clock' = clock /\ served' = served /\ requests' = requests /\ raced' = raced /\ builds' = builds
      BY <2>3, Zenon DEF EndRun
    <3> QED BY <3>1, <3>2 DEF Passed
  <2> QED BY <1>3, <2>1, <2>2, <2>3, Zenon DEF Run
<1>4. ASSUME NEW a \in Account, CutChat(a) \/ ClearChat(a) PROVE Quiet /\ Idle
  <2>1. PICK d, gone : Edit(a, d, gone)
    BY <1>4, Zenon DEF CutChat, ClearChat
  <2>2. \A u \in Talk : talk'[u].thread = talk[u].thread
    BY <2>1 DEF Edit, Call
  <2> QED BY <2>1, <2>2, Zenon DEF Edit, Passed
<1> HIDE DEF Quiet, Asked, Idle
<1>5. CASE Next
  BY <1>2, <1>3, <1>4, <1>5, Zenon DEF Next, Quiet, Asked, Idle
<1> QED BY <1>1, <1>5 DEF Quiet, Asked, Idle

LEMMA InitLimits == Init => LimitInv
<1> SUFFICES ASSUME Init PROVE LimitInv
  OBVIOUS
<1>1. /\ clock \in 0..MaxClock /\ requests = <<>> /\ served = <<>> /\ builds = <<>>
      /\ clock \in Nat /\ raced = [g \in Group |-> 0]
  BY WindowAssumption DEF Init
<1>2. <<>> \in Seq(Stamp) /\ Len(<<>>) = 0 /\ DOMAIN <<>> = {}
  BY EmptySeq
<1>3. \A a, window : Cardinality(Hits(<<>>, a, window, clock)) = 0
  BY <1>2, FS_EmptySet DEF Hits
<1>4. \A t \in Talk : ~Passed(t)
  BY DEF Init, Passed
<1>5. Rest(<<>>, <<>>, clock)
  <2>1. 0 \in 0..Len(<<>>) /\ Drops(<<>>, <<>>, 0, clock)
    BY <1>2 DEF Drops
  <2> QED BY <2>1 DEF Rest
<1>6. Len(Cut(<<>>, clock)) = 0
  <2>1. Aged(<<>>, clock) = {}
    BY <1>2 DEF Aged
  <2>2. Len(Cut(<<>>, clock)) = Len(<<>>) - Cardinality(Aged(<<>>, clock))
    BY <1>1, <1>2, CutDrops
  <2>3. Cardinality(Aged(<<>>, clock)) = 0
    BY <2>1, FS_EmptySet, Zenon
  <2> QED BY <2>2, <2>3, <1>2
<1>7. \A c \in Caps : Limit[c] \in Nat
  BY Windows
<1>8. RequestCaps(<<>>, clock)
  BY <1>3, <1>6, <1>7 DEF RequestCaps, Caps
<1>9. \A g : Between(g) = {}
  BY <1>4 DEF Between, Passed
<1>10. \A g \in Group : raced[g] = 0 /\ IsFiniteSet(Between(g)) /\ Cardinality(Between(g)) = 0
  BY <1>1, <1>9, FS_EmptySet
<1>11. RaceOK
  <2>1. raced \in [Group -> Nat]
    BY <1>1
  <2> QED BY <1>10, <2>1 DEF RaceOK
<1>12. Sums(<<>>, clock, Waiting, raced)
  <2>1. \A g \in Group : Waiting[g] = 0 /\ Over(raced[g]) = 0
    BY <1>10 DEF Waiting, Over
  <2>2. Limit["buildsHour"] \in Nat /\ Limit["buildsDay"] \in Nat /\ Limit["buildsGlobal"] \in Nat
    BY <1>7 DEF Caps
  <2> QED BY <1>3, <1>6, <2>1, <2>2, Groups DEF Sums
<1>13. Builds
  <2>1. \A a : Apart(<<>>, a)
    BY <1>2 DEF Apart
  <2>2. Ordered(<<>>, clock) /\ Turns
    BY <1>2, <1>4 DEF Ordered, Turns
  <2> QED BY <1>1, <1>2, <1>11, <1>12, <2>1, <2>2 DEF Builds
<1> QED BY <1>1, <1>2, <1>5, <1>8, <1>13 DEF LimitInv

LEMMA NextLimits == IInv /\ IInv' /\ LimitInv /\ [Next]_vars => LimitInv'
<1> SUFFICES ASSUME IInv, IInv', LimitInv, [Next]_vars PROVE LimitInv'
  OBVIOUS
<1>1. talk \in [Talk -> Call] /\ talk' \in [Talk -> Call]
  BY DEF IInv, TypeInv
<1>2. /\ \/ clock' = clock /\ served' = served /\ requests' \in {requests, Pruned(requests)}
         \/ clock' = clock /\ \E a \in Account : RequestAllowed(a) /\ RecordRequest(a)
         \/ Tick
      /\ \/ /\ clock' = clock /\ raced' = raced
            /\ builds' \in {builds, Pruned(builds)}
            /\ \A t \in Talk : Passed(t)' => Passed(t)
         \/ \E t \in Talk : CheckBuild(t) \/ RecordBuild(t)
         \/ Tick
  BY <1>1, LimiterStep
<1>3. /\ clock' \in 0..MaxClock /\ requests' \in Seq(Stamp) /\ served' \in Seq(Stamp)
      /\ Rest(requests', served', clock') /\ RequestCaps(served', clock')
  BY <1>2, RequestsStep DEF LimitInv
<1>4. Builds'
  <2>1. ASSUME clock' = clock, raced' = raced, builds' \in {builds, Pruned(builds)},
               \A t \in Talk : Passed(t)' => Passed(t)
        PROVE  Builds'
    <3>1. raced \in [Group -> Nat] /\ \A g \in Group : raced[g] \in Nat
      BY DEF LimitInv, Builds, RaceOK
    <3>2. Grown
      BY <2>1, <3>1 DEF Grown
    <3> QED BY <2>1, <3>2, IdleBuilds DEF LimitInv
  <2> QED BY <1>1, <1>2, <2>1, CheckStep, RecordStep, TickBuilds, Zenon DEF LimitInv
<1> QED BY <1>3, <1>4 DEF LimitInv, Rest, Drops, RequestCaps, Hits, Cut, Aged, Older

\* In every reachable state and for any talks, accounts, caps and windows: no account
\* and not all of them together are served more requests within a window than the
\* configuration says, whatever was pruned; an account, and all of them, get no more
\* builds than that and one for every further thread that was between its check and its
\* record at the same time; and the builds of an account that had no such thread are apart.
THEOREM Limits == Spec => []LimitsKept
<1>1. Init => IInv /\ LimitInv
  BY InitIInv, InitLimits
<1>2. IInv /\ LimitInv /\ [Next]_vars => IInv' /\ LimitInv'
  BY NextIInv, NextLimits
<1>3. LimitInv => LimitsKept
  <2> SUFFICES ASSUME LimitInv PROVE LimitsKept
    OBVIOUS
  <2>1. /\ clock \in Nat /\ builds \in Seq(Stamp)
        /\ Sums(builds, clock, Waiting, raced) /\ RaceOK
    BY WindowAssumption DEF LimitInv, Builds
  <2>2. ASSUME NEW g \in Group
        PROVE  Waiting[g] \in Nat /\ Over(raced[g]) \in Nat /\ (Over(raced[g]) = 0 => raced[g] <= 1)
    <3>1. IsFiniteSet(Between(g)) /\ raced[g] \in Nat
      BY <2>1 DEF RaceOK
    <3>2. Cardinality(Between(g)) \in Nat /\ Waiting[g] = Cardinality(Between(g))
      BY <3>1, FS_CardinalityType DEF Waiting
    <3> QED BY <3>1, <3>2, OverMore
  <2>3. ASSUME NEW g \in Group, NEW n \in Nat, NEW cap \in Nat, n + Waiting[g] <= cap + Over(raced[g])
        PROVE  n <= cap + Over(raced[g])
    BY <2>2, <2>3
  <2>4. Limit["buildsHour"] \in Nat /\ Limit["buildsDay"] \in Nat /\ Limit["buildsGlobal"] \in Nat
    BY Windows DEF Caps
  <2>5. /\ \A a : /\ Cardinality(Hits(builds, a, Hour, clock)) \in Nat
                  /\ Cardinality(Hits(builds, a, Day, clock)) \in Nat
        /\ Len(Cut(builds, clock)) \in Nat
    BY <2>1, HitsNat
  <2>6. ASSUME NEW a \in Account
        PROVE  /\ Cardinality(Hits(builds, a, Hour, clock)) <= Limit["buildsHour"] + Over(raced[{a}])
               /\ Cardinality(Hits(builds, a, Day, clock)) <= Limit["buildsDay"] + Over(raced[{a}])
               /\ Over(raced[{a}]) = 0 => Apart(builds, a)
    <3>1. Over(raced[{a}]) = 0 => Apart(builds, a)
      BY <2>2, Groups DEF LimitInv, Builds
    <3> QED BY <2>1, <2>3, <2>4, <2>5, <3>1, Groups, Zenon DEF Sums
  <2>7. Len(Cut(builds, clock)) <= Limit["buildsGlobal"] + Over(raced[Account])
    BY <2>1, <2>3, <2>4, <2>5, Groups, Zenon DEF Sums
  <2> QED BY <2>6, <2>7, CapsReading, Zenon DEF LimitInv, LimitsKept
<1> QED BY <1>1, <1>2, <1>3, PTL DEF Spec

-----------------------------------------------------------------------------
\* What the limiter and the edits keep besides.
RestTyped == tokens \in Seq(0..MaxClock) /\ edits \in 0..MaxEdits

LEMMA PrunedTyped ==
    ASSUME tokens \in Seq(0..MaxClock)
    PROVE  PrunedTokens \in Seq(0..MaxClock)
<1>1. Len(tokens) \in Nat /\ DOMAIN tokens = 1..Len(tokens)
  BY LenProperties
<1>2. StaleTokens \subseteq 1..Len(tokens)
  BY <1>1 DEF StaleTokens
<1>3. IsFiniteSet(1..Len(tokens))
  BY <1>1, CountingTo
<1>4. Cardinality(StaleTokens) \in Nat
  BY <1>2, <1>3, FS_Subset, FS_CardinalityType
<1>5. ASSUME NEW k \in Nat PROVE SubSeq(tokens, k + 1, Len(tokens)) \in Seq(0..MaxClock)
  <2>1. k + 1 \in Int /\ Len(tokens) \in Int /\ \A i \in k + 1 .. Len(tokens) : i \in 1..Len(tokens)
    BY <1>1
  <2>2. \A i \in k + 1 .. Len(tokens) : tokens[i] \in 0..MaxClock
    BY <2>1, ElementOfSeq
  <2> QED BY <2>1, <2>2, SubSeqProperties
<1> QED BY <1>4, <1>5, Zenon DEF PrunedTokens

LEMMA NextTyped ==
    ASSUME RestTyped, clock \in 0..MaxClock, [Next]_vars
    PROVE  RestTyped'
<1>1. PrunedTokens \in Seq(0..MaxClock) /\ Append(PrunedTokens, clock) \in Seq(0..MaxClock)
  BY PrunedTyped, AppendProperties DEF RestTyped
<1> DEFINE Tokens == tokens' \in {tokens, PrunedTokens, Append(PrunedTokens, clock)}
           Edits == edits' = edits \/ (edits < MaxEdits /\ edits' = edits + 1)
<1>2. Tokens /\ Edits
  <2>1. CASE UNCHANGED vars
    BY <2>1 DEF vars, edited
  <2>2. ASSUME NEW t \in Talk, Handle(t) PROVE Tokens /\ Edits
    <3>1. CASE Deny(t) \/ AskSummary(t) \/ Ask(t) \/ AskOnce(t) \/ Fail(t)
      BY <3>1 DEF Deny, AskSummary, Ask, AskOnce, Fail, RecordRequest, edited
    <3>2. ASSUME NEW g \in Graph, NEW clear \in BOOLEAN, OpenTalk(t, g, clear)
          PROVE  Tokens /\ Edits
      BY <3>2 DEF OpenTalk, RecordRequest, edited
    <3>3. ASSUME NEW sent \in BOOLEAN, StoreGraph(t, sent) PROVE Tokens /\ Edits
      BY <3>3 DEF StoreGraph, edited
    <3>4. ASSUME NEW raised \in BOOLEAN, Answer(t, raised) PROVE Tokens /\ Edits
      <4>1. tokens' = IF raised THEN PrunedTokens ELSE Append(PrunedTokens, clock)
        BY <3>4, Zenon DEF Answer
      <4>2. edits' = edits
        BY <3>4, Zenon DEF Answer, edited
      <4> QED BY <4>1, <4>2
    <3> QED BY <2>2, <3>1, <3>2, <3>3, <3>4 DEF Handle
  <2>3. ASSUME NEW t \in Talk, Run(t) PROVE Tokens /\ Edits
    <3>1. CASE CheckBuild(t)
      <4>1. tokens' = PrunedTokens /\ edits' = edits
        BY <3>1, Zenon DEF CheckBuild, edited
      <4> QED BY <4>1
    <3>2. CASE RecordBuild(t) \/ EndRun(t)
      BY <3>2 DEF RecordBuild, EndRun, edited
    <3> QED BY <2>3, <3>1, <3>2 DEF Run
  <2>4. CASE Tick
    BY <2>4 DEF Tick, edited
  <2>5. ASSUME NEW a \in Account, CutChat(a) \/ ClearChat(a) PROVE Tokens /\ Edits
    BY <2>5 DEF CutChat, ClearChat, Edit
  <2> QED BY <2>1, <2>2, <2>3, <2>4, <2>5 DEF Next
<1>3. edits' \in 0..MaxEdits
  BY <1>2, WindowAssumption DEF RestTyped
<1> QED BY <1>1, <1>2, <1>3 DEF RestTyped

\* Calls, logs and chats have their types.
THEOREM Typed == Spec => []TypeOK
<1>1. Init => RestTyped
  BY WindowAssumption DEF Init, RestTyped
<1>2. IInv /\ LimitInv /\ RestTyped => TypeOK
  BY DEF IInv, TypeInv, Sound, LimitInv, Builds, RaceOK, RestTyped, TypeOK, Retention
<1>3. LimitInv /\ RestTyped /\ [Next]_vars => RestTyped'
  BY NextTyped DEF LimitInv
<1> QED BY <1>1, <1>2, <1>3, InitIInv, NextIInv, InitLimits, NextLimits, PTL DEF Spec

-----------------------------------------------------------------------------
(* Runs of the model *)

RunType ==
  [at : {"ready", "head", "pace", "sleep", "stream", "tools", "after", "ended"},
   loop : {"assistant", "builder"}, calls : 0..Flood, rounds : Nat, tools : BOOLEAN,
   left : Seq(M!Kind), executed : BOOLEAN, holes : BOOLEAN, chunks : Nat, text : Nat,
   thinking : BOOLEAN, sleeps : BOOLEAN, planned : BOOLEAN, built : 0..1]

\* A loop that is about to call may, and the tools of the assistant are only taken
\* away when the flood guard lets it call no more, so no registered call is ignored.
RunOK(x) ==
  /\ x \in RunType /\ ~x.holes
  /\ x.at \in {"pace", "sleep"} => x.calls < Flood
  /\ x.loop = "assistant" =>
       /\ x.rounds <= x.calls /\ (x.at \in {"stream", "tools"} => x.rounds < x.calls)
       /\ ~x.tools => x.rounds >= ToolRounds

\* Who sleeps holds the lock, and one that need not sleep any more still need not.
LockOK ==
  /\ mHolder \in Thread \cup {"none"} /\ mSince \in 0..Interval
  /\ \A r \in Thread : /\ mRun[r].at = "sleep" <=> mHolder = r
                       /\ mRun[r].at = "sleep" /\ ~mRun[r].sleeps => mSince = Interval

RunInv ==
  /\ mRun \in [Thread -> RunType] /\ mStop \in [Thread -> BOOLEAN]
  /\ \A r \in Thread : RunOK(mRun[r])
  /\ LockOK

\* What becomes of a run in a step of its own.
Becomes(r, new) == mRun' = [mRun EXCEPT ![r] = new]

LEMMA OneRun ==
  ASSUME RunInv, NEW r \in Thread, NEW new, RunOK(new), Becomes(r, new),
         mStop' \in [Thread -> BOOLEAN],
         mHolder' \in Thread \cup {"none"}, mSince' \in 0..Interval,
         \A q \in Thread : q # r => (mHolder' = q <=> mHolder = q),
         new.at = "sleep" <=> mHolder' = r,
         new.at = "sleep" /\ ~new.sleeps => mSince' = Interval,
         mSince' = mSince \/ \A q \in Thread : q # r => mHolder # q
  PROVE  RunInv'
<1>1. new \in RunType
  BY DEF RunOK
<1>2. mRun' \in [Thread -> RunType] /\ mRun'[r] = new /\ \A q \in Thread : q # r => mRun'[q] = mRun[q]
  BY <1>1 DEF RunInv, Becomes
<1>3. ASSUME NEW q \in Thread PROVE RunOK(mRun'[q])
  BY <1>2 DEF RunInv
<1>4. ASSUME NEW q \in Thread
      PROVE  /\ mRun'[q].at = "sleep" <=> mHolder' = q
             /\ mRun'[q].at = "sleep" /\ ~mRun'[q].sleeps => mSince' = Interval
  <2>1. CASE q = r
    BY <1>2, <2>1
  <2>2. CASE q # r
    BY <1>2, <2>2 DEF RunInv, LockOK
  <2> QED BY <2>1, <2>2
<1> QED BY <1>2, <1>3, <1>4 DEF RunInv, LockOK, RunOK, RunType

\* What is known of the run that steps.
LEMMA RunFacts ==
  ASSUME RunInv, NEW r \in Thread
  PROVE  /\ mRun[r] \in RunType /\ RunOK(mRun[r])
         /\ mStop \in [Thread -> BOOLEAN] /\ mHolder \in Thread \cup {"none"} /\ r # "none"
         /\ mSince \in 0..Interval /\ Interval \in 0..Interval /\ 0 \in 0..Interval
         /\ mRun[r].at = "sleep" <=> mHolder = r
         /\ mRun[r].at = "sleep" /\ ~mRun[r].sleeps => mSince = Interval
BY RunAssumption DEF RunInv, LockOK

\* A step of a run that has nothing to do with the lock.
LEMMA Unlocked ==
  ASSUME RunInv, NEW r \in Thread, NEW new, RunOK(new), Becomes(r, new),
         mRun[r].at # "sleep", new.at # "sleep",
         mHolder' = mHolder, mSince' = mSince, mStop' \in [Thread -> BOOLEAN]
  PROVE  RunInv'
BY RunFacts, OneRun

LEMMA HeadStep ==
  ASSUME RunInv, NEW r \in Thread, M!Begin(r) \/ M!Head_(r) \/ M!Raise(r)
  PROVE  RunInv'
<1> DEFINE x == mRun[r]
<1>1. x \in RunType /\ RunOK(x) /\ mStop \in [Thread -> BOOLEAN]
  BY RunFacts
<1>2. PICK at \in {"head", "after", "pace"} :
        /\ Becomes(r, [x EXCEPT !.at = at]) /\ x.at \in {"ready", "head", "stream"}
        /\ at = "pace" => ~(x.calls >= Flood)
  <2>1. CASE M!Begin(r)
    BY <2>1, Zenon DEF M!Begin, Becomes
  <2>2. CASE M!Raise(r)
    BY <2>2, Zenon DEF M!Raise, Becomes
  <2>3. CASE M!Head_(r)
    <3>1. CASE mStop[r] \/ M!Flooded(r)
      BY <2>3, <3>1, Zenon DEF M!Head_, Becomes
    <3>2. CASE ~(mStop[r] \/ M!Flooded(r))
      BY <2>3, <3>2, Zenon DEF M!Head_, M!Flooded, Becomes
    <3> QED BY <3>1, <3>2
  <2> QED BY <2>1, <2>2, <2>3
<1> DEFINE new == [x EXCEPT !.at = at]
<1>3. RunOK(new) /\ new.at # "sleep"
  <2>1. new \in RunType
    BY <1>1 DEF RunType
  <2>2. /\ new.at = at /\ new.loop = x.loop /\ new.calls = x.calls /\ new.rounds = x.rounds
        /\ new.tools = x.tools /\ new.holes = x.holes
    BY <1>1 DEF RunType
  <2>3. x.calls \in Nat /\ Flood \in Nat
    BY <1>1, RunAssumption DEF RunType
  <2> HIDE DEF new
  <2> QED BY <1>1, <1>2, <2>1, <2>2, <2>3 DEF RunOK
<1>4. mHolder' = mHolder /\ mSince' = mSince /\ mStop' = mStop
  BY DEF M!Begin, M!Head_, M!Raise
<1> HIDE DEF new
<1> QED BY <1>1, <1>2, <1>3, <1>4, Unlocked DEF new

LEMMA PaceStep ==
  ASSUME RunInv, NEW r \in Thread, M!Pace(r)
  PROVE  RunInv'
<1> DEFINE x == mRun[r]
<1>1. /\ RunOK(x) /\ mStop \in [Thread -> BOOLEAN]
      /\ mSince \in 0..Interval /\ mHolder \in Thread \cup {"none"}
  BY RunFacts
<1>2. PICK sleeps \in BOOLEAN :
        /\ Becomes(r, [x EXCEPT !.at = "sleep", !.sleeps = sleeps])
        /\ sleeps <=> mSince < Interval
  <2> DEFINE b == mSince < Interval
  <2>1. b \in BOOLEAN
    BY <1>1, RunAssumption
  <2>2. Becomes(r, [x EXCEPT !.at = "sleep", !.sleeps = b])
    BY Zenon DEF M!Pace, Becomes
  <2> QED BY <2>1, <2>2, Zenon
<1>3. /\ mHolder = "none" /\ mHolder' = r /\ mSince' = mSince /\ mStop' = mStop
      /\ x.at = "pace"
  BY DEF M!Pace, M!Free
<1> DEFINE new == [x EXCEPT !.at = "sleep", !.sleeps = sleeps]
<1>4. RunOK(new) /\ new.at = "sleep" /\ new.sleeps = sleeps
  BY <1>1, <1>2, <1>3 DEF RunOK, RunType
<1>5. ~sleeps => mSince = Interval
  BY <1>1, <1>2, RunAssumption
<1> HIDE DEF new
<1> QED BY <1>1, <1>2, <1>3, <1>4, <1>5, RunAssumption, OneRun DEF new

LEMMA CallStep ==
  ASSUME RunInv, NEW r \in Thread, M!Call(r)
  PROVE  RunInv' /\ mSince = Interval
<1> DEFINE x == mRun[r]
           new == [x EXCEPT !.at = "stream", !.calls = @ + 1, !.chunks = 0,
                            !.sleeps = FALSE, !.executed = FALSE]
<1>1. /\ RunOK(x) /\ mStop \in [Thread -> BOOLEAN] /\ mHolder = r /\ mSince = Interval
      /\ x.at = "sleep"
  BY RunFacts DEF M!Call
<1>2. /\ Becomes(r, new) /\ mSince' = 0 /\ mHolder' = "none" /\ mStop' = mStop
  BY DEF M!Call, Becomes
<1>3. RunOK(new) /\ new.at = "stream"
  <2>1. x.calls \in Nat /\ x.calls < Flood /\ x.calls + 1 \in 0..Flood
    BY <1>1, RunAssumption DEF RunOK, RunType
  <2>2. new \in RunType
    BY <1>1, <2>1 DEF RunOK, RunType
  <2> QED BY SMTT(30), <1>1, <2>1, <2>2 DEF RunOK, RunType
<1>4. r # "none" /\ 0 \in 0..Interval
  BY RunFacts
<1> HIDE DEF new
<1> QED BY <1>1, <1>2, <1>3, <1>4, RunAssumption, OneRun

LEMMA StreamStep ==
  ASSUME RunInv, NEW r \in Thread, M!Text(r) \/ M!Calls(r)
  PROVE  RunInv'
<1> DEFINE x == mRun[r]
<1>1. x \in RunType /\ RunOK(x) /\ mStop \in [Thread -> BOOLEAN]
  BY RunFacts
<1>2. CASE M!Text(r)
  <2>1. PICK opens \in BOOLEAN :
          Becomes(r, [x EXCEPT !.chunks = @ + 1, !.text = M!Said(r, 1), !.thinking = opens])
    BY <1>2, Zenon DEF M!Text, Becomes
  <2>2. M!Said(r, 1) \in Nat
    BY <1>1 DEF M!Said, RunType
  <2> DEFINE new == [x EXCEPT !.chunks = @ + 1, !.text = M!Said(r, 1), !.thinking = opens]
  <2>3. RunOK(new) /\ new.at = x.at
    <3>1. new \in RunType
      <4> DEFINE text == M!Said(r, 1)
                 chunks == x.chunks + 1
      <4>1. text \in Nat /\ chunks \in Nat
        BY <1>1, <2>2 DEF RunType
      <4> HIDE DEF text, chunks
      <4>2. [x EXCEPT !.chunks = chunks, !.text = text, !.thinking = opens] \in RunType
        BY <1>1, <4>1 DEF RunType
      <4> QED BY <4>2, Zenon DEF text, chunks
    <3>2. /\ new.at = x.at /\ new.loop = x.loop /\ new.calls = x.calls
          /\ new.rounds = x.rounds /\ new.tools = x.tools /\ new.holes = x.holes
      BY <1>1 DEF RunType
    <3> HIDE DEF new
    <3> QED BY <1>1, <3>1, <3>2 DEF RunOK
  <2>4. x.at = "stream" /\ mHolder' = mHolder /\ mSince' = mSince /\ mStop' = mStop
    BY <1>2 DEF M!Text
  <2> HIDE DEF new
  <2> QED BY <1>1, <2>1, <2>3, <2>4, Unlocked DEF new
<1>3. CASE M!Calls(r)
  <2>1. PICK n \in 0..MaxTools[r] : \E calls \in [1..n -> M!Kind] :
          Becomes(r, [x EXCEPT !.at = "tools", !.left = calls])
    BY <1>3, Zenon DEF M!Calls, Becomes
  <2>2. PICK calls \in [1..n -> M!Kind] : Becomes(r, [x EXCEPT !.at = "tools", !.left = calls])
    BY <2>1
  <2>3. calls \in Seq(M!Kind)
    <3>1. n \in Nat
      BY RunAssumption
    <3> QED BY <3>1, IsASeq
  <2> DEFINE new == [x EXCEPT !.at = "tools", !.left = calls]
  <2>4. x.at = "stream" /\ mHolder' = mHolder /\ mSince' = mSince /\ mStop' = mStop
    BY <1>3 DEF M!Calls
  <2>5. RunOK(new) /\ new.at = "tools"
    BY <1>1, <2>3, <2>4 DEF RunOK, RunType
  <2> HIDE DEF new
  <2> QED BY <1>1, <2>2, <2>4, <2>5, Unlocked DEF new
<1> QED BY <1>2, <1>3

LEMMA ToolStep ==
  ASSUME RunInv, NEW r \in Thread, M!Tool(r)
  PROVE  RunInv'
<1> DEFINE x == mRun[r]
           kind == Head(x.left)
           grants == kind = "build" /\ M!Executes(r, kind) /\ M!MayBuild(r)
<1>1. /\ x \in RunType /\ RunOK(x) /\ mStop \in [Thread -> BOOLEAN]
      /\ x.at = "tools" /\ x.left # <<>> /\ x.left \in Seq(M!Kind)
  BY RunFacts DEF M!Tool, RunType
<1>2. mHolder' = mHolder /\ mSince' = mSince /\ mStop' = mStop
  BY DEF M!Tool
<1>3. kind \in M!Kind /\ Tail(x.left) \in Seq(M!Kind)
  BY <1>1, HeadTailProperties
<1>4. x.loop = "assistant" => x.tools
  BY <1>1, RunAssumption DEF RunOK, RunType
<1>5. (M!Registered(r, kind) /\ ~M!Answers(r, kind)) <=> FALSE
  BY <1>4 DEF M!Registered, M!Answers, M!Executes
<1> DEFINE executed == x.executed \/ kind = "badargs" \/ M!Executes(r, kind)
           holes == x.holes \/ (M!Registered(r, kind) /\ ~M!Answers(r, kind))
           built == IF grants THEN x.built + 1 ELSE x.built
           planned == x.planned \/ grants
           new == [x EXCEPT !.left = Tail(x.left), !.executed = executed, !.holes = holes,
                            !.built = built, !.planned = planned]
<1>6. Becomes(r, new)
  BY Zenon DEF M!Tool, Becomes
<1>7. /\ executed \in BOOLEAN /\ planned \in BOOLEAN
  BY Zenon
<1>8. holes = FALSE
  BY <1>1, <1>5, Zenon DEF RunOK
<1>9. built \in 0..1
  <2>1. grants => x.built = 0
    BY Zenon DEF M!MayBuild
  <2>2. x.built \in 0..1
    BY <1>1 DEF RunType
  <2> HIDE DEF grants
  <2> QED BY <2>1, <2>2
<1> HIDE DEF executed, holes, built, planned
<1>10. new \in RunType
  BY <1>1, <1>3, <1>7, <1>8, <1>9 DEF RunType
<1>11. /\ new.at = x.at /\ new.loop = x.loop /\ new.calls = x.calls
       /\ new.rounds = x.rounds /\ new.tools = x.tools /\ new.holes = holes
  BY <1>1 DEF RunType
<1> HIDE DEF new
<1>12. RunOK(new)
  BY <1>1, <1>8, <1>10, <1>11 DEF RunOK
<1> QED BY <1>1, <1>2, <1>6, <1>11, <1>12, Unlocked

LEMMA RoundStep ==
  ASSUME RunInv, NEW r \in Thread, M!Round(r)
  PROVE  RunInv'
<1> DEFINE x == mRun[r]
           more == x.executed
           n == x.rounds + 1
           max == IF x.loop = "assistant" THEN ToolRounds ELSE 1
           at == IF more THEN "head" ELSE "after"
           rounds == IF more THEN n ELSE x.rounds
           tools == IF more /\ n >= max THEN FALSE ELSE x.tools
           new == [x EXCEPT !.at = at, !.rounds = rounds, !.tools = tools]
<1>1. /\ x \in RunType /\ RunOK(x) /\ mStop \in [Thread -> BOOLEAN]
      /\ x.at = "tools" /\ x.rounds \in Nat /\ x.tools \in BOOLEAN /\ x.calls \in Nat
  BY RunFacts, RunAssumption DEF M!Round, RunType
<1>2. mHolder' = mHolder /\ mSince' = mSince /\ mStop' = mStop
  BY DEF M!Round
<1>3. Becomes(r, new)
  BY Zenon DEF M!Round, Becomes
<1>4. /\ at \in {"head", "after"} /\ rounds \in Nat /\ tools \in BOOLEAN
  <2>1. at \in {"head", "after"}
    BY Zenon
  <2>2. n \in Nat
    BY <1>1
  <2>3. rounds \in Nat
    BY <1>1, <2>2, Zenon
  <2>4. tools \in BOOLEAN
    BY <1>1, Zenon
  <2> QED BY <2>1, <2>3, <2>4
<1>5. x.loop = "assistant" =>
        /\ rounds <= x.calls
        /\ ~tools => rounds >= ToolRounds
  BY <1>1, RunAssumption DEF RunOK
<1> HIDE DEF at, rounds, tools
<1>6. new \in RunType
  BY <1>1, <1>4 DEF RunType
<1>7. /\ new.at = at /\ new.loop = x.loop /\ new.calls = x.calls
      /\ new.rounds = rounds /\ new.tools = tools /\ new.holes = x.holes
  BY <1>1 DEF RunType
<1> HIDE DEF new
<1>8. RunOK(new)
  BY <1>1, <1>4, <1>5, <1>6, <1>7 DEF RunOK
<1>9. new.at # "sleep"
  BY <1>4, <1>7
<1> QED BY <1>1, <1>2, <1>3, <1>8, <1>9, Unlocked

LEMMA LastSteps ==
  ASSUME RunInv, NEW r \in Thread, M!Builder(r) \/ M!End(r)
  PROVE  RunInv'
<1> DEFINE x == mRun[r]
<1>1. /\ x \in RunType /\ RunOK(x) /\ mStop \in [Thread -> BOOLEAN] /\ x.at = "after"
      /\ mHolder' = mHolder /\ mSince' = mSince /\ mStop' = mStop
  BY RunFacts DEF M!Builder, M!End
<1>2. CASE M!Builder(r)
  <2> DEFINE new == [x EXCEPT !.at = "head", !.loop = "builder", !.calls = 0,
                              !.rounds = 0, !.tools = FALSE, !.holes = FALSE]
  <2>1. Becomes(r, new)
    BY <1>2, Zenon DEF M!Builder, Becomes
  <2>2. new \in RunType /\ new.at = "head" /\ new.loop = "builder" /\ new.holes = FALSE
    <3>1. 0 \in 0..Flood /\ 0 \in Nat
      BY RunAssumption
    <3>2. new \in RunType
      BY <1>1, <3>1 DEF RunType
    <3> QED BY <1>1, <3>2 DEF RunType
  <2> HIDE DEF new
  <2>3. RunOK(new)
    BY <2>2 DEF RunOK
  <2> QED BY <1>1, <2>1, <2>2, <2>3, Unlocked
<1>3. CASE M!End(r)
  <2> DEFINE text == IF x.thinking THEN x.text + 1 ELSE x.text
             new == [x EXCEPT !.at = "ended", !.thinking = FALSE, !.text = text]
  <2>1. Becomes(r, new)
    BY <1>3, Zenon DEF M!End, Becomes
  <2>2. text \in Nat
    BY <1>1 DEF RunType
  <2> HIDE DEF text
  <2>3. /\ new \in RunType /\ new.at = "ended" /\ new.loop = x.loop /\ new.calls = x.calls
        /\ new.rounds = x.rounds /\ new.tools = x.tools /\ new.holes = x.holes
    BY <1>1, <2>2 DEF RunType
  <2> HIDE DEF new
  <2>4. RunOK(new)
    BY <1>1, <2>3 DEF RunOK
  <2> QED BY <1>1, <2>1, <2>3, <2>4, Unlocked
<1> QED BY <1>2, <1>3

\* The steps that leave every run as it is.
LEMMA LockSteps ==
  ASSUME RunInv, M!Tick \/ (\E r \in Thread : M!Stop(r)) \/ UNCHANGED mVars
  PROVE  RunInv' /\ mRun' = mRun
<1>1. mSince \in Nat /\ Interval \in Nat
  BY RunAssumption DEF RunInv, LockOK
<1>2. mRun' = mRun /\ mHolder' = mHolder
  BY DEF M!Tick, M!Stop, mVars
<1>3. mStop' \in [Thread -> BOOLEAN]
  BY DEF RunInv, M!Tick, M!Stop, mVars
<1>4. mSince' \in 0..Interval /\ (mSince = Interval => mSince' = Interval)
  BY <1>1 DEF RunInv, LockOK, M!Tick, M!Stop, mVars
<1>5. \A r \in Thread : RunOK(mRun'[r])
  BY <1>2 DEF RunInv
<1>6. LockOK'
  BY <1>2, <1>4 DEF RunInv, LockOK
<1> QED BY <1>2, <1>3, <1>5, <1>6 DEF RunInv, RunOK, RunType

LEMMA InitRun == M!Init => RunInv
<1> SUFFICES ASSUME M!Init PROVE RunInv
  OBVIOUS
<1>1. \A r \in Thread : mRun[r] = M!Fresh
  BY DEF M!Init
<1>2. M!Fresh \in RunType /\ RunOK(M!Fresh)
  <2>1. 0 \in 0..Flood /\ 0 \in Nat /\ 0 \in 0..1 /\ <<>> \in Seq(M!Kind)
    BY RunAssumption
  <2>2. M!Fresh \in RunType
    BY <2>1 DEF M!Fresh, RunType
  <2> QED BY <2>2 DEF M!Fresh, RunOK
<1>3. mRun \in [Thread -> RunType]
  BY <1>1, <1>2 DEF M!Init
<1>4. mHolder = "none" /\ mSince \in 0..Interval /\ mStop \in [Thread -> BOOLEAN]
  BY RunAssumption DEF M!Init
<1>5. LockOK
  BY <1>1, <1>4, RunAssumption DEF LockOK, M!Fresh
<1> QED BY <1>1, <1>2, <1>3, <1>4, <1>5 DEF RunInv

LEMMA NextRun == RunInv /\ [M!Next]_mVars => RunInv'
<1> SUFFICES ASSUME RunInv, [M!Next]_mVars PROVE RunInv'
  OBVIOUS
<1>1. CASE M!Tick \/ (\E r \in Thread : M!Stop(r)) \/ UNCHANGED mVars
  BY <1>1, LockSteps
<1>2. ASSUME NEW r \in Thread,
             \/ M!Begin(r) \/ M!Head_(r) \/ M!Pace(r) \/ M!Call(r) \/ M!Text(r) \/ M!Calls(r)
             \/ M!Raise(r) \/ M!Tool(r) \/ M!Round(r) \/ M!Builder(r) \/ M!End(r)
      PROVE RunInv'
  BY <1>2, HeadStep, PaceStep, CallStep, StreamStep, ToolStep, RoundStep, LastSteps
<1> QED BY <1>1, <1>2 DEF M!Next

\* A new call comes when the last is an interval ago: only Call counts one.
LEMMA CallsNext ==
  ASSUME RunInv, [M!Next]_mVars
  PROVE  M!CallsPaced
<1> SUFFICES ASSUME NEW r \in Thread, mRun'[r].calls > mRun[r].calls
             PROVE mSince = Interval
  BY DEF M!CallsPaced
<1>1. mRun[r] \in RunType /\ mRun[r].calls \in Nat /\ mRun \in [Thread -> RunType]
  BY RunAssumption DEF RunInv, RunType
<1>2. mRun'[r].calls # mRun[r].calls /\ mRun'[r].calls # 0
  <2> SUFFICES ASSUME mRun'[r].calls = mRun[r].calls \/ mRun'[r].calls = 0 PROVE FALSE
    OBVIOUS
  <2> QED BY <1>1
<1>3. ASSUME NEW q \in Thread,
             \/ M!Begin(q) \/ M!Head_(q) \/ M!Pace(q) \/ M!Text(q) \/ M!Calls(q)
             \/ M!Raise(q) \/ M!Tool(q) \/ M!Round(q) \/ M!Builder(q) \/ M!End(q)
      PROVE  mRun'[r].calls \in {mRun[r].calls, 0}
  <2>1. mRun[q] \in RunType
    BY <1>1
  <2>2. CASE M!Begin(q) \/ M!Head_(q) \/ M!Pace(q) \/ M!Raise(q)
    BY <1>1, <2>1, <2>2 DEF M!Begin, M!Head_, M!Pace, M!Raise, RunType
  <2>3. CASE M!Text(q)
    BY <1>1, <2>1, <2>3 DEF M!Text, RunType
  <2>4. CASE M!Calls(q)
    BY SMTT(30), <1>1, <2>1, <2>4 DEF M!Calls, RunType
  <2>5. CASE M!Tool(q)
    BY <1>1, <2>1, <2>5 DEF M!Tool, RunType
  <2>6. CASE M!Round(q)
    BY <1>1, <2>1, <2>6 DEF M!Round, RunType
  <2>7. CASE M!Builder(q)
    BY <1>1, <2>1, <2>7 DEF M!Builder, RunType
  <2>8. CASE M!End(q)
    BY <1>1, <2>1, <2>8 DEF M!End, RunType
  <2> QED BY <1>3, <2>2, <2>3, <2>4, <2>5, <2>6, <2>7, <2>8
<1>4. ASSUME NEW q \in Thread, M!Call(q) PROVE mSince = Interval
  BY <1>4, CallStep
<1>5. CASE M!Tick \/ (\E q \in Thread : M!Stop(q)) \/ UNCHANGED mVars
  BY <1>2, <1>5, LockSteps
<1> QED BY <1>2, <1>3, <1>4, <1>5 DEF M!Next

LEMMA RunsTyped == RunInv => M!ModelRunTypeOK /\ M!HistoryAnswered
<1> SUFFICES ASSUME RunInv PROVE M!ModelRunTypeOK /\ M!HistoryAnswered
  OBVIOUS
<1>1. mHolder \in Thread \cup {"none"} /\ mSince \in 0..Interval
  BY DEF RunInv, LockOK
<1>2. ASSUME NEW r \in Thread
      PROVE  mRun[r].calls \in 0..Flood /\ mRun[r].left \in Seq(M!Kind) /\ ~mRun[r].holes
  BY RunFacts DEF RunType, RunOK
<1> QED BY <1>1, <1>2 DEF M!ModelRunTypeOK, M!HistoryAnswered

THEOREM RunInvariant == M!Spec => []RunInv
<1> QED BY InitRun, NextRun, PTL DEF M!Spec, M!vars, mVars

\* service.py, genai_helpers.py: however the runs of the model share the pace of their
\* calls, two calls to a provider are an interval apart, and whenever one is made every
\* registered tool call in the history has its answer.
THEOREM Served == M!Spec => ProviderServed
<1>1. RunInv /\ RunInv' /\ [M!Next]_mVars => [M!CallsPaced /\ M!HistoryAnswered']_mVars
  <2> SUFFICES ASSUME RunInv, RunInv', [M!Next]_mVars
               PROVE  M!CallsPaced /\ M!HistoryAnswered'
    OBVIOUS
  <2>1. M!CallsPaced
    BY CallsNext
  <2>2. M!HistoryAnswered'
    BY RunInv' DEF RunInv, RunOK, M!HistoryAnswered
  <2> QED BY <2>1, <2>2
<1> QED BY <1>1, RunInvariant, PTL DEF ProviderServed, M!ProviderServed, M!Spec, M!vars, mVars

-----------------------------------------------------------------------------
(* The refinement of RunPromise *)

Phase(x) == CASE x.at = "ready" -> "ready" [] x.at = "ended" -> "ended" [] OTHER -> "running"

\* What RunPromise sees of the runs.
phase == [r \in Thread |-> CASE mRun[r].at = "ready" -> "ready"
                           [] mRun[r].at = "ended" -> "ended"
                           [] OTHER                -> "running"]
said  == [r \in Thread |-> mRun[r].text]
built == [r \in Thread |-> mRun[r].built]

\* A step that changes one run changes what is seen of that run alone.
LEMMA Seen ==
  ASSUME RunInv, NEW r \in Thread, NEW new, Becomes(r, new)
  PROVE  /\ phase' = [phase EXCEPT ![r] = Phase(new)]
         /\ said' = [said EXCEPT ![r] = new.text]
         /\ built' = [built EXCEPT ![r] = new.built]
         /\ phase[r] = Phase(mRun[r]) /\ said[r] = mRun[r].text /\ built[r] = mRun[r].built
<1>1. mRun' = [mRun EXCEPT ![r] = new] /\ mRun \in [Thread -> RunType]
  BY DEF Becomes, RunInv
<1>2. mRun'[r] = new /\ \A q \in Thread : q # r => mRun'[q] = mRun[q]
  BY <1>1
<1>3. phase' = [phase EXCEPT ![r] = Phase(new)]
  BY <1>2, Zenon DEF phase, Phase
<1>4. said' = [said EXCEPT ![r] = new.text]
  BY <1>2, Zenon DEF said
<1>5. built' = [built EXCEPT ![r] = new.built]
  BY <1>2, Zenon DEF built
<1>6. phase[r] = Phase(mRun[r])
  BY Zenon DEF phase, Phase
<1>7. said[r] = mRun[r].text /\ built[r] = mRun[r].built
  BY DEF said, built
<1> QED BY <1>3, <1>4, <1>5, <1>6, <1>7

\* Nothing of the run that its talk sees has changed.
LEMMA Unseen ==
  ASSUME RunInv, NEW r \in Thread, NEW new, Becomes(r, new),
         Phase(new) = Phase(mRun[r]), new.text = mRun[r].text, new.built = mRun[r].built,
         mStop' = mStop
  PROVE  UNCHANGED <<phase, said, built, mStop>>
<1>0. /\ phase' = [phase EXCEPT ![r] = Phase(new)] /\ phase[r] = Phase(mRun[r])
      /\ said' = [said EXCEPT ![r] = new.text] /\ said[r] = mRun[r].text
      /\ built' = [built EXCEPT ![r] = new.built] /\ built[r] = mRun[r].built
  BY Seen
<1>1. phase' = [phase EXCEPT ![r] = phase[r]]
  BY <1>0, Zenon
<1>2. said' = [said EXCEPT ![r] = said[r]] /\ built' = [built EXCEPT ![r] = built[r]]
  BY <1>0, Zenon
<1>3. phase' = phase /\ said' = said /\ built' = built
  BY <1>1, <1>2, Zenon DEF phase, said, built
<1> QED BY <1>3

LEMMA PromisedInit == M!Init => M!Promise!Init
<1> SUFFICES ASSUME M!Init PROVE M!Promise!Init
  OBVIOUS
<1>1. \A r \in Thread : mRun[r] = M!Fresh
  BY DEF M!Init
<1>2. phase = [r \in Thread |-> "ready"] /\ said = [r \in Thread |-> 0] /\ built = [r \in Thread |-> 0]
  BY <1>1 DEF phase, said, built, M!Fresh
<1>3. mStop = [r \in Thread |-> FALSE]
  BY DEF M!Init
<1> QED BY <1>2, <1>3 DEF M!Promise!Init, phase, said, built

\* A run of the model begins, or goes on with nothing its talk sees.
LEMMA PromisedHead ==
  ASSUME RunInv, NEW r \in Thread, M!Begin(r)
  PROVE  M!Promise!Begin(r)
<1> DEFINE x == mRun[r]
           new == [x EXCEPT !.at = "head"]
<1>1. x \in RunType /\ x.at = "ready" /\ mStop' = mStop
  BY RunFacts DEF M!Begin
<1>2. Becomes(r, new)
  BY Zenon DEF M!Begin, Becomes
<1>3. new.at = "head" /\ new.text = x.text /\ new.built = x.built
  BY <1>1 DEF RunType
<1> HIDE DEF new
<1>4. /\ phase[r] = "ready" /\ phase' = [phase EXCEPT ![r] = "running"]
      /\ said' = [said EXCEPT ![r] = said[r]] /\ built' = [built EXCEPT ![r] = built[r]]
  BY <1>1, <1>2, <1>3, Seen DEF Phase
<1>5. said' = said /\ built' = built
  BY <1>4, Zenon DEF said, built
<1> QED BY <1>1, <1>4, <1>5, Zenon DEF M!Promise!Begin, phase, said, built

LEMMA Within ==
  ASSUME RunInv, NEW r \in Thread, NEW new, Becomes(r, new),
         mRun[r].at \notin {"ready", "ended"}, new.at \notin {"ready", "ended"},
         new.text = mRun[r].text, new.built = mRun[r].built, mStop' = mStop
  PROVE  UNCHANGED <<phase, said, built, mStop>>
BY Unseen DEF Phase

LEMMA PromisedQuiet ==
  ASSUME RunInv, NEW r \in Thread,
         M!Head_(r) \/ M!Pace(r) \/ M!Call(r) \/ M!Calls(r) \/ M!Raise(r) \/ M!Round(r) \/ M!Builder(r)
  PROVE  UNCHANGED <<phase, said, built, mStop>>
<1> DEFINE x == mRun[r]
<1>1. x \in RunType
  BY RunFacts
<1>0. x.at \notin {"ready", "ended"} /\ mStop' = mStop
  BY DEF M!Head_, M!Pace, M!Call, M!Calls, M!Raise, M!Round, M!Builder
<1>2. CASE M!Head_(r)
  <2>1. PICK at \in {"after", "pace"} : Becomes(r, [x EXCEPT !.at = at])
    BY <1>2, Zenon DEF M!Head_, Becomes
  <2> DEFINE new == [x EXCEPT !.at = at]
  <2>2. Becomes(r, new) /\ new.at = at /\ new.text = x.text /\ new.built = x.built
    BY <1>1, <2>1 DEF RunType
  <2> HIDE DEF new
  <2> QED BY <1>0, <2>2, Within
<1>3. CASE M!Pace(r)
  <2>1. PICK sleeps : Becomes(r, [x EXCEPT !.at = "sleep", !.sleeps = sleeps])
    BY <1>3, Zenon DEF M!Pace, Becomes
  <2> DEFINE new == [x EXCEPT !.at = "sleep", !.sleeps = sleeps]
  <2>2. Becomes(r, new) /\ new.at = "sleep" /\ new.text = x.text /\ new.built = x.built
    BY <1>1, <2>1 DEF RunType
  <2> HIDE DEF new
  <2> QED BY <1>0, <2>2, Within
<1>4. CASE M!Call(r)
  <2> DEFINE new == [x EXCEPT !.at = "stream", !.calls = @ + 1, !.chunks = 0,
                              !.sleeps = FALSE, !.executed = FALSE]
  <2>1. Becomes(r, new)
    BY <1>4, Zenon DEF M!Call, Becomes
  <2>2. new.at = "stream" /\ new.text = x.text /\ new.built = x.built
    BY <1>1 DEF RunType
  <2> HIDE DEF new
  <2> QED BY <1>0, <2>1, <2>2, Within
<1>5. CASE M!Calls(r)
  <2>1. PICK calls : Becomes(r, [x EXCEPT !.at = "tools", !.left = calls])
    BY <1>5, Zenon DEF M!Calls, Becomes
  <2> DEFINE new == [x EXCEPT !.at = "tools", !.left = calls]
  <2>2. Becomes(r, new) /\ new.at = "tools" /\ new.text = x.text /\ new.built = x.built
    BY <1>1, <2>1 DEF RunType
  <2> HIDE DEF new
  <2> QED BY <1>0, <2>2, Within
<1>6. CASE M!Raise(r)
  <2> DEFINE new == [x EXCEPT !.at = "after"]
  <2>1. Becomes(r, new)
    BY <1>6, Zenon DEF M!Raise, Becomes
  <2>2. new.at = "after" /\ new.text = x.text /\ new.built = x.built
    BY <1>1 DEF RunType
  <2> HIDE DEF new
  <2> QED BY <1>0, <2>1, <2>2, Within
<1>7. CASE M!Round(r)
  <2> DEFINE more == x.executed
             max == IF x.loop = "assistant" THEN ToolRounds ELSE 1
             at == IF more THEN "head" ELSE "after"
             rounds == IF more THEN x.rounds + 1 ELSE x.rounds
             tools == IF more /\ x.rounds + 1 >= max THEN FALSE ELSE x.tools
  <2>1. at \in {"head", "after"}
    BY Zenon
  <2>2. Becomes(r, [x EXCEPT !.at = at, !.rounds = rounds, !.tools = tools])
    BY <1>7, Zenon DEF M!Round, Becomes
  <2> HIDE DEF at, rounds, tools
  <2> DEFINE new == [x EXCEPT !.at = at, !.rounds = rounds, !.tools = tools]
  <2>3. Becomes(r, new) /\ new.at = at /\ new.text = x.text /\ new.built = x.built
    BY <1>1, <2>2 DEF RunType
  <2> HIDE DEF new
  <2> QED BY <1>0, <2>1, <2>3, Within
<1>8. CASE M!Builder(r)
  <2> DEFINE new == [x EXCEPT !.at = "head", !.loop = "builder", !.calls = 0,
                              !.rounds = 0, !.tools = FALSE, !.holes = FALSE]
  <2>1. Becomes(r, new)
    BY <1>8, Zenon DEF M!Builder, Becomes
  <2>2. new.at = "head" /\ new.text = x.text /\ new.built = x.built
    BY <1>1 DEF RunType
  <2> HIDE DEF new
  <2> QED BY <1>0, <2>1, <2>2, Within
<1> QED BY <1>2, <1>3, <1>4, <1>5, <1>6, <1>7, <1>8

LEMMA PromisedText ==
  ASSUME RunInv, NEW r \in Thread, M!Text(r)
  PROVE  M!Promise!Say(r)
<1> DEFINE x == mRun[r]
<1>1. x \in RunType /\ x.at = "stream" /\ ~mStop[r] /\ mStop' = mStop
  BY RunFacts DEF M!Text
<1>2. PICK opens : Becomes(r, [x EXCEPT !.chunks = @ + 1, !.text = M!Said(r, 1), !.thinking = opens])
  BY Zenon DEF M!Text, Becomes
<1> DEFINE new == [x EXCEPT !.chunks = @ + 1, !.text = M!Said(r, 1), !.thinking = opens]
<1>3. M!Said(r, 1) = x.text + 1
  BY <1>1 DEF M!Said
<1>4. Becomes(r, new) /\ new.at = x.at /\ new.text = M!Said(r, 1) /\ new.built = x.built
  BY <1>1, <1>2 DEF RunType
<1> HIDE DEF new
<1>5. /\ phase' = [phase EXCEPT ![r] = phase[r]] /\ phase[r] = "running"
      /\ said' = [said EXCEPT ![r] = said[r] + 1] /\ built' = [built EXCEPT ![r] = built[r]]
  BY <1>1, <1>3, <1>4, Seen DEF Phase
<1>6. phase' = phase /\ built' = built
  BY <1>5, Zenon DEF phase, built
<1> QED BY <1>1, <1>5, <1>6, Zenon DEF M!Promise!Say, phase, said, built

LEMMA PromisedTool ==
  ASSUME RunInv, NEW r \in Thread, M!Tool(r)
  PROVE  M!Promise!Build(r) \/ UNCHANGED <<phase, said, built, mStop>>
<1> DEFINE x == mRun[r]
           kind == Head(x.left)
           grants == kind = "build" /\ M!Executes(r, kind) /\ M!MayBuild(r)
<1>1. x \in RunType /\ x.at = "tools" /\ mStop' = mStop
  BY RunFacts DEF M!Tool
<1> DEFINE executed == x.executed \/ kind = "badargs" \/ M!Executes(r, kind)
           holes == x.holes \/ (M!Registered(r, kind) /\ ~M!Answers(r, kind))
           planned == x.planned \/ grants
<1>2. Becomes(r, [x EXCEPT !.left = Tail(x.left), !.executed = executed, !.holes = holes,
                           !.built = IF grants THEN x.built + 1 ELSE x.built,
                           !.planned = planned])
  BY Zenon DEF M!Tool, Becomes
<1> HIDE DEF executed, holes, planned, grants
<1>3. CASE ~grants
  <2> DEFINE new == [x EXCEPT !.left = Tail(x.left), !.executed = executed, !.holes = holes,
                              !.built = x.built, !.planned = planned]
  <2>1. Becomes(r, new)
    BY <1>2, <1>3, Zenon
  <2>2. new.at = x.at /\ new.text = x.text /\ new.built = x.built
    BY <1>1 DEF RunType
  <2> HIDE DEF new
  <2> QED BY <1>1, <2>1, <2>2, Unseen DEF Phase
<1>4. CASE grants
  <2> DEFINE new == [x EXCEPT !.left = Tail(x.left), !.executed = executed, !.holes = holes,
                              !.built = x.built + 1, !.planned = planned]
  <2>1. Becomes(r, new)
    BY <1>2, <1>4, Zenon
  <2>2. new.at = x.at /\ new.text = x.text /\ new.built = x.built + 1
    BY <1>1 DEF RunType
  <2>3. x.built = 0 /\ ~mStop[r]
    BY <1>4, Zenon DEF M!MayBuild, grants
  <2> HIDE DEF new
  <2>4. /\ phase' = [phase EXCEPT ![r] = phase[r]] /\ phase[r] = "running"
        /\ said' = [said EXCEPT ![r] = said[r]]
        /\ built' = [built EXCEPT ![r] = 1] /\ built[r] = 0
    BY <1>1, <2>1, <2>2, <2>3, Seen DEF Phase
  <2>5. phase' = phase /\ said' = said
    BY <2>4, Zenon DEF phase, said
  <2>6. M!Promise!Build(r)
    BY <1>1, <2>3, <2>4, <2>5, Zenon DEF M!Promise!Build, phase, said, built
  <2> QED BY <2>6
<1> QED BY <1>3, <1>4

LEMMA PromisedEnd ==
  ASSUME RunInv, NEW r \in Thread, M!End(r)
  PROVE  M!Promise!End(r)
<1> DEFINE x == mRun[r]
           text == IF x.thinking THEN x.text + 1 ELSE x.text
           new == [x EXCEPT !.at = "ended", !.thinking = FALSE, !.text = text]
<1>1. x \in RunType /\ x.at = "after" /\ mStop' = mStop
  BY RunFacts DEF M!End
<1>2. Becomes(r, new)
  BY Zenon DEF M!End, Becomes
<1>3. text = x.text \/ text = x.text + 1
  BY Zenon
<1> HIDE DEF text
<1>4. new.at = "ended" /\ new.text = text /\ new.built = x.built
  BY <1>1 DEF RunType
<1> HIDE DEF new
<1>5. /\ phase[r] = "running" /\ phase' = [phase EXCEPT ![r] = "ended"]
      /\ built' = [built EXCEPT ![r] = built[r]]
      /\ said' = [said EXCEPT ![r] = said[r]] \/ said' = [said EXCEPT ![r] = said[r] + 1]
  BY <1>1, <1>2, <1>3, <1>4, Seen DEF Phase
<1>6. built' = built /\ (said' = [said EXCEPT ![r] = said[r]] => said' = said)
  BY <1>5, Zenon DEF said, built
<1> QED BY <1>1, <1>5, <1>6, Zenon DEF M!Promise!End, phase, said, built

LEMMA PromisedLock ==
  ASSUME RunInv, M!Tick \/ (\E r \in Thread : M!Stop(r)) \/ UNCHANGED mVars
  PROVE  (\E r \in Thread : M!Promise!Stop(r)) \/ UNCHANGED <<phase, said, built, mStop>>
<1>1. mRun' = mRun
  BY LockSteps
<1>2. phase' = phase /\ said' = said /\ built' = built
  BY <1>1 DEF phase, said, built
<1>3. CASE M!Tick \/ UNCHANGED mVars
  BY <1>2, <1>3 DEF M!Tick, mVars
<1>4. ASSUME NEW r \in Thread, M!Stop(r) PROVE M!Promise!Stop(r)
  <2>1. mRun[r].at # "ready" /\ mStop' = [mStop EXCEPT ![r] = TRUE]
    BY <1>4 DEF M!Stop
  <2>2. phase[r] # "ready"
    BY <2>1 DEF phase
  <2> QED BY <1>2, <2>1, <2>2, Zenon DEF M!Promise!Stop, phase, said, built
<1> QED BY <1>3, <1>4

LEMMA PromisedNext ==
  RunInv /\ [M!Next]_mVars => [M!Promise!Next]_<<phase, said, built, mStop>>
<1> SUFFICES ASSUME RunInv, [M!Next]_mVars
             PROVE  M!Promise!Next \/ UNCHANGED <<phase, said, built, mStop>>
  OBVIOUS
<1>1. CASE M!Tick \/ (\E r \in Thread : M!Stop(r)) \/ UNCHANGED mVars
  BY <1>1, PromisedLock DEF M!Promise!Next
<1>2. ASSUME NEW r \in Thread,
             M!Begin(r) \/ M!Head_(r) \/ M!Pace(r) \/ M!Call(r) \/ M!Text(r) \/ M!Calls(r)
               \/ M!Raise(r) \/ M!Tool(r) \/ M!Round(r) \/ M!Builder(r) \/ M!End(r)
      PROVE  M!Promise!Next \/ UNCHANGED <<phase, said, built, mStop>>
  BY <1>2, PromisedHead, PromisedQuiet, PromisedText, PromisedTool, PromisedEnd DEF M!Promise!Next
<1> QED BY <1>1, <1>2 DEF M!Next

\* service.py: a run of the model, with its rounds, tools, errors and pace, is to its
\* talk what RunPromise says: it speaks until it is stopped, builds at most once and
\* ends once, with at most the closing of a tag after the stop.
THEOREM Promised == M!Spec => KeepsPromise
<1>1. RunInv /\ [M!Next]_mVars => [M!Promise!Next]_(M!Promise!vars)
  BY PromisedNext, Zenon DEF M!Promise!vars, phase, said, built
<1> QED BY <1>1, PromisedInit, RunInvariant, PTL
        DEF KeepsPromise, M!KeepsPromise, M!Promise!Spec, M!Spec, M!vars, mVars

-----------------------------------------------------------------------------
(* Talks of the API service *)

ApiMessage == [role : {"user", "model"}, of : Client]
Version == ApiGraph \cup {NoGraph}
DocType == [messages : Seq(ApiMessage), graph : Version, hash : Version, last : Seq(ApiMessage)]
AskerType == [at : {"new", "hello", "asking", "stored", "talking", "over"}, graph : Version,
              sends : BOOLEAN, data : DocType]
JobType == [at : {"none", "head", "stream", "after", "ended"}, loop : {"narrator", "builder"},
            calls : 0..ApiFlood, rounds : Nat, tools : BOOLEAN,
            plan : {"none", "plan", "auto"}, built : 0..1]

Asked(s, n, w) == \E j \in 1..n : s[j] = T!Question(w)

\* Every answer is behind its question.
Behind(s) == \A i \in 1..Len(s) : s[i].role = "model" => Asked(s, i - 1, s[i].of)

DocOK(d) == d \in DocType /\ Behind(d.messages) /\ d.hash = d.graph

\* A talk that waits for its answer has its question in its own copy of the chat: the
\* answer is stored together with that copy, whatever others stored meanwhile.
AskerOK(x, w) ==
  /\ x \in AskerType /\ DocOK(x.data)
  /\ x.at = "talking" => Asked(x.data.messages, Len(x.data.messages), w)

\* A round follows each call that ran tools, and the last round has none.
JobOK(x) ==
  /\ x \in JobType
  /\ x.loop = "narrator" =>
       /\ x.rounds <= ApiToolRounds /\ (x.tools => x.rounds < ApiToolRounds)
       /\ x.calls <= x.rounds + 1 /\ (x.at = "head" => x.calls = x.rounds)
       /\ x.at = "stream" => x.calls = x.rounds + 1
  /\ x.loop = "builder" =>
       ~x.tools /\ x.calls <= 1 /\ (x.at = "head" => x.calls = 0)

\* A job is started once, for the question.
ApiInv ==
  /\ DocOK(tDoc)
  /\ tTalk \in [Client -> AskerType] /\ \A w \in Client : AskerOK(tTalk[w], w)
  /\ tRun \in [Client -> JobType] /\ \A w \in Client : JobOK(tRun[w])
  /\ \A w \in Client : tTalk[w].at \notin {"talking", "over"} => tRun[w] = T!Fresh
  /\ tStop \in [Client -> BOOLEAN] /\ tLoop \in Client \cup {LoopFree}

LEMMA Appended ==
  ASSUME NEW s \in Seq(ApiMessage), Behind(s), NEW m \in ApiMessage,
         m.role = "model" => Asked(s, Len(s), m.of)
  PROVE  /\ Append(s, m) \in Seq(ApiMessage) /\ Behind(Append(s, m))
         /\ \A w \in Client : m = T!Question(w) =>
              Asked(Append(s, m), Len(Append(s, m)), w)
<1> DEFINE t == Append(s, m)
<1>1. /\ t \in Seq(ApiMessage) /\ Len(s) \in Nat /\ Len(t) = Len(s) + 1
      /\ t[Len(s) + 1] = m /\ \A i \in 1..Len(s) : t[i] = s[i]
  BY AppendProperties, LenProperties
<1> HIDE DEF t
<1>2. ASSUME NEW n \in 0..Len(s), NEW w, Asked(s, n, w) PROVE Asked(t, n, w)
  <2>1. PICK j \in 1..n : s[j] = T!Question(w)
    BY <1>2 DEF Asked
  <2>2. t[j] = s[j]
    BY <1>1
  <2> QED BY <2>1, <2>2 DEF Asked
<1>3. ASSUME NEW i \in 1..Len(t), t[i].role = "model" PROVE Asked(t, i - 1, t[i].of)
  <2>1. CASE i = Len(s) + 1
    BY <1>1, <1>2, <1>3, <2>1
  <2>2. CASE i # Len(s) + 1
    <3>1. i \in 1..Len(s) /\ i - 1 \in 0..Len(s)
      BY <1>1, <2>2
    <3>2. t[i] = s[i] /\ Asked(s, i - 1, s[i].of)
      BY <1>1, <1>3, <3>1 DEF Behind
    <3> QED BY <1>2, <3>1, <3>2
  <2> QED BY <2>1, <2>2
<1>4. ASSUME NEW w \in Client, m = T!Question(w) PROVE Asked(t, Len(t), w)
  <2>1. Len(t) \in 1..Len(t) /\ t[Len(t)] = T!Question(w)
    BY <1>1, <1>4
  <2> QED BY <2>1 DEF Asked
<1> QED BY <1>1, <1>3, <1>4 DEF Behind, t

\* What a rollback leaves is a prefix.
LEMMA Rolled ==
  ASSUME NEW s \in Seq(ApiMessage), Behind(s), NEW id
  PROVE  T!Upto(s, id) \in Seq(ApiMessage) /\ Behind(T!Upto(s, id))
<1> DEFINE found == {i \in DOMAIN s : s[i] = id}
<1>1. CASE found = {}
  BY <1>1 DEF T!Upto
<1>2. CASE found # {}
  <2> DEFINE n == CHOOSE i \in found : TRUE
  <2>1. n \in found
    BY <1>2
  <2>2. n \in 1..Len(s)
    BY <2>1, LenProperties
  <2>3. T!Upto(s, id) = SubSeq(s, 1, n)
    BY <1>2, Zenon DEF T!Upto
  <2> HIDE DEF n, found
  <2> DEFINE t == SubSeq(s, 1, n)
  <2>4. t \in Seq(ApiMessage) /\ Len(t) = n /\ \A i \in 1..n : t[i] = s[i]
    <3>1. n \in Nat /\ Len(s) \in Nat /\ n <= Len(s) /\ n >= 1
      BY <2>2, LenProperties
    <3> QED BY <3>1, SubSeqProperties
  <2> HIDE DEF t
  <2>5. ASSUME NEW i \in 1..n, t[i].role = "model" PROVE Asked(t, i - 1, t[i].of)
    <3>1. i \in 1..Len(s) /\ t[i] = s[i]
      BY <2>2, <2>4, LenProperties
    <3>2. Asked(s, i - 1, s[i].of)
      BY <2>5, <3>1 DEF Behind
    <3>3. PICK j \in 1..(i - 1) : s[j] = T!Question(s[i].of)
      BY <3>2 DEF Asked
    <3>4. j \in 1..n
      BY <2>2, LenProperties
    <3>5. t[j] = s[j]
      BY <2>4, <3>4
    <3> QED BY <3>1, <3>3, <3>5 DEF Asked
  <2> QED BY <2>3, <2>4, <2>5 DEF Behind, t
<1> QED BY <1>1, <1>2

LEMMA NoMessages == <<>> \in Seq(ApiMessage) /\ Behind(<<>>)
BY DEF Behind

LEMMA Updated ==
  ASSUME DocOK(tDoc), NEW data, DocOK(data), T!Update(data)
  PROVE  tDoc' = data
BY DEF T!Update, DocOK, DocType

LEMMA Written ==
  ASSUME NEW d, DocOK(d), NEW s \in Seq(ApiMessage), Behind(s)
  PROVE  DocOK([d EXCEPT !.messages = s])
<1> DEFINE new == [d EXCEPT !.messages = s]
<1>1. new \in DocType /\ new.messages = s /\ new.hash = d.hash /\ new.graph = d.graph
  BY DEF DocOK, DocType
<1> HIDE DEF new
<1> QED BY <1>1 DEF DocOK, new

LEMMA Marked ==
  ASSUME NEW d, DocOK(d), NEW last \in Seq(ApiMessage)
  PROVE  DocOK([d EXCEPT !.last = last])
<1> DEFINE new == [d EXCEPT !.last = last]
<1>1. new \in DocType /\ new.messages = d.messages /\ new.hash = d.hash /\ new.graph = d.graph
  BY DEF DocOK, DocType
<1> HIDE DEF new
<1> QED BY <1>1 DEF DocOK, new

LEMMA ApiFacts ==
  ASSUME ApiInv, NEW w \in Client
  PROVE  /\ DocOK(tDoc) /\ tDoc \in DocType
         /\ AskerOK(tTalk[w], w) /\ tTalk[w] \in AskerType /\ DocOK(tTalk[w].data)
         /\ JobOK(tRun[w]) /\ tRun[w] \in JobType
         /\ tTalk[w].at \notin {"talking", "over"} => tRun[w] = T!Fresh
         /\ tStop \in [Client -> BOOLEAN] /\ tLoop \in Client \cup {LoopFree}
BY DEF ApiInv, AskerOK, JobOK, DocOK

LEMMA OneAsker ==
  ASSUME ApiInv, NEW w \in Client, NEW x, AskerOK(x, w), tTalk' = [tTalk EXCEPT ![w] = x],
         DocOK(tDoc'), x.at \notin {"talking", "over"} => tRun[w] = T!Fresh,
         tRun' = tRun, tStop' \in [Client -> BOOLEAN], tLoop' \in Client \cup {LoopFree}
  PROVE  ApiInv'
<1>1. x \in AskerType
  BY DEF AskerOK
<1>2. /\ tTalk' \in [Client -> AskerType] /\ tTalk'[w] = x
      /\ \A v \in Client : v # w => tTalk'[v] = tTalk[v]
  BY <1>1 DEF ApiInv
<1>3. ASSUME NEW v \in Client
      PROVE  /\ AskerOK(tTalk'[v], v) /\ JobOK(tRun'[v])
             /\ tTalk'[v].at \notin {"talking", "over"} => tRun'[v] = T!Fresh
  BY <1>2 DEF ApiInv
<1>4. tRun' \in [Client -> JobType]
  BY DEF ApiInv
<1> QED BY <1>2, <1>3, <1>4 DEF ApiInv, DocOK, AskerOK, JobOK

LEMMA OneJob ==
  ASSUME ApiInv, NEW w \in Client, NEW x, JobOK(x), tRun' = [tRun EXCEPT ![w] = x],
         tRun[w].at # "none", UNCHANGED <<tDoc, tTalk, tStop, tLoop>>
  PROVE  ApiInv'
<1>1. x \in JobType /\ tTalk[w].at \in {"talking", "over"}
  BY ApiFacts DEF JobOK, T!Fresh
<1>2. /\ tRun' \in [Client -> JobType] /\ tRun'[w] = x
      /\ \A v \in Client : v # w => tRun'[v] = tRun[v]
  BY <1>1 DEF ApiInv
<1>3. ASSUME NEW v \in Client
      PROVE  /\ AskerOK(tTalk'[v], v) /\ JobOK(tRun'[v])
             /\ tTalk'[v].at \notin {"talking", "over"} => tRun'[v] = T!Fresh
  BY <1>1, <1>2 DEF ApiInv
<1> QED BY <1>2, <1>3 DEF ApiInv, DocOK, AskerOK, JobOK

\* The talk has its chat, in an early or the last state of its handler.
LEMMA Handled ==
  ASSUME NEW w \in Client, NEW x \in AskerType, DocOK(x.data), x.at # "talking"
  PROVE  AskerOK(x, w)
BY DEF AskerOK

LEMMA Emptied == DocOK(T!Empty) /\ T!Empty \in DocType
BY NoMessages DEF DocOK, DocType, Version, T!Empty

LEMMA Gone == ASSUME NEW w \in Client PROVE AskerOK(T!Over, w) /\ T!Over.at = "over" /\ AskerOK(T!Idle, w)
<1>1. T!Idle \in AskerType /\ T!Idle.data = T!Empty /\ T!Idle.at = "new"
  BY Emptied DEF T!Idle, AskerType, Version
<1>2. T!Over \in AskerType /\ T!Over.data = T!Empty /\ T!Over.at = "over"
  BY <1>1, Zenon DEF T!Over, AskerType, T!Idle
<1> QED BY <1>1, <1>2, Handled, Emptied

LEMMA ApiOpenStep ==
  ASSUME ApiInv, NEW w \in Client, T!Open(w)
  PROVE  ApiInv'
<1>1. PICK g \in ApiGraph, sends \in BOOLEAN, clear \in BOOLEAN :
        tTalk' = [tTalk EXCEPT ![w] = [at |-> "hello", graph |-> g, sends |-> sends,
                    data |-> IF clear THEN [tDoc EXCEPT !.messages = <<>>] ELSE tDoc]]
  BY Zenon DEF T!Open
<1> DEFINE data == IF clear THEN [tDoc EXCEPT !.messages = <<>>] ELSE tDoc
           x == [at |-> "hello", graph |-> g, sends |-> sends, data |-> data]
<1>2. DocOK(data)
  BY ApiFacts, Written, NoMessages
<1>3. data \in DocType
  BY <1>2 DEF DocOK
<1> HIDE DEF data
<1>4. x \in AskerType /\ x.at = "hello" /\ x.data = data
  BY <1>3 DEF AskerType, Version
<1>5. /\ UNCHANGED <<tDoc, tRun, tStop, tLoop>> /\ tTalk[w].at = "new"
  BY DEF T!Open, T!At
<1>6. tTalk' = [tTalk EXCEPT ![w] = x]
  BY <1>1, Zenon DEF data
<1> HIDE DEF x
<1>7. AskerOK(x, w)
  BY <1>2, <1>4, Handled
<1> QED BY <1>4, <1>5, <1>6, <1>7, ApiFacts, OneAsker

\* The steps that store the handler's copy before the question.
LEMMA ApiStoreStep ==
  ASSUME ApiInv, NEW w \in Client, NEW data, DocOK(data), T!Store(w, data, "stored"),
         tTalk[w].at \in {"hello", "asking"}
  PROVE  ApiInv'
<1> DEFINE x == [T!Idle EXCEPT !.data = data, !.at = "stored"]
<1>1. /\ tTalk' = [tTalk EXCEPT ![w] = x] /\ T!Update(data)
      /\ UNCHANGED <<tRun, tStop, tLoop>>
  BY Zenon DEF T!Store
<1>2. data \in DocType
  BY DEF DocOK
<1>3. x \in AskerType /\ x.at = "stored" /\ x.data = data
  BY <1>2 DEF AskerType, Version, T!Idle
<1>4. tDoc' = data
  BY <1>1, ApiFacts, Updated
<1> HIDE DEF x
<1>5. AskerOK(x, w)
  BY <1>3, Handled
<1> QED BY <1>1, <1>3, <1>4, <1>5, ApiFacts, OneAsker

LEMMA ApiSummaryStep ==
  ASSUME ApiInv, NEW w \in Client, T!Greeted(w) \/ T!Summary(w)
  PROVE  ApiInv'
<1> DEFINE d == tTalk[w].data
<1>1. d \in DocType /\ DocOK(d) /\ tTalk[w].graph \in Version
  BY ApiFacts DEF DocOK, AskerType
<1>2. ASSUME NEW g \in Version PROVE DocOK(T!Takes(w, g))
  <2> DEFINE new == [d EXCEPT !.graph = g, !.hash = g]
  <2>1. new \in DocType /\ new.messages = d.messages /\ new.hash = g /\ new.graph = g
    BY <1>1 DEF DocType
  <2>2. T!Takes(w, g) = new
    BY Zenon DEF T!Takes
  <2> HIDE DEF new
  <2> QED BY <1>1, <2>1, <2>2 DEF DocOK
<1>3. CASE T!Greeted(w)
  <2> DEFINE data == IF tTalk[w].sends THEN T!Takes(w, tTalk[w].graph) ELSE d
  <2>1. DocOK(data)
    BY <1>1, <1>2
  <2>2. T!Store(w, data, "stored") /\ tTalk[w].at = "hello"
    BY <1>3, Zenon DEF T!Greeted, T!At
  <2> HIDE DEF data
  <2> QED BY <2>1, <2>2, ApiStoreStep
<1>4. CASE T!Summary(w)
  <2>1. PICK g \in ApiGraph : T!Store(w, T!Takes(w, g), "stored")
    BY <1>4, Zenon DEF T!Summary
  <2>2. DocOK(T!Takes(w, g)) /\ tTalk[w].at = "asking"
    BY <1>2, <1>4 DEF Version, T!Summary, T!At
  <2> QED BY <2>1, <2>2, ApiStoreStep
<1> QED BY <1>3, <1>4

LEMMA ApiWaitSteps ==
  ASSUME ApiInv, NEW w \in Client, T!AskSummary(w) \/ T!GiveUp(w)
  PROVE  ApiInv'
<1>1. CASE T!AskSummary(w)
  <2> DEFINE x == [tTalk[w] EXCEPT !.at = "asking"]
  <2>1. x \in AskerType /\ x.at = "asking" /\ x.data = tTalk[w].data
    BY ApiFacts DEF AskerType
  <2>2. /\ tTalk' = [tTalk EXCEPT ![w] = x] /\ UNCHANGED <<tDoc, tRun, tStop, tLoop>>
        /\ tTalk[w].at = "hello"
    BY <1>1 DEF T!AskSummary, T!At
  <2> HIDE DEF x
  <2>3. AskerOK(x, w)
    BY <2>1, ApiFacts, Handled
  <2> QED BY <2>1, <2>2, <2>3, ApiFacts, OneAsker
<1>2. CASE T!GiveUp(w)
  <2>1. tTalk' = [tTalk EXCEPT ![w] = T!Over] /\ UNCHANGED <<tDoc, tRun, tStop, tLoop>>
    BY <1>2 DEF T!GiveUp
  <2> QED BY <2>1, Gone, ApiFacts, OneAsker
<1> QED BY <1>1, <1>2

LEMMA ApiAskStep ==
  ASSUME ApiInv, NEW w \in Client, T!Ask(w)
  PROVE  ApiInv'
<1> DEFINE x == tTalk[w]
           d == x.data
           s == Append(d.messages, T!Question(w))
           data == [d EXCEPT !.messages = s]
           new == [x EXCEPT !.data = data, !.at = "talking"]
           job == [tRun[w] EXCEPT !.at = "head"]
<1>1. /\ x \in AskerType /\ DocOK(d) /\ d \in DocType /\ tRun[w] = T!Fresh
      /\ tStop \in [Client -> BOOLEAN] /\ tLoop \in Client \cup {LoopFree}
  BY ApiFacts DEF T!Ask, T!At, DocOK
<1>2. /\ T!Update(data) /\ tTalk' = [tTalk EXCEPT ![w] = new]
      /\ tRun' = [tRun EXCEPT ![w] = job] /\ UNCHANGED <<tStop, tLoop>>
  BY Zenon DEF T!Ask
<1>3. T!Question(w) \in ApiMessage /\ T!Question(w).role # "model"
  BY DEF T!Question, ApiMessage
<1>4. s \in Seq(ApiMessage) /\ Behind(s) /\ Asked(s, Len(s), w)
  BY <1>1, <1>3, Appended DEF DocOK, DocType
<1> HIDE DEF s
<1>5. DocOK(data) /\ data \in DocType /\ data.messages = s
  BY <1>1, <1>4, Written DEF DocOK, DocType
<1> HIDE DEF data
<1>6. new \in AskerType /\ new.at = "talking" /\ new.data = data
  BY <1>1, <1>5 DEF AskerType
<1> HIDE DEF new
<1>7. AskerOK(new, w)
  BY <1>4, <1>5, <1>6 DEF AskerOK
<1>8. JobOK(job) /\ job \in JobType
  BY <1>1, ApiFacts, ClientAssumption DEF JobOK, JobType, T!Fresh
<1> HIDE DEF job
<1>9. tDoc' = data
  BY <1>2, <1>5, ApiFacts, Updated
<1>10. /\ tTalk' \in [Client -> AskerType] /\ tTalk'[w] = new
       /\ \A v \in Client : v # w => tTalk'[v] = tTalk[v]
       /\ tRun' \in [Client -> JobType] /\ tRun'[w] = job
       /\ \A v \in Client : v # w => tRun'[v] = tRun[v]
  BY <1>2, <1>6, <1>8 DEF ApiInv
<1>11. ASSUME NEW v \in Client
       PROVE  /\ AskerOK(tTalk'[v], v) /\ JobOK(tRun'[v])
              /\ tTalk'[v].at \notin {"talking", "over"} => tRun'[v] = T!Fresh
  <2>1. CASE v = w
    BY <1>6, <1>7, <1>8, <1>10, <2>1
  <2>2. CASE v # w
    BY <1>10, <2>2, ApiFacts
  <2> QED BY <2>1, <2>2
<1> QED BY <1>1, <1>2, <1>5, <1>9, <1>10, <1>11 DEF ApiInv, DocOK, AskerOK, JobOK

LEMMA ApiAnsweredStep ==
  ASSUME ApiInv, NEW w \in Client, T!Answered(w)
  PROVE  ApiInv'
<1> DEFINE d == tTalk[w].data
           s == Append(d.messages, T!Answer(w))
           data == [d EXCEPT !.messages = s]
<1>1. /\ DocOK(d) /\ d \in DocType /\ Asked(d.messages, Len(d.messages), w)
  BY ApiFacts DEF T!Answered, T!At, DocOK, AskerOK
<1>2. /\ T!Update(data) /\ tTalk' = [tTalk EXCEPT ![w] = T!Over]
      /\ UNCHANGED <<tRun, tStop, tLoop>>
  BY Zenon DEF T!Answered
<1>3. T!Answer(w) \in ApiMessage /\ T!Answer(w).of = w
  BY DEF T!Answer, ApiMessage
<1>4. s \in Seq(ApiMessage) /\ Behind(s)
  BY <1>1, <1>3, Appended DEF DocOK, DocType
<1> HIDE DEF s
<1>5. DocOK(data)
  BY <1>1, <1>4, Written
<1> HIDE DEF data
<1>6. tDoc' = data
  BY <1>2, <1>5, ApiFacts, Updated
<1> QED BY <1>2, <1>5, <1>6, Gone, ApiFacts, OneAsker

\* The steps that only touch the killed flag, the loop or a talk that ends.
LEMMA ApiStopSteps ==
  ASSUME ApiInv, NEW w \in Client, T!Unanswered(w) \/ T!Stop(w) \/ T!Stopped(w)
  PROVE  ApiInv'
<1>1. CASE T!Unanswered(w)
  <2>1. tTalk' = [tTalk EXCEPT ![w] = T!Over] /\ UNCHANGED <<tDoc, tRun, tLoop>>
    BY <1>1 DEF T!Unanswered
  <2>2. tStop' \in [Client -> BOOLEAN]
    BY <1>1 DEF T!Unanswered, ApiInv
  <2> QED BY <2>1, <2>2, Gone, ApiFacts, OneAsker
<1>2. CASE T!Stop(w) \/ T!Stopped(w)
  <2>1. UNCHANGED <<tDoc, tTalk, tRun>>
    BY <1>2 DEF T!Stop, T!Stopped
  <2>2. tStop' \in [Client -> BOOLEAN] /\ tLoop' \in Client \cup {LoopFree}
    BY <1>2 DEF T!Stop, T!Stopped, ApiInv
  <2> QED BY <2>1, <2>2 DEF ApiInv, DocOK, AskerOK, JobOK
<1> QED BY <1>1, <1>2

LEMMA ApiChatSteps ==
  ASSUME ApiInv, T!Save \/ T!GetChat \/ T!ClearChat
  PROVE  ApiInv'
<1>1. DocOK(tDoc) /\ tDoc \in DocType /\ tDoc.messages \in Seq(ApiMessage) /\ Behind(tDoc.messages)
  BY DEF ApiInv, DocOK, DocType
<1>2. ASSUME NEW s \in Seq(ApiMessage), Behind(s), NEW last \in Seq(ApiMessage)
      PROVE  DocOK([tDoc EXCEPT !.messages = s, !.last = last])
  <2> DEFINE new == [tDoc EXCEPT !.messages = s, !.last = last]
  <2>1. new \in DocType /\ new.messages = s /\ new.hash = tDoc.hash /\ new.graph = tDoc.graph
    BY <1>1 DEF DocType
  <2> HIDE DEF new
  <2>2. DocOK(new)
    BY <1>1, <1>2, <2>1 DEF DocOK
  <2> QED BY <2>2 DEF new
<1>3. CASE T!Save
  <2>1. PICK id \in T!ToSet(tDoc.messages) :
          tDoc' = [tDoc EXCEPT !.messages = T!Upto(tDoc.messages, id), !.last = <<id>>]
    BY <1>3, Zenon DEF T!Save
  <2>2. id \in ApiMessage
    BY <1>1, <2>1 DEF T!ToSet
  <2>3. <<id>> \in Seq(ApiMessage)
    BY <2>2
  <2>4. DocOK(tDoc')
    BY <1>1, <1>2, <2>1, <2>3, Rolled
  <2> QED BY <1>3, <2>4 DEF T!Save, ApiInv, DocOK, AskerOK, JobOK
<1>4. CASE T!GetChat
  <2>1. tDoc' = [tDoc EXCEPT !.messages = T!Upto(tDoc.messages, tDoc.last[1])]
    BY <1>4, Zenon DEF T!GetChat
  <2>2. DocOK(tDoc')
    BY <1>1, <2>1, Rolled, Written
  <2> QED BY <1>4, <2>2 DEF T!GetChat, ApiInv, DocOK, AskerOK, JobOK
<1>5. CASE T!ClearChat
  <2>1. tDoc' = [tDoc EXCEPT !.messages = <<>>, !.last = <<>>]
    BY <1>5, Zenon DEF T!ClearChat
  <2>2. DocOK(tDoc')
    BY <1>2, <2>1, NoMessages
  <2> QED BY <1>5, <2>2 DEF T!ClearChat, ApiInv, DocOK, AskerOK, JobOK
<1> QED BY <1>3, <1>4, <1>5

LEMMA ApiCallStep ==
  ASSUME ApiInv, NEW w \in Client, T!Call(w)
  PROVE  ApiInv'
<1> DEFINE x == tRun[w]
           new == [x EXCEPT !.at = "stream", !.calls = @ + 1]
           last == [x EXCEPT !.at = "after"]
<1>1. x \in JobType /\ JobOK(x) /\ x.at = "head" /\ x.calls \in Nat /\ ApiFlood \in Nat
  BY ApiFacts, ClientAssumption DEF T!Call, JobType
<1>2. UNCHANGED <<tDoc, tTalk, tStop, tLoop>>
  BY DEF T!Call, T!Job
<1>3. CASE tStop[w] \/ x.calls >= ApiFlood
  <2>1. tRun' = [tRun EXCEPT ![w] = last]
    BY <1>3, Zenon DEF T!Call, T!Job
  <2>2. JobOK(last)
    BY <1>1 DEF JobOK, JobType
  <2> HIDE DEF last
  <2> QED BY <1>1, <1>2, <2>1, <2>2, OneJob
<1>4. CASE ~(tStop[w] \/ x.calls >= ApiFlood)
  <2>1. tRun' = [tRun EXCEPT ![w] = new]
    BY <1>4, Zenon DEF T!Call, T!Job
  <2>2. x.calls + 1 \in 0..ApiFlood
    BY <1>1, <1>4
  <2>3. new \in JobType /\ new.at = "stream" /\ new.calls = x.calls + 1 /\ new.loop = x.loop
        /\ new.rounds = x.rounds /\ new.tools = x.tools
    BY <1>1, <2>2 DEF JobType
  <2> HIDE DEF new
  <2>4. JobOK(new)
    BY <1>1, <2>3 DEF JobOK, JobType
  <2> QED BY <1>1, <1>2, <2>1, <2>4, OneJob
<1> QED BY <1>3, <1>4

LEMMA ApiToolStep ==
  ASSUME ApiInv, NEW w \in Client, T!Tool(w)
  PROVE  ApiInv'
<1> DEFINE x == tRun[w]
           grants(kind) == T!Grants(w, kind)
           done == x.rounds + 1 >= ApiToolRounds
           more == x.tools /\ ~done
           plan(kind) == IF grants(kind) THEN kind ELSE x.plan
           count(kind) == IF grants(kind) THEN x.built + 1 ELSE x.built
<1>1. /\ x \in JobType /\ JobOK(x) /\ x.at = "stream" /\ x.tools
      /\ x.rounds \in Nat /\ x.calls \in Nat /\ ApiToolRounds \in Nat
  BY ApiFacts, ClientAssumption DEF T!Tool, T!Runs, JobType
<1>2. UNCHANGED <<tDoc, tTalk, tStop, tLoop>>
  BY DEF T!Tool, T!Job
<1>3. PICK kind \in {"plan", "auto", "raises"} :
        tRun' = [tRun EXCEPT ![w] = [x EXCEPT !.at = "head", !.rounds = @ + 1,
                   !.tools = more, !.plan = plan(kind), !.built = count(kind)]]
  BY Zenon DEF T!Tool, T!Job
<1>4. plan(kind) \in {"none", "plan", "auto"} /\ count(kind) \in 0..1
  <2>1. x.plan \in {"none", "plan", "auto"} /\ x.built \in 0..1
    BY <1>1 DEF JobType
  <2>2. CASE grants(kind)
    <3>1. kind # "raises" /\ x.built = 0
      BY <2>2, Zenon DEF T!Grants
    <3>2. plan(kind) = kind /\ count(kind) = x.built + 1
      BY <2>2, Zenon
    <3> QED BY <3>1, <3>2
  <2>3. CASE ~grants(kind)
    BY <2>1, <2>3, Zenon
  <2> QED BY <2>2, <2>3
<1>5. more \in BOOLEAN /\ (more <=> x.rounds + 1 < ApiToolRounds)
  BY <1>1
<1>6. x.loop = "narrator" /\ x.rounds < ApiToolRounds
  BY <1>1 DEF JobOK, JobType
<1>7. x.calls = x.rounds + 1
  BY <1>1, <1>6 DEF JobOK
<1> DEFINE p == plan(kind)
           n == count(kind)
           rounds == x.rounds + 1
           new == [x EXCEPT !.at = "head", !.rounds = rounds, !.tools = more, !.plan = p, !.built = n]
<1>8. tRun' = [tRun EXCEPT ![w] = new]
  BY <1>3, Zenon
<1>9. p \in {"none", "plan", "auto"} /\ n \in 0..1 /\ rounds \in Nat
  BY <1>1, <1>4
<1>10. rounds <= ApiToolRounds /\ (more => rounds < ApiToolRounds) /\ x.calls = rounds
  BY <1>1, <1>5, <1>6, <1>7
<1> HIDE DEF p, n, more, rounds
<1>11. new \in JobType
  BY <1>1, <1>5, <1>9 DEF JobType
<1>12. /\ new.at = "head" /\ new.calls = x.calls /\ new.loop = x.loop
       /\ new.rounds = rounds /\ new.tools = more
  BY <1>1 DEF JobType
<1> HIDE DEF new
<1>13. JobOK(new)
  BY <1>1, <1>6, <1>9, <1>10, <1>11, <1>12 DEF JobOK
<1> QED BY <1>1, <1>2, <1>8, <1>13, OneJob

LEMMA ApiLastJobSteps ==
  ASSUME ApiInv, NEW w \in Client, T!Close(w) \/ T!Builder(w) \/ T!End(w)
  PROVE  ApiInv'
<1> DEFINE x == tRun[w]
<1>1. x \in JobType /\ JobOK(x) /\ x.at \in {"stream", "after"} /\ UNCHANGED <<tDoc, tTalk, tStop, tLoop>>
  BY ApiFacts DEF T!Close, T!Builder, T!End, T!Job
<1>2. CASE T!Close(w)
  <2> DEFINE new == [x EXCEPT !.at = "after"]
  <2>1. tRun' = [tRun EXCEPT ![w] = new]
    BY <1>2, Zenon DEF T!Close, T!Job
  <2>2. JobOK(new)
    BY <1>1 DEF JobOK, JobType
  <2> HIDE DEF new
  <2> QED BY <1>1, <2>1, <2>2, OneJob
<1>3. CASE T!Builder(w)
  <2> DEFINE new == [x EXCEPT !.at = "head", !.loop = "builder", !.calls = 0, !.rounds = 0,
                              !.tools = FALSE]
  <2>1. tRun' = [tRun EXCEPT ![w] = new]
    BY <1>3, Zenon DEF T!Builder, T!Job
  <2>2. 0 \in 0..ApiFlood /\ 0 \in Nat
    BY ClientAssumption
  <2>3. new \in JobType
    BY <1>1, <2>2 DEF JobType
  <2>4. new.at = "head" /\ new.loop = "builder" /\ new.calls = 0 /\ ~new.tools
    BY <1>1 DEF JobType
  <2> HIDE DEF new
  <2>5. JobOK(new)
    BY <2>3, <2>4 DEF JobOK
  <2> QED BY <1>1, <2>1, <2>5, OneJob
<1>4. CASE T!End(w)
  <2> DEFINE new == [T!Fresh EXCEPT !.at = "ended"]
  <2>1. tRun' = [tRun EXCEPT ![w] = new]
    BY <1>4, Zenon DEF T!End, T!Job
  <2>2. 0 \in 0..ApiFlood /\ 0 \in Nat /\ ApiToolRounds > 0 /\ ApiToolRounds \in Nat
    BY ClientAssumption
  <2>3. new \in JobType
    <3>1. T!Fresh \in JobType
      BY <2>2 DEF JobType, T!Fresh
    <3> QED BY <3>1 DEF JobType
  <2>4. /\ new.at = "ended" /\ new.loop = "narrator" /\ new.calls = 0 /\ new.rounds = 0
    BY DEF T!Fresh
  <2> HIDE DEF new
  <2>5. JobOK(new)
    BY <2>2, <2>3, <2>4 DEF JobOK
  <2> QED BY <1>1, <2>1, <2>5, OneJob
<1> QED BY <1>2, <1>3, <1>4

LEMMA InitApi == T!Init => ApiInv
<1> SUFFICES ASSUME T!Init PROVE ApiInv
  OBVIOUS
<1>1. DocOK(tDoc)
  BY Emptied DEF T!Init
<1>2. T!Idle \in AskerType /\ \A w \in Client : AskerOK(T!Idle, w)
  BY Gone, Emptied DEF T!Idle, AskerType, Version
<1>3. T!Fresh \in JobType /\ JobOK(T!Fresh)
  <2>1. 0 \in 0..ApiFlood /\ 0 \in Nat /\ ApiToolRounds > 0 /\ ApiToolRounds \in Nat
    BY ClientAssumption
  <2> QED BY <2>1 DEF JobOK, JobType, T!Fresh
<1>4. tTalk \in [Client -> AskerType] /\ \A w \in Client : tTalk[w] = T!Idle
  BY <1>2 DEF T!Init
<1>5. tRun \in [Client -> JobType] /\ \A w \in Client : tRun[w] = T!Fresh
  BY <1>3 DEF T!Init
<1>6. tStop \in [Client -> BOOLEAN] /\ tLoop \in Client \cup {LoopFree}
  BY DEF T!Init
<1> QED BY <1>1, <1>2, <1>3, <1>4, <1>5, <1>6 DEF ApiInv

LEMMA NextApi == ApiInv /\ [T!Next]_tVars => ApiInv'
<1> SUFFICES ASSUME ApiInv, [T!Next]_tVars PROVE ApiInv'
  OBVIOUS
<1>1. CASE UNCHANGED tVars
  BY <1>1 DEF tVars, ApiInv, DocOK, AskerOK, JobOK
<1>2. ASSUME NEW w \in Client,
             \/ T!Open(w) \/ T!Greeted(w) \/ T!AskSummary(w) \/ T!Summary(w) \/ T!GiveUp(w)
             \/ T!Ask(w) \/ T!Answered(w) \/ T!Unanswered(w) \/ T!Stop(w) \/ T!Stopped(w)
      PROVE  ApiInv'
  BY <1>2, ApiOpenStep, ApiSummaryStep, ApiWaitSteps, ApiAskStep, ApiAnsweredStep, ApiStopSteps
<1>3. ASSUME NEW w \in Client,
             T!Call(w) \/ T!Tool(w) \/ T!Close(w) \/ T!Builder(w) \/ T!End(w)
      PROVE  ApiInv'
  BY <1>3, ApiCallStep, ApiToolStep, ApiLastJobSteps
<1> QED BY <1>1, <1>2, <1>3, ApiChatSteps DEF T!Next

LEMMA ApiKept == ApiInv => ApiTalkHolds /\ T!ApiTalkTypeOK
<1> SUFFICES ASSUME ApiInv PROVE ApiTalkHolds /\ T!ApiTalkTypeOK
  OBVIOUS
<1>1. /\ tDoc.messages \in Seq(ApiMessage) /\ Behind(tDoc.messages) /\ tDoc.hash = tDoc.graph
      /\ tLoop \in Client \cup {LoopFree}
  BY DEF ApiInv, DocOK, DocType
<1>2. T!AnswersBehind
  BY <1>1, LenProperties DEF T!AnswersBehind, Behind, Asked
<1>3. ASSUME NEW w \in Client
      PROVE  /\ tRun[w].calls \in 0..ApiFlood /\ tRun[w].built \in 0..1
             /\ tRun[w].calls <= (IF tRun[w].loop = "builder" THEN 1 ELSE ApiToolRounds + 1)
  <2>1. tRun[w] \in JobType /\ JobOK(tRun[w])
    BY ApiFacts
  <2> QED BY <2>1, ClientAssumption DEF JobOK, JobType
<1>4. T!CallsBounded
  BY <1>3 DEF T!CallsBounded
<1>5. T!ApiTalkTypeOK
  BY <1>1, <1>3 DEF T!ApiTalkTypeOK, ApiMessage
<1> QED BY <1>1, <1>2, <1>4, <1>5 DEF ApiTalkHolds, T!ApiTalkHolds, T!HashOfGraph

\* chat_bp.py, worker_tasks.py: however talks, saves, rollbacks and clears of one chat
\* overwrite each other, an answer in it is behind its question and the hash is the
\* graph's; and a job asks the model no more often than its rounds allow.
THEOREM ApiTalks == T!Spec => []ApiTalkHolds
<1> QED BY InitApi, NextApi, ApiKept, PTL DEF T!Spec, T!vars, tVars

\* The talks, the runs of the model and the talks of the API service have their types.
THEOREM AssistantTyped == Spec /\ M!Spec /\ T!Spec => []AssistantTypeOK
<1> QED BY Typed, RunInvariant, RunsTyped, InitApi, NextApi, ApiKept, PTL
        DEF AssistantTypeOK, T!Spec, T!vars, tVars
=============================================================================
