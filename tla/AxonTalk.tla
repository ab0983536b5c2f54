------------------------------ MODULE AxonTalk ------------------------------
(***************************************************************************)
(* Conversations with the assistant in the backend service: ws_talk and    *)
(* ask_once of axon/routes.py, the tool calls of AxonService.run_talk in   *)
(* axon/service.py, and AxonLimiter of axon/limits.py.                     *)
(*                                                                         *)
(* Handlers run on the event loop and suspend at an await; each asks the   *)
(* model from a thread of its own, and the threads share the limiter, which*)
(* is locked one call at a time.  A talk reads the chat document once and  *)
(* writes its own copy back after every change.  A graph stands for its    *)
(* hash.  Every account has one chat.                                      *)
(***************************************************************************)
EXTENDS Naturals, Sequences, FiniteSets

CONSTANTS
    Talk,      \* calls, each of one client
    Account,
    Owner,     \* Owner[t]: the account that makes the call
    Once,      \* calls that are POST /ask_once: no chat, no tools
    Graph,     \* graphs the clients may show
    NoGraph,   \* the graph state and hash of a chat that has none
    Limit,     \* AxonLimitsConfig: one number per cap
    FiveMinutes, Hour, Day,   \* the windows, in ticks of the clock
    MaxClock,  \* bound: the last tick
    MaxEdits   \* bound: chats cut or cleared from outside a talk

Caps == {"user5m", "userHour", "userDay", "globalDay", "buildsHour", "buildsDay",
         "buildsGlobal", "interval", "softTokens", "hardTokens", "retained"}

ASSUME OwnerAssumption == Owner \in [Talk -> Account] /\ Once \subseteq Talk
ASSUME GraphAssumption == NoGraph \notin Graph
ASSUME LimitAssumption == Limit \in [Caps -> Nat] /\ Limit["retained"] > 0
ASSUME WindowAssumption == FiveMinutes \in Nat /\ Hour \in Nat /\ Day \in Nat
                           /\ FiveMinutes <= Hour /\ Hour <= Day /\ MaxClock \in Nat /\ MaxEdits \in Nat

VARIABLES
    clock,     \* time.time(), in ticks
    requests,  \* _global_requests and _user_requests: who and when, in order
    builds,    \* _global_builds and _user_builds
    tokens,    \* _global_token_estimates: when; a run of the model costs one
    chat,      \* the document of each account
    talk,      \* the calls
    served,    \* history: every request served, never pruned
    raced,     \* history: the most threads ever between check and record of a build at once
    edits,     \* how often a chat was cut or cleared from outside a talk
    cut        \* history: the messages so removed while no talk of the account was open

vars == <<clock, requests, builds, tokens, chat, talk, served, raced, edits, cut>>
edited == <<edits, cut>>

\* An account alone, and all of them.
Group   == {{a} : a \in Account} \cup {Account}
Message == Talk \X {"user", "model"}
Chat    == [messages : Seq(Message), graph : Graph \cup {NoGraph}]
Stamp   == Account \X (0..MaxClock)

\* data: the handler's copy of the chat.  graph: what the client shows now.
\* thread: how far the model's thread is.  alone: no other talk of the account
\* was open with it, and its messages were not cleared or cut, nor trimmed before
\* the chat was cut.
Call == [pc : {"new", "denied", "open", "asked", "updated", "thinking", "answered", "failed"},
         data : Chat, graph : Graph \cup {NoGraph}, alone : BOOLEAN,
         thread : {"none", "running", "passed", "said", "silent"},
         stop : BOOLEAN, called : BOOLEAN]

EmptyChat == [messages |-> <<>>, graph |-> NoGraph]

TypeOK ==
    /\ clock \in 0..MaxClock
    /\ requests \in Seq(Stamp) /\ builds \in Seq(Stamp)
    /\ tokens \in Seq(0..MaxClock)
    /\ chat \in [Account -> Chat]
    /\ talk \in [Talk -> Call]
    /\ served \in Seq(Stamp) /\ raced \in [Group -> Nat]
    /\ edits \in 0..MaxEdits /\ cut \in [Account -> SUBSET Message]
    /\ \A a \in Account : Len(chat[a].messages) <= Limit["retained"]

Init ==
    /\ clock = 0
    /\ requests = <<>> /\ builds = <<>> /\ tokens = <<>>
    /\ chat = [a \in Account |-> EmptyChat]
    /\ talk = [t \in Talk |->
                 [pc |-> "new", data |-> EmptyChat, graph |-> NoGraph, alone |-> TRUE,
                  thread |-> "none", stop |-> FALSE, called |-> FALSE]]
    /\ served = <<>> /\ raced = [g \in Group |-> 0]
    /\ edits = 0 /\ cut = [a \in Account |-> {}]

-----------------------------------------------------------------------------
(* AxonLimiter *)

\* value >= now - window
Recent(at, window) == at + window >= clock

\* _prune_deque: every call first drops what is older than a day, from the left up
\* to the first that is not.
Stale(log) == {i \in DOMAIN log : \A j \in 1..i : ~Recent(log[j][2], Day)}
Pruned(log) == SubSeq(log, Cardinality(Stale(log)) + 1, Len(log))

StaleTokens == {i \in DOMAIN tokens : \A j \in 1..i : ~Recent(tokens[j], Day)}
PrunedTokens == SubSeq(tokens, Cardinality(StaleTokens) + 1, Len(tokens))

CountOf(log, a, window) ==
    Cardinality({i \in DOMAIN log : log[i][1] = a /\ Recent(log[i][2], window)})

TokensToday == Cardinality({i \in DOMAIN tokens : Recent(tokens[i], Day)})

Under(cap) == Limit[cap] > 0 => TokensToday < Limit[cap]

\* Fault: each cap of a user may be passed by one.
RequestAllowedOver(a) ==
    /\ Under("hardTokens")
    /\ Len(Pruned(requests)) < Limit["globalDay"]
    /\ CountOf(requests, a, Day) <= Limit["userDay"]
    /\ CountOf(requests, a, Hour) <= Limit["userHour"]
    /\ CountOf(requests, a, FiveMinutes) <= Limit["user5m"]
\* check_request
RequestAllowed(a) ==
    /\ Under("hardTokens")
    /\ Len(Pruned(requests)) < Limit["globalDay"]
    /\ CountOf(requests, a, Day) < Limit["userDay"]
    /\ CountOf(requests, a, Hour) < Limit["userHour"]
    /\ CountOf(requests, a, FiveMinutes) < Limit["user5m"]

\* check_graph_build
BuildAllowed(a) ==
    /\ Under("hardTokens") /\ Under("softTokens")
    /\ Len(Pruned(builds)) < Limit["buildsGlobal"]
    /\ \A i \in DOMAIN builds : builds[i][1] = a /\ Recent(builds[i][2], Day) =>
           builds[i][2] + Limit["interval"] <= clock
    /\ CountOf(builds, a, Day) < Limit["buildsDay"]
    /\ CountOf(builds, a, Hour) < Limit["buildsHour"]

\* record_request: the check before it and the record are one step of the loop.
RecordRequest(a) ==
    /\ requests' = Append(Pruned(requests), <<a, clock>>)
    /\ builds' = Pruned(builds)
    /\ tokens' = PrunedTokens
    /\ served' = Append(served, <<a, clock>>)

-----------------------------------------------------------------------------
(* The handlers, on the event loop *)

Open(t) == talk[t].pc \in {"open", "asked", "updated", "thinking"} /\ t \notin Once

Deny(t) ==
    /\ talk[t].pc = "new" /\ ~RequestAllowed(Owner[t])
    /\ requests' = Pruned(requests) /\ builds' = Pruned(builds) /\ tokens' = PrunedTokens
    /\ talk' = [talk EXCEPT ![t].pc = "denied"]
    /\ UNCHANGED <<clock, chat, served, raced, edited>>

\* ws_talk up to server_hash: the request counts, the chat is read, and cleared
\* in the copy if the client wants that.
OpenTalk(t, g, clear) ==
    LET a == Owner[t]
        others == {u \in Talk \ {t} : Owner[u] = a /\ u \notin Once}
    IN
    /\ talk[t].pc = "new" /\ t \notin Once /\ RequestAllowed(a)
    /\ RecordRequest(a)
    /\ talk' = [u \in Talk |->
           IF u = t THEN [talk[t] EXCEPT !.pc = "open", !.graph = g,
                              !.alone = ~\E o \in others : Open(o),
                              !.data = IF clear THEN [chat[a] EXCEPT !.messages = <<>>]
                                       ELSE chat[a]]
           ELSE [talk[u] EXCEPT !.alone = @ /\ ~(u \in others /\ (clear \/ Open(u)))]]
    /\ UNCHANGED <<clock, chat, raced, edited>>

NeedsSummary(t) == talk[t].data.graph # talk[t].graph

\* The hashes differ and the first packet had no graph: the client is asked.
AskSummary(t) ==
    /\ talk[t].pc = "open" /\ NeedsSummary(t)
    /\ talk' = [talk EXCEPT ![t].pc = "asked"]
    /\ UNCHANGED <<clock, requests, builds, tokens, chat, served, raced, edited>>

\* The graph is stored, with the messages read when the talk opened.
StoreGraph(t, sent) ==
    LET data == [talk[t].data EXCEPT !.graph = IF sent THEN talk[t].graph ELSE @] IN
    /\ \/ talk[t].pc = "open" /\ (sent \/ ~NeedsSummary(t))
       \/ talk[t].pc = "asked" /\ sent
    /\ chat' = [chat EXCEPT ![Owner[t]] = data]
    /\ talk' = [talk EXCEPT ![t].pc = "updated", ![t].data = data]
    /\ UNCHANGED <<clock, requests, builds, tokens, served, raced, edited>>

\* Fault: nothing is trimmed.
RetainedAll(messages) == messages
\* messages[-max_retained_chat_messages:]
Retained(messages) ==
    SubSeq(messages, IF Len(messages) > Limit["retained"]
                     THEN Len(messages) - Limit["retained"] + 1 ELSE 1, Len(messages))

\* Fault: a message is put into the document as it is now.
WithFresh(t, role) ==
    [chat[Owner[t]] EXCEPT !.messages = Retained(Append(@, <<t, role>>))]
\* A message is added to the handler's copy, which becomes the document.
With(t, role) ==
    [talk[t].data EXCEPT !.messages = Retained(Append(@, <<t, role>>))]

\* The question is stored and the model's thread starts.
Ask(t) ==
    /\ talk[t].pc = "updated"
    /\ chat' = [chat EXCEPT ![Owner[t]] = With(t, "user")]
    /\ talk' = [talk EXCEPT ![t].pc = "thinking", ![t].data = With(t, "user"),
                            ![t].thread = "running"]
    /\ UNCHANGED <<clock, requests, builds, tokens, served, raced, edited>>

\* ask_once has neither a chat nor tools.
AskOnce(t) ==
    /\ talk[t].pc = "new" /\ t \in Once /\ RequestAllowed(Owner[t])
    /\ RecordRequest(Owner[t])
    /\ talk' = [talk EXCEPT ![t].pc = "thinking", ![t].thread = "running"]
    /\ UNCHANGED <<clock, chat, raced, edited>>

\* The thread is done and its updates are sent: the answer, if there is any, is
\* stored, and only now the run is counted.  One that raised costs nothing.
Answer(t, raised) ==
    /\ talk[t].pc = "thinking" /\ talk[t].thread \in {"said", "silent"}
    /\ talk' = [talk EXCEPT ![t].pc = "answered", ![t].data = EmptyChat,
                            ![t].graph = NoGraph]
    /\ chat' = IF talk[t].thread = "said" /\ t \notin Once
               THEN [chat EXCEPT ![Owner[t]] = With(t, "model")] ELSE chat
    /\ raised => t \notin Once
    /\ tokens' = IF raised THEN PrunedTokens ELSE Append(PrunedTokens, clock)
    /\ requests' = Pruned(requests) /\ builds' = Pruned(builds)
    /\ UNCHANGED <<clock, served, raced, edited>>

\* The client is gone, or sends no summary within five seconds: nothing more is
\* stored or counted, and a thread is told to stop.
Fail(t) ==
    /\ Open(t)
    /\ talk' = [talk EXCEPT ![t].pc = "failed", ![t].data = EmptyChat,
                            ![t].graph = NoGraph, ![t].stop = TRUE]
    /\ UNCHANGED <<clock, requests, builds, tokens, chat, served, raced, edited>>

-----------------------------------------------------------------------------
(* The other handlers that write a chat, of projects/routes.py *)

From(messages, i) == {messages[j] : j \in i..Len(messages)}

\* The last message a call stores in a chat.
LastOf(t) == <<t, IF talk[t].thread = "said" THEN "model" ELSE "user">>
Has(messages, m) == \E i \in DOMAIN messages : messages[i] = m

\* The document becomes d, without the messages gone; talks that are open go on
\* with the copies they have.
Edit(a, d, gone) ==
    LET open == \E u \in Talk : Owner[u] = a /\ Open(u) IN
    /\ edits < MaxEdits /\ d # chat[a]
    /\ edits' = edits + 1
    /\ chat' = [chat EXCEPT ![a] = d]
    /\ cut' = [cut EXCEPT ![a] = IF open THEN @ ELSE @ \cup gone]
    /\ talk' = [u \in Talk |-> [talk[u] EXCEPT !.alone =
                   @ /\ ~(/\ Owner[u] = a
                          /\ \/ Open(u) \/ ~Has(chat[a].messages, LastOf(u))
                             \/ \E m \in gone : m[1] = u)]]
    /\ UNCHANGED <<clock, requests, builds, tokens, served, raced>>

UpTo(messages, i) == SubSeq(messages, 1, i)

\* update_last_id, called when a project is saved and when its chat is loaded:
\* the messages after the one the client names are dropped.
CutChat(a) ==
    LET m == chat[a].messages IN
    \E i \in DOMAIN m : Edit(a, [chat[a] EXCEPT !.messages = UpTo(m, i)], From(m, i + 1))

ClearChat(a) == Edit(a, EmptyChat, From(chat[a].messages, 1))

-----------------------------------------------------------------------------
(* run_talk, in the thread of a call *)

MayBuild(t) == t \notin Once /\ ~talk[t].stop /\ ~talk[t].called

\* The threads of a group that may record a build.
Between(g) == {u \in Talk : talk[u].thread = "passed" /\ Owner[u] \in g}

\* build_graph asks the limiter, ...
CheckBuild(t) ==
    /\ talk[t].thread = "running" /\ MayBuild(t)
    /\ requests' = Pruned(requests) /\ builds' = Pruned(builds) /\ tokens' = PrunedTokens
    /\ talk' = [talk EXCEPT ![t].thread = IF BuildAllowed(Owner[t]) THEN "passed" ELSE @]
    /\ raced' = [g \in Group |-> LET n == Cardinality(Between(g)') IN
                                 IF n > raced[g] THEN n ELSE raced[g]]
    /\ UNCHANGED <<clock, chat, served, edited>>

\* ... and records the build in a second call.
RecordBuild(t) ==
    /\ talk[t].thread = "passed"
    /\ builds' = Append(Pruned(builds), <<Owner[t], clock>>)
    /\ requests' = Pruned(requests) /\ tokens' = PrunedTokens
    /\ talk' = [talk EXCEPT ![t].thread = "running", ![t].called = TRUE]
    /\ UNCHANGED <<clock, chat, served, raced, edited>>

\* The model has answered with a text or without any.
EndRun(t) ==
    /\ talk[t].thread = "running"
    /\ \E outcome \in {"said", "silent"} :
           talk' = [talk EXCEPT ![t].thread = outcome]
    /\ UNCHANGED <<clock, requests, builds, tokens, chat, served, raced, edited>>

Tick ==
    /\ clock < MaxClock
    /\ clock' = clock + 1
    /\ UNCHANGED <<requests, builds, tokens, chat, talk, served, raced, edited>>

Handle(t) ==
    \/ Deny(t)
    \/ \E g \in Graph, clear \in BOOLEAN : OpenTalk(t, g, clear)
    \/ AskSummary(t)
    \/ \E sent \in BOOLEAN : StoreGraph(t, sent)
    \/ Ask(t) \/ AskOnce(t) \/ Fail(t)
    \/ \E raised \in BOOLEAN : Answer(t, raised)

Run(t) == CheckBuild(t) \/ RecordBuild(t) \/ EndRun(t)

Next == \/ Tick
        \/ \E t \in Talk : Handle(t) \/ Run(t)
        \/ \E a \in Account : CutChat(a) \/ ClearChat(a)

Spec == Init /\ [][Next]_vars

-----------------------------------------------------------------------------
(* Properties *)

\* No account is ever served more requests within five minutes, an hour or a day,
\* and no more are served to all accounts within a day, than the configuration
\* says, however calls interleave and whatever has been pruned since.
RequestsCapped ==
    /\ \A a \in Account :
        /\ CountOf(served, a, FiveMinutes) <= Limit["user5m"]
        /\ CountOf(served, a, Hour) <= Limit["userHour"]
        /\ CountOf(served, a, Day) <= Limit["userDay"]
    /\ Len(Pruned(served)) <= Limit["globalDay"]

\* Of n threads that were between check and record at once, n - 1 may have passed it
\* although the cap was reached by the others.
Extra(g) == IF raced[g] = 0 THEN 0 ELSE raced[g] - 1

\* Check and record of a build are two calls: an account, and all of them, get at most
\* as many builds more than their caps as they ever had further threads between the two,
\* and builds are apart in an account that never had any.
BuildsCapped ==
    /\ \A a \in Account :
        /\ CountOf(builds, a, Hour) <= Limit["buildsHour"] + Extra({a})
        /\ CountOf(builds, a, Day) <= Limit["buildsDay"] + Extra({a})
        /\ Extra({a}) = 0 =>
             \A i, j \in DOMAIN builds : i < j /\ builds[i][1] = a /\ builds[j][1] = a =>
                 builds[i][2] + Limit["interval"] <= builds[j][2]
    /\ Len(Pruned(builds)) <= Limit["buildsGlobal"] + Extra(Account)

\* No cap of requests is exceeded; the caps of builds are only by those threads of an
\* account that asked for a build before another one had recorded its own.
LimitsKept == RequestsCapped /\ BuildsCapped

\* In every stored chat an answer directly follows its own question, unless that
\* one was trimmed away, even if talks overwrite each other's documents.
AnswersFollow == \A a \in Account : \A i \in 2..Len(chat[a].messages) :
    LET m == chat[a].messages IN m[i][2] = "model" => m[i - 1] = <<m[i][1], "user">>

\* What a talk has stored stays in the chat until it is trimmed or cleared, when
\* no other talk of the account was open with it.
HistoryKept == \A t \in Talk \ Once :
    talk[t].pc = "answered" /\ talk[t].alone =>
        LET m == chat[Owner[t]].messages IN
        Len(m) = Limit["retained"] \/ Has(m, LastOf(t))

\* What was cut or cleared while no talk of the account was open never comes back,
\* though every talk writes a copy of the whole chat.
CutStays == \A a \in Account :
    \A i \in DOMAIN chat[a].messages : chat[a].messages[i] \notin cut[a]

\* The model is asked about the graph its client shows.
GraphCurrent == \A t \in Talk \ Once :
    talk[t].pc = "thinking" => talk[t].data.graph = talk[t].graph

\* What is stored stays behind its question until it is trimmed or cut, and is as
\* new as what the client shows and as short as it cut it.
ChatKept == AnswersFollow /\ HistoryKept /\ GraphCurrent /\ CutStays
=============================================================================
