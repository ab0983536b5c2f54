------------------------------- MODULE ApiTalk -------------------------------
(* Talks with the assistant at the API service: ws_talk, get_chat and         *)
(* clear_chat of routes/chat_bp.py on one chat, its trim by                   *)
(* common/project_utils.py, and the job of a talk, talk_task of               *)
(* worker/worker_tasks.py with the loop of axon/genai_helpers.py. A handler   *)
(* runs up to its next await, a job in its own thread. Progress is streamed   *)
(* as TrioServer has it; here it ends in one of the ways it can.              *)
EXTENDS Naturals, Sequences, SequencesExt

CONSTANTS
  Talk,
  Tooled,      \* talks whose model may call tools
  Graph,       \* versions of the client's graph; its hash stands for it
  NoGraph,     \* no graph stored yet
  Flood,       \* FLOOD_MAX_CALLS of one loop
  ToolRounds,  \* max_tool_rounds
  Free         \* the event loop waits for nothing

VARIABLES
  doc,     \* the stored chat: messages, graph_state, graph_state_hash, last_id
  talk,    \* of each talk: how far, and the handler's copy of the chat
  run,     \* of each talk: its job
  stop,    \* of each talk: the job's killed flag
  loop     \* the talk whose stop the event loop waits for, or Free

vars == <<doc, talk, run, stop, loop>>

Empty == [messages |-> <<>>, graph |-> NoGraph, hash |-> NoGraph, last |-> <<>>]

Idle == [at |-> "new", graph |-> NoGraph, sends |-> FALSE, data |-> Empty]
Over == [Idle EXCEPT !.at = "over"]

\* loop: the narrator's or the builder's.  tools: the registry is not empty.  plan: what
\* a tool has asked for.  built: how often one was granted.
Fresh == [at |-> "none", loop |-> "narrator", calls |-> 0, rounds |-> 0, tools |-> TRUE,
          plan |-> "none", built |-> 0]

Init ==
  /\ doc = Empty
  /\ talk = [w \in Talk |-> Idle]
  /\ run = [w \in Talk |-> Fresh]
  /\ stop = [w \in Talk |-> FALSE]
  /\ loop = Free

Question(w) == [role |-> "user", of |-> w]
Answer(w)   == [role |-> "model", of |-> w]

At(w, at) == loop = Free /\ talk[w].at = at
-----------------------------------------------------------------------------
(* The handler of a talk *)

\* The first message is there, and the chat is read before the next await.
Open(w) ==
  /\ At(w, "new")
  /\ \E g \in Graph, sends, clear \in BOOLEAN :
       talk' = [talk EXCEPT ![w] = [at |-> "hello", graph |-> g, sends |-> sends,
                  data |-> IF clear THEN [doc EXCEPT !.messages = <<>>] ELSE doc]]
  /\ UNCHANGED <<doc, run, stop, loop>>

\* A summary the handler takes comes with its hash, and both are stored at once.
TakesSummaryOnly(w, g) == [talk[w].data EXCEPT !.graph = g]   \* Fault: without its hash.
Takes(w, g) == [talk[w].data EXCEPT !.graph = g, !.hash = g]

\* update_doc_rel: the keys of the copy, which are all there are, over those stored.
Update(data) ==
  doc' = [key \in DOMAIN data \cup DOMAIN doc |->
            IF key \in DOMAIN data THEN data[key] ELSE doc[key]]

Store(w, data, at) ==
  /\ Update(data)
  /\ talk' = [talk EXCEPT ![w] = [Idle EXCEPT !.data = data, !.at = at]]
  /\ UNCHANGED <<run, stop, loop>>

Stale(w) == talk[w].graph # talk[w].data.hash

\* The hash is as the server has it, or the summary came along.
Greeted(w) ==
  /\ At(w, "hello") /\ (Stale(w) => talk[w].sends)
  /\ Store(w, IF talk[w].sends THEN Takes(w, talk[w].graph) ELSE talk[w].data, "stored")

AskSummary(w) ==
  /\ At(w, "hello") /\ Stale(w) /\ ~talk[w].sends
  /\ talk' = [talk EXCEPT ![w].at = "asking"]
  /\ UNCHANGED <<doc, run, stop, loop>>

Summary(w) ==
  /\ At(w, "asking")
  /\ \E g \in Graph : Store(w, Takes(w, g), "stored")

\* No summary in five seconds, or the client is gone before its question is stored.
GiveUp(w) ==
  /\ talk[w].at \in {"hello", "asking", "stored"} /\ loop = Free
  /\ talk' = [talk EXCEPT ![w] = Over]
  /\ UNCHANGED <<doc, run, stop, loop>>

\* The question is stored, and a job gets the chat.
Ask(w) ==
  /\ At(w, "stored")
  /\ LET data == [talk[w].data EXCEPT !.messages = Append(@, Question(w))]
     IN /\ Update(data)
        /\ talk' = [talk EXCEPT ![w].data = data, ![w].at = "talking"]
  /\ run' = [run EXCEPT ![w].at = "head"]
  /\ UNCHANGED <<stop, loop>>

\* The job has a result: the answer is added to the handler's copy and all of it stored.
\* A stopped job's answer is what it had by then.
Answered(w) ==
  /\ At(w, "talking") /\ run[w].at = "ended"
  /\ Update([talk[w].data EXCEPT !.messages = Append(@, Answer(w))])
  /\ talk' = [talk EXCEPT ![w] = Over]
  /\ UNCHANGED <<run, stop, loop>>

\* The stream ends without one: the job reported an error and is killed for it, the
\* client is gone, or poll_result raises as the job is done before its last reports are
\* read.
Unanswered(w) ==
  /\ At(w, "talking")
  /\ talk' = [talk EXCEPT ![w] = Over]
  /\ stop' = [stop EXCEPT ![w] = TRUE]
  /\ UNCHANGED <<doc, run, loop>>

\* wp.stop waits for the job on the event loop itself.
Stop(w) ==
  /\ At(w, "talking") /\ run[w].at # "ended" /\ ~stop[w]
  /\ stop' = [stop EXCEPT ![w] = TRUE]
  /\ loop' = w
  /\ UNCHANGED <<doc, talk, run>>

Stopped(w) ==
  /\ loop = w /\ run[w].at = "ended"
  /\ loop' = Free
  /\ UNCHANGED <<doc, talk, run, stop>>

-----------------------------------------------------------------------------
(* The chat, through other requests *)

\* update_last_id: what comes after the message with that id is dropped.
Upto(messages, id) ==
  LET found == {i \in DOMAIN messages : messages[i] = id}
  IN IF found = {} THEN messages ELSE SubSeq(messages, 1, CHOOSE i \in found : TRUE)

\* The client saves its project, with the last message it shows; it shows no other than
\* those of the chat.
Save ==
  /\ loop = Free
  /\ \E id \in ToSet(doc.messages) :
       doc' = [doc EXCEPT !.messages = Upto(@, id), !.last = <<id>>]
  /\ UNCHANGED <<talk, run, stop, loop>>

\* get_chat rolls the chat back to what was saved.
GetChat ==
  /\ loop = Free /\ doc.last # <<>>
  /\ doc' = [doc EXCEPT !.messages = Upto(@, doc.last[1])]
  /\ UNCHANGED <<talk, run, stop, loop>>

ClearChat ==
  /\ loop = Free
  /\ doc' = [doc EXCEPT !.messages = <<>>, !.last = <<>>]
  /\ UNCHANGED <<talk, run, stop, loop>>

-----------------------------------------------------------------------------
(* The job: run_with_tools, once for the narrator and once for the builder *)

Job(w, new) == /\ run' = [run EXCEPT ![w] = new]
               /\ UNCHANGED <<doc, talk, stop, loop>>

\* The head of the loop: stopped, flooded, or another call.
Call(w) ==
  /\ run[w].at = "head"
  /\ LET r == run[w]
     IN Job(w, IF stop[w] \/ r.calls >= Flood THEN [r EXCEPT !.at = "after"]
               ELSE [r EXCEPT !.at = "stream", !.calls = @ + 1])

\* handle_tool_calls: with an empty registry a call is reported and passed over.
Runs(w) == run[w].tools

\* build_graph and build_graph_digit_2_conv leave a plan once, and never after the stop.
Grants(w, kind) == kind # "raises" /\ run[w].built = 0 /\ ~stop[w]

\* A chunk with tool calls; a tool that raises counts as run.
Tool(w) ==
  /\ w \in Tooled /\ run[w].at = "stream" /\ Runs(w)
  /\ \E kind \in {"plan", "auto", "raises"} :
       LET r == run[w]
           builds == Grants(w, kind)
           done == r.rounds + 1 >= ToolRounds
       IN Job(w, [r EXCEPT !.at = "head", !.rounds = @ + 1,
                           !.tools = @ /\ ~done,
                           !.plan = IF builds THEN kind ELSE @,
                           !.built = IF builds THEN @ + 1 ELSE @])

\* The stream ends with no tool run; or it raises, over a quota after a wait. An error
\* is reported to the handler's stream.
Close(w) ==
  /\ run[w].at = "stream"
  /\ Job(w, [run[w] EXCEPT !.at = "after"])

\* talk_task goes on with the builder, who gets the plan alone and no tools.
Builder(w) ==
  /\ run[w].at = "after" /\ run[w].loop = "narrator"
  /\ run[w].plan = "plan" /\ ~stop[w]
  /\ Job(w, [run[w] EXCEPT !.at = "head", !.loop = "builder", !.calls = 0, !.rounds = 0,
                            !.tools = FALSE])

\* The end; the text that stands for an automatic build comes before it.
End(w) ==
  /\ run[w].at = "after"
  /\ run[w].loop = "builder" \/ run[w].plan # "plan" \/ stop[w]
  /\ Job(w, [Fresh EXCEPT !.at = "ended"])

Next ==
  \/ \E w \in Talk :
       \/ Open(w) \/ Greeted(w) \/ AskSummary(w) \/ Summary(w) \/ GiveUp(w) \/ Ask(w)
       \/ Answered(w) \/ Unanswered(w) \/ Stop(w) \/ Stopped(w)
       \/ Call(w) \/ Tool(w) \/ Close(w) \/ Builder(w) \/ End(w)
  \/ Save \/ GetChat \/ ClearChat

Spec == Init /\ [][Next]_vars
-----------------------------------------------------------------------------
\* The chat, the talks and the jobs have their types.
ApiTalkTypeOK ==
  /\ doc.messages \in Seq([role : {"user", "model"}, of : Talk])
  /\ loop \in Talk \cup {Free}
  /\ \A w \in Talk : run[w].calls \in 0..Flood /\ run[w].built \in 0..1

\* However talks, trims and clears overwrite each other's chat, an answer in it has its
\* question before it.
AnswersBehind ==
  \A i \in DOMAIN doc.messages : LET m == doc.messages[i]
    IN m.role = "model" => \E j \in 1..(i - 1) : doc.messages[j] = Question(m.of)

\* The stored hash is the stored graph's, so a client whose hash it is need not send it.
HashOfGraph == doc.hash = doc.graph

\* The model is asked as often as the rounds of tools allow, and the flood guard has
\* nothing to do.
CallsBounded ==
  \A w \in Talk : run[w].calls <= (IF run[w].loop = "builder" THEN 1 ELSE ToolRounds + 1)

\* What the talks of the API service keep.
ApiTalkHolds == AnswersBehind /\ HashOfGraph /\ CallsBounded
=============================================================================
