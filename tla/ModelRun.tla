------------------------------ MODULE ModelRun ------------------------------
(* A run of the model in its thread: run_talk of axon/service.py, which asks  *)
(* the assistant and then, when it has accepted a plan, the builder, each by  *)
(* run_with_tools of axon/genai_helpers.py over stream_progress of a provider *)
(* (axon/model_providers.py, model_api.py). The loops of all threads share    *)
(* one pace of calls. AxonTalk has a run as one thread of a few steps; here   *)
(* are its rounds.                                                            *)
EXTENDS Naturals, Sequences

CONSTANTS
  Thread,
  Flood,      \* FLOOD_MAX_CALLS of one loop
  ToolRounds, \* max_tool_rounds of the assistant's loop
  Interval,   \* FLOOD_MIN_INTERVAL, in ticks
  MaxChunks,  \* bound: pieces of text in one stream
  MaxTools    \* bound: of each run, tool calls in one stream

VARIABLES
  run,      \* of each run: see below
  holder,   \* who holds _call_lock, or "none"
  since,    \* ticks since a call to a provider was last permitted, up to Interval
  stop      \* of each run: should_stop

vars == <<run, holder, since, stop>>

\* What a tool call of the model comes to: a reading tool, a build the limiter
\* grants, one it denies, a tool that raises, arguments that are no JSON, a tool
\* that is not registered.
Kind == {"read", "build", "denied", "raises", "badargs", "unknown"}

\* loop: which loop runs.  calls, rounds: of this loop.  tools: the registry is not
\* empty.  left: tool calls of this round still to execute.  executed: one was.
\* holes: registered calls in the history that have no answer.  chunks: of this
\* stream.  text: pieces sent to the talk.  thinking: an opened tag was sent last.
\* sleeps: it must wait for its turn.
Fresh == [at |-> "ready", loop |-> "assistant", calls |-> 0, rounds |-> 0, tools |-> TRUE,
          left |-> <<>>, executed |-> FALSE, holes |-> FALSE, chunks |-> 0, text |-> 0,
          thinking |-> FALSE, sleeps |-> FALSE, planned |-> FALSE, built |-> 0]

Init == /\ run = [r \in Thread |-> Fresh]
        /\ holder = "none"
        /\ since = Interval
        /\ stop = [r \in Thread |-> FALSE]

-----------------------------------------------------------------------------
\* emit_wrapper: nothing is said after the stop.
Said(r, n) == IF stop[r] THEN run[r].text ELSE run[r].text + n

Begin(r) ==
  /\ run[r].at = "ready"
  /\ run' = [run EXCEPT ![r].at = "head"]
  /\ UNCHANGED <<holder, since, stop>>

Flooded(r) == run[r].calls >= Flood

\* The head of the loop: stopped, aborted by the flood guard, or another call.
Head_(r) ==
  /\ run[r].at = "head"
  /\ run' = [run EXCEPT ![r].at = IF stop[r] \/ Flooded(r) THEN "after" ELSE "pace"]
  /\ UNCHANGED <<holder, since, stop>>

\* _pace_call sleeps with the lock held, and then notes the time.
Free(r) == holder = "none"

Pace(r) ==
  /\ run[r].at = "pace"
  /\ Free(r)
  /\ holder' = r
  /\ run' = [run EXCEPT ![r].at = "sleep", ![r].sleeps = since < Interval]
  /\ UNCHANGED <<since, stop>>

\* A thread that found the last call too near has slept the difference. It lets go of the
\* lock and then calls the provider, which nothing here depends on: one step.
Call(r) ==
  /\ run[r].at = "sleep"
  /\ run[r].sleeps => since = Interval
  /\ since' = 0
  /\ holder' = "none"
  /\ run' = [run EXCEPT ![r].at = "stream", ![r].calls = @ + 1, ![r].chunks = 0,
                        ![r].sleeps = FALSE, ![r].executed = FALSE]
  /\ UNCHANGED stop

Tick == /\ since < Interval
        /\ since' = since + 1
        /\ UNCHANGED <<run, holder, stop>>

\* stream_progress passes a piece of text on; a stop ends the stream.
Text(r) ==
  /\ run[r].at = "stream"
  /\ run[r].chunks < MaxChunks
  /\ ~stop[r]
  /\ \E opens \in BOOLEAN :
       run' = [run EXCEPT ![r].chunks = @ + 1, ![r].text = Said(r, 1), ![r].thinking = opens]
  /\ UNCHANGED <<holder, since, stop>>

\* The stream has ended with tool calls, or without any, or was left at the stop.
Calls(r) ==
  /\ run[r].at = "stream"
  /\ \E n \in 0..MaxTools[r] : \E calls \in [1..n -> Kind] :
       run' = [run EXCEPT ![r].at = "tools", ![r].left = calls]
  /\ UNCHANGED <<holder, since, stop>>

\* Some provider raises in the middle: a quota, after a wait, leaves the loop just
\* as any other error does.
Raise(r) ==
  /\ run[r].at = "stream"
  /\ run' = [run EXCEPT ![r].at = "after"]
  /\ UNCHANGED <<holder, since, stop>>

Registered(r, kind) == run[r].loop = "assistant" /\ kind # "unknown"
Executes(r, kind)   == run[r].tools /\ Registered(r, kind)

\* Fault: a tool that raised leaves no message in the history.
AnswersResults(r, kind) == kind = "badargs" \/ (Executes(r, kind) /\ kind # "raises")
\* _execute_tool_calls: the arguments are read before the tool is looked up, and a
\* result or an error goes into the history; an ignored call leaves nothing there.
Answers(r, kind) == kind = "badargs" \/ Executes(r, kind)

MayBuildAgain(r) == ~stop[r]   \* Fault: every granted plan is recorded.
\* build_graph is granted once in a run, and not after the stop.
MayBuild(r) == ~stop[r] /\ run[r].built = 0

Tool(r) ==
  /\ run[r].at = "tools" /\ run[r].left # <<>>
  /\ LET kind   == Head(run[r].left)
         builds == kind = "build" /\ Executes(r, kind) /\ MayBuild(r)
     IN run' = [run EXCEPT
          ![r].left = Tail(@),
          ![r].executed = @ \/ kind = "badargs" \/ Executes(r, kind),
          ![r].holes = @ \/ (Registered(r, kind) /\ ~Answers(r, kind)),
          ![r].built = IF builds THEN @ + 1 ELSE @,
          ![r].planned = @ \/ builds]
  /\ UNCHANGED <<holder, since, stop>>

\* The round is done: another one after tools, the last of them without tools.
Round(r) ==
  /\ run[r].at = "tools" /\ run[r].left = <<>>
  /\ LET more == run[r].executed
         n    == run[r].rounds + 1
         max  == IF run[r].loop = "assistant" THEN ToolRounds ELSE 1
     IN run' = [run EXCEPT ![r].at = IF more THEN "head" ELSE "after",
                           ![r].rounds = IF more THEN n ELSE @,
                           ![r].tools = IF more /\ n >= max THEN FALSE ELSE @]
  /\ UNCHANGED <<holder, since, stop>>

\* run_talk after the assistant: the builder gets a history of its own and no tools. The
\* plan for one fixed network, whose text is sent without a loop, is not told apart.
Builder(r) ==
  /\ run[r].at = "after" /\ run[r].loop = "assistant"
  /\ run[r].planned /\ ~stop[r]
  /\ run' = [run EXCEPT ![r].at = "head", ![r].loop = "builder", ![r].calls = 0,
                        ![r].rounds = 0, ![r].tools = FALSE, ![r].holes = FALSE]
  /\ UNCHANGED <<holder, since, stop>>

\* The end: a thinking tag that stayed open is closed even after the stop.
End(r) ==
  /\ run[r].at = "after"
  /\ run[r].loop = "builder" \/ ~run[r].planned \/ stop[r]
  /\ run' = [run EXCEPT ![r].at = "ended", ![r].thinking = FALSE,
                        ![r].text = IF run[r].thinking THEN @ + 1 ELSE @]
  /\ UNCHANGED <<holder, since, stop>>

Stop(r) ==
  /\ run[r].at \notin {"ready", "ended"} /\ ~stop[r]
  /\ stop' = [stop EXCEPT ![r] = TRUE]
  /\ UNCHANGED <<run, holder, since>>

Next == \/ Tick
        \/ \E r \in Thread :
             \/ Begin(r) \/ Head_(r) \/ Pace(r) \/ Call(r) \/ Text(r) \/ Calls(r)
             \/ Raise(r) \/ Tool(r) \/ Round(r) \/ Builder(r) \/ End(r) \/ Stop(r)

Spec == Init /\ [][Next]_vars
-----------------------------------------------------------------------------
\* The threads and the lock have their types.
ModelRunTypeOK ==
  /\ holder \in Thread \cup {"none"}
  /\ since \in 0..Interval
  /\ \A r \in Thread : run[r].calls \in 0..Flood /\ run[r].left \in Seq(Kind)

\* No two permits of _pace_call to call a provider, of one thread or of two, are closer
\* than the interval.
CallsPaced == \A r \in Thread : run'[r].calls > run[r].calls => since = Interval

\* Whenever a model is asked, every call of a registered tool in its history has its
\* answer: a provider refuses a history with an open call.
HistoryAnswered ==
  \A r \in Thread : run[r].at = "stream" => ~run[r].holes

\* Each run keeps what its talk relies on.
Promise == INSTANCE RunPromise WITH
  phase <- [r \in Thread |-> CASE run[r].at = "ready" -> "ready"
                            [] run[r].at = "ended" -> "ended"
                            [] OTHER               -> "running"],
  said <- [r \in Thread |-> run[r].text],
  built <- [r \in Thread |-> run[r].built],
  stopped <- stop

KeepsPromise == Promise!Spec

\* What the runs of a service keep towards the provider: calls are permitted apart, and
\* no history is sent with an open call of a registered tool.
ProviderServed == [][CallsPaced /\ HistoryAnswered']_vars
=============================================================================
