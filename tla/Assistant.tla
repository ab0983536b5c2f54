------------------------------ MODULE Assistant ------------------------------
(* The assistants of the two services: the talks of AxonTalk, the runs of the *)
(* model that a talk starts in a thread, and the talks of the API service,    *)
(* which share nothing with them. A talk sees of its run what RunPromise says *)
(* and a text.                                                                *)
EXTENDS AxonTalk

CONSTANTS
  Thread, Flood, ToolRounds, Interval, MaxChunks, MaxTools,   \* of ModelRun
  Client, Tooled, ApiGraph, ApiFlood, ApiToolRounds, LoopFree     \* of ApiTalk

VARIABLES
  mRun, mHolder, mSince, mStop,
  tDoc, tTalk, tRun, tStop, tLoop

mVars == <<mRun, mHolder, mSince, mStop>>
tVars == <<tDoc, tTalk, tRun, tStop, tLoop>>

M == INSTANCE ModelRun WITH
  run <- mRun, holder <- mHolder, since <- mSince, stop <- mStop

T == INSTANCE ApiTalk WITH
  Free <- LoopFree,
  Talk <- Client, Graph <- ApiGraph, Flood <- ApiFlood, ToolRounds <- ApiToolRounds,
  doc <- tDoc, talk <- tTalk, run <- tRun, stop <- tStop, loop <- tLoop

\* The tools of the assistant last as long as the flood guard lets it call: both are
\* five (FLOOD_MAX_CALLS and the max_tool_rounds of run_talk).
ASSUME RunAssumption ==
  /\ "none" \notin Thread /\ Interval \in Nat /\ MaxTools \in [Thread -> Nat]
  /\ Flood \in Nat /\ ToolRounds \in Nat /\ Flood <= ToolRounds

ASSUME ClientAssumption == ApiFlood \in Nat /\ ApiToolRounds \in Nat \ {0}

-----------------------------------------------------------------------------
\* The talks and the threads have their types.
AssistantTypeOK == TypeOK /\ M!ModelRunTypeOK /\ T!ApiTalkTypeOK

\* Runs of the model: calls to a provider are apart, and it is sent no open call.
ProviderServed == M!ProviderServed
\* Runs of the model: what a talk relies on.
KeepsPromise == M!KeepsPromise

\* API service: an answer is behind its question, a hash is its graph's, and the model is
\* asked no more often than the rounds allow.
ApiTalkHolds == T!ApiTalkHolds
=============================================================================
