--------------------------- MODULE LocalInference ---------------------------
(* Inference without a server: the builder and a Python process exchange      *)
(* numbered requests and responses through one file each. The blocks send as  *)
(* values change, and what comes while a request is out waits, the newest     *)
(* only; a script runs the model and waits for what comes back.               *)
EXTENDS Integers

CONSTANT MaxSends   \* bound on what blocks and script send

VARIABLES
  channel,   \* of the builder: [open, index, last, inFlight, pending]
  opener,    \* who opened it; a script that did runs it once without waiting ("hasty"
             \* when a request was out)
  asked,     \* what the script waits for: 0, or the number of its request
  polled,    \* inference_polling: "none", "waiting", or the number of an answer
  given,     \* what the script got: [asked, answer] or zeros
  request,   \* the files; a response is [phase, index]
  response,
  stop,
  process,   \* "none", "starting", "polling", "running", "closed", "dead"
  lastSeq,   \* of the process, and the request that it runs
  job,
  sends,     \* what was sent so far
  latest,    \* what the blocks sent last, if it could be written
  shown      \* what the last answer that was applied is about

vars == <<channel, opener, asked, polled, given, request, response, stop, process, lastSeq,
          job, sends, latest, shown>>

None == 0
NoRequest == [seq |-> -1, data |-> None]
NoResponse == [phase |-> "none", index |-> -1, data |-> None]
Live == process \in {"starting", "polling", "running"}

Init ==
  /\ channel = [open |-> FALSE, index |-> 0, last |-> -1, inFlight |-> FALSE, pending |-> None]
  /\ opener = "nobody"
  /\ asked = 0 /\ polled = "none" /\ given = [asked |-> 0, answer |-> 0]
  /\ request = NoRequest /\ response = NoResponse /\ stop = FALSE
  /\ process = "none" /\ lastSeq = -1 /\ job = NoRequest
  /\ sends = 0 /\ latest = None /\ shown = None
-----------------------------------------------------------------------------
(* The builder *)
Open(who) ==
  /\ opener = "nobody"
  /\ opener' = who
  /\ channel' = [channel EXCEPT !.open = TRUE]
  /\ process' = "starting"
  /\ UNCHANGED <<asked, polled, given, request, response, stop, lastSeq, job, sends, latest, shown>>

\* A request replaces the one in the file; if it cannot be written nothing is out.
Queue(c, data, written) ==
  /\ channel' = [c EXCEPT !.index = @ + 1, !.inFlight = written]
  /\ request' = IF written THEN [seq |-> c.index + 1, data |-> data] ELSE request
  /\ polled' = IF written THEN "waiting" ELSE "none"

\* Fault: what waits is not replaced.
CoalescedOldest(data) == IF channel.pending = None THEN data ELSE channel.pending
Coalesced(data) == data

Send(written) ==
  /\ channel.open /\ sends < MaxSends
  /\ sends' = sends + 1
  /\ IF channel.inFlight
     THEN /\ channel' = [channel EXCEPT !.pending = Coalesced(sends + 1)]
          /\ latest' = sends + 1
          /\ UNCHANGED <<request, polled>>
     ELSE /\ Queue(channel, sends + 1, written)
          /\ latest' = IF written THEN sends + 1 ELSE None
  /\ UNCHANGED <<opener, asked, given, response, stop, process, lastSeq, job, shown>>

\* A script waits until nothing is out, but for the one that opened the channel.
Run(written) ==
  /\ channel.open /\ sends < MaxSends /\ asked = 0
  /\ ~channel.inFlight \/ opener = "script"
  /\ sends' = sends + 1
  /\ Queue(channel, sends + 1, written)
  /\ asked' = IF written THEN channel.index + 1 ELSE 0
  /\ opener' = CASE opener # "script" -> opener
                  [] opener = "script" /\ channel.inFlight -> "hasty"
                  [] OTHER -> "blocks"
  /\ latest' = IF channel.pending = None THEN None ELSE latest
  /\ UNCHANGED <<given, response, stop, process, lastSeq, job, shown>>

\* An answer is applied, and what waited for it goes out in the same frame.
Poll(written) ==
  /\ channel.open /\ response.index > channel.last
  /\ LET read == [channel EXCEPT !.last = response.index, !.inFlight = FALSE, !.pending = None]
     IN IF response.phase = "closed"
        THEN /\ channel' = [read EXCEPT !.open = FALSE]
             /\ polled' = "none"
             /\ UNCHANGED <<request, latest, shown>>
        ELSE /\ shown' = response.data
             /\ IF channel.pending # None
                THEN /\ Queue(read, channel.pending, written)
                     /\ latest' = IF written THEN latest ELSE None
                ELSE /\ channel' = read
                     /\ polled' = "answer"
                     /\ UNCHANGED <<request, latest>>
  /\ UNCHANGED <<opener, asked, given, response, stop, process, lastSeq, job, sends>>

\* The script looks in the next frame; the request of another may have taken its place.
Awaken ==
  /\ asked # 0 /\ polled # "waiting"
  /\ given' = IF polled = "answer" THEN [asked |-> asked, answer |-> channel.last] ELSE given
  /\ asked' = 0
  /\ polled' = "none"
  /\ UNCHANGED <<channel, opener, request, response, stop, process, lastSeq, job, sends, latest, shown>>

\* By force the process is killed as well.
Close(force) ==
  /\ channel.open
  /\ channel' = [channel EXCEPT !.open = FALSE, !.inFlight = FALSE, !.pending = None]
  /\ stop' = TRUE
  /\ polled' = "none"
  /\ process' = IF force /\ Live THEN "dead" ELSE process
  /\ UNCHANGED <<opener, asked, given, request, response, lastSeq, job, sends, latest, shown>>
-----------------------------------------------------------------------------
(* infer_loop *)
Ready ==
  /\ process = "starting"
  /\ process' = "polling"
  /\ response' = [NoResponse EXCEPT !.phase = "ready"]
  /\ UNCHANGED <<channel, opener, asked, polled, given, request, stop, lastSeq, job, sends, latest, shown>>

Take ==
  /\ process = "polling" /\ ~stop /\ request.seq > lastSeq
  /\ process' = "running"
  /\ job' = request
  /\ UNCHANGED <<channel, opener, asked, polled, given, request, response, stop, lastSeq, sends, latest, shown>>

\* A failed inference is answered with an error.
Answer(phase) ==
  /\ process = "running"
  /\ process' = "polling"
  /\ response' = [phase |-> phase, index |-> job.seq, data |-> job.data]
  /\ lastSeq' = job.seq
  /\ UNCHANGED <<channel, opener, asked, polled, given, request, stop, job, sends, latest, shown>>

\* Stopped, or idle for half an hour: the builder has long read the last answer then.
CloseLoop ==
  /\ process = "polling"
  /\ stop \/ (request.seq <= lastSeq /\ channel.last = lastSeq)
  /\ process' = "closed"
  /\ response' = [phase |-> "closed", index |-> lastSeq, data |-> None]
  /\ UNCHANGED <<channel, opener, asked, polled, given, request, stop, lastSeq, job, sends, latest, shown>>

\* A response that cannot be put in place, or a model that cannot be read, ends the process.
Die ==
  /\ Live
  /\ process' = "dead"
  /\ UNCHANGED <<channel, opener, asked, polled, given, request, response, stop, lastSeq, job, sends, latest, shown>>

Next ==
  \/ \E who \in {"blocks", "script"} : Open(who)
  \/ \E written \in BOOLEAN : Send(written) \/ Run(written) \/ Poll(written)
  \/ Awaken \/ \E force \in BOOLEAN : Close(force)
  \/ Ready \/ Take \/ \E phase \in {"inference", "error"} : Answer(phase)
  \/ CloseLoop \/ Die

Spec == Init /\ [][Next]_vars
-----------------------------------------------------------------------------
InferenceTypeOK ==
  /\ channel.index \in 0..2 * MaxSends /\ channel.last \in -1..channel.index
  /\ lastSeq \in -1..channel.index /\ polled \in {"none", "waiting", "answer"}
  /\ process \in {"none", "starting", "polling", "running", "closed", "dead"}

\* While the process lives, the newest request is still to be read, is run, or its answer
\* waits to be read: however files are overwritten, none that is out is forgotten.
NothingForgotten ==
  channel.open /\ channel.inFlight /\ Live =>
    /\ request.seq = channel.index
    /\ \/ lastSeq < channel.index
       \/ response.index = channel.index /\ channel.last < channel.index

\* When nothing is out, what is shown is about what the blocks sent last.
LatestShown ==
  opener # "hasty" /\ channel.open /\ ~channel.inFlight =>
    channel.pending = None /\ (latest # None => shown = latest)

\* A script that waited first never gets the answer to an older request than its own.
AnswerNotStale == opener # "hasty" => given.answer >= given.asked

InferenceHolds == NothingForgotten /\ LatestShown /\ AnswerNotStale
=============================================================================
