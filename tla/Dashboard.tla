----------------------------- MODULE Dashboard -----------------------------
(* The page of the on-prem runtime and the endpoints it asks:                *)
(* dashboard/app.js with create_app of api/app.py.                           *)
(*                                                                           *)
(* A refresh asks for several things at once and shows them when all are     *)
(* there; the timer starts the next one whether or not the last is over. Of  *)
(* the answers only the list of jobs is kept here: the counts are counts of  *)
(* it. The endpoints that read are plain functions: the event loop hands     *)
(* them to a thread and sends what they return, and a training holds the     *)
(* event loop from its start to its end, while threads that already run go   *)
(* on. JobEngine models the jobs; here they are a state.                     *)
EXTENDS Integers

CONSTANTS
  Job,        \* the jobs there may be
  Token,      \* what may be in the token field
  Good,       \* the token of the runtime; "" when it has none
  Slot,       \* bound: refreshes under way at once
  MaxEdits    \* bound: changes of the token field

VARIABLES
  jobs,      \* the state of each job
  loop,      \* the job whose training holds the event loop, or ""
  stops,     \* jobs whose stop event is set
  edits,     \* changes of the token so far
  token,     \* authToken of the page, kept in the browser
  refresh,   \* the refreshes: their token, what is answered, and where they are
  command,   \* an upload or a stop under way
  shown      \* what the page shows, and whether nothing changed since it was asked for

vars == <<jobs, loop, stops, edits, token, refresh, command, shown>>

State == {"absent", "queued", "running", "ended", "gone"}
Running(view) == {j \in Job : view[j] = "running"}

Accepted(t) == Good = "" \/ t = Good

Blank == [j \in Job |-> "absent"]
NoCommand == [kind |-> "none", job |-> "", token |-> "", at |-> "idle"]

\* What the page can tell of a job: one that was removed is not listed.
Visible(j) == IF jobs[j] = "gone" THEN "absent" ELSE jobs[j]

Idle == [at |-> "idle", token |-> "", current |-> FALSE, asked |-> {}, jobs |-> Blank]

Init ==
  /\ jobs = Blank /\ loop = "" /\ stops = {} /\ edits = 0
  /\ token = "" /\ refresh = [k \in Slot |-> Idle] /\ command = NoCommand
  /\ shown = [jobs |-> Blank, current |-> FALSE]

\* What is shown or asked for is of before the change.
Outdated == shown' = [shown EXCEPT !.current = FALSE]
Older == [k \in Slot |-> [refresh[k] EXCEPT !.current = FALSE]]

Started(t) == [Idle EXCEPT !.at = "asked", !.token = t, !.current = TRUE, !.asked = Job]
AnIdle(k) == refresh[k].at = "idle" /\ \A i \in Slot : refresh[i].at = "idle" => k <= i

-----------------------------------------------------------------------------
(* The runtime *)

Begin(j) ==
  /\ loop = "" /\ jobs[j] = "queued"
  /\ jobs' = [jobs EXCEPT ![j] = "running"] /\ loop' = j
  /\ Outdated /\ refresh' = Older
  /\ UNCHANGED <<stops, edits, token, command>>

\* Completed, failed or stopped: the page shows them alike.
End(j) ==
  /\ loop = j
  /\ jobs' = [jobs EXCEPT ![j] = "ended"] /\ loop' = ""
  /\ Outdated /\ refresh' = Older
  /\ UNCHANGED <<stops, edits, token, command>>

\* cleanup_jobs, which somebody else asks for.
Clean(j) ==
  /\ jobs[j] = "ended"
  /\ jobs' = [jobs EXCEPT ![j] = "gone"]
  /\ Outdated /\ refresh' = Older
  /\ UNCHANGED <<loop, stops, edits, token, command>>

-----------------------------------------------------------------------------
(* refresh *)

\* The timer, whatever is under way.
Tick(k) ==
  /\ AnIdle(k)
  /\ refresh' = [refresh EXCEPT ![k] = Started(token)]
  /\ UNCHANGED <<jobs, loop, stops, edits, token, command, shown>>

SetToken(k, t) ==
  /\ t # token /\ AnIdle(k) /\ edits < MaxEdits
  /\ token' = t /\ edits' = edits + 1
  /\ Outdated /\ refresh' = [Older EXCEPT ![k] = Started(t)]
  /\ UNCHANGED <<jobs, loop, stops, command>>

\* The event loop hands the questions to threads, or refuses their token.
Dispatch(k) ==
  /\ refresh[k].at = "asked" /\ loop = ""
  /\ refresh' = [refresh EXCEPT
       ![k].at = IF Accepted(refresh[k].token) THEN "thread" ELSE "locked", ![k].token = ""]
  /\ UNCHANGED <<jobs, loop, stops, edits, token, command, shown>>

\* A thread reads the state of one job after that of another.
Read(k, j) ==
  /\ refresh[k].at = "thread" /\ j \in refresh[k].asked
  /\ refresh' = [refresh EXCEPT ![k].asked = @ \ {j}, ![k].jobs[j] = Visible(j)]
  /\ UNCHANGED <<jobs, loop, stops, edits, token, command, shown>>

\* The event loop sends what the threads returned.
Answer(k) ==
  /\ refresh[k].at = "thread" /\ refresh[k].asked = {} /\ loop = ""
  /\ refresh' = [refresh EXCEPT ![k].at = "answered"]
  /\ UNCHANGED <<jobs, loop, stops, edits, token, command, shown>>

\* What is there when the answers are refused stays; the notice is left out.
Render(k) ==
  /\ refresh[k].at \in {"answered", "locked"}
  /\ shown' = IF refresh[k].at = "answered"
              THEN [jobs |-> refresh[k].jobs, current |-> refresh[k].current]
              ELSE shown
  /\ refresh' = [refresh EXCEPT ![k] = Idle]
  /\ UNCHANGED <<jobs, loop, stops, edits, token, command>>

-----------------------------------------------------------------------------
(* What the user does, one thing at a time *)

Send(kind, j) ==
  /\ command = NoCommand
  /\ command' = [kind |-> kind, job |-> j, token |-> token, at |-> "asked"]
  /\ UNCHANGED <<jobs, loop, stops, edits, token, refresh, shown>>

Upload(j) == jobs[j] = "absent" /\ Send("upload", j)
StopJob(j) == shown.jobs[j] = "running" /\ Send("stop", j)

\* create_job on the event loop; a request without the token is refused.
CreateJob ==
  /\ command.at = "asked" /\ command.kind = "upload" /\ Accepted(command.token) /\ loop = ""
  /\ jobs' = [jobs EXCEPT ![command.job] = "queued"]
  /\ command' = [command EXCEPT !.at = "served"]
  /\ Outdated /\ refresh' = Older
  /\ UNCHANGED <<loop, stops, edits, token>>

TakeCommand ==
  /\ command.at = "asked" /\ loop = ""
  /\ command.kind = "stop" \/ ~Accepted(command.token)
  /\ command' = [command EXCEPT !.at = IF Accepted(command.token) THEN "thread" ELSE "refused"]
  /\ UNCHANGED <<jobs, loop, stops, edits, token, refresh, shown>>

\* stop_job on a thread: a job that is not there is refused.
ServeStop ==
  /\ command.at = "thread"
  /\ IF jobs[command.job] = "gone"
     THEN command' = [command EXCEPT !.at = "refused"] /\ UNCHANGED stops
     ELSE /\ command' = [command EXCEPT !.at = "served"]
          /\ stops' = stops \cup {command.job}
  /\ UNCHANGED <<jobs, loop, edits, token, refresh, shown>>

\* The page hears of it, and asks again when it was done.
Refused ==
  /\ command.at = "refused" /\ loop = ""
  /\ command' = NoCommand
  /\ UNCHANGED <<jobs, loop, stops, edits, token, refresh, shown>>

Done(k) ==
  /\ command.at = "served" /\ loop = "" /\ AnIdle(k)
  /\ refresh' = [refresh EXCEPT ![k] = Started(token)]
  /\ command' = NoCommand
  /\ UNCHANGED <<jobs, loop, stops, edits, token, shown>>

Next ==
  \/ \E j \in Job : Begin(j) \/ End(j) \/ Clean(j) \/ Upload(j) \/ StopJob(j)
  \/ \E k \in Slot, t \in Token : SetToken(k, t)
  \/ \E k \in Slot : Tick(k) \/ Dispatch(k) \/ Answer(k) \/ Render(k) \/ Done(k)
  \/ \E k \in Slot, j \in Job : Read(k, j)
  \/ TakeCommand \/ CreateJob \/ ServeStop \/ Refused

Spec == Init /\ [][Next]_vars

-----------------------------------------------------------------------------
DashboardTypeOK ==
  /\ jobs \in [Job -> State] /\ loop \in Job \cup {""} /\ stops \subseteq Job
  /\ edits \in 0..MaxEdits /\ token \in Token
  /\ \A k \in Slot : DOMAIN refresh[k] = DOMAIN Idle /\ refresh[k].jobs \in [Job -> State]
  /\ DOMAIN command = DOMAIN NoCommand /\ shown.jobs \in [Job -> State]

\* A page whose questions were all asked since the last change, and which was shown since, is
\* right, although its jobs are read one after another and an older refresh may be shown after a
\* newer one.
PageCurrent ==
  shown.current =>
    /\ \A j \in Job : shown.jobs[j] = Visible(j)
    /\ Accepted(token)

\* A Stop button on the page is one of a job that is over: only a thread that was already at
\* work reads that a job runs, and what it read is sent when the training has let go of the
\* event loop.
StopShownLate == \A j \in Running(shown.jobs) : jobs[j] \in {"ended", "gone"}

PageHolds == PageCurrent /\ StopShownLate
=============================================================================
