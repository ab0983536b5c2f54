----------------------------- MODULE AudioBatch -----------------------------
(* Transcription at the API service (routes/audio_bp.py): requests queue and  *)
(* a batch of them is transcribed by one job (transcribe_batch_task of        *)
(* worker/worker_tasks.py), started by a full queue or by a timer, one batch  *)
(* at a time. The handlers share the event loop; the job is in its thread.    *)
EXTENDS Naturals, Sequences, FiniteSets, SequencesExt

CONSTANTS
  Request,
  Batch,       \* per_audio_batch, at least 1
  None

VARIABLES
  request,    \* how far each is
  queue,      \* _transcribe_queue
  task,       \* launches on their way: of each request the one it made, or "none"
  batch,      \* what the running job transcribes; empty when _batch_lock is free
  answer,     \* of each request: whose text it was answered, or None
  met         \* history: a launch found the lock taken

vars == <<request, queue, task, batch, answer, met>>

Init ==
  /\ request = [r \in Request |-> "new"]
  /\ queue = <<>>
  /\ task = [r \in Request |-> "none"]
  /\ batch = <<>>
  /\ answer = [r \in Request |-> None]
  /\ met = FALSE

-----------------------------------------------------------------------------
\* transcribe_file: the audio is queued. A full queue is launched at once, and a
\* request to one that is not, after batch_timeout.
Post(r) ==
  /\ request[r] = "new"
  /\ request' = [request EXCEPT ![r] = "waiting"]
  /\ queue' = Append(queue, r)
  /\ task' = [task EXCEPT ![r] = IF Len(queue) + 1 >= Batch THEN "launch" ELSE "timer"]
  /\ UNCHANGED <<batch, answer, met>>

\* Silence is answered before it comes to the queue.
PostSilence(r) ==
  /\ request[r] = "new"
  /\ request' = [request EXCEPT ![r] = "answered"]
  /\ answer' = [answer EXCEPT ![r] = r]
  /\ UNCHANGED <<queue, task, batch, met>>

Locked == batch # <<>>

\* launch_batch, by schedule_batch after its sleep or by itself: nothing with the lock
\* taken, else a batch from the front of the queue is submitted.
Launch(r) ==
  /\ task[r] # "none"
  /\ task' = [task EXCEPT ![r] = "none"]
  /\ met' = (met \/ Locked)
  /\ LET n == IF Locked THEN 0 ELSE IF Batch < Len(queue) THEN Batch ELSE Len(queue)
     IN /\ batch' = batch \o SubSeq(queue, 1, n)
        /\ queue' = SubSeq(queue, n + 1, Len(queue))
  /\ UNCHANGED <<request, answer>>

\* transcribe_batch_task: a text for each audio, in order.
Texts(b) == [i \in DOMAIN b |-> b[i]]

\* The texts are zipped with the futures; one that is no longer open is passed over.
Done ==
  /\ Locked
  /\ LET open == {r \in ToSet(batch) : request[r] = "waiting"}
     IN /\ answer' = [r \in Request |->
             IF r \in open THEN Texts(batch)[CHOOSE i \in DOMAIN batch : batch[i] = r] ELSE answer[r]]
        /\ request' = [r \in Request |-> IF r \in open THEN "answered" ELSE request[r]]
  /\ batch' = <<>>
  /\ UNCHANGED <<queue, task, met>>

\* The job has raised: its requests are never answered.
Failed ==
  /\ Locked
  /\ request' = [r \in Request |-> IF r \in ToSet(batch) /\ request[r] = "waiting"
                                   THEN "lost" ELSE request[r]]
  /\ batch' = <<>>
  /\ UNCHANGED <<queue, task, answer, met>>

\* A client leaves, or the server gives its request up; its audio stays where it is.
Leave(r) ==
  /\ request[r] \in {"waiting", "lost"}
  /\ request' = [request EXCEPT ![r] = "gone"]
  /\ UNCHANGED <<queue, task, batch, answer, met>>

\* A client whose request is over comes again.
Again(r) ==
  /\ request[r] \in {"answered", "gone"} /\ task[r] = "none"
  /\ r \notin ToSet(queue) \cup ToSet(batch)
  /\ request' = [request EXCEPT ![r] = "new"]
  /\ answer' = [answer EXCEPT ![r] = None]
  /\ UNCHANGED <<queue, task, batch, met>>

Next ==
  \/ \E r \in Request : Post(r) \/ PostSilence(r) \/ Launch(r) \/ Leave(r) \/ Again(r)
  \/ Done \/ Failed

Spec == Init /\ [][Next]_vars
-----------------------------------------------------------------------------
\* The requests, the queue and the batch have their types.
AudioBatchTypeOK ==
  /\ request \in [Request -> {"new", "waiting", "answered", "lost", "gone"}]
  /\ queue \in Seq(Request) /\ batch \in Seq(Request) /\ Len(batch) <= Batch
  /\ task \in [Request -> {"none", "timer", "launch"}]

\* Whoever is answered gets the text of its own audio, however many were in the
\* batch or left it.
OwnAnswer == \A r \in Request : answer[r] \in {r, None}

\* A request is left in the queue with nothing on its way to fetch it only when some
\* launch has met a running batch.
StrandedByLock ==
  queue # <<>> /\ ~Locked /\ (\A r \in Request : task[r] = "none") => met

\* What transcription keeps.
AudioServed == OwnAnswer /\ StrandedByLock
=============================================================================
