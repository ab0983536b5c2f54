----------------------------- MODULE Classrooms -----------------------------
(* Classrooms of the backend service (classrooms/service.py, routes.py,      *)
(* events.py). A classroom is two documents, the teacher's meta and the      *)
(* roster of students; every change is announced to the open event streams,  *)
(* which then read the documents themselves. Handlers do not await between   *)
(* their reads, writes and announcements; a stream awaits its client after   *)
(* every frame, and the process may die between two writes.                  *)
EXTENDS Naturals, Sequences, FiniteSets

CONSTANTS Teacher, Student, Class, Stream,
          None,        \* no class, no teacher
          MaxChanges,  \* bound: versions of a document
          MaxQueue,    \* bound: frames queued for a stream when a handler starts
          MaxCrashes   \* bound: restarts

Account == Teacher \cup Student

VARIABLES
  config,    \* [account -> my_classroom of its config.doc]
  meta,      \* [class -> its teacher and the version of meta.doc, or None and 0]
  students,  \* [class -> the students in students.doc, each with a version of its state]
  stream,    \* of each stream: its class, its queue, the frame it sends, what it showed last
  todo,      \* the writes the running handler has still to make
  crashes

vars == <<config, meta, students, stream, todo, crashes>>

Closed == [class |-> None, queue |-> <<>>, at |-> "closed", shown |-> None]

Init == /\ config = [a \in Account |-> None]
        /\ meta = [c \in Class |-> [teacher |-> None, version |-> 0]]
        /\ students = [c \in Class |-> [s \in {} |-> 0]]
        /\ stream = [e \in Stream |-> Closed]
        /\ todo = <<>>
        /\ crashes = 0

Free == todo = <<>>

\* A handler that writes may start; the bound keeps slow clients finite.
Ready == Free /\ \A e \in Stream : Len(stream[e].queue) < MaxQueue

Exists(c) == meta[c].teacher # None

\* snapshot: what a stream reads when it is about to send.
Snapshot(c) == [meta |-> meta[c], students |-> students[c]]

Queues(c, frames) ==
  [e \in Stream |-> IF stream[e].class = c /\ stream[e].at # "respond"
                    THEN [stream[e] EXCEPT !.queue = @ \o frames] ELSE stream[e]]

\* ClassroomEventHub.emit
Announce(c, frames) == stream' = Queues(c, frames)

Put(doc, of, is) == [doc |-> doc, of |-> of, is |-> is]

-----------------------------------------------------------------------------
\* generate_id draws until there is no meta.doc under the id.
Fresh(c) == ~Exists(c)

\* create: the config of the teacher, then meta.doc; students.doc follows, empty.
Create(t, c) ==
  /\ Ready
  /\ Fresh(c)
  /\ todo' = <<Put("config", t, c), Put("meta", c, [teacher |-> t, version |-> 0]),
               Put("students", c, [s \in {} |-> 0]), Put("announce", c, <<>>)>>
  /\ UNCHANGED <<config, meta, students, stream, crashes>>

Enrolled(c, a) == [s \in DOMAIN students[c] \cup {a} |-> IF s = a THEN 0 ELSE students[c][s]]

\* join_classroom; the student stays in the roster of a class joined before.
Join(a, c) ==
  /\ Ready
  /\ Exists(c)
  /\ todo' = <<Put("config", a, c), Put("students", c, Enrolled(c, a)),
               Put("announce", c, <<"snapshot">>)>>
  /\ UNCHANGED <<config, meta, students, stream, crashes>>

Dismissed(c, a) == [s \in DOMAIN students[c] \ {a} |-> students[c][s]]

NoFrames == <<>>   \* Fault: the streams do not hear of it.
LeaveFrames == <<"snapshot">>

\* leave_classroom: the config is emptied whichever class is left.
Leave(a, c) ==
  /\ Ready
  /\ Exists(c)
  /\ todo' = <<Put("config", a, None), Put("students", c, Dismissed(c, a)),
               Put("announce", c, LeaveFrames)>>
  /\ UNCHANGED <<config, meta, students, stream, crashes>>

\* The next write of the handler; its announcement is the last one.
Write ==
  /\ todo # <<>>
  /\ todo' = Tail(todo)
  /\ LET w == Head(todo)
     IN /\ config' = IF w.doc = "config" THEN [config EXCEPT ![w.of] = w.is] ELSE config
        /\ meta' = IF w.doc = "meta" THEN [meta EXCEPT ![w.of] = w.is] ELSE meta
        /\ students' = IF w.doc = "students" THEN [students EXCEPT ![w.of] = w.is] ELSE students
        /\ IF w.doc = "announce" THEN Announce(w.of, w.is) ELSE UNCHANGED stream
  /\ UNCHANGED crashes

-----------------------------------------------------------------------------
(* Handlers of one write, which they announce in the same step.              *)

\* require_teacher
Teaches(a, c) == Exists(c) /\ meta[c].teacher = a

\* _update_classroom_meta_field, for the meta and for the lessons. The builder
\* sends no teacher with them.
UpdateMeta(a, c) ==
  /\ Ready
  /\ Teaches(a, c)
  /\ meta[c].version < MaxChanges
  /\ meta' = [meta EXCEPT ![c].version = @ + 1]
  /\ Announce(c, <<"snapshot">>)
  /\ UNCHANGED <<config, students, todo, crashes>>

\* update_student_state: one's own state, or any as the teacher.
UpdateState(a, c, target) ==
  /\ Ready
  /\ Exists(c)
  /\ target = a \/ Teaches(a, c)
  /\ target \in DOMAIN students[c]
  /\ students[c][target] < MaxChanges
  /\ students' = [students EXCEPT ![c][target] = @ + 1]
  /\ Announce(c, <<"snapshot">>)
  /\ UNCHANGED <<config, meta, todo, crashes>>

\* mark_explanation_made, for a lesson or for all; the roster counts as changed
\* for those who waited.
MarkExplained(a, c) ==
  /\ Ready
  /\ Teaches(a, c)
  /\ \E awaiting \in SUBSET DOMAIN students[c] :
       /\ \A s \in awaiting : students[c][s] < MaxChanges
       /\ students' = [students EXCEPT ![c] =
            [s \in DOMAIN @ |-> IF s \in awaiting THEN @[s] + 1 ELSE @[s]]]
  /\ Announce(c, <<"snapshot", "end">>)
  /\ UNCHANGED <<config, meta, todo, crashes>>

-----------------------------------------------------------------------------
(* classroom_event_stream                                                    *)

\* The response is begun; the stream subscribes after this await.
Connect(e, c) ==
  /\ Free
  /\ stream[e].at = "closed"
  /\ Exists(c)
  /\ stream' = [stream EXCEPT ![e] = [Closed EXCEPT !.class = c, !.at = "respond"]]
  /\ UNCHANGED <<config, meta, students, todo, crashes>>

\* It subscribes, reads the first snapshot and sends it.
Subscribe(e) ==
  /\ Free
  /\ stream[e].at = "respond"
  /\ stream' = [stream EXCEPT ![e].at = "send", ![e].shown = Snapshot(stream[e].class)]
  /\ UNCHANGED <<config, meta, students, todo, crashes>>

\* The client has taken the frame.
Sent(e) ==
  /\ stream[e].at = "send"
  /\ stream' = [stream EXCEPT ![e].at = "wait"]
  /\ UNCHANGED <<config, meta, students, todo, crashes>>

\* A frame is taken from the queue; a snapshot is read now, not when announced.
Forward(e) ==
  /\ Free
  /\ stream[e].at = "wait" /\ stream[e].queue # <<>>
  /\ stream' = [stream EXCEPT
       ![e].at = "send", ![e].queue = Tail(@),
       ![e].shown = IF Head(stream[e].queue) = "snapshot" THEN Snapshot(stream[e].class) ELSE @]
  /\ UNCHANGED <<config, meta, students, todo, crashes>>

\* The client is gone: the stream unsubscribes.
Disconnect(e) ==
  /\ stream[e].at # "closed"
  /\ stream' = [stream EXCEPT ![e] = Closed]
  /\ UNCHANGED <<config, meta, students, todo, crashes>>

Crash == /\ crashes < MaxCrashes
         /\ crashes' = crashes + 1
         /\ todo' = <<>>
         /\ stream' = [e \in Stream |-> Closed]
         /\ UNCHANGED <<config, meta, students>>

Next == \/ \E t \in Teacher, c \in Class : Create(t, c)
        \/ \E a \in Account, c \in Class :
             UpdateMeta(a, c) \/ MarkExplained(a, c)
        \/ \E a \in Student, c \in Class : Join(a, c) \/ Leave(a, c)
        \/ \E a \in Account, c \in Class, s \in Student : UpdateState(a, c, s)
        \/ \E e \in Stream, c \in Class : Connect(e, c)
        \/ \E e \in Stream : Subscribe(e) \/ Sent(e) \/ Forward(e) \/ Disconnect(e)
        \/ Write \/ Crash

Spec == Init /\ [][Next]_vars
-----------------------------------------------------------------------------
\* The documents and the streams have their types.
ClassroomsTypeOK ==
  /\ config \in [Account -> Class \cup {None}]
  /\ meta \in [Class -> [teacher : Account \cup {None}, version : 0..MaxChanges]]
  /\ \A c \in Class : DOMAIN students[c] \subseteq Student
  /\ \A e \in Stream : /\ stream[e].class \in Class \cup {None}
                       /\ stream[e].at \in {"closed", "respond", "send", "wait"}

\* A stream that waits with nothing queued has shown its client the classroom as
\* it is, whatever was changed while it connected or sent.
StreamCurrent ==
  \A e \in Stream :
    Free /\ stream[e].at = "wait" /\ stream[e].queue = <<>>
    => stream[e].shown = Snapshot(stream[e].class)

\* A classroom keeps the teacher who created it.
TeacherKept ==
  \A c \in Class : Exists(c) => meta'[c].teacher = meta[c].teacher

\* Without a restart in the middle, an account whose config names a class is its
\* teacher or in its roster.
ConfigBacked ==
  crashes = 0 /\ Free =>
    \A a \in Account : config[a] # None =>
      meta[config[a]].teacher = a \/ a \in DOMAIN students[config[a]]

\* What classrooms keep however requests, streams and restarts interleave: streams
\* show what is, and a classroom keeps its teacher and its members.
ClassroomsHold == [][TeacherKept /\ StreamCurrent' /\ ConfigBacked']_vars
=============================================================================
