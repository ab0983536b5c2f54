---------------------------- MODULE ApiClassrooms ----------------------------
(* Classrooms at the API service (routes/classroom_bp.py): a class is two     *)
(* documents, its meta data and its students, and a stream of server-sent     *)
(* events shows them to whoever opened it. Every handler runs to its end      *)
(* without an await, the streams do not. No handler removes a class, so the   *)
(* reset of a vanished one at the login never applies. Teachers create,       *)
(* students join, as the builder has it.                                      *)
EXTENDS Naturals, Sequences

CONSTANTS
  Teacher, Student,
  Class,          \* the ids that are drawn for classes
  Lesson,
  Stream,         \* streams, each of which may be opened again
  None,           \* no class
  MaxChanges,     \* bound: changes of a class's meta data
  MaxQueue        \* bound: frames a stream is behind

Account == Teacher \cup Student

VARIABLES
  config,     \* of each account: my_classroom
  meta,       \* of each class None, or its teacher and the version of the rest
  students,   \* of each class: its students, with their lesson and awaiting
  stream,     \* of each stream: how far, whose, its queue, the frame and snapshot last sent
  ends        \* history: of each stream, explanations since it subscribed and not told

vars == <<config, meta, students, stream, ends>>

\* at: "opening", before the response stands; "sending" a frame; "waiting" for one.
Closed == [at |-> "closed", class |-> None, queue |-> <<>>, frame |-> "snapshot",
           shown |-> <<>>]

Init ==
  /\ config = [a \in Account |-> None]
  /\ meta = [c \in Class |-> <<>>]
  /\ students = [c \in Class |-> <<>>]
  /\ stream = [e \in Stream |-> Closed]
  /\ ends = [e \in Stream |-> 0]

Exists(c)     == meta[c] # <<>>     \* load_classroom
Teaches(a, c) == Exists(c) /\ meta[c].teacher = a
Snapshot(c)   == <<meta[c], students[c]>>

-----------------------------------------------------------------------------
\* _classroom_subs, and the bound on what a stream has still to send.
Subscribed(c) == {e \in Stream : stream[e].class = c /\ stream[e].at \in {"sending", "waiting"}}

\* emit_classroom_event: the frames go to everyone who is subscribed.
Emit(c, frames) ==
  /\ \A e \in Subscribed(c) : Len(stream[e].queue) < MaxQueue
  /\ stream' = [e \in Stream |-> IF e \in Subscribed(c)
                                 THEN [stream[e] EXCEPT !.queue = @ \o frames] ELSE stream[e]]

Follow(c) == Emit(c, <<"snapshot">>) /\ UNCHANGED ends

\* create: an id no class has; the teacher's own class becomes the new one.
Create(a, c) ==
  /\ ~Exists(c)
  /\ config' = [config EXCEPT ![a] = c]
  /\ meta' = [meta EXCEPT ![c] = [teacher |-> a, version |-> 0]]
  /\ students' = [students EXCEPT ![c] = <<>>]
  /\ UNCHANGED <<stream, ends>>

\* join: whoever was there before begins anew; an earlier class keeps its entry.
Join(a, c) ==
  /\ Exists(c)
  /\ config' = [config EXCEPT ![a] = c]
  /\ students' = [students EXCEPT ![c] = [s \in DOMAIN @ \cup {a} |->
       IF s = a THEN [awaiting |-> FALSE, lesson |-> 0] ELSE @[s]]]
  /\ Follow(c)
  /\ UNCHANGED meta

\* leave: of whatever class, the account has none afterwards.
Leave(a, c) ==
  /\ Exists(c)
  /\ config' = [config EXCEPT ![a] = None]
  /\ students' = [students EXCEPT ![c] = [s \in DOMAIN @ \ {a} |-> @[s]]]
  /\ IF a \in DOMAIN students[c] THEN Follow(c) ELSE UNCHANGED <<stream, ends>>
  /\ UNCHANGED meta

\* update_meta and update_lessons, by the teacher alone.
UpdateMeta(a, c) ==
  /\ Teaches(a, c) /\ meta[c].version < MaxChanges
  /\ meta' = [meta EXCEPT ![c].version = @ + 1]
  /\ Follow(c)
  /\ UNCHANGED <<config, students>>

\* update_state: one's own, or anyone's by the teacher.
UpdateState(a, c, s, lesson, awaiting) ==
  /\ Exists(c)
  /\ a = s \/ Teaches(a, c)
  /\ s \in DOMAIN students[c]
  /\ students' = [students EXCEPT ![c][s] = [awaiting |-> awaiting, lesson |-> lesson]]
  /\ Follow(c)
  /\ UNCHANGED <<config, meta>>

\* mark_explanation_made, for the students of one lesson or of all; the streams get a
\* snapshot and then the event.
MarkExplained(a, c, lessons) ==
  /\ Teaches(a, c)
  /\ students' = [students EXCEPT ![c] = [s \in DOMAIN @ |->
       IF @[s].lesson \in lessons THEN [@[s] EXCEPT !.awaiting = FALSE] ELSE @[s]]]
  /\ Emit(c, <<"snapshot", "event">>)
  /\ ends' = [e \in Stream |-> IF e \in Subscribed(c) THEN ends[e] + 1 ELSE ends[e]]
  /\ UNCHANGED <<config, meta>>

\* classroom_event_stream: the class is looked up, then the response is awaited.
Open(e, c) ==
  /\ stream[e].at = "closed" /\ Exists(c)
  /\ stream' = [stream EXCEPT ![e] = [Closed EXCEPT !.at = "opening", !.class = c]]
  /\ UNCHANGED <<config, meta, students, ends>>

\* Subscribed, and the first snapshot taken, in one go.
Subscribe(e) ==
  /\ stream[e].at = "opening"
  /\ stream' = [stream EXCEPT ![e].at = "sending", ![e].shown = Snapshot(stream[e].class)]
  /\ UNCHANGED <<config, meta, students, ends>>

\* The next frame: a snapshot shows the class as it is now, not as it was then.
Frame(e) ==
  /\ stream[e].at = "waiting" /\ stream[e].queue # <<>>
  /\ LET frame == Head(stream[e].queue)
     IN stream' = [stream EXCEPT ![e].at = "sending", ![e].queue = Tail(@), ![e].frame = frame,
          ![e].shown = IF frame = "snapshot" THEN Snapshot(stream[e].class) ELSE @]
  /\ UNCHANGED <<config, meta, students, ends>>

Sent(e) ==
  /\ stream[e].at = "sending"
  /\ stream' = [stream EXCEPT ![e].at = "waiting", ![e].frame = "snapshot"]
  /\ ends' = IF stream[e].frame = "event" THEN [ends EXCEPT ![e] = @ - 1] ELSE ends
  /\ UNCHANGED <<config, meta, students>>

\* The client is gone; its queue is discarded.
Close(e) ==
  /\ stream[e].at # "closed"
  /\ stream' = [stream EXCEPT ![e] = Closed]
  /\ ends' = [ends EXCEPT ![e] = 0]
  /\ UNCHANGED <<config, meta, students>>

Next ==
  \/ \E a \in Teacher, c \in Class :
       \/ Create(a, c) \/ UpdateMeta(a, c)
       \/ \E lessons \in {{l} : l \in Lesson} \cup {Lesson} : MarkExplained(a, c, lessons)
  \/ \E a \in Student, c \in Class : Join(a, c) \/ Leave(a, c)
  \/ \E a \in Account, c \in Class :
       \E s \in Student, l \in Lesson, awaiting \in BOOLEAN : UpdateState(a, c, s, l, awaiting)
  \/ \E e \in Stream : Subscribe(e) \/ Frame(e) \/ Sent(e) \/ Close(e)
                        \/ \E c \in Class : Open(e, c)

Spec == Init /\ [][Next]_vars
-----------------------------------------------------------------------------
\* The documents and the streams have their types.
ApiClassroomsTypeOK ==
  /\ config \in [Account -> Class \cup {None}]
  /\ \A c \in Class : DOMAIN students[c] \subseteq Account
  /\ \A e \in Stream : stream[e].at \in {"closed", "opening", "sending", "waiting"}
                       /\ stream[e].class \in Class \cup {None}

\* A stream with nothing left to send shows its class as it is, and has told of every
\* explanation since it subscribed.
StreamsFollow ==
  \A e \in Stream : stream[e].at = "waiting" /\ stream[e].queue = <<>>
    => stream[e].shown = Snapshot(stream[e].class) /\ ends[e] = 0

\* The class of an account is its own, or lists it.
MembersListed ==
  \A a \in Account : config[a] # None
    => Teaches(a, config[a]) \/ a \in DOMAIN students[config[a]]

\* What classes and their streams keep.
ApiClassroomsHold == StreamsFollow /\ MembersListed
=============================================================================
