---------------------------- MODULE ProjectStore ----------------------------
(* The projects of one account (projects/service.py, projects/routes.py) in   *)
(* the document store of the backend service (storage/fs_core.py, fs_node.py, *)
(* fs_utils.py). The store is a flat, ordered map from paths to documents; a  *)
(* directory is nothing but a common prefix. A handler writes and deletes one *)
(* key at a time, and the process may die between two of them. A path is the  *)
(* sequence of its characters, as coarse as scene ids and names allow.        *)
EXTENDS Naturals, Sequences, FiniteSets, SequencesExt

CONSTANTS Scene,       \* scene ids, each the sequence of its digits
          Chat,        \* chat documents, each one name
          Order,       \* the keys in the order of the store
          MaxCrashes   \* bound: restarts

VARIABLES
  db,       \* the keys that have a document
  todo,     \* the writes and deletes the running handler has still to make
  about,    \* the scene the handler is about
  torn,     \* history: scenes a delete of which was cut off and that were not saved since
  crashes

vars == <<db, todo, about, torn, crashes>>

\* normalize_path: one slash between two parts, none at the end.
Root == <<"projects">>
Dir(s) == IF s = <<>> THEN Root ELSE Root \o <<"/">> \o s
Path(s, name) == Dir(s) \o <<"/">> \o name

Data     == <<"data.scn">>
Meta     == <<"meta.doc">>
Chats    == <<"chats", "/", "metas.doc">>
Contexts == <<"contexts", "/", "meta.doc">>
ChatDoc(c) == <<"chats", "/", c>>
Document == {Data, Meta, Chats, Contexts} \cup {ChatDoc(c) : c \in Chat}
Key == {Path(s, d) : s \in Scene, d \in Document}

Init == /\ db = {} /\ todo = <<>> /\ about = <<>> /\ torn = {} /\ crashes = 0

Free == todo = <<>>
-----------------------------------------------------------------------------
\* Database.exists: the key itself, or any key below it.
Below(path) == {k \in db : IsPrefix(path \o <<"/">>, k)}
Exist(path) == path \in db \/ Below(path) # {}

\* Database.delete: the key itself and what is below it; a bare prefix would do
\* for the keys of longer ids as well.
DoomedLoosely(path) == {k \in db : IsPrefix(path, k)}   \* Fault: without the slash.
Doomed(path) == {k \in db : k = path} \cup Below(path)

\* Database.list with ProjectService.list_projects: what has a meta document.
Listed == {s \in Scene : Path(s, Meta) \in db}

\* get_project: a project without a meta document is not found.
Loaded(s) == IF Path(s, Meta) \in db THEN {d \in Document : Path(s, d) \in db} ELSE {}

Put(k)  == [op |-> "put", key |-> k]
Drop(k) == [op |-> "drop", key |-> k]
Missing(s, d) == IF Exist(Path(s, d)) THEN <<>> ELSE <<Put(Path(s, d))>>

Saves(s) == <<Put(Path(s, Data)), Put(Path(s, Meta))>>

\* save_project; update_last_id writes the chat when the client names one.
Save(s) ==
  /\ Free
  /\ \E chat \in {<<>>} \cup {<<Put(Path(s, ChatDoc(c)))>> : c \in Chat} :
       todo' = Saves(s) \o Missing(s, Chats) \o Missing(s, Contexts) \o chat
  /\ about' = s
  /\ UNCHANGED <<db, torn, crashes>>

\* get_chat and clear_chat write a chat document, whether the project is saved or not.
TouchChat(s, c) ==
  /\ Free
  /\ todo' = <<Put(Path(s, ChatDoc(c)))>>
  /\ about' = s
  /\ UNCHANGED <<db, torn, crashes>>

Ascending(places) ==
  [k \in 1..Cardinality(places) |->
     CHOOSE i \in places : Cardinality({j \in places : j < i}) = k - 1]

\* delete_project. The id is not checked here: an empty one is the directory of
\* all projects.
Delete(s) ==
  /\ Free
  /\ LET places == {n \in DOMAIN Order : Order[n] \in Doomed(Dir(s))}
         doomed == Ascending(places)
     IN todo' = [i \in DOMAIN doomed |-> Drop(Order[doomed[i]])]
  /\ about' = s
  /\ UNCHANGED <<db, torn, crashes>>

\* The next write or delete of the handler.
Step ==
  /\ todo # <<>>
  /\ LET w == Head(todo)
     IN db' = IF w.op = "put" THEN db \cup {w.key} ELSE db \ {w.key}
  /\ todo' = Tail(todo)
  /\ torn' = IF Head(todo).op = "put" /\ Tail(todo) = <<>> /\ Path(about, Data) \in db'
             THEN torn \ {about} ELSE torn
  /\ UNCHANGED <<about, crashes>>

Deleting == todo # <<>> /\ Head(todo).op = "drop"

Crash == /\ crashes < MaxCrashes
         /\ crashes' = crashes + 1
         /\ torn' = IF Deleting THEN torn \cup (IF about = <<>> THEN Scene ELSE {about}) ELSE torn
         /\ todo' = <<>>
         /\ UNCHANGED <<db, about>>

Next == \/ \E s \in Scene : Save(s) \/ \E c \in Chat : TouchChat(s, c)
        \/ \E s \in Scene \cup {<<>>} : Delete(s)
        \/ Step \/ Crash

Spec == Init /\ [][Next]_vars
-----------------------------------------------------------------------------
\* The store holds documents of projects only.
ProjectStoreTypeOK == db \subseteq Key /\ about \in Scene \cup {<<>>} /\ torn \subseteq Scene

\* A project that is listed can be opened: its scene is there, unless its delete
\* was cut off by a restart.
ListedLoads ==
  \A s \in Listed \ torn : ~(Deleting /\ about \in {s, <<>>}) => Data \in Loaded(s)

\* Deleting one project leaves every other one as it is, though the id of one may
\* be the beginning of the id of another.
DeletesOwn ==
  \A s \in Scene : Deleting /\ about \notin {s, <<>>}
    => {k \in db' : IsPrefix(Dir(s) \o <<"/">>, k)} = Below(Dir(s))

\* What the store keeps through saves, deletes and restarts: what is listed opens,
\* and deleting one project leaves the others.
ProjectsHold == [][DeletesOwn /\ ListedLoads']_vars
=============================================================================
