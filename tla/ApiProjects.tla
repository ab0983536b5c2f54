----------------------------- MODULE ApiProjects -----------------------------
(* One account at the API service and its projects: routes/auth_bp.py,        *)
(* routes/project_bp.py, and what routes/trio_bp.py keeps of their models.    *)
(* The context of a model is in the process's cache (common/context_cache.py) *)
(* and, after a training, a blob of the project. A handler runs on the event  *)
(* loop up to its next await; TrioServer has the sessions themselves.         *)
EXTENDS DocStore

CONSTANTS
  Scene,        \* ids of projects
  Context,      \* names of contexts; the client lists those that its graph has
  MaxTrained,   \* bound: trainings of one context
  None          \* no version of a model, and not a number up to MaxTrained

VARIABLES
  db,        \* the documents, below the account's root
  cache,     \* contexts: of each key None, or the version of the model it holds
  busy,      \* task_state: what each key is used for, or "idle"
  using,     \* of a running session: the version its context object has
  deleted    \* history: scenes deleted since the process came up

vars == <<db, cache, busy, using, deleted>>

Ctx == Scene \X Context    \* _make_ctx_key, of one user

Project(s)  == <<"projects", s>>
Contexts(s) == Project(s) \o <<"contexts">>
Blob(k)     == Contexts(k[1]) \o <<k[2]>>
MetaDoc     == "meta.doc"
UserDoc     == <<"user.doc">>

Init ==
  /\ db = <<>>
  /\ cache = [k \in Ctx |-> None]
  /\ busy = [k \in Ctx |-> "idle"]
  /\ using = [k \in Ctx |-> None]
  /\ deleted = {}

-----------------------------------------------------------------------------
\* create_user, once.
CreateUser ==
  /\ ~Exists(db, UserDoc)
  /\ db' = WriteAll(db, {UserDoc, <<"config.doc">>, <<"projects", "metas.doc">>,
                         <<"datasets", "metas.doc">>}, 0)
  /\ UNCHANGED <<cache, busy, using, deleted>>

\* try_login of every request that follows.
LoggedIn == Exists(db, UserDoc)

\* garbage_collection: what the client's list lacks is taken out of the store and
\* of the cache, in use or not.
Listed(s) == List(db, Contexts(s)) \ {MetaDoc}
CollectedFromStore(s, keep) == {}   \* Fault: the cache keeps them.
Collected(s, keep) == {k \in Ctx : k[1] = s /\ k[2] \in Listed(s) \ keep}

Dropped(store, s, keep) ==
  [p \in DOMAIN store \ UNION {Under(store, Contexts(s) \o <<c>>) : c \in Listed(s) \ keep}
     |-> store[p]]

\* save_scene: collected, then the scene, its name and the directories are written.
Save(s, keep) ==
  LET docs == {Project(s) \o <<"data.scn">>, Project(s) \o <<MetaDoc>>,
               Contexts(s) \o <<MetaDoc>>, Project(s) \o <<"chats", "metas.doc">>}
  IN /\ db' = WriteAll(Dropped(db, s, keep), docs, 0)
     /\ cache' = [k \in Ctx |-> IF k \in Collected(s, keep) THEN None ELSE cache[k]]
     /\ UNCHANGED <<busy, using, deleted>>

\* get_ctxs: the directory is made, and collected. (Its answer says nothing of them,
\* and without any blob the handler fails after all is done.)
GetCtxs(s, keep) ==
  /\ db' = Dropped(Write(db, Contexts(s) \o <<MetaDoc>>, 0), s, keep)
  /\ cache' = [k \in Ctx |-> IF k \in Collected(s, keep) THEN None ELSE cache[k]]
  /\ UNCHANGED <<busy, using, deleted>>

\* delete_project forgets the documents and not the cache.
DeleteProject(s) ==
  /\ db' = Delete(db, Project(s))
  /\ deleted' = deleted \cup {s}
  /\ UNCHANGED <<cache, busy, using>>

\* delete_ctx: all or none, and none while one of them is in use.
DeleteCtx(s, names) ==
  LET keys == {s} \X names
  IN /\ \A k \in keys : busy[k] = "idle"
     /\ db' = [p \in DOMAIN db \ {Blob(k) : k \in keys} |-> db[p]]
     /\ cache' = [k \in Ctx |-> IF k \in keys THEN None ELSE cache[k]]
     /\ UNCHANGED <<busy, using, deleted>>

\* get_or_load_ctx: the cached context, else the stored one, else a new one.
Loaded(k) == IF cache[k] # None THEN cache[k] ELSE Read(db, Blob(k), 0)

Begin(k, use) ==
  /\ busy[k] = "idle"
  /\ busy' = [busy EXCEPT ![k] = use]
  /\ using' = [using EXCEPT ![k] = Loaded(k)]
  /\ cache' = [cache EXCEPT ![k] = Loaded(k)]
  /\ UNCHANGED <<db, deleted>>

\* The training changes the object that the session and the cache share.
Train(k) ==
  /\ busy[k] = "train" /\ using[k] < MaxTrained
  /\ using' = [using EXCEPT ![k] = @ + 1]
  /\ cache' = IF cache[k] = None THEN cache ELSE [cache EXCEPT ![k] = using[k] + 1]
  /\ UNCHANGED <<db, busy, deleted>>

\* After the training the mark goes and the model is stored, even in a project that
\* is no longer there. Inference stores nothing.
Finish(k) ==
  /\ busy[k] # "idle"
  /\ busy' = [busy EXCEPT ![k] = "idle"]
  /\ using' = [using EXCEPT ![k] = None]
  /\ db' = IF busy[k] = "train" THEN Write(db, Blob(k), using[k]) ELSE db
  /\ UNCHANGED <<cache, deleted>>

\* The process comes up again with an empty cache.
Restart ==
  /\ cache' = [k \in Ctx |-> None]
  /\ busy' = [k \in Ctx |-> "idle"]
  /\ using' = [k \in Ctx |-> None]
  /\ deleted' = {}
  /\ UNCHANGED db

Next ==
  \/ CreateUser
  \/ LoggedIn /\ \E s \in Scene :
       \/ DeleteProject(s)
       \/ \E names \in SUBSET Context :
            Save(s, names) \/ GetCtxs(s, names) \/ DeleteCtx(s, names)
  \/ LoggedIn /\ \E k \in Ctx, use \in {"train", "infer"} : Begin(k, use)
  \/ \E k \in Ctx : Train(k) \/ Finish(k)
  \/ Restart

Spec == Init /\ [][Next]_vars
-----------------------------------------------------------------------------
\* project_list shows what has a directory, with a name or without.
Shown == List(db, <<"projects">>) \ {"metas.doc"}

\* The documents, the cache and the marks have their types.
ApiProjectsTypeOK ==
  /\ \A k \in Ctx : cache[k] \in 0..MaxTrained \cup {None}
                    /\ busy[k] \in {"idle", "train", "infer"}
                    /\ (using[k] = None <=> busy[k] = "idle")
  /\ Shown \subseteq Scene

\* A model that is not in use is served the same from the cache and from the store,
\* whatever was saved, collected and deleted in between. Deleting the whole project
\* is the exception: its contexts stay in the cache.
ServedAsStored ==
  \A k \in Ctx : busy[k] = "idle" /\ cache[k] # None /\ k[1] \notin deleted
    => cache[k] = Read(db, Blob(k), 0)
=============================================================================
