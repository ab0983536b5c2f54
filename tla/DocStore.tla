------------------------------ MODULE DocStore ------------------------------
(* The document store of the API service (storage/fs_core.py, fs_node.py,    *)
(* fs_utils.py): a flat map from paths to documents and blobs. A path is     *)
(* here the sequence of its parts, so "/" after a prefix needs no mention;   *)
(* ProjectStore looks at the paths of the backend's copy letter by letter.   *)
(* Every operation runs on the event loop without an await.                  *)
EXTENDS Naturals, Sequences, SequencesExt

\* The key itself, and what is below it. A directory is a common prefix.
Under(db, path) == {k \in DOMAIN db : IsPrefix(path, k)}

Read(db, path, default) == IF path \in DOMAIN db THEN db[path] ELSE default

Exists(db, path) == Under(db, path) # {}

\* list: the first part of every path below the directory.
List(db, path) == {k[Len(path) + 1] : k \in Under(db, path) \ {path}}

WriteAll(db, paths, doc) ==
  [p \in DOMAIN db \cup paths |-> IF p \in paths THEN doc ELSE db[p]]
Write(db, path, doc) == WriteAll(db, {path}, doc)

\* delete takes what is below the path along.
Delete(db, path) == [k \in DOMAIN db \ Under(db, path) |-> db[k]]
=============================================================================
