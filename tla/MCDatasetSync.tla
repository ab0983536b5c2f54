--------------------------- MODULE MCDatasetSync ---------------------------
(* DatasetSync with three or four versions of a dataset, for TLC. *)
EXTENDS DatasetSync, TLC

CONSTANTS block1, block2, header1, header2

\* The clients of one dataset are interchangeable.
Clients == Permutations(Session)

MCHeader  == {header1, header2}
MCContent == {block1, block2}
\* Against the first version: a truncation with another header and content, and
\* a permutation under an algorithm whose hashes are not recomputed.
MCVersion == {[header |-> header1, algo |-> "sha256", blocks |-> <<block1, block2>>],
              [header |-> header2, algo |-> "sha256", blocks |-> <<block2>>],
              [header |-> header1, algo |-> "md5", blocks |-> <<block2, block1>>]}
\* With an extension of the shortest version as well.
MCVersions == MCVersion \cup
              {[header |-> header1, algo |-> "sha256", blocks |-> <<block1>>]}
=============================================================================
