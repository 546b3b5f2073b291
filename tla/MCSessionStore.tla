--------------------------- MODULE MCSessionStore ---------------------------
(* Small instances of SessionStore. *)
EXTENDS SessionStore, TLC

CONSTANTS MaxExposed   \* bound: files written outside the discipline

\* The writable paths are interchangeable, and so are the stores.
Symmetry == Permutations(Store) \cup Permutations(File \ ReadOnly)

\* Once a file is exposed nothing is promised of it; explore few of them.
FewExposed == Cardinality(exposed) <= MaxExposed
=============================================================================
