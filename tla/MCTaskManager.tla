--------------------------- MODULE MCTaskManager ---------------------------
(* Instances of TaskManager for TLC. *)
EXTENDS TaskManager, TLC

\* The task ids, the calls and the streams are interchangeable.
Symmetry == Permutations(Tasks) \cup Permutations(Calls) \cup Permutations(Subs)
=============================================================================
