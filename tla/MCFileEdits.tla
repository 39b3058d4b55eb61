---------------------------- MODULE MCFileEdits ----------------------------
(* Instances of FileEdits for TLC. *)
EXTENDS FileEdits, TLC

Symmetry == Permutations(Editors) \cup Permutations(Paths) \cup Permutations(Contents)

Typed(type) == {edit \in Edit : edit.type = type}

\* One edit; or a move, which is two.
Single == {<<edit>> : edit \in Edit}
Moves == {edits \in Typed("add") \X Typed("delete") : OnceEach(edits)}
EditsAndMoves == Single \cup Moves
=============================================================================
