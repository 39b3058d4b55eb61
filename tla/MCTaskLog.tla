----------------------------- MODULE MCTaskLog -----------------------------
(* TLC instances of TaskLog: three records, the first and the last with one *)
(* event id.                                                                *)
EXTENDS TaskLog

CONSTANTS r1, r2, r3

Repeated == [r \in {r1, r2, r3} |-> IF r = r3 THEN r1 ELSE r]
=============================================================================
