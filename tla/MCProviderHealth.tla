-------------------------- MODULE MCProviderHealth --------------------------
(* TLC instances of ProviderHealth: two providers, the first in the registry *)
(* is the second by policy.                                                  *)
EXTENDS ProviderHealth

CONSTANTS p1, p2

Listed    == [p \in {p1, p2} |-> IF p = p1 THEN 1 ELSE 2]
Preferred == [p \in {p1, p2} |-> IF p = p1 THEN 2 ELSE 1]
=============================================================================
