--------------------------- MODULE MCStorageLock ---------------------------
(* Processes and calls for TLC's runs of StorageLock. *)
EXTENDS StorageLock, TLC

CONSTANTS p1, p2, p3, a1, a2, b1, b2, c1

\* Two processes with two goroutines each.
TwoByTwo == (a1 :> p1) @@ (a2 :> p1) @@ (b1 :> p2) @@ (b2 :> p2)

\* Three processes with one goroutine each.
OneEach == (a1 :> p1) @@ (b1 :> p2) @@ (c1 :> p3)
=============================================================================
