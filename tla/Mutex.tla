------------------------------- MODULE Mutex -------------------------------
(***************************************************************************)
(* What a storage lock (internal/storage/locker.go) promises about one     *)
(* key: calls ask for the lock, at most one of them is in at a time, and   *)
(* every call that asks is let in or gives up.  A call may be cut off at   *)
(* any time by the death of its process; nobody has to clean up after it.  *)
(*                                                                         *)
(*                out -> waiting -> in -> left     any -> dead             *)
(*                           +-> left                                      *)
(***************************************************************************)
CONSTANT Calls          \* the calls of LockSession or LockTask for the key

VARIABLE place          \* place[c]: where call c is

Places == {"out", "waiting", "in", "left", "dead"}

Init == place = [c \in Calls |-> "out"]

Goes(c, from, to) == place[c] = from /\ place' = [place EXCEPT ![c] = to]

Ask(c)    == Goes(c, "out", "waiting")
Enter(c)  == /\ \A d \in Calls : place[d] # "in"
             /\ Goes(c, "waiting", "in")
GiveUp(c) == Goes(c, "waiting", "left")
Leave(c)  == Goes(c, "in", "left")

\* A process dies, and all its calls with it.
Die(gone) == place' = [c \in Calls |-> IF c \in gone THEN "dead" ELSE place[c]]

Next == \/ \E c \in Calls : Ask(c) \/ Enter(c) \/ GiveUp(c) \/ Leave(c)
        \/ \E gone \in SUBSET Calls : Die(gone)

SafeSpec == Init /\ [][Next]_place

Spec == /\ SafeSpec
        /\ \A c \in Calls : /\ WF_place(Enter(c) \/ GiveUp(c))
                            /\ WF_place(Leave(c))
=============================================================================
