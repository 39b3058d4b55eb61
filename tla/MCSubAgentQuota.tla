--------------------------- MODULE MCSubAgentQuota ---------------------------
\* A small instance of SubAgentQuota: all tasks belong to one session.
EXTENDS SubAgentQuota, TLC

CONSTANTS t1, t2, k1, k2

OneKey      == [t \in Tasks |-> k1]
OneSlotEach == k1 :> 1 @@ k2 :> 1
=============================================================================
