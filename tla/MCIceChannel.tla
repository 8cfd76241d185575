---------------------------- MODULE MCIceChannel ----------------------------
(* Model checking IceChannel: two addresses and memory for two connections,   *)
(* so that a connection may be created where another was deleted.            *)
EXTENDS IceChannel

CONSTANTS a1, a2, u1, m1, m2

MCAddr     == {a1, a2}
MCPriority == [a \in MCAddr |-> IF a = a1 THEN 2 ELSE 1]
=============================================================================
