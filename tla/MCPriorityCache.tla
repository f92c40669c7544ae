--------------------------- MODULE MCPriorityCache ---------------------------
(* A small instance of PriorityCache for TLC: the supplier knows two keys.    *)
EXTENDS PriorityCache

CONSTANTS k1, k2, k3, v1, v2

MCKey == {k1, k2, k3}
MCSupply == [k \in MCKey |-> IF k = k3 THEN NoValue ELSE v1]
=============================================================================
