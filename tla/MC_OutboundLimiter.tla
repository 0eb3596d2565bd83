------------------------- MODULE MC_OutboundLimiter -------------------------
(***************************************************************************)
(* An instance of OutboundLimiter: a busy guild with a high, a normal and  *)
(* a low call of one feature, and a second guild whose critical call takes *)
(* its share of the process-wide budget.                                   *)
(***************************************************************************)
EXTENDS OutboundLimiter

CONSTANTS a1, a2, a3, b0, g1, g2

MCActions == {a1, a2, a3, b0}
MCGuilds == {g1, g2}
MCGuildOf == [a \in MCActions |-> IF a = b0 THEN g2 ELSE g1]
MCCircuitOf == MCGuildOf
MCPriorityOf == [a \in MCActions |->
    CASE a = b0 -> 0 [] a = a1 -> 1 [] a = a2 -> 2 [] OTHER -> 3]
=============================================================================
