---------------------------- MODULE MCMultiAgent ----------------------------
(* Agent a1 has room for one task and is the only one that fits the second    *)
(* task; agent a2 has room for two and fits the others as well.               *)
EXTENDS MultiAgent

CONSTANTS a1, a2

MCMaxConcurrency == [a \in Agents |-> IF a = a1 THEN 1 ELSE 2]
MCFits == [t \in Tasks |-> IF t = 2 THEN {a1} ELSE {a1, a2}]
MCBatches == {<<3, TRUE>>, <<2, FALSE>>}
=============================================================================
