------------------------- MODULE MCAgentSupervisor -------------------------
(* Instances of AgentSupervisor for TLC: three agents, so that a chain of   *)
(* an agent, its child and its grandchild exists, and two slots or three.   *)
EXTENDS AgentSupervisor

CONSTANTS a1, a2, a3, root

MCAgents == {a1, a2, a3}
NoAgents == {}
TwoAgents == {a2, a3}
JustA1 == {a1}
JustA2 == {a2}
JustA3 == {a3}
=============================================================================
