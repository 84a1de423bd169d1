---------------------------- MODULE MCLocalAgent ----------------------------
(* Instances of LocalAgent for TLC.                                         *)
EXTENDS LocalAgent

CONSTANTS a1, a2, s1, s2, k1, k2, none

OneAgent == {a1}
TwoAgents == {a1, a2}
TwoSenders == {s1, s2}
OneSender == {s1}
OneKiller == {k1}
TwoKillers == {k1, k2}
ToA1 == [p \in Senders \cup Killers |-> a1]
=============================================================================
