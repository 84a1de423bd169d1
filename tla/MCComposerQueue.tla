--------------------------- MODULE MCComposerQueue ---------------------------
(* Instances of ComposerQueue for TLC.                                      *)
EXTENDS ComposerQueue

CONSTANTS s1, s2, composer, none

TwoSessions == {s1, s2}
InOne == [p \in Prompts |-> s1]

\* The session nobody queues for is at rest: the end of a turn of its would
\* only wake the drainers once more.
InitAtRest == Init /\ pending[s2] = 0
OtherAtRest == InitAtRest /\ [][Next]_vars

\* Two failures, of one drainer at one prompt or spread over both; what follows
\* a third is not explored.
FewFailures == Failures <= MaxTries
=============================================================================
