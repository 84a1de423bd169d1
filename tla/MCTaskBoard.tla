----------------------------- MODULE MCTaskBoard -----------------------------
(* Instances of TaskBoard for TLC: two teammates and two tasks.             *)
EXTENDS TaskBoard, TLC

CONSTANTS t1, t2, k1, k2, lead, nobody

OneTeammate == {t1}
TwoTeammates == {t1, t2}
TwoTasks == {k1, k2}
Symmetry == Permutations(TwoTeammates) \cup Permutations(TwoTasks)
=============================================================================
