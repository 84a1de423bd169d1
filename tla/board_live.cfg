\* One teammate that may be spawned twice, and two tasks; the lead and the
\* teammate itself change the board under it.
CONSTANTS
  t1 = t1
  t2 = t2
  k1 = k1
  k2 = k2
  lead = lead
  nobody = nobody
  Lead = lead
  Nobody = nobody
  Tasks <- TwoTasks
  Teammates <- OneTeammate
  CoarseClock = TRUE
  MaxSpawns = 2
  MaxUpdates = 1
SPECIFICATION FairSpec
PROPERTIES NoTaskOverlooked KilledGivesBack
