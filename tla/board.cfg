\* Two teammates and the lead on two tasks; a name may be spawned again.
CONSTANTS
  t1 = t1
  t2 = t2
  k1 = k1
  k2 = k2
  lead = lead
  nobody = nobody
  Lead = lead
  Nobody = nobody
  Tasks <- TwoTasks
  Teammates <- TwoTeammates
  CoarseClock = FALSE
  MaxSpawns = 2
  MaxUpdates = 1
SPECIFICATION Spec
INVARIANTS TypeOK ExclusiveWork InProgressIsOwned
PROPERTIES TeamSpec
SYMMETRY Symmetry
