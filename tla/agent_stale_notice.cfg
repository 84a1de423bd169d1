\* A kill whose notice is late, and a resume: no sweeper.
CONSTANTS
  a1 = a1
  a2 = a2
  s1 = s1
  s2 = s2
  k1 = k1
  k2 = k2
  none = none
  NoOne = none
  Agents <- OneAgent
  Senders <- OneSender
  Killers <- OneKiller
  Target <- ToA1
  MaxConcurrent = 1
  MaxGen = 2
  Sweeping = FALSE
  StartsMayFail = FALSE
SPECIFICATION Spec
INVARIANTS ToldOnceAndTruly
CHECK_DEADLOCK FALSE
