\* Two agents compete for one slot; two messages and a kill race for the first
\* of them, which may run twice.
CONSTANTS
  a1 = a1
  a2 = a2
  s1 = s1
  s2 = s2
  k1 = k1
  k2 = k2
  none = none
  NoOne = none
  Agents <- TwoAgents
  Senders <- TwoSenders
  Killers <- OneKiller
  Target <- ToA1
  MaxConcurrent = 1
  MaxGen = 2
  Sweeping = FALSE
  StartsMayFail = FALSE
SPECIFICATION FairSpec
CHECK_DEADLOCK FALSE
INVARIANTS NoZombieEntry
PROPERTIES PoolSpec SendersReturn KillStopsRun
