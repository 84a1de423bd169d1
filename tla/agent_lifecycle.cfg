\* One agent with up to three generations, two senders, two killers, the
\* sweeper, and a thread start that may fail.
CONSTANTS
  a1 = a1
  a2 = a2
  s1 = s1
  s2 = s2
  k1 = k1
  k2 = k2
  none = none
  NoOne = none
  Agents <- OneAgent
  Senders <- TwoSenders
  Killers <- TwoKillers
  Target <- ToA1
  MaxConcurrent = 1
  MaxGen = 3
  Sweeping = TRUE
  StartsMayFail = TRUE
SPECIFICATION FairSpec
INVARIANTS TypeOK OneWorkerPerAgent FinishedMeansGone LockHeldInside SlotAccounting CompletionLosesNothing ConsumedOnce FirstRunTold
PROPERTIES RunsSpec FirstEndTold
CHECK_DEADLOCK FALSE
