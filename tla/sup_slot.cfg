\* One slot for two agents, one of which is resumed once and owns a worktree.
CONSTANTS
  a1 = a1
  a2 = a2
  a3 = a3
  root = root
  Root = root
  Agents <- TwoAgents
  Isolated <- JustA2
  Sync <- JustA3
  Resumable <- JustA2
  MaxConcurrent = 1
  MaxDepth = 1
  MaxRuns = 2
SPECIFICATION FairSpec
INVARIANTS AbortHasCause
PROPERTIES PoolSpec InterruptFreesSlot
