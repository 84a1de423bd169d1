\* Three levels of delegation on three slots: a1 owns a worktree, a3 runs in the
\* foreground of whoever spawns it.
CONSTANTS
  a1 = a1
  a2 = a2
  a3 = a3
  root = root
  Root = root
  Agents <- MCAgents
  Isolated <- JustA1
  Sync <- JustA3
  Resumable <- NoAgents
  MaxConcurrent = 3
  MaxDepth = 2
  MaxRuns = 1
SPECIFICATION Spec
INVARIANTS TypeOK HonestOutcome
PROPERTY NoRemovalUnderLiveDescendant
