\* As sup_worktree with two levels and a2 resumable.
CONSTANTS
  a1 = a1
  a2 = a2
  a3 = a3
  root = root
  Root = root
  Agents <- MCAgents
  Isolated <- JustA1
  Sync <- NoAgents
  Resumable <- JustA2
  MaxConcurrent = 3
  MaxDepth = 1
  MaxRuns = 2
SPECIFICATION Spec
PROPERTY NoRemovalUnderLiveDescendant
