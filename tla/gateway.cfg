\* One switch of the backend and one caller; a socket that is still closing
\* beside the current one.
CONSTANTS
  s1 = s1
  s2 = s2
  s3 = s3
  c1 = c1
  None = None
  Sockets <- TwoSockets
  Calls <- OneCall
  Dialers <- Jobs
  MaxSwitches = 1
  Interleaved = FALSE
  LossInSync = FALSE
SPECIFICATION FairSpec
INVARIANTS TypeOK StateTruthful NeverStranded OneLiveSocket LossTellsCallers
PROPERTIES Recovers EveryCallSettles
