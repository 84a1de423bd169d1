\* The change of backend meets a dial that is under way.
CONSTANTS
  s1 = s1
  s2 = s2
  s3 = s3
  c1 = c1
  None = None
  Sockets <- MCSockets
  Calls <- OneCall
  Dialers <- Jobs
  MaxSwitches = 1
  Interleaved = TRUE
  LossInSync = FALSE
SPECIFICATION Spec
INVARIANTS StateTruthful
