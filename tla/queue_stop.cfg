\* Two sessions and two prompts; the user may stop a drain that is under way.
CONSTANTS
  s1 = s1
  s2 = s2
  composer = composer
  none = none
  Composer = composer
  None = none
  Sessions <- TwoSessions
  MaxPrompts = 2
  Home <- InOne
  MaxTries = 2
  MaxFailures = 1
  SlowMiddleware = FALSE
  AcksLost = FALSE
SPECIFICATION OtherAtRest
PROPERTIES HaltHolds
