SPECIFICATION FairLifeSpec
CONSTANTS
  fan = fan
  a = a
  b = b
  Group <- FanOnly
  Run <- FanRuns
  RunsOf <- FanRunsOf
  Outcomes = {"Succeeded"}
  MaxLives = 3
CHECK_DEADLOCK FALSE
INVARIANTS
  LifeTypeOK
  NoGroupLost
  RepeatOnlyAfterCopy
  CheckpointIsTrue
PROPERTY
  ReportedAcrossRestarts
