SPECIFICATION FairSpec
CONSTANTS
  fan = fan
  a = a
  b = b
  Group <- FanOnly
  Run <- FanRuns
  RunsOf <- FanRunsOf
  Outcomes = {"Succeeded", "Failed"}
CHECK_DEADLOCK FALSE
INVARIANTS
  TypeOK
  RemainingCountsOpenRuns
  EachPromptAtMostOnce
PROPERTIES
  ResultsFrozenAfterRemoval
  EveryGroupReported
  EndedGroupCompletes
  KeepsPromise
