SPECIFICATION Spec
CONSTANTS
  fan = fan
  a = a
  b = b
  Group <- FanOnly
  Run <- FanRuns
  RunsOf <- FanRunsOf
  Outcomes = {"Succeeded"}
CHECK_DEADLOCK FALSE
INVARIANT
  ReportedOnce
