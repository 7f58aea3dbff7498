SPECIFICATION Spec
CONSTANTS
  bash = bash
  read = read
  NoTopic = NoTopic
  Tool <- MCTool
  Bash = bash
  Asks <- MCAsks
  Audited = {bash}
  Captured = {read}
  HasMemory = TRUE
  MaxToolCalls = 2
  Fallbacks = 1
  MaxSteps = 2
  MaxSteers = 1
CHECK_DEADLOCK FALSE
INVARIANTS
  TypeOK
  EventsFollow
  TurnIsWhole
  RefusedNeverRuns
  AuditLatest
