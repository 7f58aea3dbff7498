SPECIFICATION FairSpec
CONSTANTS
  p = p
  q = q
  ask = ask
  bash = bash
  Call <- Calls
  Question <- Questions
  Tool <- Tools
  ToolOf <- Bash
  Reply = {r1, r2}
CHECK_DEADLOCK FALSE
INVARIANTS
  TypeOK
  WrapperRunsOnlyApproved
  AnswerIsOwn
  NothingLeftPending
PROPERTIES
  EveryCallEnds
