SPECIFICATION Spec
CONSTANTS
  Turn = {t1, t2}
  Steer = {m}
  MaxSteps = 1
  HasNATS = TRUE
  none = none
CHECK_DEADLOCK FALSE
INVARIANT
  QueuedCallbackKept
