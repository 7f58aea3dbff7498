SPECIFICATION FairSpec
CONSTANTS
  Turn = {t1, t2}
  Steer = {}
  MaxSteps = 1
  HasNATS = TRUE
  none = none
CHECK_DEADLOCK FALSE
PROPERTY
  NeverStuckBusy
