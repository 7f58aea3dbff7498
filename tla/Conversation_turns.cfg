SPECIFICATION Spec
CONSTANTS
  Turn = {t1, t2}
  Steer = {m}
  MaxSteps = 2
  HasNATS = TRUE
  none = none
CHECK_DEADLOCK FALSE
SYMMETRY Symmetry
INVARIANTS
  TypeOK
  OneTurnAtATime
  OwnSession
  TurnsAreContiguous
  QuietMeansClean
