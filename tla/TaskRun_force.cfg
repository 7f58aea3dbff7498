SPECIFICATION FairSpec
CONSTANTS
  Base = Base
  Feature = Feature
  NoBranch = NoBranch
  NoCommit = NoCommit
  none = none
  malformed = malformed
  me = me
  task = task
  daemon = daemon
  other = other
  Agent <- MCAgent
  Self = me
  Team <- MCTeam
  Daemons = {daemon}
  MaxFanOut = 2
  MaxDelegations = 1
  Confs <- MCConfs
  server = server
  Server = {server}
  Finishes <- MCFinishes
  File = {f}
  MaxCommit = 2
  Fallbacks = 1
  MaxCalls = 4
CHECK_DEADLOCK FALSE
PROPERTY
  DefaultPushIsCurrent
