SPECIFICATION BoundedSpec
CONSTANTS
  alice = alice
  bob = bob
  ws1 = ws1
  ws2 = ws2
  ws3 = ws3
  beginner = beginner
  None = None
  Users = {alice, bob}
  Levels = {beginner}
  LEVEL = beginner
  Millis = {0, 1}
  Sockets = {ws1, ws2, ws3}
  Broker = "nats"
  MaxJoins = 3
  MaxCancels = 0
  MaxConnects = 3
  MaxFaults = 1
INVARIANTS
  LoadTypeOK
  NoSilentFailure
  EachJoinSampledOnce
  MonitorsAgree
  ChartsShowMatches
PROPERTY IterationEnds
CHECK_DEADLOCK FALSE
