SPECIFICATION Spec
CONSTANTS
  alice = alice
  bob = bob
  ws1 = ws1
  ws2 = ws2
  beginner = beginner
  advanced = advanced
  None = None
  Users = {alice, bob}
  Levels = {beginner, advanced}
  Sockets = {ws1, ws2}
  Broker = "rabbitmq"
  MaxJoins = 3
  MaxCancels = 0
  MaxConnects = 3
  MaxFaults = 1
INVARIANTS
  TypeOK
  RequestUsedOnce
  MatchFaithful
  MirrorNotifications
  RegistryLive
  MeasuredBothHops
PROPERTIES
  LeavesPaired
  ImplementsMatchmaker
SYMMETRY Symmetric
CHECK_DEADLOCK FALSE
