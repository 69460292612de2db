SPECIFICATION Spec
CONSTANTS
  alice = alice
  bob = bob
  ws1 = ws1
  ws2 = ws2
  beginner = beginner
  advanced = advanced
  None = None
  Users = {alice, bob}
  Levels = {beginner}
  Sockets = {ws1}
  Broker = "nats"
  MaxJoins = 2
  MaxCancels = 2
  MaxConnects = 0
  MaxFaults = 0
PROPERTY CancelRemovesOnlyOwn
CHECK_DEADLOCK FALSE
