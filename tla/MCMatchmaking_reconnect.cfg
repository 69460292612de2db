SPECIFICATION Spec
CONSTANTS
  alice = alice
  bob = bob
  ws1 = ws1
  ws2 = ws2
  beginner = beginner
  advanced = advanced
  None = None
  Users = {alice, bob}
  Levels = {beginner}
  Sockets = {ws1, ws2}
  Broker = "nats"
  MaxJoins = 0
  MaxCancels = 0
  MaxConnects = 2
  MaxFaults = 0
PROPERTY StaysRegistered
CHECK_DEADLOCK FALSE
