SPECIFICATION LoadSpec
CONSTANTS
  alice = alice
  bob = bob
  ws1 = ws1
  ws2 = ws2
  ws3 = ws3
  beginner = beginner
  None = None
  Users = {alice, bob}
  Levels = {beginner}
  LEVEL = beginner
  Millis = {0, 1}
  Sockets = {ws1, ws2, ws3}
  Broker = "nats"
  MaxJoins = 2
  MaxCancels = 0
  MaxConnects = 2
  MaxFaults = 0
INVARIANT NoGhostWaiting
CHECK_DEADLOCK FALSE
