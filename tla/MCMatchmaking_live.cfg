SPECIFICATION FairSpec
CONSTANTS
  alice = alice
  bob = bob
  ws1 = ws1
  ws2 = ws2
  beginner = beginner
  advanced = advanced
  None = None
  Users = {alice, bob}
  Levels = {beginner}
  Sockets = {ws1, ws2}
  Broker = "nats"
  MaxJoins = 2
  MaxCancels = 1
  MaxConnects = 2
  MaxFaults = 0
PROPERTIES
  LeavesPaired
  ImplementsMatchmaker
  NoTwoLeftWaiting
  ParticipantTold
  CancelTakesEffect
CHECK_DEADLOCK FALSE
