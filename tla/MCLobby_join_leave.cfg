SPECIFICATION Spec
CONSTANTS
  alice = alice
  bob = bob
  l1 = l1
  c1 = c1
  c2 = c2
  c3 = c3
  NoOne = NoOne
  Users = {alice, bob}
  Lobbies = {l1}
  Calls = {c1, c2}
  MaxMessages = 1
  MaxCrashes = 0
PROPERTY LeaveSparesMembers
CHECK_DEADLOCK FALSE
