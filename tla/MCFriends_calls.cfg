SPECIFICATION FriendsSpec
CONSTANTS
  alice = alice
  bob = bob
  carol = carol
  c1 = c1
  c2 = c2
  c3 = c3
  Users = {alice, bob}
  Calls = {c1, c2, c3}
  MaxRows = 4
INVARIANTS
  FriendsTypeOK
  MutualConsent
  FriendListedOnce
PROPERTY AcceptIsAtomic
SYMMETRY Symmetric
CHECK_DEADLOCK FALSE
