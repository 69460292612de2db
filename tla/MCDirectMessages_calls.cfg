SPECIFICATION DmSpec
CONSTANTS
  c1 = c1
  d1 = d1
  d2 = d2
  Users = {1, 2, 3}
  Calls = {c1}
  MaxRows = 2
  DmCalls = {d1, d2}
  MaxMessages = 2
INVARIANTS
  DmTypeOK
  MessagesNeedConsent
  LiveOnlyToParticipants
  NothingHidden
PROPERTY ReadByReceiver
CONSTRAINT ThirdLooksOn
SYMMETRY Symmetric
CHECK_DEADLOCK FALSE
