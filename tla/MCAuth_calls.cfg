SPECIFICATION Spec
CONSTANTS
  e1 = e1
  e2 = e2
  ann = ann
  ben = ben
  g1 = g1
  g2 = g2
  c1 = c1
  c2 = c2
  c3 = c3
  Emails = {e1, e2}
  Usernames = {ann, ben}
  Profiles = {g1, g2}
  ProfileEmail <- TheEmails
  ProfileUsername <- TheNames
  NoProfile = NoProfile
  Calls = {c1, c2, c3}
  MaxUsers = 2
  MaxTokens = 3
INVARIANTS
  TypeOK
  OneUserPerProfile
  SpentOnce
  OneTokenPerSession
PROPERTY ImplementsSessions
SYMMETRY Symmetric
CHECK_DEADLOCK FALSE
