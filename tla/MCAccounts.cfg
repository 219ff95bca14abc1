\* Two concurrent requests, two accounts, one place.
CONSTANTS
  User = {u1, u2}
  Email = {e1, e2}
  Password = {w1, w2}
  Place = {h1}
  Session = {s1, s2}
  Nil = Nil
SPECIFICATION FairAccountsSpec
INVARIANTS
  AccountsTypeOK
  OwnersAreRows
  EmailNeverReused
PROPERTIES
  DeletedLosesAccess
