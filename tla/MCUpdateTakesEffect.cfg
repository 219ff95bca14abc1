\* One request at a time is enough to contradict the API description.
CONSTANTS
  User = {u1, u2}
  Email = {e1, e2}
  Password = {w1, w2}
  Place = {h1}
  Session = {s1}
  Nil = Nil
SPECIFICATION FairAccountsSpec
PROPERTIES
  UpdateTakesEffect
