SPECIFICATION Spec
CONSTANTS
  Users = {u1, u2}
  Tokens = {t1, t2, t3}
  Requests = {r1, r2}
  NoToken = NoToken
  AccessTTL = 1
  RefreshTTL = 2
  MaxTime = 2
SYMMETRY Symmetry
INVARIANT LogoutAllRevokesAll
