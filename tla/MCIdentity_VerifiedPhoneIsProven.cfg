SPECIFICATION Spec
CONSTANTS
  Users = {u1}
  Emails = {e1}
  Phones = {p1, p2}
  Devices = {d1}
  Requests = {r1, r2}
  Null = Null
SYMMETRY Symmetry
INVARIANT VerifiedPhoneIsProven
