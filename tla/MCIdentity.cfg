SPECIFICATION Spec
CONSTANTS
  Users = {u1, u2}
  Emails = {e1}
  Phones = {p1}
  Devices = {d1}
  Requests = {r1, r2}
  Null = Null
SYMMETRY Symmetry
INVARIANTS TypeOK EditsKeptUnlessOverlapped VerifiedPhoneIsProvenUnlessEdited VerifiedClaimIsEarned
