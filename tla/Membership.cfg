CONSTANTS
  u1 = u1
  u2 = u2
  u3 = u3
  u4 = u4
  u5 = u5
  r1 = r1
  r2 = r2
  Users = {u1, u2, u3, u4, u5}
  Founder = u1
  Newcomers = {u5}
  Requests = {r1, r2}
  AdminCap = 1
  MemberLimit = 2
  Returning = {u1}
  MaxTransfers = 1
SPECIFICATION Spec
SYMMETRY Symmetry
INVARIANTS
  AdminsBounded
  MembersBounded
PROPERTIES
  OwnerAfterTransfer
CHECK_DEADLOCK FALSE
