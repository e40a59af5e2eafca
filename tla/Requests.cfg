SPECIFICATION PartSpec
CONSTANTS
  r1 = r1
  r2 = r2
  r3 = r3
  s1 = s1
  s2 = s2
  u1 = u1
  u2 = u2
  u3 = u3
  Requests = {r1, r2, r3}
  Users = {u1, u2, u3}
  Founders = {u1, u2}
  GivenRoles = {"owner", "member"}
  MaxFailures = 1
  Slots = {s1, s2}
  Limit = 2
  WindowTicks = 3
  PerSecond = 2
  AccessTtl = 2
  MaxTokens = 1
  MaxRequests = 5
  MaxOutages = 1
  MaxNow = 4
SYMMETRY AnyRequest
INVARIANTS OwnerRemains InvitationAdmitsOne  NoLostUpdate
INVARIANTS RateBounded LogoutHolds
CHECK_DEADLOCK FALSE
