SPECIFICATION AccountsSpec
CONSTANTS
  Users = {u1, u2}
  TenantIds = {t1, t2}
  Sessions = {s1}
INVARIANTS
  SessionsAreMembers
  DeactivatedIsOut
PROPERTIES
  AdminsRemain
