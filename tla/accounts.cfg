SPECIFICATION Spec
CONSTANTS
  Requests = {r1, r2, r3}
  Subjects = {s1, s2}
  UserIds = {u1, u2, u3}
  Emails = {m1, m2}
  Roles = {user, admin}
  UserRole = user
  Suspended = {u3}
  None = None
SYMMETRY Symmetry
INVARIANTS
  ServedWithOwnRoles
  KeepsSomeRole
PROPERTY
  LinkStands
CHECK_DEADLOCK FALSE
