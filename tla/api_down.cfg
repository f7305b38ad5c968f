SPECIFICATION Spec
CONSTANTS
  Users = {u1}
  Providers = {p1}
  Fallible = {p1}
  Handles = {a1}
  Objects = {o1}
  Tables <- OneTable
  Claims <- MCClaims
  Junk <- NoJunk
  Algorithms = {0}
  Sums = {0}
  Orders = {0}
  Parities = {1}
  NoTable = NoTable
  NoObject = NoObject
  NoProvider = NoProvider
INVARIANTS
  UserSurvivesInvalidate
CHECK_DEADLOCK FALSE
