SPECIFICATION Spec
CONSTANTS
  Users = {u1}
  Providers = {p1}
  Fallible = {}
  Handles = {a1}
  Objects = {o1}
  Tables <- MCTables
  Claims <- MCClaims
  Junk <- SomeJunk
  Algorithms = {0}
  Sums = {0}
  Orders = {0}
  Parities = {1}
  NoTable = NoTable
  NoObject = NoObject
  NoProvider = NoProvider
INVARIANTS
  OptionalBitsTrue
CHECK_DEADLOCK FALSE
