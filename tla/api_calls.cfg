SPECIFICATION Spec
CONSTANTS
  Users = {u1, u2}
  Providers = {p1, p2}
  Fallible = {p2}
  Handles = {a1, a2}
  Objects = {o1, o2}
  Tables <- MCTables
  Claims <- MCClaims
  Junk <- NoJunk
  Algorithms = {0, 32}
  Sums = {0}
  Orders = {0, 1}
  Parities = {1, 2}
  NoTable = NoTable
  NoObject = NoObject
  NoProvider = NoProvider
SYMMETRY Symmetry
INVARIANTS
  TypeOK
  CallsImplemented
  OwnObjectsOnly
  ObjectsAccounted
  StrayHandles
  NamesExist
CHECK_DEADLOCK FALSE
