SPECIFICATION ExampleSpec
CONSTANTS
  Users = {u1, u2}
  Providers = {p1}
  Fallible = {p1}
  Handles = {a1, a2, a3}
  Objects = {o1, o2, o3}
  Tables <- ExampleTables
  Claims <- ExampleClaims
  Junk <- NoJunk
  Algorithms = {}
  Sums = {}
  Orders = {}
  Parities = {}
  NoTable = NoTable
  NoObject = NoObject
  NoProvider = NoProvider
  Buffers = {b1, b2}
  Values = {v1, v2}
  Unknown = Unknown
  Half = 4
  PhSize = 2
  HandleSize = 1
SYMMETRY ExampleSymmetry
INVARIANTS
  MemoryOwned
  ContentsMatch
  AllocsCounted
CHECK_DEADLOCK FALSE
