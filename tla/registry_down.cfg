SPECIFICATION Spec
CONSTANTS
  Users = {u1, u2, u3}
  Modules = {m1, m2}
  Monitors = {d1}
  Handles = {h1, h2, h3}
  Removable = {}
  Workers = {}
  Owner <- OneOwner
  MaxRegister = 3
  NoThread = NoThread
  NoHandle = NoHandle
  NoModule = NoModule
SYMMETRY Symmetry
INVARIANTS
  PutAccepted
  RefsCountHolders
  ActiveMatchesRefs
CHECK_DEADLOCK FALSE
