SPECIFICATION Spec
CONSTANTS
  Users = {u1}
  Modules = {m1}
  Monitors = {}
  Handles = {h1}
  Removable = {m1}
  Workers = {}
  Owner <- OneOwner
  MaxRegister = 2
  NoThread = NoThread
  NoHandle = NoHandle
  NoModule = NoModule
INVARIANTS
  RefsCoverHolders
CHECK_DEADLOCK FALSE
