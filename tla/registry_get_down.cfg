SPECIFICATION Spec
CONSTANTS
  Users = {u1}
  Modules = {m1}
  Monitors = {d1}
  Handles = {h1}
  Removable = {}
  Workers = {}
  Owner <- OneOwner
  MaxRegister = 1
  NoThread = NoThread
  NoHandle = NoHandle
  NoModule = NoModule
INVARIANTS
  GetSurvivesInvalidate
CHECK_DEADLOCK FALSE
