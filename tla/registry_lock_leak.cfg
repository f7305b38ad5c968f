SPECIFICATION FairSpec
CONSTANTS
  Users = {u1}
  Modules = {m1}
  Monitors = {}
  Handles = {h1}
  Removable = {m1}
  Workers = {}
  Owner <- OneOwner
  MaxRegister = 1
  NoThread = NoThread
  NoHandle = NoHandle
  NoModule = NoModule
PROPERTIES
  CallsReturn
CHECK_DEADLOCK FALSE
