SPECIFICATION FairSpec
CONSTANTS
  Users = {u1}
  Modules = {m1}
  Monitors = {}
  Handles = {h1, h2}
  Removable = {}
  Workers = {w1, w2}
  Owner <- OneOwner
  MaxRegister = 3
  NoThread = NoThread
  NoHandle = NoHandle
  NoModule = NoModule
INVARIANTS
  UniqueNames
  CountMatchesList
  LockHeldInside
PROPERTIES
  CallsReturn
  LockReleased
