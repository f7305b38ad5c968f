SPECIFICATION DpusmSpec
CONSTANTS
  Users = {u1, u2}
  Modules = {m1, m2}
  Monitors = {t1}
  Handles = {h1, h2}
  Removable = {m1, m2}
  Workers = {}
  Owner <- OneOwner
  MaxRegister = 3
  NoThread = NoThread
  NoHandle = NoHandle
  NoModule = NoModule
SYMMETRY Symmetry
INVARIANTS
  TypeOK
  HeldProviderRegistered
  ExitClean
PROPERTY ServiceSpec
CHECK_DEADLOCK FALSE
