--------------------------- MODULE ServiceProofs ---------------------------
(***************************************************************************)
(* The registry implements ProviderService, for every number of users,     *)
(* modules, monitors and addresses, when providers register in their init  *)
(* function and unregister in their exit function.                         *)
(***************************************************************************)
EXTENDS RegistryProofs

\* What the users of the service see of the registry.
StateOf(m) ==
  IF Found(m) = {} THEN "absent" ELSE IF Found(m) \cap down = {} THEN "up" ELSE "down"
HeldBy(u) == IF Holds(u) THEN module[ptr[u]] ELSE NoModule

SeenStates == [m \in Modules |-> StateOf(m)]
SeenHolds == [u \in Users |-> HeldBy(u)]

\* The service stutters where they see nothing change.
LEMMA SeenSame ==
  ASSUME UNCHANGED <<SeenStates, SeenHolds>>
  PROVE  UNCHANGED Service!vars
  BY DEF SeenStates, SeenHolds, StateOf, HeldBy, Service!vars

\* Its steps on a module, and on a user.
LEMMA SeenModule ==
  ASSUME NEW m \in Modules, SeenHolds' = SeenHolds,
         \/ StateOf(m) = "absent" /\ SeenStates' = [SeenStates EXCEPT ![m] = "up"]
         \/ StateOf(m) = "up" /\ SeenStates' = [SeenStates EXCEPT ![m] = "down"]
         \/ /\ StateOf(m) # "absent" /\ \A u \in Users : HeldBy(u) # m
            /\ SeenStates' = [SeenStates EXCEPT ![m] = "absent"]
  PROVE  Service!Next
  BY DEF SeenStates, SeenHolds, StateOf, HeldBy, Service!Next, Service!Register,
     Service!Unregister, Service!Invalidate

LEMMA SeenPut ==
  ASSUME NEW u \in Users, SeenStates' = SeenStates, HeldBy(u) # NoModule,
         SeenHolds' = [SeenHolds EXCEPT ![u] = NoModule]
  PROVE  Service!Next
  BY DEF SeenStates, SeenHolds, StateOf, HeldBy, Service!Next, Service!Put

LEMMA SeenGet ==
  ASSUME NEW u \in Users, NEW m \in Modules, SeenStates' = SeenStates, HeldBy(u) = NoModule,
         StateOf(m) # "absent", SeenHolds' = [SeenHolds EXCEPT ![u] = m]
  PROVE  Service!Next
  BY DEF SeenStates, SeenHolds, StateOf, HeldBy, Service!Next, Service!Get

-----------------------------------------------------------------------------
\* Nothing is registered and nobody holds anything at first.
LEMMA SeenInit == Init => Service!Init
  <1> SUFFICES ASSUME Init PROVE Service!Init
    OBVIOUS
  <1>1. \A u \in Users : ~Holds(u)
    BY DEF Init, Holds, Holding, Threads
  <1> QED
    BY <1>1 DEF Init, Found, Service!Init

\* What a user holds is a module.
LEMMA HeldIsModule ==
  ASSUME LeaseInv, NEW u \in Users, Holds(u)
  PROVE  HeldBy(u) \in Modules /\ HeldBy(u) # NoModule /\ mstate[HeldBy(u)] = "live"
  BY ModulesAssumption DEF LeaseInv, HoldInv, ListedPhase, HeldBy

\* A step of a user that leaves the list as it is and after which it holds no
\* other provider than before.
LEMMA UserLetsGo ==
  ASSUME LeaseInv, NEW u \in Users, UNCHANGED <<providers, module, down>>,
         \A v \in Users \ {u} : pc'[v] = pc[v] /\ ptr'[v] = ptr[v],
         Holds(u)' => Holds(u) /\ ptr'[u] = ptr[u]
  PROVE  Service!Next \/ UNCHANGED Service!vars
  <1>1. SeenStates' = SeenStates
    BY DEF SeenStates, StateOf, Found
  <1>2. \A v \in Users \ {u} : HeldBy(v)' = HeldBy(v)
    BY DEF HeldBy, Holds
  <1>3. CASE Holds(u) <=> Holds(u)'
    <2>1. HeldBy(u)' = HeldBy(u)
      BY <1>3 DEF HeldBy
    <2> QED
      BY <1>1, <1>2, <2>1, SeenSame DEF SeenHolds
  <1>4. CASE Holds(u) /\ ~Holds(u)'
    <2>1. HeldBy(u)' = NoModule /\ HeldBy(u) # NoModule
      BY <1>4, HeldIsModule DEF HeldBy
    <2>2. \A v \in Users : HeldBy(v)' = IF v = u THEN NoModule ELSE HeldBy(v)
      BY <1>2, <2>1
    <2>3. SeenHolds' = [SeenHolds EXCEPT ![u] = NoModule]
      BY <2>2 DEF SeenHolds
    <2> QED
      BY <1>1, <2>1, <2>3, SeenPut
  <1> QED
    BY <1>3, <1>4

\* A get gives a listed provider to a user that has none; every other step of
\* a user is a put or nothing.
LEMMA UserServes ==
  ASSUME LeaseInv, NEW u \in Users, UserNext(u)
  PROVE  Service!Next \/ UNCHANGED Service!vars
  <1>0. /\ u \in Threads
        /\ pc \in [Threads -> Labels]
        /\ ptr \in [Threads -> Handles \cup {NoHandle}]
    BY DEF LeaseInv, ListInv, TypeOK, Threads
  <1>1. /\ UNCHANGED <<providers, module>>
        /\ \A v \in Users \ {u} : pc'[v] = pc[v] /\ ptr'[v] = ptr[v]
    BY UserKeepsList DEF LeaseInv, ListInv, Threads
  <1>2. ASSUME UNCHANGED down, Holds(u)' => Holds(u) /\ ptr'[u] = ptr[u]
        PROVE  Service!Next \/ UNCHANGED Service!vars
    BY <1>1, <1>2, UserLetsGo
  <1>3. CASE StartGet(u) \/ GetLock(u)
    BY <1>0, <1>2, <1>3 DEF StartGet, GetLock, Acquire, Goto, objects, Holds, Holding
  <1>4. ASSUME NEW m \in Modules, GetFind(u, m)
        PROVE  Service!Next \/ UNCHANGED Service!vars
    <2>1. UNCHANGED down /\ pc[u] = "get_find"
      BY <1>4 DEF GetFind, Goto, objects
    <2>2. CASE pc'[u] = "idle"
      BY <1>2, <2>1, <2>2 DEF Holds, Holding
    <2>3. CASE pc'[u] = "get_connect" /\ \E h \in Found(m) : ptr' = [ptr EXCEPT ![u] = h]
      <3>1. HeldBy(u) = NoModule /\ HeldBy(u)' = m /\ StateOf(m) # "absent"
        BY <1>0, <1>1, <2>1, <2>3 DEF HeldBy, Holds, Holding, Found, StateOf
      <3>2. \A v \in Users \ {u} : HeldBy(v)' = HeldBy(v)
        BY <1>1 DEF HeldBy, Holds
      <3>3. SeenHolds' = [SeenHolds EXCEPT ![u] = m]
        BY <3>1, <3>2 DEF SeenHolds
      <3>4. SeenStates' = SeenStates
        BY <1>1, <2>1 DEF SeenStates, StateOf, Found
      <3> QED
        BY <3>1, <3>3, <3>4, SeenGet
    <2> QED
      BY <1>0, <1>4, <2>2, <2>3 DEF GetFind, Goto
  <1>5. CASE GetConnect(u)
    BY <1>0, <1>2, <1>5 DEF GetConnect, Goto, locals, Holds, Holding
  <1>6. CASE GetCheck(u)
    BY <1>0, <1>2, <1>6 DEF GetCheck, Oops, Goto, objects, locals, Holds, Holding
  <1>7. CASE StartPut(u)
    BY <1>0, <1>2, <1>7 DEF StartPut, Goto, objects, locals, Holds, Holding
  <1>8. CASE PutCheck(u)
    BY <1>0, <1>2, <1>8 DEF PutCheck, PutReturns, Oops, Goto, objects, locals, Holds, Holding
  <1>9. CASE PutModule(u)
    BY <1>0, <1>2, <1>9 DEF PutModule, Goto, objects, locals, Holds, Holding
  <1>10. CASE PutRefs(u) \/ PutActive(u)
    BY <1>0, <1>2, <1>10 DEF PutRefs, PutActive, Oops, Goto, objects, locals, Holds, Holding
  <1>11. CASE PutFuncs(u) \/ PutHook(u) \/ PutReport(u)
    BY <1>0, <1>2, <1>11
    DEF PutFuncs, PutHook, PutReport, PutReturns, Oops, Goto, objects, locals, Holds, Holding
  <1> QED
    BY <1>3, <1>4, <1>5, <1>6, <1>7, <1>8, <1>9, <1>10, <1>11 DEF UserNext, GetStep, PutStep

\* A module's steps on other things than the list.
LEMMA ModuleSeenSame ==
  ASSUME Workers = {}, LeaseInv, NEW m \in Modules, ModuleNext(m, m),
         UNCHANGED <<providers, module, down>>
  PROVE  UNCHANGED Service!vars
  <1>1. \A u \in Users : pc'[u] = pc[u] /\ ptr'[u] = ptr[u]
    BY ModuleKeepsUsers, OwnThreads, ThreadsAssumption DEF LeaseInv, ListInv, Threads
  <1>2. SeenStates' = SeenStates
    BY DEF SeenStates, StateOf, Found
  <1>3. SeenHolds' = SeenHolds
    BY <1>1 DEF SeenHolds, HeldBy, Holds
  <1> QED
    BY <1>2, <1>3, SeenSame

\* A registration lists one object under a name that was absent; an
\* unregistration takes the one object off that has the name, and nobody
\* holds it.
LEMMA ModuleServes ==
  ASSUME Workers = {}, LeaseInv, NEW m \in Modules, ModuleNext(m, m)
  PROVE  Service!Next \/ UNCHANGED Service!vars
  <1>0. /\ m \in Threads /\ m \in Callers /\ ModuleOf(m) = m
        /\ providers \subseteq alive /\ alive \subseteq Handles
        /\ module \in [Handles -> Modules \cup {NoModule}]
        /\ \A g, h \in providers : module[g] = module[h] => g = h
    BY OwnThreads DEF LeaseInv, ListInv, TypeOK, Threads, UniqueNames
  <1>1. \A u \in Users : pc'[u] = pc[u] /\ ptr'[u] = ptr[u]
    BY ModuleKeepsUsers, OwnThreads, ThreadsAssumption DEF LeaseInv, ListInv, Threads
  <1>2. CASE StartRegister(m, m) \/ RegisterLock(m) \/ RegisterSane(m, m) \/ RegisterFind(m, m)
    <2>1. UNCHANGED <<providers, module, down>>
      BY <1>2 DEF StartRegister, RegisterLock, RegisterSane, RegisterFind, Acquire, list, objects
    <2> QED
      BY <2>1, ModuleSeenSame
  <1>3. CASE RegisterAdd(m, m)
    <2>1. Found(m) = {}
      BY <1>0, <1>3 DEF RegisterAdd, Goto, LeaseInv, ListInv, FoundInv
    <2>2. CASE UNCHANGED <<list, objects>>
      BY <2>2, ModuleSeenSame DEF list, objects
    <2>3. ASSUME NEW h \in Handles \ alive,
                 module' = [module EXCEPT ![h] = m],
                 down' = down \ {h},
                 providers' = providers \cup {h}
          PROVE  Service!Next \/ UNCHANGED Service!vars
      <3>1. \A n \in Modules \ {m} : Found(n)' = Found(n)
        BY <1>0, <2>3 DEF Found
      <3>2. Found(m)' = {h}
        BY <1>0, <2>3, <2>1 DEF Found
      <3>3. \A n \in Modules : h \notin Found(n)
        BY <1>0, <2>3 DEF Found
      <3>4. \A n \in Modules \ {m} : StateOf(n)' = StateOf(n)
        BY <2>3, <3>1, <3>3 DEF StateOf
      <3>5. StateOf(m) = "absent" /\ StateOf(m)' = "up"
        BY <2>3, <2>1, <3>2 DEF StateOf
      <3>6. \A u \in Users : HeldBy(u)' = HeldBy(u)
        BY <1>0, <1>1, <2>3 DEF HeldBy, Holds, LeaseInv, HoldInv
      <3> QED
        BY <3>4, <3>5, <3>6, SeenModule DEF SeenStates, SeenHolds
    <2> QED
      BY <1>3, <2>2, <2>3 DEF RegisterAdd
  <1>4. CASE StartUnregister(m, m) \/ UnregisterLock(m) \/ UnregisterFind(m, m) \/ UnregisterFree(m, m)
    <2>1. UNCHANGED <<providers, module, down>>
      BY <1>4 DEF StartUnregister, UnregisterLock, UnregisterFind, UnregisterFree, Acquire,
        list, objects
    <2> QED
      BY <2>1, ModuleSeenSame
  <1>5. CASE UnregisterDrop(m)
    <2>1. /\ pc[m] = "unreg_drop"
          /\ providers' = providers \ {ptr[m]}
          /\ UNCHANGED <<module, down>>
      BY <1>5 DEF UnregisterDrop, Goto, objects
    <2>2. ptr[m] \in providers /\ module[ptr[m]] = m /\ mstate[m] = "going"
      BY <1>0, <2>1 DEF LeaseInv, ListInv, TargetInv, ModulePhase
    <2>3. Found(m) = {ptr[m]} /\ Found(m)' = {}
      BY <1>0, <2>1, <2>2 DEF Found
    <2>4. \A n \in Modules \ {m} : StateOf(n)' = StateOf(n)
      BY <2>1, <2>2 DEF StateOf, Found
    <2>5. StateOf(m) # "absent" /\ StateOf(m)' = "absent"
      BY <2>3 DEF StateOf
    <2>6. \A u \in Users : HeldBy(u)' = HeldBy(u)
      BY <1>1, <2>1 DEF HeldBy, Holds
    <2>7. \A u \in Users : HeldBy(u) # m
      BY <2>2, HeldIsModule, ModulesAssumption DEF HeldBy
    <2> QED
      BY <2>4, <2>5, <2>6, <2>7, SeenModule DEF SeenStates, SeenHolds
  <1> QED
    BY <1>2, <1>3, <1>4, <1>5 DEF ModuleNext, RegisterStep, UnregisterStep

\* An invalidation takes the one provider of that name down, or finds none.
LEMMA MonitorServes ==
  ASSUME LeaseInv, NEW t \in Monitors, MonitorNext(t)
  PROVE  Service!Next \/ UNCHANGED Service!vars
  <1>1. /\ UNCHANGED <<providers, module>>
        /\ \A u \in Users : pc'[u] = pc[u] /\ ptr'[u] = ptr[u]
    BY MonitorKeepsList, ThreadsAssumption DEF LeaseInv, ListInv, Threads
  <1>2. SeenHolds' = SeenHolds
    BY <1>1 DEF SeenHolds, HeldBy, Holds
  <1>3. \A m \in Modules : Found(m)' = Found(m)
    BY <1>1 DEF Found
  <1>4. CASE UNCHANGED down
    BY <1>2, <1>3, <1>4, SeenSame DEF SeenStates, StateOf
  <1>5. ASSUME NEW m \in Modules, down' = down \cup Found(m)
        PROVE  Service!Next \/ UNCHANGED Service!vars
    <2>1. \A n \in Modules \ {m} : Found(n) \cap Found(m) = {}
      BY DEF Found
    <2>2. \A n \in Modules \ {m} : StateOf(n)' = StateOf(n)
      BY <1>3, <1>5, <2>1 DEF StateOf
    <2>3. CASE StateOf(m) = "up"
      <3>1. StateOf(m)' = "down"
        BY <1>3, <1>5, <2>3 DEF StateOf
      <3> QED
        BY <1>2, <2>2, <2>3, <3>1, SeenModule DEF SeenStates
    <2>4. CASE StateOf(m) # "up"
      <3>1. StateOf(m)' = StateOf(m)
        BY <1>3, <1>5, <2>4 DEF StateOf
      <3> QED
        BY <1>2, <2>2, <3>1, SeenSame DEF SeenStates
    <2> QED
      BY <2>3, <2>4
  <1> QED
    BY <1>4, <1>5
    DEF MonitorNext, InvalidateStep, StartInvalidate, InvalidateLock, InvalidateSet, Acquire,
      objects

LEMMA StutterServes ==
  ASSUME UNCHANGED vars
  PROVE  UNCHANGED Service!vars
  <1>1. UNCHANGED <<SeenStates, SeenHolds>>
    BY DEF vars, list, objects, locals, SeenStates, SeenHolds, StateOf, HeldBy, Found, Holds
  <1> QED
    BY <1>1, SeenSame

\* The registry, with all its threads, locks and addresses, does nothing that
\* the service does not promise: it gives out what is registered, takes back
\* what was given, and only unregisters what nobody holds.
THEOREM ServiceImplemented ==
  ASSUME Workers = {}
  PROVE  Spec => ServiceSpec
  <1>1. LeaseInv /\ [Next]_vars => [Service!Next]_(Service!vars)
    BY OwnThreads, UserServes, ModuleServes, MonitorServes, StutterServes DEF Next
  <1>2. LeaseInv /\ [Next]_vars => LeaseInv'
    BY LeaseInductive
  <1> QED
    BY <1>1, <1>2, InitLease, SeenInit, PTL DEF Spec, ServiceSpec, Service!Spec

=============================================================================
