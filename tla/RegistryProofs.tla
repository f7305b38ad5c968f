--------------------------- MODULE RegistryProofs ---------------------------
(***************************************************************************)
(* What is proved of Registry for every number of users, modules, workers, *)
(* monitors and addresses.                                                 *)
(***************************************************************************)
EXTENDS Registry, FiniteSetTheorems, TLAPS

\* A thread registers and unregisters for a module.
LEMMA CallerModule ==
  ASSUME NEW t \in Callers
  PROVE  ModuleOf(t) \in Modules
  BY ModulesAssumption DEF Callers, ModuleOf

\* A thread's step to another label leaves pc a function into the labels.
LEMMA GotoType ==
  ASSUME TypeOK, NEW t \in Threads, NEW a, NEW b \in Labels, Goto(t, a, b)
  PROVE  pc' \in [Threads -> Labels]
  BY DEF TypeOK, Goto

\* The label sets, spelled out once.
LEMMA LabelNames ==
  /\ Resting \subseteq Labels
  /\ UserLabels \subseteq Labels
  /\ ModuleLabels \subseteq Labels
  /\ MonitorLabels \subseteq Labels
  BY DEF Labels

\* A function of counters stays one, whichever counter goes up or down.
LEMMA CounterType ==
  ASSUME NEW S, NEW f \in [S -> Int], NEW i
  PROVE  /\ [f EXCEPT ![i] = @ + 1] \in [S -> Int]
         /\ [f EXCEPT ![i] = @ - 1] \in [S -> Int]
  <1>1. ASSUME NEW x \in S
        PROVE  f[x] + 1 \in Int /\ f[x] - 1 \in Int
    OBVIOUS
  <1> QED
    BY <1>1

\* The initial state has the types.
LEMMA InitTypes == Init => TypeOK
  <1> SUFFICES ASSUME Init PROVE TypeOK
    OBVIOUS
  <1>1. pc \in [Threads -> Labels]
    BY DEF Init, Labels, Resting
  <1>2. ptr \in [Threads -> Handles \cup {NoHandle}]
    BY DEF Init
  <1> QED
    BY <1>1, <1>2, MaxRegisterAssumption DEF Init, LoaderInit, LoaderStates, TypeOK

\* What a returning call does to the loader's state of its module.
LEMMA AfterCallType ==
  ASSUME TypeOK, NEW m \in Modules, NEW ok \in BOOLEAN, RegisterReturns(m, ok)
  PROVE  mstate' \in [Modules -> LoaderStates] /\ mrefs' \in [Modules -> Int]
  BY DEF TypeOK, RegisterReturns, AfterCall, LoaderStates

\* Taking the lock keeps the types.
LEMMA AcquireTypes ==
  ASSUME TypeOK, NEW t \in Threads, NEW a, NEW b \in Labels, Acquire(t, a, b)
  PROVE  TypeOK'
  <1>1. pc' \in [Threads -> Labels]
    BY GotoType DEF Acquire
  <1> QED
    BY <1>1 DEF TypeOK, Acquire, loader, list, objects, locals

\* Every step of a registration keeps the types.
LEMMA RegisterTypes ==
  ASSUME TypeOK, NEW t \in Callers, NEW m \in Modules,
         StartRegister(t, m) \/ RegisterLock(t) \/ RegisterStep(t, m)
  PROVE  TypeOK'
  <1> t \in Threads
    BY DEF Threads
  <1> USE LabelNames DEF Resting, ModuleLabels
  <1>1. CASE StartRegister(t, m)
    <2>1. pc' \in [Threads -> Labels]
      BY <1>1, GotoType DEF StartRegister
    <2>2. started' \in 0..MaxRegister
      BY <1>1, MaxRegisterAssumption DEF StartRegister, TypeOK
    <2>3. mstate' \in [Modules -> LoaderStates] /\ mrefs' = mrefs
      BY <1>1 DEF StartRegister, Insmod, loader, TypeOK, LoaderStates
    <2> QED
      BY <1>1, <2>1, <2>2, <2>3 DEF StartRegister, TypeOK, list, objects
  <1>2. CASE RegisterLock(t)
    BY <1>2, AcquireTypes DEF RegisterLock
  <1>3. CASE RegisterSane(t, m)
    <2>1. pc' \in [Threads -> Labels]
      BY <1>3, GotoType DEF RegisterSane
    <2>2. mstate' \in [Modules -> LoaderStates] /\ mrefs' \in [Modules -> Int]
      BY <1>3, AfterCallType DEF RegisterSane, loader, TypeOK
    <2> QED
      BY <1>3, <2>1, <2>2 DEF RegisterSane, TypeOK, list, objects, locals
  <1>4. CASE RegisterFind(t, m)
    <2>1. pc' \in [Threads -> Labels]
      BY <1>4, GotoType DEF RegisterFind
    <2>2. mstate' \in [Modules -> LoaderStates] /\ mrefs' \in [Modules -> Int]
      BY <1>4, AfterCallType DEF RegisterFind, loader, TypeOK
    <2> QED
      BY <1>4, <2>1, <2>2 DEF RegisterFind, TypeOK, list, objects, locals
  <1>5. CASE RegisterAdd(t, m)
    <2>1. pc' \in [Threads -> Labels]
      BY <1>5, GotoType DEF RegisterAdd
    <2>2. mstate' \in [Modules -> LoaderStates] /\ mrefs' \in [Modules -> Int]
      BY <1>5, AfterCallType DEF RegisterAdd
    <2>3. CASE UNCHANGED <<list, active, objects, locals>>
      BY <1>5, <2>1, <2>2, <2>3 DEF RegisterAdd, TypeOK, list, objects, locals
    <2>4. CASE /\ \E h \in Handles \ alive :
                    /\ alive' = alive \cup {h}
                    /\ module' = [module EXCEPT ![h] = m]
                    /\ refs' = [refs EXCEPT ![h] = 0]
                    /\ down' = down \ {h}
                    /\ providers' = providers \cup {h}
               /\ count' = count + 1
               /\ UNCHANGED <<active, locals>>
      <3>1. PICK h \in Handles \ alive :
              /\ alive' = alive \cup {h}
              /\ module' = [module EXCEPT ![h] = m]
              /\ refs' = [refs EXCEPT ![h] = 0]
              /\ down' = down \ {h}
              /\ providers' = providers \cup {h}
        BY <2>4
      <3> QED
        BY <1>5, <2>1, <2>2, <2>4, <3>1 DEF RegisterAdd, TypeOK, locals
    <2> QED
      BY <1>5, <2>3, <2>4 DEF RegisterAdd
  <1> QED
    BY <1>1, <1>2, <1>3, <1>4, <1>5 DEF RegisterStep

\* Every step of an unregistration keeps the types.
LEMMA UnregisterTypes ==
  ASSUME TypeOK, NEW t \in Callers, NEW m \in Modules,
         StartUnregister(t, m) \/ UnregisterLock(t) \/ UnregisterStep(t, m)
  PROVE  TypeOK'
  <1> t \in Threads
    BY DEF Threads
  <1> USE LabelNames DEF Resting, ModuleLabels
  <1>1. CASE StartUnregister(t, m)
    <2>1. pc' \in [Threads -> Labels]
      BY <1>1, GotoType DEF StartUnregister
    <2>2. mstate' \in [Modules -> LoaderStates] /\ mrefs' = mrefs
      BY <1>1 DEF StartUnregister, Rmmod, loader, TypeOK, LoaderStates
    <2> QED
      BY <1>1, <2>1, <2>2 DEF StartUnregister, TypeOK, list, objects, locals
  <1>2. CASE UnregisterLock(t)
    BY <1>2, AcquireTypes DEF UnregisterLock
  <1>3. ASSUME UnregisterReturns(t, m)
        PROVE  /\ pc' \in [Threads -> Labels]
               /\ mstate' \in [Modules -> LoaderStates]
               /\ mrefs' \in [Modules -> Int]
               /\ lock' \in Threads \cup {NoThread}
    <2>1. pc' \in [Threads -> Labels]
      BY <1>3, GotoType DEF UnregisterReturns
    <2> QED
      BY <1>3, <2>1 DEF UnregisterReturns, TypeOK, AfterCall, LoaderStates
  <1>4. CASE UnregisterFind(t, m)
    <2>1. CASE /\ Found(m) = {}
               /\ UnregisterReturns(t, m)
               /\ UNCHANGED <<list, active, objects, locals>>
      BY <1>3, <2>1 DEF TypeOK, list, objects, locals
    <2>2. CASE /\ \E h \in Found(m) :
                    /\ ptr' = [ptr EXCEPT ![t] = h]
                    /\ seen' = [seen EXCEPT ![t] = refs[h]]
               /\ Goto(t, "unreg_find", "unreg_drop")
               /\ UNCHANGED <<loader, lock, list, active, objects, mdl, started>>
      <3>1. pc' \in [Threads -> Labels]
        BY <2>2, GotoType
      <3>2. ptr' \in [Threads -> Handles \cup {NoHandle}] /\ seen' \in [Callers -> Int]
        BY <2>2 DEF Found, TypeOK
      <3> QED
        BY <2>2, <3>1, <3>2 DEF TypeOK, loader, list, objects
    <2> QED
      BY <1>4, <2>1, <2>2 DEF UnregisterFind
  <1>5. CASE UnregisterDrop(t)
    <2>1. pc' \in [Threads -> Labels]
      BY <1>5, GotoType DEF UnregisterDrop
    <2> QED
      BY <1>5, <2>1 DEF UnregisterDrop, TypeOK, loader, objects, locals
  <1>6. CASE UnregisterFree(t, m)
    BY <1>3, <1>6 DEF UnregisterFree, TypeOK
  <1> QED
    BY <1>1, <1>2, <1>4, <1>5, <1>6 DEF UnregisterStep

\* Every step of a get keeps the types.
LEMMA GetTypes ==
  ASSUME TypeOK, NEW u \in Users, StartGet(u) \/ GetLock(u) \/ GetStep(u)
  PROVE  TypeOK'
  <1> u \in Threads
    BY DEF Threads
  <1> USE LabelNames DEF Resting, UserLabels
  <1>1. CASE StartGet(u)
    <2>1. pc' \in [Threads -> Labels]
      BY <1>1, GotoType DEF StartGet
    <2> QED
      BY <1>1, <2>1 DEF StartGet, TypeOK, loader, list, objects, locals
  <1>2. CASE GetLock(u)
    BY <1>2, AcquireTypes DEF GetLock
  <1>3. ASSUME NEW m \in Modules, GetFind(u, m)
        PROVE  TypeOK'
    <2>1. pc' \in [Threads -> Labels]
      BY <1>3, GotoType DEF GetFind
    <2>2. ptr' \in [Threads -> Handles \cup {NoHandle}]
      BY <1>3 DEF GetFind, Found, TypeOK, locals
    <2>3. mrefs' \in [Modules -> Int] /\ mstate' = mstate
      BY <1>3 DEF GetFind, ModuleGet, TypeOK, loader
    <2>4. lock' \in Threads \cup {NoThread}
      BY <1>3 DEF GetFind, TypeOK
    <2> QED
      BY <1>3, <2>1, <2>2, <2>3, <2>4 DEF GetFind, TypeOK, list, objects, locals
  <1>4. CASE GetConnect(u)
    <2>1. pc' \in [Threads -> Labels]
      BY <1>4, GotoType DEF GetConnect
    <2>2. refs' \in [Handles -> Int]
      BY <1>4, CounterType DEF GetConnect, TypeOK
    <2> QED
      BY <1>4, <2>1, <2>2 DEF GetConnect, TypeOK, loader, list, locals
  <1>5. CASE GetCheck(u)
    <2>1. pc' \in [Threads -> Labels]
      BY <1>5, GotoType DEF GetCheck, Oops
    <2> QED
      BY <1>5, <2>1 DEF GetCheck, Oops, TypeOK, loader, list, objects, locals
  <1> QED
    BY <1>1, <1>2, <1>3, <1>4, <1>5 DEF GetStep

\* Every step of a put keeps the types, also on a freed object.
LEMMA PutTypes ==
  ASSUME TypeOK, NEW u \in Users, StartPut(u) \/ PutStep(u)
  PROVE  TypeOK'
  <1> u \in Threads
    BY DEF Threads
  <1> USE LabelNames DEF Resting, UserLabels
  <1> USE DEF loader, list, objects, locals
  <1>1. ASSUME NEW a, NEW b \in Labels, Goto(u, a, b),
               UNCHANGED <<loader, lock, list, active, objects, locals>>
        PROVE  TypeOK'
    BY <1>1, GotoType DEF TypeOK
  <1>2. ASSUME NEW a, PutReturns(u, a)
        PROVE  TypeOK'
    <2>1. pc' \in [Threads -> Labels]
      BY <1>2, GotoType DEF PutReturns
    <2> QED
      BY <1>2, <2>1 DEF PutReturns, TypeOK
  <1>3. ASSUME NEW a, Oops(u, a)
        PROVE  TypeOK'
    BY <1>1, <1>3 DEF Oops
  <1>4. CASE StartPut(u)
    BY <1>1, <1>4 DEF StartPut
  <1>5. CASE PutCheck(u)
    <2>1. CASE Goto(u, "put_check", "put_module")
      <3>1. pc' \in [Threads -> Labels]
        BY <2>1, GotoType
      <3>2. pc'[u] = "put_module"
        BY <2>1 DEF Goto, TypeOK
      <3>3. /\ ptr[u] \in alive
            /\ mdl' = [mdl EXCEPT ![u] = module[ptr[u]]]
            /\ UNCHANGED <<loader, lock, list, active, objects, ptr, seen, started>>
        BY <1>5, <3>2 DEF PutCheck, PutReturns, Oops, Goto, TypeOK
      <3> QED
        BY <3>1, <3>3 DEF TypeOK
    <2> QED
      BY <1>2, <1>3, <1>5, <2>1 DEF PutCheck
  <1>6. CASE PutModule(u)
    <2>1. pc' \in [Threads -> Labels]
      BY <1>6, GotoType DEF PutModule
    <2>2. mrefs' \in [Modules -> Int]
      BY <1>6, CounterType DEF PutModule, ModulePut, TypeOK
    <2> QED
      BY <1>6, <2>1, <2>2 DEF PutModule, ModulePut, TypeOK
  <1>7. CASE PutRefs(u)
    <2>1. CASE Goto(u, "put_refs", "put_active")
      <3>1. pc' \in [Threads -> Labels]
        BY <2>1, GotoType
      <3>2. pc'[u] = "put_active"
        BY <2>1 DEF Goto, TypeOK
      <3>3. /\ refs' = [refs EXCEPT ![ptr[u]] = @ - 1]
            /\ UNCHANGED <<loader, lock, list, active, alive, module, down, locals>>
        BY <1>7, <3>2 DEF PutRefs, Oops, Goto, TypeOK
      <3>4. refs' \in [Handles -> Int]
        BY <3>3, CounterType DEF TypeOK
      <3> QED
        BY <3>1, <3>3, <3>4 DEF TypeOK
    <2> QED
      BY <1>3, <1>7, <2>1 DEF PutRefs
  <1>8. CASE PutActive(u)
    <2>1. pc' \in [Threads -> Labels]
      BY <1>8, GotoType DEF PutActive
    <2> QED
      BY <1>8, <2>1 DEF PutActive, TypeOK
  <1>9. CASE PutFuncs(u)
    BY <1>1, <1>3, <1>9 DEF PutFuncs
  <1>10. CASE PutHook(u)
    BY <1>1, <1>3, <1>10 DEF PutHook
  <1>11. CASE PutReport(u)
    BY <1>2, <1>3, <1>11 DEF PutReport
  <1> QED
    BY <1>4, <1>5, <1>6, <1>7, <1>8, <1>9, <1>10, <1>11 DEF PutStep

\* Every step of an invalidate keeps the types.
LEMMA InvalidateTypes ==
  ASSUME TypeOK, NEW t \in Monitors,
         StartInvalidate(t) \/ InvalidateLock(t) \/ InvalidateStep(t)
  PROVE  TypeOK'
  <1> t \in Threads
    BY DEF Threads
  <1> USE LabelNames DEF Resting, MonitorLabels
  <1>1. CASE StartInvalidate(t)
    <2>1. pc' \in [Threads -> Labels]
      BY <1>1, GotoType DEF StartInvalidate
    <2> QED
      BY <1>1, <2>1 DEF StartInvalidate, TypeOK, loader, list, objects, locals
  <1>2. CASE InvalidateLock(t)
    BY <1>2, AcquireTypes DEF InvalidateLock
  <1>3. ASSUME NEW m \in Modules, InvalidateSet(t, m)
        PROVE  TypeOK'
    <2>1. pc' \in [Threads -> Labels]
      BY <1>3, GotoType DEF InvalidateSet
    <2>2. Found(m) \subseteq Handles
      BY DEF Found, TypeOK
    <2> QED
      BY <1>3, <2>1, <2>2 DEF InvalidateSet, TypeOK, loader, list, locals
  <1> QED
    BY <1>1, <1>2, <1>3 DEF InvalidateStep

\* So does every step of the registry.
LEMMA StepTypes == TypeOK /\ [Next]_vars => TypeOK'
  <1> SUFFICES ASSUME TypeOK, [Next]_vars
               PROVE  TypeOK'
    OBVIOUS
  <1>1. ASSUME NEW u \in Users, UserNext(u)
        PROVE  TypeOK'
    BY <1>1, GetTypes, PutTypes DEF UserNext
  <1>2. ASSUME NEW t \in Callers, ModuleNext(t, ModuleOf(t))
        PROVE  TypeOK'
    BY <1>2, CallerModule, RegisterTypes, UnregisterTypes DEF ModuleNext
  <1>3. ASSUME NEW t \in Monitors, MonitorNext(t)
        PROVE  TypeOK'
    BY <1>3, InvalidateTypes DEF MonitorNext
  <1>4. CASE UNCHANGED vars
    BY <1>4 DEF vars, loader, list, objects, locals, TypeOK
  <1> QED
    BY <1>1, <1>2, <1>3, <1>4 DEF Next

\* Every variable keeps the type its declaration states: counters are
\* integers, threads point at addresses or at nothing, labels are labels.
THEOREM TypeCorrect == Spec => []TypeOK
  <1> QED
    BY InitTypes, StepTypes, PTL DEF Spec

-----------------------------------------------------------------------------
(* The list: what the lock protects.                                       *)

LockInv == \A t \in Threads : pc[t] \in Critical => lock = t

\* Between list_del and count-- of an unregister the count is one ahead.
Dropping == \E t \in Callers : pc[t] = "unreg_free"

CountInv == count = Cardinality(providers) + (IF Dropping THEN 1 ELSE 0)

\* The object that an unregister has found is listed until it drops it, and
\* is not listed again before it frees it.
TargetInv ==
  \A t \in Callers :
    /\ pc[t] = "unreg_drop" => ptr[t] \in providers /\ module[ptr[t]] = ModuleOf(t)
    /\ pc[t] = "unreg_free" => ptr[t] \notin providers

\* The name that a registration has not found stays free until it lists it.
FoundInv == \A t \in Callers : pc[t] = "reg_add" => Found(ModuleOf(t)) = {}

ListInv ==
  /\ TypeOK
  /\ LockInv
  /\ providers \subseteq alive
  /\ UniqueNames
  /\ TargetInv
  /\ FoundInv
  /\ CountInv

\* A step of one thread keeps the lock exclusive if it leaves the lock alone
\* and enters nothing, takes the free lock, or returns the one it has.
LEMMA LockMoves ==
  ASSUME TypeOK, LockInv, NEW t \in Threads, NEW a, NEW b, Goto(t, a, b),
         \/ lock' = lock /\ (b \in Critical => a \in Critical)
         \/ lock = NoThread /\ lock' = t
         \/ lock' = NoThread /\ a \in Critical /\ b \notin Critical
  PROVE  LockInv'
  <1>1. \A s \in Threads : pc'[s] = IF s = t THEN b ELSE pc[s]
    BY DEF Goto, TypeOK
  <1>2. pc[t] = a
    BY DEF Goto
  <1> QED
    BY <1>1, <1>2, ThreadsAssumption DEF LockInv

\* A module's step moves the lock as LockMoves has it.
LEMMA ModuleLock ==
  ASSUME TypeOK, LockInv, NEW t \in Callers, NEW m \in Modules, ModuleNext(t, m)
  PROVE  LockInv'
  <1> t \in Threads
    BY DEF Threads
  <1> USE LockMoves DEF Critical
  <1>1. CASE StartRegister(t, m)
    BY <1>1 DEF StartRegister
  <1>2. CASE RegisterLock(t)
    BY <1>2 DEF RegisterLock, Acquire
  <1>3. CASE RegisterSane(t, m)
    BY <1>3 DEF RegisterSane
  <1>4. CASE RegisterFind(t, m)
    BY <1>4 DEF RegisterFind
  <1>5. CASE RegisterAdd(t, m)
    BY <1>5 DEF RegisterAdd
  <1>6. CASE StartUnregister(t, m)
    BY <1>6 DEF StartUnregister
  <1>7. CASE UnregisterLock(t)
    BY <1>7 DEF UnregisterLock, Acquire
  <1>8. CASE UnregisterFind(t, m)
    BY <1>8 DEF UnregisterFind, UnregisterReturns
  <1>9. CASE UnregisterDrop(t)
    BY <1>9 DEF UnregisterDrop
  <1>10. CASE UnregisterFree(t, m)
    BY <1>10 DEF UnregisterFree, UnregisterReturns
  <1> QED
    BY <1>1, <1>2, <1>3, <1>4, <1>5, <1>6, <1>7, <1>8, <1>9, <1>10
    DEF ModuleNext, RegisterStep, UnregisterStep

\* A user's step moves the lock as LockMoves has it.
LEMMA UserLock ==
  ASSUME TypeOK, LockInv, NEW u \in Users, UserNext(u)
  PROVE  LockInv'
  <1> u \in Threads
    BY DEF Threads
  <1> USE LockMoves DEF Critical
  <1>1. CASE StartGet(u) \/ StartPut(u)
    BY <1>1 DEF StartGet, StartPut
  <1>2. CASE GetLock(u)
    BY <1>2 DEF GetLock, Acquire
  <1>3. ASSUME NEW m \in Modules, GetFind(u, m)
        PROVE  LockInv'
    BY <1>3 DEF GetFind
  <1>4. CASE GetConnect(u)
    BY <1>4 DEF GetConnect
  <1>5. CASE GetCheck(u)
    BY <1>5 DEF GetCheck, Oops
  <1>6. CASE PutCheck(u)
    BY <1>6 DEF PutCheck, PutReturns, Oops
  <1>7. CASE PutModule(u)
    BY <1>7 DEF PutModule
  <1>8. CASE PutRefs(u) \/ PutActive(u) \/ PutFuncs(u)
    BY <1>8 DEF PutRefs, PutActive, PutFuncs, Oops
  <1>9. CASE PutHook(u) \/ PutReport(u)
    BY <1>9 DEF PutHook, PutReport, PutReturns, Oops
  <1> QED
    BY <1>1, <1>2, <1>3, <1>4, <1>5, <1>6, <1>7, <1>8, <1>9
    DEF UserNext, GetStep, PutStep

\* A monitor's step moves the lock as LockMoves has it.
LEMMA MonitorLock ==
  ASSUME TypeOK, LockInv, NEW t \in Monitors, MonitorNext(t)
  PROVE  LockInv'
  <1> t \in Threads
    BY DEF Threads
  <1> USE LockMoves DEF Critical
  <1>1. CASE StartInvalidate(t)
    BY <1>1 DEF StartInvalidate
  <1>2. CASE InvalidateLock(t)
    BY <1>2 DEF InvalidateLock, Acquire
  <1>3. ASSUME NEW m \in Modules, InvalidateSet(t, m)
        PROVE  LockInv'
    BY <1>3 DEF InvalidateSet
  <1> QED
    BY <1>1, <1>2, <1>3 DEF MonitorNext, InvalidateStep

\* Two threads are never between mutex_lock and mutex_unlock.
LEMMA LockExclusive == TypeOK /\ LockInv /\ [Next]_vars => LockInv'
  <1> SUFFICES ASSUME TypeOK, LockInv, [Next]_vars
               PROVE  LockInv'
    OBVIOUS
  <1>1. CASE UNCHANGED vars
    BY <1>1 DEF vars, LockInv
  <1> QED
    BY <1>1, CallerModule, UserLock, ModuleLock, MonitorLock DEF Next

\* Users and monitors never change the list, nor what a module thread sees.
LEMMA UserKeepsList ==
  ASSUME TypeOK, NEW u \in Users, UserNext(u)
  PROVE  /\ UNCHANGED <<providers, count, alive, module, mstate>>
         /\ \A t \in Threads \ {u} : pc'[t] = pc[t] /\ ptr'[t] = ptr[t]
         /\ \A v \in Users \ {u} : mdl'[v] = mdl[v]
  <1> USE DEF loader, list, objects, locals, Goto, TypeOK
  <1>1. CASE StartGet(u) \/ StartPut(u)
    BY <1>1 DEF StartGet, StartPut
  <1>2. CASE GetLock(u)
    BY <1>2 DEF GetLock, Acquire
  <1>3. ASSUME NEW m \in Modules, GetFind(u, m)
        PROVE  /\ UNCHANGED <<providers, count, alive, module, mstate>>
               /\ \A t \in Threads \ {u} : pc'[t] = pc[t] /\ ptr'[t] = ptr[t]
               /\ \A v \in Users \ {u} : mdl'[v] = mdl[v]
    BY <1>3 DEF GetFind, ModuleGet
  <1>4. CASE GetConnect(u)
    BY <1>4 DEF GetConnect
  <1>5. CASE GetCheck(u)
    BY <1>5 DEF GetCheck, Oops
  <1>6. CASE PutCheck(u)
    BY <1>6 DEF PutCheck, PutReturns, Oops
  <1>7. CASE PutModule(u)
    BY <1>7 DEF PutModule, ModulePut
  <1>8. CASE PutRefs(u) \/ PutActive(u) \/ PutFuncs(u)
    BY <1>8 DEF PutRefs, PutActive, PutFuncs, Oops
  <1>9. CASE PutHook(u) \/ PutReport(u)
    BY <1>9 DEF PutHook, PutReport, PutReturns, Oops
  <1> QED
    BY <1>1, <1>2, <1>3, <1>4, <1>5, <1>6, <1>7, <1>8, <1>9
    DEF UserNext, GetStep, PutStep

\* Nor does dpusm_invalidate, which only clears fields.
LEMMA MonitorKeepsList ==
  ASSUME TypeOK, NEW s \in Monitors, MonitorNext(s)
  PROVE  /\ UNCHANGED <<providers, count, alive, module, loader, ptr, mdl>>
         /\ \A t \in Threads \ {s} : pc'[t] = pc[t]
  <1> USE DEF loader, list, objects, locals, Goto, TypeOK
  <1>1. CASE StartInvalidate(s)
    BY <1>1 DEF StartInvalidate
  <1>2. CASE InvalidateLock(s)
    BY <1>2 DEF InvalidateLock, Acquire
  <1>3. ASSUME NEW m \in Modules, InvalidateSet(s, m)
        PROVE  /\ UNCHANGED <<providers, count, alive, module, loader, ptr, mdl>>
               /\ \A t \in Threads \ {s} : pc'[t] = pc[t]
    BY <1>3 DEF InvalidateSet
  <1> QED
    BY <1>1, <1>2, <1>3 DEF MonitorNext, InvalidateStep

\* A step that leaves the list and the running unregisters alone, and goes
\* on to list a name only when it is free.
LEMMA ListKept ==
  ASSUME ListInv, TypeOK', LockInv',
         UNCHANGED <<providers, count, alive, module>>,
         \A t \in Callers :
           \/ pc'[t] = pc[t] /\ ptr'[t] = ptr[t]
           \/ /\ pc[t] \notin {"unreg_drop", "unreg_free"}
              /\ pc'[t] \notin {"unreg_drop", "unreg_free"}
              /\ pc'[t] = "reg_add" => Found(ModuleOf(t)) = {}
  PROVE  ListInv'
  <1>1. Dropping' <=> Dropping
    BY DEF Dropping
  <1>2. CountInv'
    BY <1>1 DEF CountInv, ListInv
  <1>3. TargetInv'
    BY DEF TargetInv, ListInv
  <1>4. FoundInv'
    BY DEF FoundInv, Found, ListInv
  <1> QED
    BY <1>2, <1>3, <1>4 DEF ListInv, UniqueNames

\* The caller that is inside the lock is alone there.
LEMMA OneCaller ==
  ASSUME ListInv, NEW t \in Callers, pc[t] \in Critical
  PROVE  \A s \in Callers \ {t} : pc[s] \notin Critical
  <1>1. \A s \in Callers : pc[s] \in Critical => lock = s
    BY DEF ListInv, LockInv, Threads
  <1> QED
    BY <1>1

\* A registration lists a new object under a name that is not taken.
LEMMA RegisterKeepsList ==
  ASSUME ListInv, TypeOK', LockInv', NEW t \in Callers, NEW m \in Modules, m = ModuleOf(t),
         StartRegister(t, m) \/ RegisterLock(t) \/ RegisterStep(t, m)
  PROVE  ListInv'
  <1> t \in Threads
    BY DEF Threads
  <1>1. CASE StartRegister(t, m) \/ RegisterLock(t) \/ RegisterSane(t, m)
    BY <1>1, ListKept
    DEF StartRegister, RegisterLock, RegisterSane, Acquire, Goto, ListInv, TypeOK, Threads,
        list, objects, locals
  <1>2. CASE RegisterFind(t, m)
    BY <1>2, ListKept DEF RegisterFind, Goto, ListInv, TypeOK, Threads, list, objects, locals
  <1>3. CASE RegisterAdd(t, m) /\ UNCHANGED <<list, active, objects, locals>>
    BY <1>3, ListKept DEF RegisterAdd, Goto, ListInv, TypeOK, Threads, list, objects, locals
  <1>4. CASE /\ RegisterAdd(t, m)
             /\ \E h \in Handles \ alive :
                  /\ alive' = alive \cup {h}
                  /\ module' = [module EXCEPT ![h] = m]
                  /\ providers' = providers \cup {h}
             /\ count' = count + 1
             /\ UNCHANGED <<active, locals>>
    <2>1. PICK h \in Handles \ alive :
            /\ alive' = alive \cup {h}
            /\ module' = [module EXCEPT ![h] = m]
            /\ providers' = providers \cup {h}
      BY <1>4
    <2>2. h \notin providers
      BY <2>1 DEF ListInv
    <2>3. pc[t] = "reg_add" /\ pc' = [pc EXCEPT ![t] = "idle"]
      BY <1>4 DEF RegisterAdd, Goto
    <2>4. \A s \in Callers : pc[s] \notin {"unreg_drop", "unreg_free"}
      BY <2>3, OneCaller DEF Critical
    <2>5. \A s \in Callers : pc'[s] \notin {"unreg_drop", "unreg_free", "reg_add"}
      BY <2>3, OneCaller DEF Critical, ListInv, TypeOK, Threads
    <2>6. \A g \in providers : module'[g] = module[g] /\ module[g] # m
      BY <2>1, <2>2, <2>3 DEF Found, FoundInv, ListInv, TypeOK
    <2>7. module'[h] = m
      BY <2>1 DEF ListInv, TypeOK
    <2>8. UniqueNames'
      BY <2>1, <2>6, <2>7 DEF UniqueNames, ListInv
    <2>9. Cardinality(providers') = Cardinality(providers) + 1
      <3>1. IsFiniteSet(providers)
        BY FS_Subset, HandlesAssumption DEF ListInv, TypeOK
      <3> QED
        BY <2>1, <2>2, <3>1, FS_AddElement
    <2>10. CountInv'
      <3>1. Cardinality(providers) \in Nat
        BY FS_Subset, FS_CardinalityType, HandlesAssumption DEF ListInv, TypeOK
      <3>2. ~Dropping /\ ~Dropping'
        BY <2>4, <2>5 DEF Dropping
      <3> QED
        BY <1>4, <2>9, <3>1, <3>2 DEF CountInv, ListInv
    <2>11. TargetInv' /\ FoundInv'
      BY <2>5 DEF TargetInv, FoundInv
    <2>12. providers' \subseteq alive'
      BY <2>1 DEF ListInv
    <2> QED
      BY <2>8, <2>10, <2>11, <2>12 DEF ListInv
  <1> QED
    <2>1. ASSUME RegisterAdd(t, m)
          PROVE  ListInv'
      BY <1>3, <1>4, <2>1 DEF RegisterAdd
    <2> QED
      BY <1>1, <1>2, <2>1 DEF RegisterStep

\* An unregistration takes its own object off the list, counts it and
\* frees it, and no other.
LEMMA UnregisterKeepsList ==
  ASSUME ListInv, TypeOK', LockInv', NEW t \in Callers, NEW m \in Modules, m = ModuleOf(t),
         StartUnregister(t, m) \/ UnregisterLock(t) \/ UnregisterStep(t, m)
  PROVE  ListInv'
  <1> t \in Threads
    BY DEF Threads
  <1>0. pc \in [Threads -> Labels] /\ ptr \in [Threads -> Handles \cup {NoHandle}]
        /\ IsFiniteSet(providers) /\ Callers \subseteq Threads
    BY FS_Subset, HandlesAssumption DEF ListInv, TypeOK, Threads
  <1>1. CASE StartUnregister(t, m) \/ UnregisterLock(t)
    BY <1>0, <1>1, ListKept
    DEF StartUnregister, UnregisterLock, Acquire, Goto, list, objects, locals
  <1>2. CASE UnregisterFind(t, m)
    <2>1. CASE UnregisterReturns(t, m) /\ UNCHANGED <<list, active, objects, locals>>
      BY <1>0, <1>2, <2>1, ListKept
      DEF UnregisterFind, UnregisterReturns, Goto, list, objects, locals
    <2>2. CASE /\ \E h \in Found(m) : ptr' = [ptr EXCEPT ![t] = h]
               /\ Goto(t, "unreg_find", "unreg_drop")
               /\ UNCHANGED <<loader, lock, list, active, objects, mdl, started>>
      <3>1. PICK h \in Found(m) : ptr' = [ptr EXCEPT ![t] = h]
        BY <2>2
      <3>2. pc[t] = "unreg_find" /\ pc' = [pc EXCEPT ![t] = "unreg_drop"]
        BY <2>2 DEF Goto
      <3>3. h \in providers /\ module[h] = m
        BY DEF Found
      <3>4. TargetInv' /\ FoundInv'
        BY <1>0, <2>2, <3>1, <3>2, <3>3 DEF TargetInv, FoundInv, Found, ListInv, list, objects
      <3>5. Dropping' <=> Dropping
        BY <1>0, <3>2 DEF Dropping
      <3> QED
        BY <2>2, <3>4, <3>5 DEF ListInv, CountInv, UniqueNames, list, objects
    <2> QED
      BY <1>2, <2>1, <2>2 DEF UnregisterFind
  <1>3. CASE UnregisterDrop(t)
    <2>1. /\ pc[t] = "unreg_drop"
          /\ pc' = [pc EXCEPT ![t] = "unreg_free"]
          /\ providers' = providers \ {ptr[t]}
          /\ UNCHANGED <<count, alive, module, ptr>>
      BY <1>3 DEF UnregisterDrop, Goto, objects, locals
    <2>2. \A s \in Callers \ {t} : pc[s] \notin {"unreg_drop", "unreg_free", "reg_add"}
      BY <2>1, OneCaller DEF Critical
    <2>3. ptr[t] \in providers
      BY <2>1 DEF ListInv, TargetInv
    <2>4. Cardinality(providers') = Cardinality(providers) - 1
          /\ Cardinality(providers) \in Nat
      BY <1>0, <2>1, <2>3, FS_RemoveElement, FS_CardinalityType
    <2>5. ~Dropping /\ Dropping'
      BY <1>0, <2>1, <2>2 DEF Dropping
    <2>6. CountInv'
      BY <2>1, <2>4, <2>5 DEF ListInv, CountInv
    <2>7. TargetInv' /\ FoundInv'
      BY <1>0, <2>1, <2>2 DEF TargetInv, FoundInv
    <2> QED
      BY <2>1, <2>6, <2>7 DEF ListInv, UniqueNames
  <1>4. CASE UnregisterFree(t, m)
    <2>1. /\ pc[t] = "unreg_free"
          /\ pc' = [pc EXCEPT ![t] = "idle"]
          /\ alive' = alive \ {ptr[t]}
          /\ count' = count - 1
          /\ UNCHANGED <<providers, module>>
      BY <1>4 DEF UnregisterFree, UnregisterReturns, Goto
    <2>2. \A s \in Callers \ {t} : pc[s] \notin {"unreg_drop", "unreg_free", "reg_add"}
      BY <2>1, OneCaller DEF Critical
    <2>3. ptr[t] \notin providers
      BY <2>1 DEF ListInv, TargetInv
    <2>4. Cardinality(providers) \in Nat
      BY <1>0, FS_CardinalityType
    <2>5. Dropping /\ ~Dropping'
      BY <1>0, <2>1, <2>2 DEF Dropping
    <2>6. CountInv'
      BY <2>1, <2>4, <2>5 DEF ListInv, CountInv
    <2>7. TargetInv' /\ FoundInv'
      BY <1>0, <2>1, <2>2 DEF TargetInv, FoundInv
    <2> QED
      BY <2>1, <2>3, <2>6, <2>7 DEF ListInv, UniqueNames
  <1> QED
    BY <1>1, <1>2, <1>3, <1>4 DEF UnregisterStep

\* The list's invariant is inductive.
LEMMA ListInductive == ListInv /\ [Next]_vars => ListInv'
  <1> SUFFICES ASSUME ListInv, [Next]_vars
               PROVE  ListInv'
    OBVIOUS
  <1>1. TypeOK' /\ LockInv'
    BY StepTypes, LockExclusive DEF ListInv
  <1>2. ASSUME NEW u \in Users, UserNext(u)
        PROVE  ListInv'
    <2>1. Callers \subseteq Threads \ {u}
      BY ThreadsAssumption DEF Threads
    <2> QED
      BY <1>1, <1>2, <2>1, UserKeepsList, ListKept DEF ListInv
  <1>3. ASSUME NEW t \in Callers, ModuleNext(t, ModuleOf(t))
        PROVE  ListInv'
    BY <1>1, <1>3, CallerModule, RegisterKeepsList, UnregisterKeepsList DEF ModuleNext
  <1>4. ASSUME NEW t \in Monitors, MonitorNext(t)
        PROVE  ListInv'
    <2>1. Callers \subseteq Threads \ {t}
      BY ThreadsAssumption DEF Threads
    <2> QED
      BY <1>1, <1>4, <2>1, MonitorKeepsList, ListKept DEF ListInv
  <1>5. CASE UNCHANGED vars
    BY <1>1, <1>5, ListKept DEF vars, list, objects, locals
  <1> QED
    BY <1>2, <1>3, <1>4, <1>5 DEF Next

\* The empty list satisfies it.
LEMMA InitList == Init => ListInv
  <1> SUFFICES ASSUME Init
               PROVE  ListInv
    OBVIOUS
  <1>1. \A t \in Threads : pc[t] = "idle"
    BY DEF Init
  <1>2. ~Dropping
    BY <1>1 DEF Dropping, Threads
  <1>3. CountInv
    BY <1>2, FS_EmptySet DEF Init, CountInv
  <1> QED
    BY <1>1, <1>3, InitTypes
    DEF Init, ListInv, LockInv, Critical, UniqueNames, TargetInv, FoundInv, Threads

\* Hence it holds throughout.
LEMMA ListSafe == Spec => []ListInv
  <1> QED
    BY InitList, ListInductive, PTL DEF Spec

\* No name is registered twice, whatever threads of a module register and
\* unregister it at once.
THEOREM NamesUnique == Spec => []UniqueNames
  <1>1. ListInv => UniqueNames
    BY DEF ListInv
  <1> QED
    BY <1>1, ListSafe, PTL

\* Outside the lock, dpusm.count is the length of the list and the list
\* holds no freed object.
THEOREM CountCorrect == Spec => []CountMatchesList
  <1>1. ListInv => CountMatchesList
    <2> SUFFICES ASSUME ListInv, lock = NoThread
                 PROVE  count = Cardinality(providers) /\ providers \subseteq alive
      BY DEF CountMatchesList
    <2>1. ~Dropping
      BY ThreadsAssumption DEF Dropping, ListInv, LockInv, Critical, Threads
    <2>2. Cardinality(providers) \in Nat
      BY FS_Subset, FS_CardinalityType, HandlesAssumption DEF ListInv, TypeOK
    <2> QED
      BY <2>1, <2>2 DEF ListInv, CountInv
  <1> QED
    BY <1>1, ListSafe, PTL

-----------------------------------------------------------------------------
(* The lease: what try_module_get and module_put protect when modules      *)
(* register in their init function and unregister in their exit function.  *)

ModulePhase ==
  \A m \in Modules :
    \/ pc[m] = "idle" /\ mstate[m] \in {"unloaded", "live"}
    \/ pc[m] \in {"reg_sane", "reg_lock", "reg_find", "reg_add"} /\ mstate[m] = "coming"
    \/ /\ pc[m] \in {"unreg_lock", "unreg_find", "unreg_drop", "unreg_free"}
       /\ mstate[m] = "going"

ListedPhase ==
  \A h \in providers :
    /\ module[h] \in Modules
    /\ mstate[module[h]] \in {"live", "going"}
    /\ pc[module[h]] # "unreg_free"

HoldInv ==
  \A u \in Users : Holds(u) =>
    /\ ptr[u] \in providers
    /\ mstate[module[ptr[u]]] = "live"
    /\ pc[u] = "put_module" => mdl[u] = module[ptr[u]]

\* The users that keep module m from being removed.
Pinners(m) == {u \in Users : Holds(u) /\ module[ptr[u]] = m}

PinInv == \A m \in Modules : mrefs[m] >= Cardinality(Pinners(m))

LeaseInv ==
  /\ ListInv
  /\ ModulePhase
  /\ ListedPhase
  /\ HoldInv
  /\ PinInv

\* A module's own steps leave the other threads and all references alone.
LEMMA ModuleKeepsUsers ==
  ASSUME TypeOK, NEW t \in Callers, NEW m \in Modules, ModuleNext(t, m)
  PROVE  /\ UNCHANGED <<mrefs, mdl>>
         /\ \A s \in Threads \ {t} : pc'[s] = pc[s] /\ ptr'[s] = ptr[s]
         /\ \A n \in Modules \ {m} : mstate'[n] = mstate[n]
  <1> USE DEF loader, list, objects, locals, Goto, TypeOK
  <1>1. CASE StartRegister(t, m)
    BY <1>1 DEF StartRegister, Insmod
  <1>2. CASE RegisterLock(t) \/ UnregisterLock(t)
    BY <1>2 DEF RegisterLock, UnregisterLock, Acquire
  <1>3. CASE RegisterSane(t, m)
    BY <1>3 DEF RegisterSane, RegisterReturns
  <1>4. CASE RegisterFind(t, m) \/ RegisterAdd(t, m)
    BY <1>4 DEF RegisterFind, RegisterAdd, RegisterReturns
  <1>5. CASE StartUnregister(t, m)
    BY <1>5 DEF StartUnregister, Rmmod
  <1>6. CASE UnregisterFind(t, m)
    BY <1>6 DEF UnregisterFind, UnregisterReturns
  <1>7. CASE UnregisterDrop(t)
    BY <1>7 DEF UnregisterDrop
  <1>8. CASE UnregisterFree(t, m)
    BY <1>8 DEF UnregisterFree, UnregisterReturns
  <1> QED
    BY <1>1, <1>2, <1>3, <1>4, <1>5, <1>6, <1>7, <1>8
    DEF ModuleNext, RegisterStep, UnregisterStep

\* Without workers, a module registers and unregisters in its own thread.
LEMMA OwnThreads ==
  ASSUME Workers = {}
  PROVE  Callers = Modules /\ \A m \in Modules : ModuleOf(m) = m
  BY DEF Callers, ModuleOf

\* The life of a module that registers in init and unregisters in exit:
\* what its thread does, and when its provider is listed.
LEMMA PhaseKept ==
  ASSUME Workers = {}, LeaseInv, NEW m \in Modules, ModuleNext(m, m)
  PROVE  ModulePhase' /\ ListedPhase'
  <1>0. /\ m \in Threads /\ Modules \subseteq Threads
        /\ m \in Callers /\ ModuleOf(m) = m
        /\ pc \in [Threads -> Labels] /\ mstate \in [Modules -> LoaderStates]
        /\ module \in [Handles -> Modules \cup {NoModule}]
        /\ providers \subseteq Handles
    BY OwnThreads DEF LeaseInv, ListInv, TypeOK, Threads
  <1>1. \A n \in Modules \ {m} : pc'[n] = pc[n] /\ mstate'[n] = mstate[n]
    BY <1>0, ModuleKeepsUsers DEF LeaseInv, ListInv
  <1>2. ASSUME UNCHANGED <<providers, module>>,
               \/ pc'[m] = "idle" /\ mstate'[m] \in {"unloaded", "live"}
               \/ pc'[m] \in {"reg_sane", "reg_lock", "reg_find", "reg_add"} /\ mstate'[m] = "coming"
               \/ /\ pc'[m] \in {"unreg_lock", "unreg_find", "unreg_drop", "unreg_free"}
                  /\ mstate'[m] = "going",
               \/ mstate'[m] \in {"live", "going"} /\ pc'[m] # "unreg_free"
               \/ Found(m) = {}
        PROVE  ModulePhase' /\ ListedPhase'
    BY <1>0, <1>1, <1>2 DEF LeaseInv, ModulePhase, ListedPhase, Found
  <1>3. mstate[m] \in {"unloaded", "coming"} => Found(m) = {}
    BY DEF LeaseInv, ListedPhase, Found
  <1>4. pc[m] = "unreg_free" => Found(m) = {}
    BY DEF LeaseInv, ListedPhase, Found
  <1>5. CASE StartRegister(m, m)
    <2>1. mstate[m] = "unloaded" /\ mstate'[m] = "coming" /\ pc'[m] = "reg_sane"
          /\ UNCHANGED <<providers, module>>
      BY <1>0, <1>5 DEF StartRegister, Insmod, Goto, list, objects
    <2> QED
      BY <1>2, <1>3, <2>1
  <1>6. CASE RegisterLock(m)
    <2>1. pc[m] = "reg_lock" /\ pc'[m] = "reg_find" /\ UNCHANGED <<mstate, providers, module>>
      BY <1>0, <1>6 DEF RegisterLock, Acquire, Goto, loader, list, objects
    <2>2. mstate[m] = "coming"
      BY <2>1 DEF LeaseInv, ModulePhase
    <2> QED
      BY <1>2, <1>3, <2>1, <2>2
  <1>7. CASE RegisterSane(m, m)
    <2>1. pc[m] = "reg_sane" /\ UNCHANGED <<providers, module>>
      BY <1>7 DEF RegisterSane, Goto, list, objects
    <2>2. mstate[m] = "coming"
      BY <2>1 DEF LeaseInv, ModulePhase
    <2>3. \/ pc'[m] = "reg_lock" /\ mstate'[m] = "coming"
          \/ pc'[m] = "idle" /\ mstate'[m] = "unloaded"
      BY <1>0, <1>7, <2>2 DEF RegisterSane, RegisterReturns, AfterCall, Goto, loader
    <2> QED
      BY <1>2, <1>3, <2>1, <2>2, <2>3
  <1>8. CASE RegisterAdd(m, m)
    <2>1. pc[m] = "reg_add" /\ pc'[m] = "idle"
      BY <1>0, <1>8 DEF RegisterAdd, Goto
    <2>2. mstate[m] = "coming"
      BY <2>1 DEF LeaseInv, ModulePhase
    <2>3. CASE RegisterReturns(m, FALSE) /\ UNCHANGED <<list, active, objects, locals>>
      <3>1. mstate'[m] = "unloaded" /\ UNCHANGED <<providers, module>>
        BY <1>0, <2>2, <2>3 DEF RegisterReturns, AfterCall, list, objects
      <3> QED
        BY <1>2, <1>3, <2>1, <2>2, <3>1
    <2>4. CASE /\ RegisterReturns(m, TRUE)
               /\ \E h \in Handles \ alive :
                    /\ module' = [module EXCEPT ![h] = m]
                    /\ providers' = providers \cup {h}
      <3>1. PICK h \in Handles \ alive :
              /\ module' = [module EXCEPT ![h] = m]
              /\ providers' = providers \cup {h}
        BY <2>4
      <3>2. mstate'[m] = "live"
        BY <1>0, <2>2, <2>4 DEF RegisterReturns, AfterCall
      <3>3. \A g \in providers : module'[g] = module[g]
        BY <1>0, <3>1 DEF LeaseInv, ListInv
      <3>4. \A g \in providers : module[g] # m
        BY <1>3, <2>2 DEF Found
      <3>5. module'[h] = m
        BY <1>0, <3>1
      <3> QED
        BY <1>0, <1>1, <2>1, <3>1, <3>2, <3>3, <3>4, <3>5 DEF LeaseInv, ModulePhase, ListedPhase
    <2> QED
      BY <1>8, <2>3, <2>4 DEF RegisterAdd
  <1>9. CASE StartUnregister(m, m)
    <2>1. mstate'[m] = "going" /\ pc'[m] = "unreg_lock" /\ UNCHANGED <<providers, module>>
      BY <1>0, <1>9 DEF StartUnregister, Rmmod, Goto, list, objects
    <2> QED
      BY <1>2, <2>1
  <1>10. CASE UnregisterLock(m)
    <2>1. pc[m] = "unreg_lock" /\ pc'[m] = "unreg_find" /\ UNCHANGED <<mstate, providers, module>>
      BY <1>0, <1>10 DEF UnregisterLock, Acquire, Goto, loader, list, objects
    <2>2. mstate[m] = "going"
      BY <2>1 DEF LeaseInv, ModulePhase
    <2> QED
      BY <1>2, <2>1, <2>2
  <1>11. CASE UnregisterFind(m, m)
    <2>1. pc[m] = "unreg_find" /\ UNCHANGED <<providers, module>>
      BY <1>11 DEF UnregisterFind, list, objects
    <2>2. mstate[m] = "going"
      BY <2>1 DEF LeaseInv, ModulePhase
    <2>3. \/ Found(m) = {} /\ pc'[m] = "idle" /\ mstate'[m] = "unloaded"
          \/ pc'[m] = "unreg_drop" /\ mstate'[m] = "going"
      BY <1>0, <1>11, <2>2
      DEF UnregisterFind, UnregisterReturns, AfterCall, Goto, loader
    <2> QED
      BY <1>2, <2>1, <2>3
  <1>12. CASE UnregisterDrop(m)
    <2>1. /\ pc[m] = "unreg_drop" /\ pc'[m] = "unreg_free"
          /\ providers' = providers \ {ptr[m]} /\ UNCHANGED <<mstate, module>>
      BY <1>0, <1>12 DEF UnregisterDrop, Goto, loader, objects
    <2>2. mstate[m] = "going"
      BY <2>1 DEF LeaseInv, ModulePhase
    <2>3. \A h \in providers' : module[h] # m
      BY <1>0, <2>1 DEF LeaseInv, ListInv, TargetInv, UniqueNames
    <2> QED
      BY <1>0, <1>1, <2>1, <2>2, <2>3 DEF LeaseInv, ModulePhase, ListedPhase
  <1>13. CASE UnregisterFree(m, m)
    <2>1. pc[m] = "unreg_free" /\ pc'[m] = "idle" /\ UNCHANGED <<providers, module>>
      BY <1>0, <1>13 DEF UnregisterFree, UnregisterReturns, Goto
    <2>2. mstate[m] = "going"
      BY <2>1 DEF LeaseInv, ModulePhase
    <2>3. mstate'[m] = "unloaded"
      BY <1>0, <1>13, <2>2 DEF UnregisterFree, UnregisterReturns, AfterCall
    <2> QED
      BY <1>2, <1>4, <2>1, <2>3
  <1>14. CASE RegisterFind(m, m)
    <2>1. pc[m] = "reg_find" /\ UNCHANGED <<providers, module>>
      BY <1>14 DEF RegisterFind, Goto, list, objects
    <2>2. mstate[m] = "coming"
      BY <2>1 DEF LeaseInv, ModulePhase
    <2>3. \/ pc'[m] = "reg_add" /\ mstate'[m] = "coming"
          \/ pc'[m] = "idle" /\ mstate'[m] = "unloaded"
      BY <1>0, <1>14, <2>2 DEF RegisterFind, RegisterReturns, AfterCall, Goto, loader
    <2> QED
      BY <1>2, <1>3, <2>1, <2>2, <2>3
  <1> QED
    BY <1>5, <1>6, <1>7, <1>8, <1>9, <1>10, <1>11, <1>12, <1>13, <1>14
    DEF ModuleNext, RegisterStep, UnregisterStep

\* rmmod finds the module unused only when no user holds its provider; no
\* other step of a module reaches what a user holds.
LEMMA ModuleKeepsLease ==
  ASSUME Workers = {}, LeaseInv, ListInv', NEW m \in Modules, ModuleNext(m, m)
  PROVE  LeaseInv'
  <1>0. /\ m \in Threads /\ Modules \subseteq Threads
        /\ m \in Callers /\ ModuleOf(m) = m
        /\ Users \subseteq Threads \ {m}
        /\ pc \in [Threads -> Labels] /\ mstate \in [Modules -> LoaderStates]
        /\ module \in [Handles -> Modules \cup {NoModule}]
        /\ providers \subseteq alive /\ providers \subseteq Handles
    BY ThreadsAssumption, OwnThreads DEF LeaseInv, ListInv, TypeOK, Threads
  <1>1. /\ UNCHANGED <<mrefs, mdl>>
        /\ \A u \in Users : pc'[u] = pc[u] /\ ptr'[u] = ptr[u]
        /\ \A n \in Modules \ {m} : mstate'[n] = mstate[n]
    BY <1>0, ModuleKeepsUsers DEF LeaseInv, ListInv
  <1>2. \A h \in providers : module'[h] = module[h]
    <2>1. CASE RegisterAdd(m, m)
      <3>1. \/ UNCHANGED module
            \/ \E h \in Handles \ alive : module' = [module EXCEPT ![h] = m]
        BY <2>1 DEF RegisterAdd, objects
      <3> QED
        BY <1>0, <3>1
    <2>2. CASE StartRegister(m, m) \/ RegisterLock(m) \/ RegisterSane(m, m) \/ RegisterFind(m, m)
      BY <2>2 DEF StartRegister, RegisterLock, Acquire, RegisterSane, RegisterFind, objects
    <2>3. CASE StartUnregister(m, m) \/ UnregisterLock(m) \/ UnregisterStep(m, m)
      BY <2>3 DEF StartUnregister, UnregisterLock, Acquire, UnregisterStep,
                  UnregisterFind, UnregisterDrop, UnregisterFree, objects
    <2> QED
      BY <2>1, <2>2, <2>3 DEF ModuleNext, RegisterStep
  <1>3. \A h \in providers : h \in providers' \/ (module[h] = m /\ mstate[m] = "going")
    <2>1. CASE UnregisterDrop(m)
      <3>1. pc[m] = "unreg_drop" /\ providers' = providers \ {ptr[m]}
        BY <2>1 DEF UnregisterDrop, Goto
      <3> QED
        BY <1>0, <3>1 DEF LeaseInv, ListInv, TargetInv, ModulePhase
    <2>2. CASE StartRegister(m, m) \/ RegisterLock(m) \/ RegisterStep(m, m)
      BY <2>2 DEF StartRegister, RegisterLock, Acquire, RegisterStep, RegisterSane,
                  RegisterFind, RegisterAdd, list
    <2>3. CASE StartUnregister(m, m) \/ UnregisterLock(m) \/ UnregisterFind(m, m) \/ UnregisterFree(m, m)
      BY <2>3 DEF StartUnregister, UnregisterLock, Acquire, UnregisterFind, UnregisterFree, list
    <2> QED
      BY <2>1, <2>2, <2>3 DEF ModuleNext, UnregisterStep
  <1>4. mstate[m] = "live" => mstate'[m] = "live" \/ mrefs[m] = 0
    <2>1. CASE StartUnregister(m, m)
      BY <2>1 DEF StartUnregister, Rmmod
    <2>2. CASE StartRegister(m, m)
      BY <2>2 DEF StartRegister, Insmod
    <2>3. CASE RegisterLock(m) \/ UnregisterLock(m) \/ UnregisterDrop(m)
      BY <2>3 DEF RegisterLock, UnregisterLock, UnregisterDrop, Acquire, loader
    <2>4. CASE RegisterStep(m, m)
      BY <2>4 DEF RegisterStep, RegisterSane, RegisterFind, RegisterAdd, Goto, LeaseInv,
                  ModulePhase
    <2>5. CASE UnregisterFind(m, m) \/ UnregisterFree(m, m)
      BY <2>5 DEF UnregisterFind, UnregisterFree, LeaseInv, ModulePhase
    <2> QED
      BY <2>1, <2>2, <2>3, <2>4, <2>5 DEF ModuleNext, UnregisterStep
  <1>5. mrefs[m] = 0 => Pinners(m) = {}
    <2>1. IsFiniteSet(Pinners(m))
      BY FS_Subset, ThreadsAssumption DEF Pinners
    <2>2. Cardinality(Pinners(m)) \in Nat
      BY <2>1, FS_CardinalityType
    <2>3. mrefs[m] >= Cardinality(Pinners(m))
      BY DEF LeaseInv, PinInv
    <2> QED
      BY <2>1, <2>2, <2>3, FS_EmptySet
  <1>6. \A u \in Users : Holds(u) =>
          /\ ptr[u] \in providers /\ module'[ptr[u]] = module[ptr[u]]
          /\ module[ptr[u]] \in Modules
    BY <1>2 DEF LeaseInv, HoldInv, ListedPhase
  <1>7. HoldInv'
    <2> SUFFICES ASSUME NEW u \in Users, Holds(u)'
                 PROVE  /\ ptr'[u] \in providers'
                        /\ mstate'[module'[ptr'[u]]] = "live"
                        /\ pc'[u] = "put_module" => mdl'[u] = module'[ptr'[u]]
      BY DEF HoldInv
    <2>1. Holds(u)
      BY <1>1 DEF Holds
    <2>2. mstate[module[ptr[u]]] = "live" /\ (pc[u] = "put_module" => mdl[u] = module[ptr[u]])
      BY <2>1 DEF LeaseInv, HoldInv
    <2>3. module[ptr[u]] = m => mstate'[m] = "live"
      BY <1>4, <1>5, <2>1, <2>2 DEF Pinners
    <2> QED
      BY <1>1, <1>3, <1>6, <2>1, <2>2, <2>3
  <1>8. PinInv'
    <2>1. \A n \in Modules : Pinners(n)' = Pinners(n)
      BY <1>1, <1>6 DEF Pinners, Holds
    <2> QED
      BY <1>1, <2>1 DEF LeaseInv, PinInv
  <1> QED
    BY <1>7, <1>8, PhaseKept DEF LeaseInv

\* A user that holds nothing new: its own claim can only end.
LEMMA UserReleases ==
  ASSUME LeaseInv, NEW u \in Users,
         UNCHANGED <<providers, module, mstate, mrefs>>,
         \A v \in Users \ {u} : pc'[v] = pc[v] /\ ptr'[v] = ptr[v] /\ mdl'[v] = mdl[v],
         Holds(u)' => /\ Holds(u)
                      /\ ptr'[u] = ptr[u]
                      /\ pc'[u] = "put_module" => mdl'[u] = module[ptr[u]]
  PROVE  HoldInv' /\ PinInv'
  <1>1. HoldInv'
    BY DEF LeaseInv, HoldInv, Holds
  <1>2. ASSUME NEW m \in Modules
        PROVE  mrefs'[m] >= Cardinality(Pinners(m)')
    <2>1. Pinners(m)' \subseteq Pinners(m)
      BY DEF Pinners, Holds
    <2>2. IsFiniteSet(Pinners(m))
      BY FS_Subset, ThreadsAssumption DEF Pinners
    <2>3. /\ Cardinality(Pinners(m)') <= Cardinality(Pinners(m))
          /\ Cardinality(Pinners(m)') \in Nat /\ Cardinality(Pinners(m)) \in Nat
      BY <2>1, <2>2, FS_Subset, FS_CardinalityType
    <2> QED
      BY <2>3 DEF LeaseInv, PinInv, ListInv, TypeOK
  <1> QED
    BY <1>1, <1>2 DEF PinInv

\* Every step of a user keeps the invariant of leases: get adds a reference
\* with a holder, put takes one off with its holder.
LEMMA UserKeepsLease ==
  ASSUME LeaseInv, ListInv', NEW u \in Users, UserNext(u)
  PROVE  LeaseInv'
  <1>0. /\ u \in Threads /\ Users \subseteq Threads /\ Modules \subseteq Threads \ {u}
        /\ pc \in [Threads -> Labels] /\ mrefs \in [Modules -> Int]
        /\ ptr \in [Threads -> Handles \cup {NoHandle}]
        /\ mdl \in [Users -> Modules \cup {NoModule}]
    BY ThreadsAssumption DEF LeaseInv, ListInv, TypeOK, Threads, Callers
  <1>1. /\ UNCHANGED <<providers, count, alive, module, mstate>>
        /\ \A t \in Threads \ {u} : pc'[t] = pc[t] /\ ptr'[t] = ptr[t]
        /\ \A v \in Users \ {u} : mdl'[v] = mdl[v]
    BY UserKeepsList DEF LeaseInv, ListInv
  <1>2. ModulePhase'
    BY <1>0, <1>1 DEF LeaseInv, ModulePhase
  <1>3. ListedPhase'
    BY <1>0, <1>1 DEF LeaseInv, ListedPhase
  <1>4. ASSUME UNCHANGED mrefs,
               Holds(u)' => /\ Holds(u)
                            /\ ptr'[u] = ptr[u]
                            /\ pc'[u] = "put_module" => mdl'[u] = module[ptr[u]]
        PROVE  LeaseInv'
    <2>1. HoldInv' /\ PinInv'
      BY <1>0, <1>1, <1>4, UserReleases
    <2> QED
      BY <1>2, <1>3, <2>1 DEF LeaseInv
  <1>5. ASSUME NEW m \in Modules
        PROVE  /\ IsFiniteSet(Pinners(m))
               /\ Cardinality(Pinners(m)) \in Nat
               /\ mrefs[m] >= Cardinality(Pinners(m))
    <2>1. IsFiniteSet(Pinners(m))
      BY FS_Subset, ThreadsAssumption DEF Pinners
    <2> QED
      BY <2>1, FS_CardinalityType DEF LeaseInv, PinInv
  <1> USE DEF Holds, Holding
  <1>6. CASE StartGet(u) \/ GetLock(u) \/ StartPut(u)
    BY <1>0, <1>4, <1>6 DEF StartGet, GetLock, Acquire, StartPut, Goto, loader, locals
  <1>7. ASSUME NEW m \in Modules, GetFind(u, m)
        PROVE  LeaseInv'
    <2>1. CASE pc'[u] = "idle"
      <3>1. UNCHANGED mrefs
        BY <1>0, <1>7, <2>1 DEF GetFind, Goto, loader
      <3> QED
        BY <1>4, <2>1, <3>1
    <2>2. CASE pc'[u] # "idle"
      <3>1. /\ pc[u] = "get_find" /\ pc'[u] = "get_connect"
            /\ ModuleGet(m)
            /\ \E h \in Found(m) : ptr' = [ptr EXCEPT ![u] = h]
        BY <1>0, <1>7, <2>2 DEF GetFind, Goto
      <3>2. PICK h \in Found(m) : ptr' = [ptr EXCEPT ![u] = h]
        BY <3>1
      <3>3. h \in providers /\ module[h] = m /\ ptr'[u] = h
        BY <1>0, <3>2 DEF Found
      <3>4. mstate[m] = "live"
        BY <3>1, <3>3 DEF LeaseInv, ListedPhase, ModuleGet, ModuleIsLive
      <3>5. HoldInv'
        BY <1>0, <1>1, <3>1, <3>3, <3>4 DEF LeaseInv, HoldInv
      <3>6. u \notin Pinners(m) /\ Pinners(m)' = Pinners(m) \cup {u}
        BY <1>0, <1>1, <3>1, <3>3 DEF Pinners
      <3>7. \A n \in Modules \ {m} : Pinners(n)' = Pinners(n)
        BY <1>0, <1>1, <3>1, <3>3 DEF Pinners
      <3>8. Cardinality(Pinners(m)') = Cardinality(Pinners(m)) + 1
        BY <1>5, <3>6, FS_AddElement DEF Pinners
      <3>9. mrefs'[m] = mrefs[m] + 1 /\ \A n \in Modules \ {m} : mrefs'[n] = mrefs[n]
        BY <1>0, <3>1 DEF ModuleGet
      <3>10. mrefs'[m] >= Cardinality(Pinners(m)')
        BY <1>0, <1>5, <3>8, <3>9 DEF Pinners
      <3>11. PinInv'
        BY <3>7, <3>9, <3>10 DEF LeaseInv, PinInv
      <3> QED
        BY <1>2, <1>3, <3>5, <3>11 DEF LeaseInv
    <2> QED
      BY <2>1, <2>2
  <1>8. CASE GetConnect(u)
    BY <1>0, <1>4, <1>8 DEF GetConnect, Goto, loader, locals
  <1>9. CASE GetCheck(u)
    BY <1>0, <1>4, <1>9 DEF GetCheck, Oops, Goto, loader, locals
  <1>10. CASE PutCheck(u)
    BY <1>0, <1>4, <1>10 DEF PutCheck, PutReturns, Oops, Goto, loader, locals
  <1>11. CASE PutModule(u)
    <2>1. /\ pc[u] = "put_module" /\ pc'[u] = "put_refs"
          /\ mrefs' = [mrefs EXCEPT ![mdl[u]] = @ - 1]
          /\ UNCHANGED <<ptr, mdl>>
      BY <1>0, <1>11 DEF PutModule, ModulePut, Goto, locals
    <2>2. PICK m \in Modules : m = module[ptr[u]] /\ mdl[u] = m
      BY <2>1 DEF LeaseInv, HoldInv, ListedPhase
    <2>3. HoldInv'
      BY <1>1, <2>1, <1>0 DEF LeaseInv, HoldInv
    <2>4. u \in Pinners(m) /\ Pinners(m)' = Pinners(m) \ {u}
      BY <1>0, <1>1, <2>1, <2>2 DEF Pinners
    <2>5. \A n \in Modules \ {m} : Pinners(n)' = Pinners(n)
      BY <1>0, <1>1, <2>1, <2>2 DEF Pinners
    <2>6. Cardinality(Pinners(m)') = Cardinality(Pinners(m)) - 1
      BY <1>5, <2>4, FS_RemoveElement DEF Pinners
    <2>7. mrefs'[m] = mrefs[m] - 1 /\ \A n \in Modules \ {m} : mrefs'[n] = mrefs[n]
      BY <1>0, <2>1, <2>2
    <2>8. mrefs'[m] >= Cardinality(Pinners(m)')
      BY <1>0, <1>5, <2>6, <2>7 DEF Pinners
    <2>9. PinInv'
      BY <2>5, <2>7, <2>8 DEF LeaseInv, PinInv
    <2> QED
      BY <1>2, <1>3, <2>3, <2>9 DEF LeaseInv
  <1>12. CASE PutRefs(u) \/ PutActive(u) \/ PutFuncs(u)
    BY <1>0, <1>4, <1>12 DEF PutRefs, PutActive, PutFuncs, Oops, Goto, loader, locals
  <1>13. CASE PutHook(u) \/ PutReport(u)
    BY <1>0, <1>4, <1>13 DEF PutHook, PutReport, PutReturns, Oops, Goto, loader, locals
  <1> QED
    BY <1>6, <1>7, <1>8, <1>9, <1>10, <1>11, <1>12, <1>13 DEF UserNext, GetStep, PutStep

\* The invariant of leases is inductive when nobody unregisters outside an
\* exit function.
LEMMA LeaseInductive ==
  ASSUME Workers = {}
  PROVE  LeaseInv /\ [Next]_vars => LeaseInv'
  <1> SUFFICES ASSUME LeaseInv, [Next]_vars
               PROVE  LeaseInv'
    OBVIOUS
  <1>1. ListInv'
    BY ListInductive DEF LeaseInv
  <1>2. ASSUME NEW t \in Monitors, MonitorNext(t)
        PROVE  LeaseInv'
    <2>1. /\ UNCHANGED <<providers, count, alive, module, loader, ptr, mdl>>
          /\ \A s \in Users \cup Modules : pc'[s] = pc[s]
      BY <1>2, MonitorKeepsList, ThreadsAssumption DEF LeaseInv, ListInv, Threads, Callers
    <2>2. \A n \in Modules : Pinners(n)' = Pinners(n)
      BY <2>1 DEF Pinners, Holds
    <2> QED
      BY <1>1, <2>1, <2>2
      DEF LeaseInv, ModulePhase, ListedPhase, HoldInv, PinInv, Holds, loader
  <1>3. CASE UNCHANGED vars
    <2>1. \A n \in Modules : Pinners(n)' = Pinners(n)
      BY <1>3 DEF Pinners, Holds, vars, objects, locals
    <2> QED
      BY <1>1, <1>3, <2>1
      DEF LeaseInv, ModulePhase, ListedPhase, HoldInv, PinInv, Holds, vars, loader, list,
          objects, locals
  <1> QED
    BY <1>1, <1>2, <1>3, OwnThreads, ModuleKeepsLease, UserKeepsLease DEF Next

\* Nobody holds anything at first.
LEMMA InitLease == Init => LeaseInv
  <1> SUFFICES ASSUME Init
               PROVE  LeaseInv
    OBVIOUS
  <1>1. \A t \in Threads : pc[t] = "idle"
    BY DEF Init
  <1>2. \A m \in Modules : Pinners(m) = {}
    BY <1>1 DEF Pinners, Holds, Holding, Threads
  <1>3. PinInv
    <2> SUFFICES ASSUME NEW m \in Modules
                 PROVE  mrefs[m] >= Cardinality(Pinners(m))
      BY DEF PinInv
    <2>1. Cardinality({}) = 0
      BY FS_EmptySet
    <2>2. mrefs[m] = 0
      BY DEF Init, LoaderInit
    <2> QED
      BY <1>2, <2>1, <2>2
  <1>4. \A m \in Modules : pc[m] = "idle" /\ mstate[m] = "unloaded"
    BY <1>1 DEF Init, LoaderInit, Threads, Callers
  <1>5. \A u \in Users : ~Holds(u)
    BY <1>1 DEF Holds, Holding, Threads
  <1>6. providers = {}
    BY DEF Init
  <1> QED
    BY <1>3, <1>4, <1>5, <1>6, InitList DEF LeaseInv, ModulePhase, ListedPhase, HoldInv

\* What a user holds stays registered and its module stays loaded, when
\* modules register in init and unregister in exit: try_module_get in
\* dpusm_provider_get is enough to keep rmmod away until module_put.
THEOREM HoldSafe ==
  ASSUME Workers = {}
  PROVE  Spec => []HeldProviderRegistered
  <1>1. LeaseInv => HeldProviderRegistered
    BY DEF LeaseInv, HoldInv, HeldProviderRegistered, ModuleIsLive
  <1>2. LeaseInv /\ [Next]_vars => LeaseInv'
    BY LeaseInductive
  <1> QED
    BY <1>1, <1>2, InitLease, PTL DEF Spec

-----------------------------------------------------------------------------
(* Who owns the lock, as long as no provider module is removed: modules    *)
(* may still unregister and register again whenever they run.              *)

\* A module that runs is never on its way out: its own thread is in its init
\* function, if anywhere, and its workers run while it is live.
LivePhase ==
  /\ \A m \in Modules :
       \/ pc[m] = "idle" /\ mstate[m] \in {"unloaded", "live"}
       \/ pc[m] \in {"reg_sane", "reg_lock", "reg_find", "reg_add"} /\ mstate[m] = "coming"
  /\ \A w \in Workers : pc[w] # "idle" => mstate[Owner[w]] = "live"

\* Only live modules are listed.
ListedLive == \A h \in providers : module[h] \in Modules /\ mstate[module[h]] = "live"

\* A get that looked for at_connect in a provider that is down.
Crashed(t) == t \in Users /\ pc[t] = "oops" /\ ptr[t] \in down

OwnerInv == lock # NoThread => lock \in Threads /\ (pc[lock] \in Critical \/ Crashed(lock))

LiveInv == ListInv /\ LivePhase /\ ListedLive /\ OwnerInv

\* A module's steps keep it live once it is, and list it only then.
LEMMA ModuleKeepsLive ==
  ASSUME Removable = {}, LiveInv, NEW t \in Callers, NEW m \in Modules, m = ModuleOf(t),
         ModuleNext(t, m)
  PROVE  LivePhase' /\ ListedLive'
  <1>0. /\ t \in Threads /\ Callers \subseteq Threads
        /\ pc \in [Threads -> Labels] /\ mstate \in [Modules -> LoaderStates]
        /\ module \in [Handles -> Modules \cup {NoModule}]
        /\ providers \subseteq Handles /\ providers \subseteq alive
    BY DEF LiveInv, ListInv, TypeOK, Threads
  <1>1. /\ \A s \in Callers \ {t} : pc'[s] = pc[s]
        /\ \A n \in Modules \ {m} : mstate'[n] = mstate[n]
    BY <1>0, ModuleKeepsUsers DEF LiveInv, ListInv
  <1>2. \/ t = m /\ t \notin Workers
        \/ t \in Workers /\ Owner[t] = m /\ t # m
    BY ThreadsAssumption DEF ModuleOf
  <1>3. Workers \subseteq Callers /\ Modules \subseteq Callers /\ Modules \cap Workers = {}
    BY ThreadsAssumption DEF Callers
  <1>4. ASSUME \A h \in providers' : h \in providers /\ module'[h] = module[h],
               \/ mstate[m] = "live" /\ mstate'[m] = "live"
               \/ /\ t = m /\ mstate[m] # "live"
                  /\ \/ pc'[t] = "idle" /\ mstate'[m] = "unloaded"
                     \/ /\ pc'[t] \in {"reg_sane", "reg_lock", "reg_find", "reg_add"}
                        /\ mstate'[m] = "coming",
               t = m => pc'[t] = "idle" \/ mstate[m] # "live"
        PROVE  LivePhase' /\ ListedLive'
    <2>1. ListedLive'
      BY <1>1, <1>4 DEF LiveInv, ListedLive
    <2>2. ASSUME NEW n \in Modules
          PROVE  \/ pc'[n] = "idle" /\ mstate'[n] \in {"unloaded", "live"}
                 \/ /\ pc'[n] \in {"reg_sane", "reg_lock", "reg_find", "reg_add"}
                    /\ mstate'[n] = "coming"
      BY <1>1, <1>2, <1>3, <1>4 DEF LiveInv, LivePhase
    <2>3. ASSUME NEW w \in Workers, pc'[w] # "idle"
          PROVE  mstate'[Owner[w]] = "live"
      <3>1. Owner[w] \in Modules
        BY ModulesAssumption
      <3> QED
        BY <1>1, <1>2, <1>3, <1>4, <2>3, <3>1 DEF LiveInv, LivePhase
    <2> QED
      BY <2>1, <2>2, <2>3 DEF LivePhase
  <1>5. pc[t] # "idle" => \/ t # m /\ mstate[m] = "live"
                          \/ /\ t = m /\ mstate[m] = "coming"
                             /\ pc[t] \in {"reg_sane", "reg_lock", "reg_find", "reg_add"}
    BY <1>2 DEF LiveInv, LivePhase
  <1>6. CASE StartRegister(t, m)
    <2>1. /\ pc'[t] = "reg_sane" /\ UNCHANGED <<providers, module>>
          /\ \/ t = m /\ mstate[m] = "unloaded" /\ mstate'[m] = "coming"
             \/ t # m /\ mstate[m] = "live" /\ mstate'[m] = "live"
      BY <1>0, <1>2, <1>6 DEF StartRegister, Insmod, Goto, loader, list, objects
    <2> QED
      BY <1>4, <2>1
  <1>7. CASE RegisterLock(t) \/ UnregisterLock(t)
    <2>1. /\ UNCHANGED <<mstate, providers, module>>
          /\ \/ pc[t] = "reg_lock" /\ pc'[t] = "reg_find"
             \/ pc[t] = "unreg_lock" /\ pc'[t] = "unreg_find"
      BY <1>0, <1>7 DEF RegisterLock, UnregisterLock, Acquire, Goto, loader, list, objects
    <2> QED
      BY <1>4, <1>5, <2>1
  <1>8. CASE RegisterSane(t, m) \/ RegisterFind(t, m)
    <2>1. pc[t] \in {"reg_sane", "reg_find"} /\ UNCHANGED <<providers, module>>
      BY <1>8 DEF RegisterSane, RegisterFind, Goto, list, objects
    <2>2. \/ pc'[t] \in {"reg_lock", "reg_add"} /\ mstate'[m] = mstate[m]
          \/ /\ pc'[t] = "idle"
             /\ mstate'[m] = AfterCall(mstate[m], FALSE)
      BY <1>0, <1>8 DEF RegisterSane, RegisterFind, RegisterReturns, Goto, loader
    <2> QED
      BY <1>4, <1>5, <2>1, <2>2 DEF AfterCall
  <1>9. CASE RegisterAdd(t, m)
    <2>1. pc[t] = "reg_add" /\ pc'[t] = "idle"
      BY <1>0, <1>9 DEF RegisterAdd, Goto
    <2>2. CASE RegisterReturns(m, FALSE) /\ UNCHANGED <<list, active, objects, locals>>
      <3>1. mstate'[m] = AfterCall(mstate[m], FALSE) /\ UNCHANGED <<providers, module>>
        BY <1>0, <2>2 DEF RegisterReturns, list, objects
      <3> QED
        BY <1>4, <1>5, <2>1, <3>1 DEF AfterCall
    <2>3. CASE /\ RegisterReturns(m, TRUE)
               /\ \E h \in Handles \ alive :
                    /\ module' = [module EXCEPT ![h] = m]
                    /\ providers' = providers \cup {h}
      <3>1. PICK h \in Handles \ alive :
              /\ module' = [module EXCEPT ![h] = m]
              /\ providers' = providers \cup {h}
        BY <2>3
      <3>2. mstate'[m] = "live"
        BY <1>0, <1>5, <2>1, <2>3 DEF RegisterReturns, AfterCall
      <3>3. module'[h] = m /\ \A g \in providers : module'[g] = module[g]
        BY <1>0, <3>1
      <3>4. ListedLive'
        BY <1>0, <1>1, <3>1, <3>2, <3>3 DEF LiveInv, ListedLive
      <3>5. ASSUME NEW w \in Workers, pc'[w] # "idle"
            PROVE  mstate'[Owner[w]] = "live"
        <4>1. Owner[w] \in Modules
          BY ModulesAssumption
        <4> QED
          BY <1>1, <1>3, <2>1, <3>2, <3>5, <4>1 DEF LiveInv, LivePhase
      <3> QED
        BY <1>1, <1>3, <1>2, <2>1, <3>2, <3>4, <3>5 DEF LiveInv, LivePhase
    <2> QED
      BY <1>9, <2>2, <2>3 DEF RegisterAdd
  <1>10. CASE StartUnregister(t, m)
    <2>1. /\ t # m /\ mstate[m] = "live" /\ mstate'[m] = "live"
          /\ UNCHANGED <<providers, module>>
      BY <1>0, <1>2, <1>10 DEF StartUnregister, Goto, loader, list, objects
    <2> QED
      BY <1>4, <2>1
  <1>11. CASE UnregisterStep(t, m)
    <2>1. /\ pc[t] \in {"unreg_find", "unreg_drop", "unreg_free"}
          /\ providers' \subseteq providers /\ UNCHANGED module
      BY <1>11 DEF UnregisterStep, UnregisterFind, UnregisterDrop, UnregisterFree, Goto,
                  list, objects
    <2>2. t # m /\ mstate[m] = "live"
      BY <1>5, <2>1
    <2>3. mstate'[m] = "live"
      BY <1>0, <1>11, <2>2
      DEF UnregisterStep, UnregisterFind, UnregisterDrop, UnregisterFree, UnregisterReturns,
          AfterCall, loader
    <2> QED
      BY <1>4, <2>1, <2>2, <2>3
  <1> QED
    BY <1>6, <1>7, <1>8, <1>9, <1>10, <1>11 DEF ModuleNext, RegisterStep

\* What a step may do with the lock: leave it to its owner, hand it on inside
\* the critical section, release it, take it, or crash with it.
LEMMA OwnerMoves ==
  ASSUME LiveInv, NEW t \in Threads, NEW a, NEW b, Goto(t, a, b),
         \A s \in Threads \ {t} : ptr'[s] = ptr[s],
         \/ lock' = lock /\ down' = down /\ a \notin Critical \cup {"oops"}
         \/ lock' = lock /\ a \in Critical /\ b \in Critical
         \/ lock' = NoThread
         \/ lock' = t /\ b \in Critical
         \/ lock' = lock /\ a \in Critical /\ t \in Users /\ b = "oops" /\ ptr'[t] \in down'
  PROVE  OwnerInv'
  <1>1. \A s \in Threads : pc'[s] = IF s = t THEN b ELSE pc[s]
    BY DEF Goto, LiveInv, ListInv, TypeOK
  <1>2. pc[t] = a /\ (a \in Critical => lock = t)
    BY DEF Goto, LiveInv, ListInv, LockInv
  <1>3. CASE lock' = lock /\ down' = down /\ a \notin Critical \cup {"oops"}
    <2>1. lock # NoThread => lock \in Threads \ {t}
      BY <1>2, <1>3 DEF LiveInv, OwnerInv, Crashed
    <2> QED
      BY <1>1, <1>3, <2>1 DEF LiveInv, OwnerInv, Crashed
  <1> QED
    BY <1>1, <1>2, <1>3 DEF OwnerInv, Crashed

\* A module's step releases the lock, keeps it for the next, or has none.
LEMMA ModuleKeepsOwner ==
  ASSUME LiveInv, NEW t \in Callers, NEW m \in Modules, ModuleNext(t, m)
  PROVE  OwnerInv'
  <1>0. /\ t \in Threads /\ TypeOK /\ \A s \in Threads \ {t} : ptr'[s] = ptr[s]
    BY ModuleKeepsUsers DEF LiveInv, ListInv, Threads
  <1> USE <1>0, OwnerMoves DEF Critical, objects
  <1>1. CASE StartRegister(t, m) \/ StartUnregister(t, m) \/ RegisterSane(t, m)
    BY <1>1 DEF StartRegister, StartUnregister, RegisterSane
  <1>2. CASE RegisterLock(t)
    BY <1>2 DEF RegisterLock, Acquire
  <1>3. CASE UnregisterLock(t)
    BY <1>3 DEF UnregisterLock, Acquire
  <1>4. CASE RegisterFind(t, m)
    BY <1>4 DEF RegisterFind
  <1>5. CASE RegisterAdd(t, m)
    BY <1>5 DEF RegisterAdd
  <1>6. CASE UnregisterFind(t, m)
    BY <1>6 DEF UnregisterFind, UnregisterReturns
  <1>7. CASE UnregisterDrop(t)
    BY <1>7 DEF UnregisterDrop
  <1>8. CASE UnregisterFree(t, m)
    BY <1>8 DEF UnregisterFree, UnregisterReturns
  <1> QED
    BY <1>1, <1>2, <1>3, <1>4, <1>5, <1>6, <1>7, <1>8
    DEF ModuleNext, RegisterStep, UnregisterStep

\* An invalidate unlocks when it is done.
LEMMA MonitorKeepsOwner ==
  ASSUME LiveInv, NEW t \in Monitors, MonitorNext(t)
  PROVE  OwnerInv'
  <1>0. t \in Threads /\ UNCHANGED ptr
    BY MonitorKeepsList DEF LiveInv, ListInv, Threads
  <1> USE <1>0, OwnerMoves DEF Critical, objects
  <1>1. CASE StartInvalidate(t)
    BY <1>1 DEF StartInvalidate
  <1>2. CASE InvalidateLock(t)
    BY <1>2 DEF InvalidateLock, Acquire
  <1>3. CASE InvalidateStep(t)
    BY <1>3 DEF InvalidateStep, InvalidateSet
  <1> QED
    BY <1>1, <1>2, <1>3 DEF MonitorNext

\* A get finds no module on its way out, so it leaves with the lock only when
\* it crashes on a provider that is down.
LEMMA UserKeepsOwner ==
  ASSUME LiveInv, NEW u \in Users, UserNext(u)
  PROVE  OwnerInv'
  <1>0. /\ u \in Threads /\ \A s \in Threads \ {u} : ptr'[s] = ptr[s]
    BY UserKeepsList DEF LiveInv, ListInv, Threads
  <1> USE <1>0, OwnerMoves DEF Critical, objects
  <1>1. CASE StartGet(u) \/ StartPut(u)
    BY <1>1 DEF StartGet, StartPut
  <1>2. CASE GetLock(u)
    BY <1>2 DEF GetLock, Acquire
  <1>3. ASSUME NEW m \in Modules, GetFind(u, m)
        PROVE  OwnerInv'
    <2>1. Found(m) # {} => ModuleIsLive(m)
      BY DEF Found, ModuleIsLive, LiveInv, ListedLive
    <2> QED
      BY <1>3, <2>1 DEF GetFind
  <1>4. CASE GetConnect(u)
    <2>1. UNCHANGED <<ptr, down>>
      BY <1>4 DEF GetConnect, locals
    <2> QED
      BY <1>4, <2>1 DEF GetConnect
  <1>5. CASE GetCheck(u)
    BY <1>5 DEF GetCheck, Oops
  <1>6. CASE PutCheck(u)
    BY <1>6 DEF PutCheck, PutReturns, Oops
  <1>7. CASE PutModule(u) \/ PutActive(u)
    BY <1>7 DEF PutModule, PutActive
  <1>8. CASE PutRefs(u)
    BY <1>8 DEF PutRefs, Oops
  <1>9. CASE PutFuncs(u) \/ PutHook(u)
    BY <1>9 DEF PutFuncs, PutHook, Oops
  <1>10. CASE PutReport(u)
    BY <1>10 DEF PutReport, PutReturns, Oops
  <1> QED
    BY <1>1, <1>2, <1>3, <1>4, <1>5, <1>6, <1>7, <1>8, <1>9, <1>10
    DEF UserNext, GetStep, PutStep

\* Every step keeps all of it.
LEMMA LiveInductive ==
  ASSUME Removable = {}
  PROVE  LiveInv /\ [Next]_vars => LiveInv'
  <1> SUFFICES ASSUME LiveInv, [Next]_vars
               PROVE  LiveInv'
    OBVIOUS
  <1>1. ListInv'
    BY ListInductive DEF LiveInv
  <1>2. ASSUME NEW u \in Users, UserNext(u)
        PROVE  LiveInv'
    <2>1. /\ UNCHANGED <<providers, module, mstate>>
          /\ \A s \in Callers : pc'[s] = pc[s]
      BY <1>2, UserKeepsList, ThreadsAssumption DEF LiveInv, ListInv, Threads
    <2> QED
      BY <1>1, <1>2, <2>1, UserKeepsOwner
      DEF LiveInv, LivePhase, ListedLive, Callers
  <1>3. ASSUME NEW t \in Monitors, MonitorNext(t)
        PROVE  LiveInv'
    <2>1. /\ UNCHANGED <<providers, module, mstate>>
          /\ \A s \in Callers : pc'[s] = pc[s]
      BY <1>3, MonitorKeepsList, ThreadsAssumption DEF LiveInv, ListInv, Threads, loader
    <2> QED
      BY <1>1, <1>3, <2>1, MonitorKeepsOwner
      DEF LiveInv, LivePhase, ListedLive, Callers
  <1>4. ASSUME NEW t \in Callers, ModuleNext(t, ModuleOf(t))
        PROVE  LiveInv'
    BY <1>1, <1>4, CallerModule, ModuleKeepsLive, ModuleKeepsOwner DEF LiveInv
  <1>5. CASE UNCHANGED vars
    BY <1>1, <1>5
    DEF LiveInv, LivePhase, ListedLive, OwnerInv, Crashed, vars, loader, list, objects, locals
  <1> QED
    BY <1>2, <1>3, <1>4, <1>5 DEF Next

\* Initially the lock is free and everything unloaded.
LEMMA InitLive == Init => LiveInv
  <1> SUFFICES ASSUME Init PROVE LiveInv
    OBVIOUS
  <1>1. (\A t \in Callers : pc[t] = "idle") /\ (\A m \in Modules : mstate[m] = "unloaded")
    <2>1. \A t \in Threads : pc[t] = "idle"
      BY DEF Init
    <2>2. \A m \in Modules : mstate[m] = "unloaded"
      BY DEF Init, LoaderInit
    <2> QED
      BY <2>1, <2>2 DEF Threads
  <1>2. providers = {} /\ lock = NoThread
    BY DEF Init
  <1> QED
    BY <1>1, <1>2, InitList DEF LiveInv, LivePhase, ListedLive, OwnerInv, Callers

\* As long as no provider module is removed, whatever modules register and
\* unregister meanwhile, the lock is lost in one way only: a get that crashes
\* on a provider that was invalidated.
THEOREM LockLostByCrashOnly ==
  ASSUME Removable = {}
  PROVE  Spec => [](lock # NoThread => pc[lock] \in Critical \/ Crashed(lock))
  <1>1. LiveInv => (lock # NoThread => pc[lock] \in Critical \/ Crashed(lock))
    BY DEF LiveInv, OwnerInv
  <1>2. LiveInv /\ [Next]_vars => LiveInv'
    BY LiveInductive
  <1> QED
    BY <1>1, <1>2, InitLive, PTL DEF Spec

\* Only dpusm_invalidate takes a provider down.
LEMMA NobodyDown ==
  ASSUME Monitors = {}
  PROVE  Spec => [](down = {})
  <1>1. Init => down = {}
    BY DEF Init
  <1>2. down = {} /\ [Next]_vars => (down = {})'
    <2> SUFFICES ASSUME down = {}, [Next]_vars
                 PROVE  down' = {}
      OBVIOUS
    <2> USE DEF objects
    <2>1. ASSUME NEW u \in Users, UserNext(u)
          PROVE  down' = {}
      BY <2>1
      DEF UserNext, StartGet, StartPut, GetLock, Acquire, GetStep, GetFind, GetConnect, GetCheck,
          PutStep, PutCheck, PutModule, PutRefs, PutActive, PutFuncs, PutHook, PutReport,
          PutReturns, Oops
    <2>2. ASSUME NEW t \in Callers, ModuleNext(t, ModuleOf(t))
          PROVE  down' = {}
      BY <2>2
      DEF ModuleNext, StartRegister, RegisterLock, UnregisterLock, Acquire, RegisterStep,
          RegisterSane, RegisterFind, RegisterAdd, StartUnregister, UnregisterStep, UnregisterFind,
          UnregisterDrop, UnregisterFree
    <2> QED
      BY <2>1, <2>2 DEF Next, vars
  <1> QED
    BY <1>1, <1>2, PTL DEF Spec

\* Without removals and invalidations every path gives the lock back, and no
\* get meets a function table that is gone: the lock that is never released
\* and the crash have these two causes, and no other.
THEOREM LockAlwaysInside ==
  ASSUME Removable = {}, Monitors = {}
  PROVE  Spec => [](LockHeldInside /\ GetSurvivesInvalidate)
  <1>1. /\ down = {}
        /\ (lock # NoThread => pc[lock] \in Critical \/ Crashed(lock))
        => LockHeldInside /\ GetSurvivesInvalidate
    BY DEF LockHeldInside, GetSurvivesInvalidate, Crashed
  <1> QED
    BY <1>1, NobodyDown, LockLostByCrashOnly, PTL

=============================================================================
