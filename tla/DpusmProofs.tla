---------------------------- MODULE DpusmProofs ----------------------------
(***************************************************************************)
(* What is proved of dpusm.ko and its registry together, for every number  *)
(* of users, provider modules, monitors and addresses, when providers      *)
(* register in their init function and unregister in their exit function.  *)
(***************************************************************************)
EXTENDS Dpusm, ServiceProofs

\* The objects that unregister calls have taken off the list and not freed.
Dropped == {ptr[t] : t \in {s \in Callers : pc[s] = "unreg_free"}}

\* Nothing is allocated that is neither listed nor about to be freed.
AliveInv == alive \subseteq providers \cup Dropped

\* A user whose module is not loaded runs nothing.
LinkInv == \A u \in Users \ linked : pc[u] \in {"idle", "holding"}

\* dpusm.ko goes, and is gone, without users.
QuietInv == dpusm # "live" => ~InUse

DpusmInv ==
  /\ LeaseInv
  /\ DpusmTypeOK
  /\ AliveInv
  /\ LinkInv
  /\ QuietInv

\* With everybody unloaded, the registry is as dpusm_init left it.
LEMMA QuietIsClean ==
  ASSUME Workers = {}, DpusmInv, ~InUse
  PROVE  /\ providers = {} /\ count = 0 /\ alive = {}
         /\ \A t \in Threads : pc[t] = "idle"
  <1>1. \A m \in Modules : mstate[m] = "unloaded" /\ pc[m] = "idle"
    BY DEF InUse, DpusmInv, LeaseInv, ModulePhase
  <1>2. providers = {}
    BY <1>1 DEF DpusmInv, LeaseInv, ListedPhase
  <1>3. ~Dropping
    BY <1>1, OwnThreads DEF Dropping
  <1>4. count = 0
    BY <1>2, <1>3, FS_EmptySet DEF DpusmInv, LeaseInv, ListInv, CountInv
  <1>5. alive = {}
    BY <1>1, <1>2, OwnThreads DEF DpusmInv, AliveInv, Dropped
  <1>6. \A u \in Users : pc[u] = "idle"
    BY <1>2 DEF InUse, DpusmInv, LinkInv, LeaseInv, HoldInv, Holds, Holding
  <1>7. \A t \in Monitors : pc[t] = "idle"
    BY DEF InUse
  <1> QED
    BY <1>1, <1>2, <1>4, <1>5, <1>6, <1>7, OwnThreads DEF Threads

\* A sum over nothing.
LEMMA EmptySum == MapThenSumSet(LAMBDA h : refs[h], {}) = 0
  BY DEF MapThenSumSet, MapThenFoldSet

\* Initially nothing is loaded.
LEMMA InitDpusm == DpusmInit => DpusmInv
  <1> SUFFICES ASSUME DpusmInit PROVE DpusmInv
    OBVIOUS
  <1>1. LeaseInv
    BY InitLease DEF DpusmInit
  <1>2. \A t \in Threads : pc[t] = "idle"
    BY DEF DpusmInit, Init
  <1>3. ~InUse
    BY <1>2 DEF DpusmInit, Init, LoaderInit, InUse, Threads
  <1> QED
    BY <1>1, <1>2, <1>3
    DEF DpusmInv, DpusmInit, Init, DpusmTypeOK, AliveInv, LinkInv, QuietInv, Threads

\* A provider's object is listed when it is allocated, and freed after it
\* was taken off the list by the thread that took it off.
LEMMA ModuleKeepsAlive ==
  ASSUME TypeOK, AliveInv, NEW t \in Callers, NEW m \in Modules, ModuleNext(t, m)
  PROVE  AliveInv'
  <1>0. /\ t \in Threads /\ Callers \subseteq Threads
        /\ pc \in [Threads -> Labels]
    BY DEF TypeOK, Threads
  <1>1. \A s \in Callers \ {t} : pc'[s] = pc[s] /\ ptr'[s] = ptr[s]
    BY <1>0, ModuleKeepsUsers
  <1>2. ASSUME alive' \subseteq alive \cup providers',
               providers \subseteq providers',
               pc[t] # "unreg_free"
        PROVE  AliveInv'
    BY <1>1, <1>2 DEF AliveInv, Dropped
  <1> USE DEF list, objects, Goto
  <1>3. CASE StartRegister(t, m)
    BY <1>2, <1>3 DEF StartRegister
  <1>4. CASE RegisterLock(t) \/ UnregisterLock(t)
    BY <1>2, <1>4 DEF RegisterLock, UnregisterLock, Acquire
  <1>5. CASE RegisterSane(t, m) \/ RegisterFind(t, m)
    BY <1>2, <1>5 DEF RegisterSane, RegisterFind
  <1>6. CASE RegisterAdd(t, m)
    BY <1>2, <1>6 DEF RegisterAdd
  <1>7. CASE StartUnregister(t, m)
    BY <1>2, <1>7 DEF StartUnregister
  <1>8. CASE UnregisterFind(t, m)
    BY <1>2, <1>8 DEF UnregisterFind
  <1>9. CASE UnregisterDrop(t)
    <2>1. /\ alive' = alive /\ providers' = providers \ {ptr[t]} /\ ptr' = ptr
          /\ pc[t] = "unreg_drop" /\ pc'[t] = "unreg_free"
      BY <1>0, <1>9 DEF UnregisterDrop, locals
    <2> QED
      BY <1>1, <2>1 DEF AliveInv, Dropped
  <1>10. CASE UnregisterFree(t, m)
    <2>1. alive' = alive \ {ptr[t]} /\ providers' = providers
      BY <1>10 DEF UnregisterFree
    <2> QED
      BY <1>1, <2>1 DEF AliveInv, Dropped
  <1> QED
    BY <1>3, <1>4, <1>5, <1>6, <1>7, <1>8, <1>9, <1>10
    DEF ModuleNext, RegisterStep, UnregisterStep

\* dpusm_init finds an empty registry and makes one.
LEMMA LoadKeeps ==
  ASSUME Workers = {}, DpusmInv, LoadDpusm
  PROVE  DpusmInv'
  <1>1. /\ providers = {} /\ count = 0 /\ alive = {}
        /\ \A t \in Threads : pc[t] = "idle"
    BY QuietIsClean DEF LoadDpusm, DpusmInv, QuietInv
  <1>2. /\ providers' = {} /\ count' = 0 /\ lock' = NoThread /\ active' = 0
        /\ UNCHANGED <<mstate, mrefs, alive, module, refs, down, pc, ptr, mdl, seen, started, linked>>
        /\ dpusm' = "live"
    BY DEF LoadDpusm, loader, objects, locals
  <1>3. TypeOK'
    BY <1>2 DEF DpusmInv, LeaseInv, ListInv, TypeOK
  <1>4. LockInv'
    BY <1>1, <1>2 DEF LockInv, Critical
  <1>5. (UniqueNames /\ TargetInv /\ FoundInv /\ CountInv)'
    BY <1>1, <1>2
    DEF DpusmInv, LeaseInv, ListInv, UniqueNames, TargetInv, FoundInv, Found, CountInv, Dropping
  <1>6. ListInv'
    BY <1>2, <1>3, <1>4, <1>5 DEF ListInv
  <1>7. (ModulePhase /\ ListedPhase /\ HoldInv /\ PinInv)'
    BY <1>1, <1>2
    DEF DpusmInv, LeaseInv, ModulePhase, ListedPhase, HoldInv, Holds, PinInv, Pinners
  <1> QED
    BY <1>1, <1>2, <1>6, <1>7
    DEF DpusmInv, LeaseInv, DpusmTypeOK, AliveInv, LinkInv, QuietInv

\* dpusm_exit finds nothing to do.
LEMMA ExitKeeps ==
  ASSUME Workers = {}, DpusmInv, FinishExit
  PROVE  UNCHANGED <<vars, linked>> /\ dpusm = "going" /\ dpusm' = "unloaded"
  <1>1. providers = {} /\ count = 0 /\ alive = {}
    BY QuietIsClean DEF FinishExit, DpusmInv, QuietInv
  <1>2. active' = active
    BY <1>1, EmptySum DEF FinishExit, DpusmInv, LeaseInv, ListInv, TypeOK
  <1>3. count' = count
    BY <1>1, FS_EmptySet DEF FinishExit
  <1> QED
    BY <1>1, <1>2, <1>3 DEF FinishExit, vars, list, objects

\* The invariant only sees these variables.
LEMMA SameRegistry ==
  ASSUME DpusmInv, UNCHANGED vars, DpusmTypeOK', LinkInv', QuietInv'
  PROVE  DpusmInv'
  <1>1. ListInv'
    BY ListInductive DEF DpusmInv, LeaseInv
  <1> QED
    BY <1>1 DEF DpusmInv, LeaseInv, ModulePhase, ListedPhase, HoldInv, Holds, PinInv, Pinners,
      AliveInv, Dropped, vars, loader, list, objects, locals

\* The registry's steps, inside modules that are loaded, keep the invariant.
LEMMA RegistryKeeps ==
  ASSUME Workers = {}, DpusmInv,
         \/ \E u \in Users : UserRuns(u)
         \/ \E t \in Callers : ProviderRuns(t, ModuleOf(t))
         \/ \E t \in Monitors : MonitorRuns(t)
  PROVE  DpusmInv'
  <1>0. /\ TypeOK /\ pc \in [Threads -> Labels]
        /\ Users \subseteq Threads /\ Callers \subseteq Threads /\ Monitors \subseteq Threads
    BY DEF DpusmInv, LeaseInv, ListInv, TypeOK, Threads
  <1>1. Next
    BY DEF Next, UserRuns, ProviderRuns, MonitorRuns
  <1>2. LeaseInv'
    BY <1>1, LeaseInductive DEF DpusmInv
  <1>3. DpusmTypeOK' /\ UNCHANGED <<dpusm, linked>>
    BY DEF DpusmInv, DpusmTypeOK, UserRuns, ProviderRuns, MonitorRuns, around
  <1>4. ASSUME NEW u \in Users, UserRuns(u)
        PROVE  AliveInv' /\ LinkInv' /\ QuietInv'
    <2>1. /\ UNCHANGED <<providers, count, alive, module, mstate>>
          /\ \A t \in Threads \ {u} : pc'[t] = pc[t] /\ ptr'[t] = ptr[t]
      BY <1>0, <1>4, UserKeepsList DEF UserRuns
    <2>2. u \in linked
      BY <1>4 DEF UserRuns
    <2>3. dpusm = "live"
      BY <2>2 DEF DpusmInv, QuietInv, InUse
    <2>4. \A t \in Callers : t # u
      BY ThreadsAssumption
    <2>5. AliveInv'
      BY <1>0, <2>1, <2>4 DEF DpusmInv, AliveInv, Dropped
    <2>6. LinkInv'
      BY <1>0, <1>3, <2>1, <2>2 DEF DpusmInv, LinkInv
    <2> QED
      BY <1>3, <2>3, <2>5, <2>6 DEF QuietInv
  <1>5. ASSUME NEW t \in Callers, ProviderRuns(t, ModuleOf(t))
        PROVE  AliveInv' /\ LinkInv' /\ QuietInv'
    <2>0. ModuleOf(t) \in Modules /\ ModuleNext(t, ModuleOf(t))
      BY <1>5, CallerModule DEF ProviderRuns
    <2>1. \A s \in Threads \ {t} : pc'[s] = pc[s]
      BY <1>0, <2>0, ModuleKeepsUsers
    <2>2. dpusm = "live"
      BY <1>5, <2>0 DEF ProviderRuns, DpusmInv, QuietInv, InUse
    <2>3. \A u \in Users : u # t
      BY ThreadsAssumption
    <2>4. AliveInv'
      BY <1>0, <2>0, ModuleKeepsAlive DEF DpusmInv
    <2>5. LinkInv'
      BY <1>0, <1>3, <2>1, <2>3 DEF DpusmInv, LinkInv
    <2> QED
      BY <1>3, <2>2, <2>4, <2>5 DEF QuietInv
  <1>6. ASSUME NEW t \in Monitors, MonitorRuns(t)
        PROVE  AliveInv' /\ LinkInv' /\ QuietInv'
    <2>1. /\ UNCHANGED <<alive, providers, ptr>>
          /\ \A s \in Threads \ {t} : pc'[s] = pc[s]
      BY <1>0, <1>6, MonitorKeepsList DEF MonitorRuns
    <2>2. dpusm = "live"
      BY <1>6 DEF MonitorRuns
    <2>3. \A s \in Users \cup Callers : s # t
      BY ThreadsAssumption
    <2>4. AliveInv'
      BY <1>0, <2>1, <2>3 DEF DpusmInv, AliveInv, Dropped
    <2>5. LinkInv'
      BY <1>0, <1>3, <2>1, <2>3 DEF DpusmInv, LinkInv
    <2> QED
      BY <1>3, <2>2, <2>4, <2>5 DEF QuietInv
  <1> QED
    BY <1>2, <1>3, <1>4, <1>5, <1>6 DEF DpusmInv

\* Every step of the module or its registry keeps the invariant.
LEMMA DpusmInductive ==
  ASSUME Workers = {}
  PROVE  DpusmInv /\ [DpusmNext]_allVars => DpusmInv'
  <1> SUFFICES ASSUME DpusmInv, [DpusmNext]_allVars
               PROVE  DpusmInv'
    OBVIOUS
  <1> USE DEF DpusmTypeOK, LinkInv, QuietInv, InUse
  <1>1. CASE LoadDpusm
    BY <1>1, LoadKeeps
  <1>2. CASE StartExit
    <2>1. UNCHANGED <<mstate, pc>> /\ UNCHANGED <<vars, linked>> /\ dpusm' = "going"
      BY <1>2 DEF StartExit, vars, loader
    <2>2. DpusmTypeOK' /\ LinkInv' /\ QuietInv'
      BY <1>2, <2>1 DEF StartExit, DpusmInv
    <2> QED
      BY <2>1, <2>2, SameRegistry
  <1>3. CASE FinishExit
    <2>1. /\ UNCHANGED <<vars, linked>> /\ UNCHANGED <<mstate, pc>>
          /\ dpusm = "going" /\ dpusm' = "unloaded"
      BY <1>3, ExitKeeps DEF vars, loader
    <2>2. DpusmTypeOK' /\ LinkInv' /\ QuietInv'
      BY <2>1 DEF DpusmInv
    <2> QED
      BY <2>1, <2>2, SameRegistry
  <1>4. ASSUME NEW u \in Users, LoadUser(u) \/ UnloadUser(u)
        PROVE  DpusmInv'
    <2>1. /\ UNCHANGED vars /\ UNCHANGED <<mstate, pc, dpusm>>
          /\ linked' \subseteq linked \cup {u} /\ linked \subseteq linked' \cup {u}
          /\ dpusm = "live" /\ (u \notin linked' => pc[u] \in {"idle", "holding"})
      BY <1>4 DEF LoadUser, UnloadUser, vars, loader, DpusmInv
    <2>2. DpusmTypeOK' /\ LinkInv' /\ QuietInv'
      BY <2>1 DEF DpusmInv
    <2> QED
      BY <2>1, <2>2, SameRegistry
  <1>5. CASE UNCHANGED allVars
    <2>1. UNCHANGED vars /\ UNCHANGED <<mstate, pc, dpusm, linked>>
      BY <1>5 DEF allVars, around, vars, loader
    <2>2. DpusmTypeOK' /\ LinkInv' /\ QuietInv'
      BY <2>1 DEF DpusmInv
    <2> QED
      BY <2>1, <2>2, SameRegistry
  <1> QED
    BY <1>1, <1>2, <1>3, <1>4, <1>5, RegistryKeeps DEF DpusmNext

\* Hence it holds throughout.
LEMMA DpusmSafe ==
  ASSUME Workers = {}
  PROVE  DpusmSpec => []DpusmInv
  <1>1. DpusmInv /\ [DpusmNext]_allVars => DpusmInv'
    BY DpusmInductive
  <1> QED
    BY <1>1, InitDpusm, PTL DEF DpusmSpec

\* dpusm_exit never finds a provider, an allocated object, a count or a call
\* in progress, in whatever order users and providers came and went and
\* whether or not the users put what they got.
THEOREM ExitIsClean ==
  ASSUME Workers = {}
  PROVE  DpusmSpec => []ExitClean
  <1>1. DpusmInv => ExitClean
    BY QuietIsClean DEF ExitClean, DpusmInv, QuietInv
  <1> QED
    BY <1>1, DpusmSafe, PTL

\* A provider is never unregistered while a user has it, also when dpusm.ko
\* and its users are loaded and unloaded around it.
THEOREM HoldSafeInDpusm ==
  ASSUME Workers = {}
  PROVE  DpusmSpec => []HeldProviderRegistered
  <1>1. DpusmInv => HeldProviderRegistered
    BY DEF DpusmInv, LeaseInv, HoldInv, HeldProviderRegistered, ModuleIsLive
  <1> QED
    BY <1>1, DpusmSafe, PTL

\* What happens around the registry is not seen by those it serves: dpusm.ko
\* comes and goes with nothing registered.
LEMMA AroundServes ==
  ASSUME Workers = {}, DpusmInv,
         \/ LoadDpusm \/ StartExit \/ FinishExit
         \/ \E u \in Users : LoadUser(u) \/ UnloadUser(u)
  PROVE  UNCHANGED Service!vars
  <1>1. CASE LoadDpusm
    <2>1. /\ providers = {}
          /\ \A u \in Users : ~Holds(u)
      BY <1>1, QuietIsClean DEF LoadDpusm, DpusmInv, QuietInv, Holds, Holding, Threads
    <2>2. providers' = {} /\ UNCHANGED <<module, down, pc, ptr>>
      BY <1>1 DEF LoadDpusm, objects, locals
    <2>3. UNCHANGED <<SeenStates, SeenHolds>>
      BY <2>1, <2>2 DEF SeenStates, SeenHolds, StateOf, HeldBy, Found, Holds
    <2> QED
      BY <2>3, SeenSame
  <1>2. CASE FinishExit
    BY <1>2, ExitKeeps, StutterServes
  <1>3. CASE StartExit
    BY <1>3, StutterServes DEF StartExit
  <1>4. CASE \E u \in Users : LoadUser(u) \/ UnloadUser(u)
    BY <1>4, StutterServes DEF LoadUser, UnloadUser
  <1> QED
    BY <1>1, <1>2, <1>3, <1>4

\* The registry serves its users as ProviderService says, over any number of
\* lives of dpusm.ko.
THEOREM ServiceImplementedInDpusm ==
  ASSUME Workers = {}
  PROVE  DpusmSpec => ServiceSpec
  <1>1. DpusmInv /\ [DpusmNext]_allVars => [Service!Next]_(Service!vars)
    BY AroundServes, OwnThreads, UserServes, ModuleServes, MonitorServes, StutterServes
    DEF DpusmInv, DpusmNext, UserRuns, ProviderRuns, MonitorRuns, allVars
  <1>2. DpusmInit => Service!Init
    BY SeenInit DEF DpusmInit
  <1> QED
    BY <1>1, <1>2, DpusmSafe, PTL DEF DpusmSpec, ServiceSpec, Service!Spec

=============================================================================
