---------------------------- MODULE CountProofs ----------------------------
(***************************************************************************)
(* The reference counts of the providers, for every number of users,       *)
(* modules, monitors and addresses, as long as no provider module is       *)
(* unloaded: users come and go and devices go down.  (With an unload in    *)
(* between, the race of dpusm_provider_put makes the counts wrong.)        *)
(***************************************************************************)
EXTENDS RegistryProofs

\* The labels of a put that has released the module.
Leaving == {"put_refs", "put_active", "put_funcs", "put_hook", "put_report"}

\* Nobody unregisters.
StayInv == \A m \in Modules : mstate[m] # "going"

\* What a user works on is listed, to the end of its put.
WorkInv == \A u \in Users : pc[u] \in Holding \cup Leaving => ptr[u] \in providers

CountsInv ==
  /\ LeaseInv
  /\ StayInv
  /\ WorkInv
  /\ RefsCountHolders

\* The holders of an object are a finite set.
LEMMA HoldersFinite ==
  ASSUME NEW h
  PROVE  IsFiniteSet(Holders(h)) /\ Cardinality(Holders(h)) \in Nat
  BY FS_Subset, FS_CardinalityType, ThreadsAssumption DEF Holders

\* A put finds its provider and a count that is not zero.
LEMMA HolderCounted ==
  ASSUME CountsInv, NEW u \in Users, pc[u] \in Counted
  PROVE  ptr[u] \in alive /\ refs[ptr[u]] \in Int /\ refs[ptr[u]] > 0
  <1>1. ptr[u] \in providers /\ ptr[u] \in alive /\ ptr[u] \in Handles
    BY DEF CountsInv, WorkInv, Counted, Holding, Leaving, LeaseInv, ListInv, TypeOK
  <1>2. u \in Holders(ptr[u])
    BY DEF Holders
  <1>3. Cardinality(Holders(ptr[u])) # 0
    BY <1>2, HoldersFinite, FS_EmptySet
  <1>4. refs[ptr[u]] >= Cardinality(Holders(ptr[u]))
    BY <1>1 DEF CountsInv, RefsCountHolders
  <1> QED
    BY <1>1, <1>3, <1>4, HoldersFinite DEF CountsInv, LeaseInv, ListInv, TypeOK

\* The counts stay right where neither they nor the holders change.
LEMMA CountsSame ==
  ASSUME CountsInv, UNCHANGED <<providers, refs, down>>,
         \A h \in providers : Holders(h)' = Holders(h)
  PROVE  RefsCountHolders'
  BY DEF CountsInv, RefsCountHolders

\* A module's step: only a registration touches the counts, with an object
\* that nobody has.
LEMMA ModuleKeepsCounts ==
  ASSUME Workers = {}, Removable = {}, CountsInv, NEW m \in Modules, ModuleNext(m, m)
  PROVE  StayInv' /\ WorkInv' /\ RefsCountHolders'
  <1>0. /\ Users \subseteq Threads \ {m} /\ Modules \subseteq Threads
        /\ pc \in [Threads -> Labels] /\ mstate \in [Modules -> LoaderStates]
        /\ refs \in [Handles -> Int] /\ providers \subseteq alive
        /\ providers \subseteq Handles /\ TypeOK
    BY ThreadsAssumption DEF CountsInv, LeaseInv, ListInv, TypeOK, Threads, Callers
  <1>1. /\ \A u \in Users : pc'[u] = pc[u] /\ ptr'[u] = ptr[u]
        /\ \A n \in Modules \ {m} : mstate'[n] = mstate[n]
    BY <1>0, OwnThreads, ModuleKeepsUsers
  <1>2. \A h : Holders(h)' = Holders(h)
    BY <1>1 DEF Holders
  <1>3. pc[m] \in {"idle", "reg_sane", "reg_lock", "reg_find", "reg_add"}
    BY DEF CountsInv, StayInv, LeaseInv, ModulePhase
  <1>4. ASSUME UNCHANGED <<providers, refs, down>>, mstate'[m] # "going"
        PROVE  StayInv' /\ WorkInv' /\ RefsCountHolders'
    <2>1. RefsCountHolders'
      BY <1>2, <1>4, CountsSame
    <2> QED
      BY <1>1, <1>4, <2>1 DEF CountsInv, StayInv, WorkInv
  <1>5. mstate[m] # "going"
    BY DEF CountsInv, StayInv
  <1> USE DEF list, objects, loader
  <1>6. CASE StartRegister(m, m)
    BY <1>0, <1>4, <1>5, <1>6 DEF StartRegister, Insmod
  <1>7. CASE RegisterLock(m)
    BY <1>4, <1>5, <1>7 DEF RegisterLock, Acquire
  <1>8. CASE RegisterSane(m, m) \/ RegisterFind(m, m)
    BY <1>0, <1>4, <1>5, <1>8 DEF RegisterSane, RegisterFind, RegisterReturns, AfterCall
  <1>9. CASE RegisterAdd(m, m)
    <2>1. mstate'[m] # "going"
      BY <1>0, <1>5, <1>9 DEF RegisterAdd, RegisterReturns, AfterCall
    <2>2. CASE UNCHANGED objects /\ UNCHANGED list
      BY <1>4, <2>1, <2>2
    <2>3. ASSUME NEW h \in Handles \ alive,
                 refs' = [refs EXCEPT ![h] = 0],
                 down' = down \ {h},
                 providers' = providers \cup {h}
          PROVE  StayInv' /\ WorkInv' /\ RefsCountHolders'
      <3>1. StayInv'
        BY <1>1, <2>1 DEF CountsInv, StayInv
      <3>2. WorkInv'
        BY <1>1, <2>3 DEF CountsInv, WorkInv
      <3>3. Holders(h) = {}
        BY <1>0, <2>3 DEF Holders, CountsInv, WorkInv, Counted, Holding, Leaving
      <3>4. \A g \in providers : g # h /\ refs'[g] = refs[g] /\ (g \in down' <=> g \in down)
        BY <1>0, <2>3
      <3>5. refs'[h] = 0 /\ Cardinality(Holders(h)') = 0
        BY <1>0, <1>2, <2>3, <3>3, FS_EmptySet
      <3>6. RefsCountHolders'
        BY <1>2, <2>3, <3>4, <3>5 DEF CountsInv, RefsCountHolders
      <3> QED
        BY <3>1, <3>2, <3>6
    <2> QED
      BY <1>9, <2>2, <2>3 DEF RegisterAdd
  <1>10. ~StartUnregister(m, m)
    BY DEF StartUnregister
  <1>11. ~UnregisterLock(m) /\ ~UnregisterStep(m, m)
    BY <1>3 DEF UnregisterLock, Acquire, UnregisterStep, UnregisterFind, UnregisterDrop,
                UnregisterFree, Goto
  <1> QED
    BY <1>6, <1>7, <1>8, <1>9, <1>10, <1>11 DEF ModuleNext, RegisterStep

\* A user's step that is no get_connect and no put_refs: refs stays, and the
\* user keeps what it works on or drops it; it stops being a holder only of
\* a provider that is down.
LEMMA UserMoves ==
  ASSUME CountsInv, NEW u \in Users,
         UNCHANGED <<providers, refs, down, mstate>>,
         \A v \in Users \ {u} : pc'[v] = pc[v] /\ ptr'[v] = ptr[v],
         pc'[u] \in Holding \cup Leaving => ptr'[u] \in providers,
         pc'[u] \in Counted => pc[u] \in Counted /\ ptr'[u] = ptr[u],
         pc[u] \in Counted /\ pc'[u] \notin Counted => ptr[u] \in down
  PROVE  StayInv' /\ WorkInv' /\ RefsCountHolders'
  <1>1. StayInv' /\ WorkInv'
    BY DEF CountsInv, StayInv, WorkInv
  <1>2. ASSUME NEW h \in providers
        PROVE  /\ refs[h] >= Cardinality(Holders(h)')
               /\ h \notin down => refs[h] = Cardinality(Holders(h)')
    <2>1. Holders(h)' \subseteq Holders(h)
      BY DEF Holders
    <2>2. h \notin down => Holders(h)' = Holders(h)
      BY DEF Holders
    <2>3. /\ Cardinality(Holders(h)') <= Cardinality(Holders(h))
          /\ Cardinality(Holders(h)') \in Nat
      BY <2>1, HoldersFinite, FS_Subset, FS_CardinalityType
    <2>4. refs[h] \in Int
      BY DEF CountsInv, LeaseInv, ListInv, TypeOK
    <2> QED
      BY <2>2, <2>3, <2>4, HoldersFinite DEF CountsInv, RefsCountHolders
  <1> QED
    BY <1>1, <1>2 DEF RefsCountHolders

\* A get counts its user in: as a holder if the provider is up.
LEMMA ConnectCounts ==
  ASSUME CountsInv, NEW u \in Users, GetConnect(u)
  PROVE  StayInv' /\ WorkInv' /\ RefsCountHolders'
  <1>0. /\ u \in Threads /\ Users \subseteq Threads
        /\ pc \in [Threads -> Labels] /\ refs \in [Handles -> Int]
        /\ providers \subseteq Handles
    BY DEF CountsInv, LeaseInv, ListInv, TypeOK, Threads
  <1>1. /\ UNCHANGED <<providers, down, mstate, ptr>>
        /\ refs' = [refs EXCEPT ![ptr[u]] = @ + 1]
        /\ pc[u] = "get_connect"
        /\ pc' = [pc EXCEPT ![u] = IF ptr[u] \in down THEN "oops" ELSE "get_check"]
    BY DEF GetConnect, Goto, loader, list, locals
  <1>2. ptr[u] \in providers
    BY <1>1 DEF CountsInv, WorkInv, Holding
  <1>3. StayInv' /\ WorkInv'
    BY <1>0, <1>1, <1>2 DEF CountsInv, StayInv, WorkInv, Holding, Leaving
  <1>4. \A h \in providers \ {ptr[u]} : Holders(h)' = Holders(h) /\ refs'[h] = refs[h]
    BY <1>0, <1>1 DEF Holders
  <1>5. refs'[ptr[u]] = refs[ptr[u]] + 1 /\ refs[ptr[u]] \in Int
    BY <1>0, <1>1, <1>2
  <1>6. u \notin Holders(ptr[u])
    BY <1>1 DEF Holders, Counted
  <1>7. CASE ptr[u] \in down
    <2>1. Holders(ptr[u])' = Holders(ptr[u])
      BY <1>0, <1>1, <1>6, <1>7 DEF Holders, Counted
    <2>2. refs'[ptr[u]] >= Cardinality(Holders(ptr[u]))
      BY <1>2, <1>5, HoldersFinite DEF CountsInv, RefsCountHolders
    <2> QED
      BY <1>1, <1>3, <1>4, <1>7, <2>1, <2>2 DEF CountsInv, RefsCountHolders
  <1>8. CASE ptr[u] \notin down
    <2>1. Holders(ptr[u])' = Holders(ptr[u]) \cup {u}
      BY <1>0, <1>1, <1>8 DEF Holders, Counted
    <2>2. Cardinality(Holders(ptr[u])') = Cardinality(Holders(ptr[u])) + 1
      BY <1>6, <2>1, HoldersFinite, FS_AddElement
    <2>3. refs'[ptr[u]] = Cardinality(Holders(ptr[u])')
      BY <1>2, <1>5, <1>8, <2>2 DEF CountsInv, RefsCountHolders
    <2>4. refs'[ptr[u]] >= Cardinality(Holders(ptr[u])')
      BY <1>5, <2>3
    <2> QED
      BY <1>1, <1>3, <1>4, <2>3, <2>4 DEF CountsInv, RefsCountHolders
  <1> QED
    BY <1>7, <1>8

\* A put takes its holder off with its reference.
LEMMA PutCounts ==
  ASSUME CountsInv, NEW u \in Users, PutRefs(u)
  PROVE  StayInv' /\ WorkInv' /\ RefsCountHolders'
  <1>0. /\ u \in Threads /\ Users \subseteq Threads
        /\ pc \in [Threads -> Labels] /\ refs \in [Handles -> Int]
        /\ providers \subseteq Handles
    BY DEF CountsInv, LeaseInv, ListInv, TypeOK, Threads
  <1>1. pc[u] = "put_refs"
    BY DEF PutRefs, Oops, Goto
  <1>2. ptr[u] \in providers /\ ptr[u] \in alive
    BY <1>1, HolderCounted DEF CountsInv, WorkInv, Leaving, Counted
  <1>3. /\ UNCHANGED <<providers, down, mstate, ptr>>
        /\ refs' = [refs EXCEPT ![ptr[u]] = @ - 1]
        /\ pc' = [pc EXCEPT ![u] = "put_active"]
    BY <1>2 DEF PutRefs, Goto, loader, list, locals
  <1>4. StayInv' /\ WorkInv'
    BY <1>0, <1>2, <1>3 DEF CountsInv, StayInv, WorkInv, Holding, Leaving
  <1>5. \A h \in providers \ {ptr[u]} : Holders(h)' = Holders(h) /\ refs'[h] = refs[h]
    BY <1>0, <1>3 DEF Holders
  <1>6. refs'[ptr[u]] = refs[ptr[u]] - 1 /\ refs[ptr[u]] \in Int
    BY <1>0, <1>2, <1>3
  <1>7. u \in Holders(ptr[u]) /\ Holders(ptr[u])' = Holders(ptr[u]) \ {u}
    BY <1>0, <1>1, <1>3 DEF Holders, Counted
  <1>8. Cardinality(Holders(ptr[u])') = Cardinality(Holders(ptr[u])) - 1
    BY <1>7, HoldersFinite, FS_RemoveElement
  <1>9. /\ refs'[ptr[u]] >= Cardinality(Holders(ptr[u])')
        /\ ptr[u] \notin down => refs'[ptr[u]] = Cardinality(Holders(ptr[u])')
    BY <1>2, <1>6, <1>8, HoldersFinite DEF CountsInv, RefsCountHolders
  <1> QED
    BY <1>3, <1>4, <1>5, <1>9 DEF CountsInv, RefsCountHolders

\* Every step of a user keeps the counts right.
LEMMA UserKeepsCounts ==
  ASSUME CountsInv, LeaseInv', NEW u \in Users, UserNext(u)
  PROVE  StayInv' /\ WorkInv' /\ RefsCountHolders'
  <1>0. /\ u \in Threads /\ Users \subseteq Threads
        /\ pc \in [Threads -> Labels] /\ TypeOK
    BY DEF CountsInv, LeaseInv, ListInv, TypeOK, Threads
  <1>1. /\ UNCHANGED <<providers, mstate>>
        /\ \A v \in Users \ {u} : pc'[v] = pc[v] /\ ptr'[v] = ptr[v]
    BY <1>0, UserKeepsList
  <1>2. pc[u] \in Holding \cup Leaving => ptr[u] \in providers /\ ptr[u] \in alive
    BY DEF CountsInv, WorkInv, LeaseInv, ListInv
  <1>3. ASSUME UNCHANGED <<refs, down>>,
               pc'[u] \in Holding \cup Leaving => ptr'[u] \in providers,
               pc'[u] \in Counted => pc[u] \in Counted /\ ptr'[u] = ptr[u],
               pc[u] \in Counted /\ pc'[u] \notin Counted => ptr[u] \in down
        PROVE  StayInv' /\ WorkInv' /\ RefsCountHolders'
    BY <1>1, <1>3, UserMoves
  <1> USE DEF Goto, objects, locals, Holding, Leaving, Counted
  <1>4. CASE StartGet(u) \/ GetLock(u) \/ StartPut(u)
    BY <1>0, <1>2, <1>3, <1>4 DEF StartGet, GetLock, Acquire, StartPut
  <1>5. ASSUME NEW m \in Modules, GetFind(u, m)
        PROVE  StayInv' /\ WorkInv' /\ RefsCountHolders'
    <2>1. UNCHANGED <<refs, down>> /\ pc[u] = "get_find" /\ pc'[u] \in {"idle", "get_connect"}
      BY <1>0, <1>5 DEF GetFind
    <2>2. pc'[u] = "get_connect" => ptr'[u] \in providers
      BY <1>0, <1>1, <2>1 DEF LeaseInv, HoldInv, Holds
    <2> QED
      BY <1>3, <2>1, <2>2
  <1>6. CASE GetCheck(u)
    BY <1>0, <1>2, <1>3, <1>6 DEF GetCheck, Oops
  <1>7. CASE PutCheck(u)
    <2>1. pc[u] = "put_check"
      BY <1>7 DEF PutCheck, Oops, PutReturns
    <2>2. ptr[u] \in alive /\ refs[ptr[u]] # 0
      BY <2>1, HolderCounted
    <2> QED
      BY <1>0, <1>2, <1>3, <1>7, <2>1, <2>2 DEF PutCheck
  <1>8. CASE PutModule(u) \/ PutActive(u)
    BY <1>0, <1>2, <1>3, <1>8 DEF PutModule, PutActive
  <1>9. CASE PutFuncs(u) \/ PutHook(u)
    BY <1>0, <1>2, <1>3, <1>9 DEF PutFuncs, PutHook, Oops
  <1>10. CASE PutReport(u)
    BY <1>0, <1>2, <1>3, <1>10 DEF PutReport, PutReturns, Oops
  <1> QED
    BY <1>4, <1>5, <1>6, <1>7, <1>8, <1>9, <1>10, ConnectCounts, PutCounts
    DEF UserNext, GetStep, PutStep

\* An invalidate takes providers down and leaves all counts alone.
LEMMA MonitorKeepsCounts ==
  ASSUME CountsInv, NEW t \in Monitors, MonitorNext(t)
  PROVE  StayInv' /\ WorkInv' /\ RefsCountHolders'
  <1>1. /\ UNCHANGED <<providers, loader, ptr>>
        /\ \A u \in Users : pc'[u] = pc[u]
    BY MonitorKeepsList, ThreadsAssumption DEF CountsInv, LeaseInv, ListInv, Threads
  <1>2. UNCHANGED refs /\ down \subseteq down'
    BY DEF MonitorNext, StartInvalidate, InvalidateLock, Acquire, InvalidateStep,
           InvalidateSet, objects
  <1>3. \A h : Holders(h)' = Holders(h)
    BY <1>1 DEF Holders
  <1> QED
    BY <1>1, <1>2, <1>3 DEF CountsInv, StayInv, WorkInv, RefsCountHolders, loader

\* Every step keeps the counts right.
LEMMA CountsInductive ==
  ASSUME Workers = {}, Removable = {}
  PROVE  CountsInv /\ [Next]_vars => CountsInv'
  <1> SUFFICES ASSUME CountsInv, [Next]_vars
               PROVE  CountsInv'
    OBVIOUS
  <1>1. LeaseInv'
    BY LeaseInductive DEF CountsInv
  <1>2. CASE UNCHANGED vars
    <2>1. \A h : Holders(h)' = Holders(h)
      BY <1>2 DEF Holders, vars, locals
    <2> QED
      BY <1>1, <1>2, <2>1
      DEF CountsInv, StayInv, WorkInv, RefsCountHolders, vars, loader, list, objects, locals
  <1> QED
    BY <1>1, <1>2, UserKeepsCounts, ModuleKeepsCounts, MonitorKeepsCounts, OwnThreads
    DEF CountsInv, Next

\* Nobody is counted at first.
LEMMA InitCounts == Init => CountsInv
  <1> SUFFICES ASSUME Init PROVE CountsInv
    OBVIOUS
  <1>1. LeaseInv
    BY InitLease
  <1>2. \A u \in Users : pc[u] = "idle"
    BY DEF Init, Threads
  <1> QED
    BY <1>1, <1>2
    DEF CountsInv, StayInv, WorkInv, RefsCountHolders, Holding, Leaving, Init, LoaderInit

\* An up provider's refs is the number of the users that have it, and a down
\* provider's is never less, as long as no provider module is unloaded.
THEOREM CountsTrue ==
  ASSUME Workers = {}, Removable = {}
  PROVE  Spec => []RefsCountHolders
  <1>1. CountsInv => RefsCountHolders
    BY DEF CountsInv
  <1>2. CountsInv /\ [Next]_vars => CountsInv'
    BY CountsInductive
  <1> QED
    BY <1>1, <1>2, InitCounts, PTL DEF Spec

\* A put of what a get gave is never refused, as long as no provider module
\* is unloaded, whenever the provider goes down.
THEOREM PutsAccepted ==
  ASSUME Workers = {}, Removable = {}
  PROVE  Spec => []PutAccepted
  <1>1. CountsInv => PutAccepted
    BY HolderCounted DEF PutAccepted, Counted
  <1>2. CountsInv /\ [Next]_vars => CountsInv'
    BY CountsInductive
  <1> QED
    BY <1>1, <1>2, InitCounts, PTL DEF Spec

-----------------------------------------------------------------------------
(* dpusm.active: one for every reference on a listed provider, and one for *)
(* every put that is between its two decrements.                           *)

ActiveInv == IsFiniteSet(References) /\ ActiveMatchesRefs

\* What is in References.
LEMMA ReferenceIs ==
  ASSUME NEW x
  PROVE  x \in References <=> \E h \in providers : \E i \in 1..refs[h] : x = <<h, i>>
  BY DEF References

\* The puts in progress are finitely many.
LEMMA UncountingFinite == IsFiniteSet(Uncounting) /\ Cardinality(Uncounting) \in Nat
  BY FS_Subset, FS_CardinalityType, ThreadsAssumption DEF Uncounting

\* The sum stays right where none of its parts changes.
LEMMA ActiveSame ==
  ASSUME ActiveInv, UNCHANGED <<providers, refs, active>>,
         \A u \in Users : pc'[u] = "put_active" <=> pc[u] = "put_active"
  PROVE  ActiveInv'
  <1>1. References' = References /\ Uncounting' = Uncounting
    BY DEF References, Uncounting
  <1> QED
    BY <1>1 DEF ActiveInv, ActiveMatchesRefs

\* A get adds one reference.
LEMMA ConnectActive ==
  ASSUME CountsInv, ActiveInv, NEW u \in Users, GetConnect(u)
  PROVE  ActiveInv'
  <1>0. /\ u \in Threads /\ Users \subseteq Threads
        /\ pc \in [Threads -> Labels] /\ refs \in [Handles -> Int] /\ active \in Int
        /\ providers \subseteq Handles
    BY DEF CountsInv, LeaseInv, ListInv, TypeOK, Threads
  <1> DEFINE h == ptr[u]
             n == refs[h] + 1
  <1>1. /\ UNCHANGED providers /\ active' = active + 1
        /\ refs' = [refs EXCEPT ![h] = n]
        /\ pc[u] = "get_connect" /\ pc'[u] # "put_active"
        /\ \A v \in Users \ {u} : pc'[v] = pc[v]
    BY <1>0 DEF GetConnect, Goto, list
  <1>2. h \in providers
    BY <1>1 DEF CountsInv, WorkInv, Holding
  <1>3. refs[h] \in Nat
    BY <1>0, <1>2 DEF ActiveInv, ActiveMatchesRefs
  <1>4. refs'[h] = n /\ \A g \in providers \ {h} : refs'[g] = refs[g]
    BY <1>0, <1>1, <1>2
  <1> HIDE DEF h
  <1>5. 1..n = (1..refs[h]) \cup {n} /\ n \notin 1..refs[h]
    BY <1>3
  <1>6. <<h, n>> \notin References
    BY <1>5, ReferenceIs
  <1>7. References' = References \cup {<<h, n>>}
    <2>1. ASSUME NEW x
          PROVE  x \in References' <=> x \in References \/ x = <<h, n>>
      <3>1. x \in References' <=> \E g \in providers : \E i \in 1..refs'[g] : x = <<g, i>>
        BY <1>1 DEF References
      <3>2. \A g \in providers : g # h => 1..refs'[g] = 1..refs[g]
        BY <1>4
      <3>3. 1..refs'[h] = (1..refs[h]) \cup {n}
        BY <1>4, <1>5
      <3> HIDE DEF n
      <3> QED
        BY <3>1, <3>2, <3>3, <1>2, ReferenceIs
    <2> QED
      BY <2>1
  <1>8. /\ Cardinality(References') = Cardinality(References) + 1
        /\ Cardinality(References) \in Nat /\ IsFiniteSet(References')
    BY <1>6, <1>7, FS_AddElement, FS_CardinalityType DEF ActiveInv
  <1>9. Uncounting' = Uncounting
    BY <1>1 DEF Uncounting
  <1>10. \A g \in providers : refs'[g] >= 0
    BY <1>3, <1>4 DEF ActiveInv, ActiveMatchesRefs
  <1> QED
    BY <1>1, <1>8, <1>9, <1>10, UncountingFinite DEF ActiveInv, ActiveMatchesRefs

\* A put takes its reference off refs, and has yet to take it off active.
LEMMA PutActiveLater ==
  ASSUME CountsInv, ActiveInv, NEW u \in Users, PutRefs(u)
  PROVE  ActiveInv'
  <1>0. /\ u \in Threads /\ Users \subseteq Threads
        /\ pc \in [Threads -> Labels] /\ refs \in [Handles -> Int] /\ active \in Int
        /\ providers \subseteq Handles
    BY DEF CountsInv, LeaseInv, ListInv, TypeOK, Threads
  <1> DEFINE h == ptr[u]
             n == refs[h]
  <1>1. pc[u] = "put_refs"
    BY DEF PutRefs, Oops, Goto
  <1>2. h \in providers /\ h \in alive /\ n \in Int /\ n > 0
    BY <1>1, HolderCounted DEF CountsInv, WorkInv, Leaving, Counted
  <1>3. /\ UNCHANGED <<providers, active>>
        /\ refs' = [refs EXCEPT ![h] = n - 1]
        /\ pc'[u] = "put_active" /\ \A v \in Users \ {u} : pc'[v] = pc[v]
    BY <1>0, <1>2 DEF PutRefs, Goto, list
  <1>4. refs'[h] = n - 1 /\ \A g \in providers \ {h} : refs'[g] = refs[g]
    BY <1>0, <1>2, <1>3
  <1>5. /\ 1..(n - 1) = (1..n) \ {n} /\ n \in 1..n
    BY <1>2
  <1> HIDE DEF h
  <1>6. <<h, n>> \in References
    BY <1>2, <1>5, ReferenceIs
  <1>7. References' = References \ {<<h, n>>}
    <2>1. ASSUME NEW x
          PROVE  x \in References' <=> x \in References /\ x # <<h, n>>
      <3>1. x \in References' <=> \E g \in providers : \E i \in 1..refs'[g] : x = <<g, i>>
        BY <1>3 DEF References
      <3>2. \A g \in providers : g # h => 1..refs'[g] = 1..refs[g]
        BY <1>4
      <3>3. 1..refs'[h] = (1..refs[h]) \ {n}
        BY <1>4, <1>5
      <3> HIDE DEF n
      <3>4. ASSUME NEW g \in providers, NEW i, x = <<g, i>>
            PROVE  i \in 1..refs'[g] <=> i \in 1..refs[g] /\ x # <<h, n>>
        BY <3>2, <3>3, <3>4
      <3> QED
        BY <3>1, <3>4, ReferenceIs
    <2> QED
      BY <2>1
  <1>8. /\ Cardinality(References') = Cardinality(References) - 1
        /\ Cardinality(References) \in Nat /\ IsFiniteSet(References')
    BY <1>6, <1>7, FS_RemoveElement, FS_CardinalityType DEF ActiveInv
  <1>9. u \notin Uncounting /\ Uncounting' = Uncounting \cup {u}
    BY <1>1, <1>3 DEF Uncounting
  <1>10. Cardinality(Uncounting') = Cardinality(Uncounting) + 1
    BY <1>9, UncountingFinite, FS_AddElement
  <1>11. \A g \in providers : refs'[g] >= 0
    BY <1>2, <1>4 DEF ActiveInv, ActiveMatchesRefs
  <1> QED
    BY <1>3, <1>8, <1>10, <1>11, UncountingFinite DEF ActiveInv, ActiveMatchesRefs

\* Now it does.
LEMMA PutActiveDone ==
  ASSUME CountsInv, ActiveInv, NEW u \in Users, PutActive(u)
  PROVE  ActiveInv'
  <1>1. /\ UNCHANGED <<providers, refs>> /\ active' = active - 1
        /\ pc[u] = "put_active" /\ pc'[u] = "put_funcs"
        /\ \A v \in Users \ {u} : pc'[v] = pc[v]
    BY DEF PutActive, Goto, list, objects, CountsInv, LeaseInv, ListInv, TypeOK, Threads
  <1>2. References' = References
    BY <1>1 DEF References
  <1>3. u \in Uncounting /\ Uncounting' = Uncounting \ {u}
    BY <1>1 DEF Uncounting
  <1>4. Cardinality(Uncounting') = Cardinality(Uncounting) - 1
    BY <1>3, UncountingFinite, FS_RemoveElement
  <1>5. Cardinality(References) \in Nat
    BY FS_CardinalityType DEF ActiveInv
  <1> QED
    BY <1>1, <1>2, <1>4, <1>5, UncountingFinite DEF ActiveInv, ActiveMatchesRefs

\* No other step of a user changes either.
LEMMA UserKeepsActive ==
  ASSUME CountsInv, ActiveInv, NEW u \in Users, UserNext(u)
  PROVE  ActiveInv'
  <1>0. /\ u \in Threads /\ pc \in [Threads -> Labels] /\ TypeOK
    BY DEF CountsInv, LeaseInv, ListInv, TypeOK, Threads
  <1>1. UNCHANGED providers /\ \A v \in Users \ {u} : pc'[v] = pc[v]
    BY <1>0, UserKeepsList DEF Threads
  <1>2. ASSUME UNCHANGED <<refs, active>>, pc[u] # "put_active", pc'[u] # "put_active"
        PROVE  ActiveInv'
    BY <1>1, <1>2, ActiveSame
  <1> USE DEF Goto, objects
  <1>3. CASE StartGet(u) \/ GetLock(u) \/ StartPut(u)
    BY <1>0, <1>2, <1>3 DEF StartGet, GetLock, Acquire, StartPut
  <1>4. ASSUME NEW m \in Modules, GetFind(u, m)
        PROVE  ActiveInv'
    BY <1>0, <1>2, <1>4 DEF GetFind
  <1>5. CASE GetCheck(u)
    BY <1>0, <1>2, <1>5 DEF GetCheck, Oops
  <1>6. CASE PutCheck(u)
    BY <1>0, <1>2, <1>6 DEF PutCheck, PutReturns, Oops
  <1>7. CASE PutModule(u)
    BY <1>0, <1>2, <1>7 DEF PutModule
  <1>8. CASE PutFuncs(u) \/ PutHook(u)
    BY <1>0, <1>2, <1>8 DEF PutFuncs, PutHook, Oops
  <1>9. CASE PutReport(u)
    BY <1>0, <1>2, <1>9 DEF PutReport, PutReturns, Oops
  <1> QED
    BY <1>3, <1>4, <1>5, <1>6, <1>7, <1>8, <1>9, ConnectActive, PutActiveLater, PutActiveDone
    DEF UserNext, GetStep, PutStep

\* A module that registers brings an object without references.
LEMMA ModuleKeepsActive ==
  ASSUME Workers = {}, Removable = {}, CountsInv, ActiveInv, NEW m \in Modules, ModuleNext(m, m)
  PROVE  ActiveInv'
  <1>0. /\ Users \subseteq Threads \ {m} /\ TypeOK
        /\ refs \in [Handles -> Int] /\ providers \subseteq alive
    BY ThreadsAssumption DEF CountsInv, LeaseInv, ListInv, TypeOK, Threads, Callers
  <1>1. \A u \in Users : pc'[u] = pc[u]
    BY <1>0, OwnThreads, ModuleKeepsUsers
  <1>2. ASSUME UNCHANGED <<providers, refs, active>>
        PROVE  ActiveInv'
    BY <1>1, <1>2, ActiveSame
  <1>3. pc[m] \in {"idle", "reg_sane", "reg_lock", "reg_find", "reg_add"}
    BY DEF CountsInv, StayInv, LeaseInv, ModulePhase
  <1> USE DEF list, objects
  <1>4. CASE StartRegister(m, m) \/ RegisterLock(m) \/ RegisterSane(m, m) \/ RegisterFind(m, m)
    BY <1>2, <1>4 DEF StartRegister, RegisterLock, Acquire, RegisterSane, RegisterFind
  <1>5. CASE RegisterAdd(m, m)
    <2>1. CASE UNCHANGED <<list, active, objects>>
      BY <1>2, <2>1
    <2>2. ASSUME NEW h \in Handles \ alive,
                 refs' = [refs EXCEPT ![h] = 0],
                 providers' = providers \cup {h},
                 active' = active
          PROVE  ActiveInv'
      <3>1. refs'[h] = 0 /\ h \notin providers /\ \A g \in providers : refs'[g] = refs[g]
        BY <1>0, <2>2
      <3>2. 1..refs'[h] = {}
        BY <3>1
      <3>3. References' = References
        BY <2>2, <3>1, <3>2 DEF References
      <3>4. Uncounting' = Uncounting
        BY <1>1 DEF Uncounting
      <3> QED
        BY <2>2, <3>1, <3>3, <3>4 DEF ActiveInv, ActiveMatchesRefs
    <2> QED
      BY <1>5, <2>1, <2>2 DEF RegisterAdd
  <1>6. ~StartUnregister(m, m)
    BY DEF StartUnregister
  <1>7. ~UnregisterLock(m) /\ ~UnregisterStep(m, m)
    BY <1>3 DEF UnregisterLock, Acquire, UnregisterStep, UnregisterFind, UnregisterDrop,
                UnregisterFree, Goto
  <1> QED
    BY <1>4, <1>5, <1>6, <1>7 DEF ModuleNext, RegisterStep

\* An invalidate leaves the references to what it takes down.
LEMMA MonitorKeepsActive ==
  ASSUME CountsInv, ActiveInv, NEW t \in Monitors, MonitorNext(t)
  PROVE  ActiveInv'
  <1>1. UNCHANGED providers /\ \A u \in Users : pc'[u] = pc[u]
    BY MonitorKeepsList, ThreadsAssumption DEF CountsInv, LeaseInv, ListInv, Threads
  <1>2. UNCHANGED <<refs, active>>
    BY DEF MonitorNext, StartInvalidate, InvalidateLock, Acquire, InvalidateStep,
           InvalidateSet, objects
  <1> QED
    BY <1>1, <1>2, ActiveSame

\* Every step keeps dpusm.active right.
LEMMA ActiveInductive ==
  ASSUME Workers = {}, Removable = {}
  PROVE  CountsInv /\ ActiveInv /\ [Next]_vars => ActiveInv'
  <1> SUFFICES ASSUME CountsInv, ActiveInv, [Next]_vars
               PROVE  ActiveInv'
    OBVIOUS
  <1>1. CASE UNCHANGED vars
    BY <1>1, ActiveSame DEF vars, list, objects
  <1> QED
    BY <1>1, UserKeepsActive, ModuleKeepsActive, MonitorKeepsActive, OwnThreads DEF Next

\* With nothing listed and nobody in a put, there is nothing to count.
LEMMA NothingCounted ==
  ASSUME providers = {}, active = 0, \A u \in Users : pc[u] # "put_active"
  PROVE  ActiveInv
  <1>1. References = {} /\ Uncounting = {}
    BY DEF References, Uncounting
  <1> QED
    BY <1>1, FS_EmptySet DEF ActiveInv, ActiveMatchesRefs

\* dpusm.active is the number of references on the registered providers and
\* of puts halfway through, as long as no provider module is unloaded,
\* however gets, puts, registrations and invalidates interleave.
THEOREM ActiveTrue ==
  ASSUME Workers = {}, Removable = {}
  PROVE  Spec => []ActiveMatchesRefs
  <1>1. Init => ActiveInv
    BY NothingCounted DEF Init, Threads
  <1>2. CountsInv /\ [Next]_vars => CountsInv'
    BY CountsInductive
  <1>3. CountsInv /\ ActiveInv /\ [Next]_vars => ActiveInv'
    BY ActiveInductive
  <1>4. ActiveInv => ActiveMatchesRefs
    BY DEF ActiveInv
  <1> QED
    BY <1>1, <1>2, <1>3, <1>4, InitCounts, PTL DEF Spec

-----------------------------------------------------------------------------
(* The references on provider modules.                                     *)

\* The module of an up provider, or of none yet, is pinned once by each user
\* that holds its provider, and by nobody else.
UpPins ==
  \A m \in Modules :
    Found(m) \cap down = {} => mrefs[m] = Cardinality(Pinners(m))

\* The users that pin a module are finitely many.
LEMMA PinnersFinite ==
  ASSUME NEW m
  PROVE  IsFiniteSet(Pinners(m)) /\ Cardinality(Pinners(m)) \in Nat
  BY FS_Subset, FS_CardinalityType, ThreadsAssumption DEF Pinners

\* A step that changes neither references nor providers keeps the pins right
\* of every module whose users stay or whose provider is down.
LEMMA PinsSame ==
  ASSUME UpPins, UNCHANGED <<providers, module, mrefs>>, down \subseteq down',
         \A m \in Modules : Pinners(m)' = Pinners(m) \/ Found(m) \cap down # {}
  PROVE  UpPins'
  BY DEF UpPins, Found

\* A user's step that changes no reference on a module: it keeps what it
\* holds, or gives up a provider that is down.
LEMMA UserPins ==
  ASSUME CountsInv, UpPins, NEW u \in Users, UNCHANGED <<providers, module, mrefs, down>>,
         \A v \in Users \ {u} : pc'[v] = pc[v] /\ ptr'[v] = ptr[v],
         pc'[u] \in Holding => pc[u] \in Holding /\ ptr'[u] = ptr[u],
         pc[u] \in Holding /\ pc'[u] \notin Holding => ptr[u] \in down
  PROVE  UpPins'
  <1>1. ASSUME NEW m \in Modules, Found(m) \cap down = {}
        PROVE  Pinners(m)' = Pinners(m)
    <2>1. pc[u] \in Holding /\ module[ptr[u]] = m => ptr[u] \notin down
      BY <1>1 DEF CountsInv, WorkInv, Found
    <2> QED
      BY <2>1 DEF Pinners, Holds
  <1> QED
    BY <1>1, PinsSame

\* try_module_get adds a reference and a holder.
LEMMA FindPins ==
  ASSUME CountsInv, LeaseInv', UpPins, NEW u \in Users, NEW m \in Modules, GetFind(u, m)
  PROVE  UpPins'
  <1>0. /\ u \in Threads /\ Users \subseteq Threads /\ TypeOK
        /\ pc \in [Threads -> Labels] /\ mrefs \in [Modules -> Int]
        /\ ptr \in [Threads -> Handles \cup {NoHandle}]
    BY DEF CountsInv, LeaseInv, ListInv, TypeOK, Threads
  <1>1. /\ UNCHANGED <<providers, module, down>> /\ pc[u] = "get_find"
        /\ \A v \in Users \ {u} : pc'[v] = pc[v] /\ ptr'[v] = ptr[v]
    BY <1>0 DEF GetFind, Goto, list, objects, locals
  <1>2. CASE pc'[u] = "idle"
    <2>1. UNCHANGED mrefs
      BY <1>0, <1>2 DEF GetFind, Goto, loader
    <2> QED
      BY <1>1, <1>2, <2>1, UserPins DEF Holding
  <1>3. CASE pc'[u] # "idle"
    <2>1. /\ pc'[u] = "get_connect" /\ mrefs' = [mrefs EXCEPT ![m] = @ + 1]
          /\ ptr'[u] \in Found(m)
      BY <1>0, <1>3 DEF GetFind, Goto, ModuleGet
    <2>2. u \notin Pinners(m) /\ Pinners(m)' = Pinners(m) \cup {u}
      BY <1>1, <2>1 DEF Pinners, Holds, Holding, Found
    <2>3. \A n \in Modules \ {m} : Pinners(n)' = Pinners(n)
      BY <1>1, <2>1 DEF Pinners, Holds, Holding, Found
    <2>4. Cardinality(Pinners(m)') = Cardinality(Pinners(m)) + 1
      BY <2>2, PinnersFinite, FS_AddElement
    <2>5. mrefs'[m] = mrefs[m] + 1 /\ \A n \in Modules \ {m} : mrefs'[n] = mrefs[n]
      BY <1>0, <2>1
    <2> QED
      BY <1>1, <2>3, <2>4, <2>5 DEF UpPins, Found
  <1> QED
    BY <1>2, <1>3

\* module_put takes a reference and a holder off.
LEMMA PutPins ==
  ASSUME CountsInv, UpPins, NEW u \in Users, PutModule(u)
  PROVE  UpPins'
  <1>0. /\ u \in Threads /\ Users \subseteq Threads
        /\ pc \in [Threads -> Labels] /\ mrefs \in [Modules -> Int]
    BY DEF CountsInv, LeaseInv, ListInv, TypeOK, Threads
  <1>1. /\ UNCHANGED <<providers, module, down, ptr>>
        /\ pc[u] = "put_module" /\ pc'[u] = "put_refs"
        /\ mrefs' = [mrefs EXCEPT ![mdl[u]] = @ - 1]
        /\ \A v \in Users \ {u} : pc'[v] = pc[v]
    BY <1>0 DEF PutModule, ModulePut, Goto, list, objects, locals
  <1>2. PICK m \in Modules : m = module[ptr[u]] /\ mdl[u] = m
    BY <1>1 DEF CountsInv, LeaseInv, HoldInv, ListedPhase, Holds, Holding
  <1>3. u \in Pinners(m) /\ Pinners(m)' = Pinners(m) \ {u}
    BY <1>1, <1>2 DEF Pinners, Holds, Holding
  <1>4. \A n \in Modules \ {m} : Pinners(n)' = Pinners(n)
    BY <1>1, <1>2 DEF Pinners, Holds, Holding
  <1>5. Cardinality(Pinners(m)') = Cardinality(Pinners(m)) - 1
    BY <1>3, PinnersFinite, FS_RemoveElement
  <1>6. mrefs'[m] = mrefs[m] - 1 /\ \A n \in Modules \ {m} : mrefs'[n] = mrefs[n]
    BY <1>0, <1>1, <1>2
  <1> QED
    BY <1>1, <1>4, <1>5, <1>6 DEF UpPins, Found

\* Of a user's other steps only those that meet an invalidated provider give
\* up a hold without the reference.
LEMMA UserKeepsPins ==
  ASSUME CountsInv, LeaseInv', UpPins, NEW u \in Users, UserNext(u)
  PROVE  UpPins'
  <1>0. /\ u \in Threads /\ Users \subseteq Threads /\ pc \in [Threads -> Labels] /\ TypeOK
    BY DEF CountsInv, LeaseInv, ListInv, TypeOK, Threads
  <1>1. /\ UNCHANGED <<providers, module>>
        /\ \A v \in Users \ {u} : pc'[v] = pc[v] /\ ptr'[v] = ptr[v]
    BY <1>0, UserKeepsList
  <1>2. ASSUME UNCHANGED <<mrefs, down>>,
               pc'[u] \in Holding => pc[u] \in Holding /\ ptr'[u] = ptr[u],
               pc[u] \in Holding /\ pc'[u] \notin Holding => ptr[u] \in down
        PROVE  UpPins'
    BY <1>1, <1>2, UserPins
  <1>3. pc[u] \in Holding \cup Leaving => ptr[u] \in alive
    BY DEF CountsInv, WorkInv, LeaseInv, ListInv
  <1> USE DEF Goto, objects, locals, loader, Holding, Leaving
  <1>4. CASE StartGet(u) \/ GetLock(u) \/ StartPut(u)
    BY <1>0, <1>2, <1>4 DEF StartGet, GetLock, Acquire, StartPut
  <1>5. CASE GetConnect(u)
    BY <1>0, <1>2, <1>5 DEF GetConnect
  <1>6. CASE GetCheck(u)
    BY <1>0, <1>2, <1>3, <1>6 DEF GetCheck, Oops
  <1>7. CASE PutCheck(u)
    <2>1. pc[u] = "put_check"
      BY <1>7 DEF PutCheck, Oops, PutReturns
    <2>2. ptr[u] \in alive /\ refs[ptr[u]] # 0
      BY <2>1, HolderCounted DEF Counted
    <2> QED
      BY <1>0, <1>2, <1>7, <2>1, <2>2 DEF PutCheck
  <1>8. CASE PutRefs(u) \/ PutActive(u)
    BY <1>0, <1>2, <1>8 DEF PutRefs, PutActive, Oops
  <1>9. CASE PutFuncs(u) \/ PutHook(u)
    BY <1>0, <1>2, <1>9 DEF PutFuncs, PutHook, Oops
  <1>10. CASE PutReport(u)
    BY <1>0, <1>2, <1>10 DEF PutReport, PutReturns, Oops
  <1> QED
    BY <1>4, <1>5, <1>6, <1>7, <1>8, <1>9, <1>10, FindPins, PutPins
    DEF UserNext, GetStep, PutStep

\* A module's step moves no reference; a registration lists a provider of a
\* module that had none.
LEMMA ModuleKeepsPins ==
  ASSUME Workers = {}, Removable = {}, CountsInv, UpPins, NEW m \in Modules, ModuleNext(m, m)
  PROVE  UpPins'
  <1>0. /\ Users \subseteq Threads \ {m} /\ TypeOK
        /\ module \in [Handles -> Modules \cup {NoModule}] /\ providers \subseteq alive
    BY ThreadsAssumption DEF CountsInv, LeaseInv, ListInv, TypeOK, Threads, Callers
  <1>1. UNCHANGED mrefs /\ \A u \in Users : pc'[u] = pc[u] /\ ptr'[u] = ptr[u]
    BY <1>0, OwnThreads, ModuleKeepsUsers
  <1>2. ASSUME \A h \in providers : module'[h] = module[h]
        PROVE  \A n \in Modules : Pinners(n)' = Pinners(n)
    BY <1>1, <1>2 DEF Pinners, Holds, CountsInv, WorkInv
  <1>3. ASSUME UNCHANGED <<providers, module, down>>
        PROVE  UpPins'
    BY <1>1, <1>2, <1>3, PinsSame
  <1>4. pc[m] \in {"idle", "reg_sane", "reg_lock", "reg_find", "reg_add"}
    BY DEF CountsInv, StayInv, LeaseInv, ModulePhase
  <1> USE DEF list, objects
  <1>5. CASE StartRegister(m, m) \/ RegisterLock(m) \/ RegisterSane(m, m) \/ RegisterFind(m, m)
    BY <1>3, <1>5 DEF StartRegister, RegisterLock, Acquire, RegisterSane, RegisterFind
  <1>6. CASE RegisterAdd(m, m)
    <2>1. CASE UNCHANGED <<list, active, objects>>
      BY <1>3, <2>1
    <2>2. ASSUME NEW h \in Handles \ alive,
                 module' = [module EXCEPT ![h] = m],
                 down' = down \ {h},
                 providers' = providers \cup {h}
          PROVE  UpPins'
      <3>1. /\ module'[h] = m /\ h \notin providers
            /\ \A g \in providers : module'[g] = module[g]
        BY <1>0, <2>2
      <3>2. \A n \in Modules : Found(n)' \cap down' = {} => Found(n) \cap down = {}
        BY <2>2, <3>1 DEF Found
      <3> QED
        BY <1>1, <1>2, <3>1, <3>2 DEF UpPins
    <2> QED
      BY <1>6, <2>1, <2>2 DEF RegisterAdd
  <1>7. ~StartUnregister(m, m)
    BY DEF StartUnregister
  <1>8. ~UnregisterLock(m) /\ ~UnregisterStep(m, m)
    BY <1>4 DEF UnregisterLock, Acquire, UnregisterStep, UnregisterFind, UnregisterDrop,
                UnregisterFree, Goto
  <1> QED
    BY <1>5, <1>6, <1>7, <1>8 DEF ModuleNext, RegisterStep

\* An invalidate moves no reference either.
LEMMA MonitorKeepsPins ==
  ASSUME CountsInv, UpPins, NEW t \in Monitors, MonitorNext(t)
  PROVE  UpPins'
  <1>1. /\ UNCHANGED <<providers, module, loader, ptr>>
        /\ \A u \in Users : pc'[u] = pc[u]
    BY MonitorKeepsList, ThreadsAssumption DEF CountsInv, LeaseInv, ListInv, Threads
  <1>2. down \subseteq down'
    BY DEF MonitorNext, StartInvalidate, InvalidateLock, Acquire, InvalidateStep,
           InvalidateSet, objects
  <1>3. \A m \in Modules : Pinners(m)' = Pinners(m)
    BY <1>1 DEF Pinners, Holds
  <1> QED
    BY <1>1, <1>2, <1>3, PinsSame DEF loader

\* As long as no provider module is unloaded, the module of a provider that
\* is up is pinned by its holders and by nothing else: every path of get and
\* put gives back what it took, unless it meets an invalidated provider.
THEOREM PinsTrue ==
  ASSUME Workers = {}, Removable = {}
  PROVE  Spec => []UpPins
  <1>1. Init => UpPins
    <2> SUFFICES ASSUME Init, NEW m \in Modules
                 PROVE  mrefs[m] = Cardinality(Pinners(m))
      BY DEF UpPins
    <2>1. Pinners(m) = {}
      BY DEF Init, Pinners, Holds, Holding, Threads
    <2>2. mrefs[m] = 0
      BY DEF Init, LoaderInit
    <2> QED
      BY <2>1, <2>2, FS_EmptySet
  <1>2. CountsInv /\ [Next]_vars => CountsInv'
    BY CountsInductive
  <1>3. CountsInv /\ CountsInv' /\ UpPins /\ [Next]_vars => UpPins'
    <2> SUFFICES ASSUME CountsInv, CountsInv', UpPins, [Next]_vars
                 PROVE  UpPins'
      OBVIOUS
    <2>1. CASE UNCHANGED vars
      <3>1. \A m \in Modules : Pinners(m)' = Pinners(m)
        BY <2>1 DEF Pinners, Holds, vars, objects, locals
      <3> QED
        BY <2>1, <3>1, PinsSame DEF vars, loader, list, objects
    <2> QED
      BY <2>1, UserKeepsPins, ModuleKeepsPins, MonitorKeepsPins, OwnThreads
      DEF CountsInv, Next
  <1> QED
    BY <1>1, <1>2, <1>3, InitCounts, PTL DEF Spec

\* Without invalidations, users that hold nothing pin nothing, so that rmmod
\* would find every provider module free: the leak of a reference has an
\* invalidation as its only cause.
THEOREM NoLeakWithoutInvalidate ==
  ASSUME Workers = {}, Removable = {}, Monitors = {}
  PROVE  Spec => []IdleUsersPinNothing
  <1>1. down = {} /\ UpPins => IdleUsersPinNothing
    <2> SUFFICES ASSUME down = {}, UpPins, \A u \in Users : pc[u] = "idle", NEW m \in Modules
                 PROVE  mrefs[m] = 0
      BY DEF IdleUsersPinNothing
    <2>1. Pinners(m) = {}
      BY DEF Pinners, Holds, Holding
    <2> QED
      BY <2>1, FS_EmptySet DEF UpPins
  <1> QED
    BY <1>1, NobodyDown, PinsTrue, PTL

\* As long as no provider module is unloaded, refs covers every user that has
\* the provider, also once it is down: the decrement that lands on another
\* provider needs an unload in the middle of a put.
THEOREM HoldersCovered ==
  ASSUME Workers = {}, Removable = {}
  PROVE  Spec => []RefsCoverHolders
  <1>1. CountsInv => RefsCoverHolders
    <2> SUFFICES ASSUME CountsInv, NEW h \in providers
                 PROVE  refs[h] >= Cardinality({u \in Users :
                          ptr[u] = h /\ pc[u] \in {"get_check", "holding", "put_check"}})
      BY DEF RefsCoverHolders
    <2> DEFINE having == {u \in Users :
                 ptr[u] = h /\ pc[u] \in {"get_check", "holding", "put_check"}}
    <2>1. having \subseteq Holders(h)
      BY DEF Holders, Counted
    <2>2. /\ Cardinality(having) <= Cardinality(Holders(h))
          /\ Cardinality(having) \in Nat
      BY <2>1, HoldersFinite, FS_Subset, FS_CardinalityType
    <2>3. refs[h] \in Int /\ refs[h] >= Cardinality(Holders(h))
      BY DEF CountsInv, RefsCountHolders, LeaseInv, ListInv, TypeOK
    <2> QED
      BY <2>2, <2>3, HoldersFinite
  <1>2. CountsInv /\ [Next]_vars => CountsInv'
    BY CountsInductive
  <1> QED
    BY <1>1, <1>2, InitCounts, PTL DEF Spec

=============================================================================
