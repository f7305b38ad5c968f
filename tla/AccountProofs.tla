--------------------------- MODULE AccountProofs ---------------------------
(***************************************************************************)
(* Where the objects of the providers are, for every number of users,      *)
(* providers, handles and objects: behind one handle each, on the way to   *)
(* one, lost, or left at a provider that went down.                        *)
(***************************************************************************)
EXTENDS UserApiProofs

\* A kept handle has a live object, which is nowhere else.
KeptInv ==
  \A h \in Kept :
    /\ hnd[h].object \in Objects \ (InFlight \cup lost)
    /\ home[hnd[h].object] # NoProvider

\* No object has two handles.
OneHandleInv == \A g, h \in Kept : hnd[g].object = hnd[h].object => g = h

\* A lost object is live, and not on its way to a handle.
LostInv == \A o \in lost : o \in Objects \ InFlight /\ home[o] # NoProvider

\* Objects belong to providers on the list.
HomeInv == \A o \in Objects : home[o] # NoProvider => home[o] \in registered

\* What is nowhere else was left at a provider that is down.
LeftInv ==
  \A o \in Objects : home[o] # NoProvider /\ o \notin Behind \cup InFlight \cup lost =>
    funcs[home[o]] = NoTable

AccountInv ==
  /\ ApiInv
  /\ KeptInv
  /\ OneHandleInv
  /\ LostInv
  /\ HomeInv
  /\ LeftInv

-----------------------------------------------------------------------------
LEMMA InReleased == \A h : h \in Released <=> \E u \in Users : pc[u] = "release" /\ Arg(u) = h
  BY DEF Released

LEMMA InFlightIs == \A o : o \in InFlight <=> \E u \in Users : pc[u] = "build" /\ call[u].made = o
  BY DEF InFlight

LEMMA AccountInitially == Init => AccountInv
  <1> SUFFICES ASSUME Init PROVE AccountInv
    OBVIOUS
  <1>1. ApiInv
    BY ApiInitially
  <1>2. Kept = {} /\ lost = {} /\ \A o \in Objects : home[o] = NoProvider
    BY DEF Init, Kept
  <1> QED
    BY <1>1, <1>2 DEF AccountInv, KeptInv, OneHandleInv, LostInv, HomeInv, LeftInv

\* The invariant says what ObjectsAccounted asks for.
LEMMA AccountMeans == AccountInv => ObjectsAccounted
  <1> SUFFICES ASSUME AccountInv PROVE ObjectsAccounted
    OBVIOUS
  <1> USE DEF AccountInv
  <1>1. Behind \subseteq Objects /\ \A o \in Behind : home[o] # NoProvider
    BY DEF Behind, KeptInv
  <1>2. Behind \cap (InFlight \cup lost) = {}
    BY DEF Behind, KeptInv
  <1>3. \A o \in InFlight : o \in Objects /\ home[o] # NoProvider
    BY InFlightIs, ProvidersAssumption
    DEF ApiInv, ApiTypes, EndsOK, BuildOK, CallsOK, CallOK
  <1> QED
    BY <1>1, <1>2, <1>3
    DEF ObjectsAccounted, Behind, Kept, Released, LostInv, OneHandleInv, LeftInv

-----------------------------------------------------------------------------
\* A step that touches neither objects nor handles nor the ends of calls.
LEMMA AccountSame ==
  ASSUME AccountInv, UNCHANGED <<registered, funcs, hnd, used, home, lost>>,
         \A v \in Users : /\ pc'[v] = "release" <=> pc[v] = "release"
                          /\ pc'[v] = "build" <=> pc[v] = "build"
                          /\ pc[v] \in {"release", "build"} => call'[v] = call[v],
         ApiInv'
  PROVE  AccountInv'
  <1>1. \A h : h \in Released' <=> h \in Released
    BY InReleased DEF Released, Arg
  <1>2. \A o : o \in InFlight' <=> o \in InFlight
    BY InFlightIs DEF InFlight
  <1>3. Kept' = Kept /\ Behind' = Behind
    BY <1>1 DEF Kept, Behind
  <1> QED
    BY <1>2, <1>3 DEF AccountInv, KeptInv, OneHandleInv, LostInv, HomeInv, LeftInv

\* A step of the registry.
LEMMA RegistryAccounts ==
  ASSUME AccountInv, NEW p \in Providers, Register(p) \/ InvalidateFuncs(p) \/ InvalidateCaps(p),
         ApiInv'
  PROVE  AccountInv'
  <1>1. UNCHANGED <<hnd, used, home, lost, mine, pc, call>>
    BY DEF Register, InvalidateFuncs, InvalidateCaps, memory
  <1>2. registered \subseteq registered'
    BY DEF Register, InvalidateFuncs, InvalidateCaps
  <1>3. \A q \in registered : funcs[q] = NoTable => funcs'[q] = NoTable
    BY DEF Register, InvalidateFuncs, InvalidateCaps, AccountInv, ApiInv, ApiTypes
  <1>4. UNCHANGED <<Released, Kept, Behind, InFlight>>
    BY <1>1 DEF Released, Kept, Behind, InFlight, Arg
  <1> QED
    BY <1>1, <1>2, <1>3, <1>4
    DEF AccountInv, KeptInv, OneHandleInv, LostInv, HomeInv, LeftInv

\* The handle that a running call ends is kept.
LEMMA ArgKept ==
  ASSUME ApiInv, NEW u \in Users, Running(u), call[u].op.ends
  PROVE  /\ Arg(u) \in Kept
         /\ hnd[Arg(u)].object \in Objects
         /\ home[hnd[Arg(u)].object] = Prov(u)
         /\ Prov(u) \in Providers
  <1>1. CallOK(u) /\ ArgsOK(u) /\ RowOK(call[u].op)
    BY Rows DEF ApiInv, CallsOK, CallOK, Running
  <1>2. Arg(u) \in Reach(u)
    BY <1>1, ReachOf DEF ApiInv
  <1>3. 1 \in DOMAIN call[u].args
    BY <1>1 DEF CallOK, Running, RowOK
  <1>4. Holds(Arg(u)) /\ hnd[Arg(u)].provider = Prov(u)
    BY <1>1, <1>2, <1>3 DEF ApiInv, HandlesHold, ArgsOK
  <1>5. Arg(u) \notin Released
    BY <1>2, InReleased DEF ApiInv, EndsOK, ReleaseOK
  <1> QED
    BY <1>4, <1>5 DEF Kept, Holds

\* The call goes on to the end of its handle, with or without the object.
LEMMA ReleasedNext ==
  ASSUME ApiInv, NEW u \in Users, Running(u), call[u].op.ends,
         pc' = [pc EXCEPT ![u] = "release"], UNCHANGED <<hnd, used, call>>
  PROVE  /\ Kept' = Kept \ {Arg(u)}
         /\ InFlight' = InFlight
  <1>1. pc'[u] = "release" /\ \A v \in Users \ {u} : pc'[v] = pc[v]
    BY DEF ApiInv, ApiTypes
  <1>2. \A h : h \in Released' <=> h \in Released \cup {Arg(u)}
    BY <1>1, InReleased DEF Released, Arg, Running
  <1>3. \A o : o \in InFlight' <=> o \in InFlight
    BY <1>1, InFlightIs DEF InFlight, Running
  <1> QED
    BY <1>2, <1>3 DEF Kept

\* dpusm_free at a provider that is down leaves the object behind.
LEMMA DropAccounts ==
  ASSUME AccountInv, NEW u \in Users, NEW from, Running(u), call[u].op.ends,
         Funcs(u) = NoTable, Advance(u, from, "release"), ApiInv'
  PROVE  AccountInv'
  <1> DEFINE o == hnd[Arg(u)].object
  <1>1. /\ UNCHANGED <<registered, funcs, hnd, used, home, lost, call>>
        /\ pc' = [pc EXCEPT ![u] = "release"]
    BY DEF Advance, Goto, tables, memory
  <1>2. Kept' = Kept \ {Arg(u)} /\ InFlight' = InFlight
    BY <1>1, ReleasedNext DEF AccountInv
  <1>3. home[o] = Prov(u) /\ funcs[home[o]] = NoTable
    BY ArgKept DEF AccountInv, Funcs
  <1>4. Behind \subseteq Behind' \cup {o}
    BY <1>1, <1>2 DEF Behind
  <1>5. LeftInv'
    BY <1>1, <1>2, <1>3, <1>4 DEF AccountInv, LeftInv
  <1> QED
    BY <1>1, <1>2, <1>5 DEF AccountInv, KeptInv, OneHandleInv, LostInv, HomeInv

\* The provider frees the object.
LEMMA EndAccounts ==
  ASSUME AccountInv, NEW u \in Users, Running(u), Goto(u, "call", "release"), call[u].op.ends,
         home' = [home EXCEPT ![hnd[Arg(u)].object] = NoProvider],
         UNCHANGED <<tables, hnd, used, lost, mine, call>>, ApiInv'
  PROVE  AccountInv'
  <1> USE DEF AccountInv
  <1> DEFINE o == hnd[Arg(u)].object
  <1>1. /\ UNCHANGED <<registered, funcs, hnd, used, lost, call>>
        /\ pc' = [pc EXCEPT ![u] = "release"]
    BY DEF Goto, tables
  <1>2. Kept' = Kept \ {Arg(u)} /\ InFlight' = InFlight
    BY <1>1, ReleasedNext
  <1>3. Arg(u) \in Kept /\ o \in Objects
    BY ArgKept
  <1>4. home'[o] = NoProvider /\ \A x \in Objects \ {o} : home'[x] = home[x]
    BY <1>3 DEF ApiInv, ApiTypes
  <1>5. \A h \in Kept' : hnd[h].object # o
    BY <1>2, <1>3 DEF OneHandleInv
  <1>6. KeptInv' /\ OneHandleInv'
    BY <1>1, <1>2, <1>4, <1>5 DEF KeptInv, OneHandleInv
  <1>7. o \notin lost
    BY <1>3 DEF KeptInv
  <1>8. LostInv' /\ HomeInv'
    BY <1>1, <1>2, <1>4, <1>7 DEF LostInv, HomeInv
  <1>9. Behind \subseteq Behind' \cup {o}
    BY <1>1, <1>2 DEF Behind
  <1>10. LeftInv'
    BY <1>1, <1>2, <1>4, <1>9 DEF LeftInv
  <1> QED
    BY <1>6, <1>8, <1>10

\* The provider fails to free the object, which is lost with its handle.
LEMMA FailAccounts ==
  ASSUME AccountInv, NEW u \in Users, Running(u), Goto(u, "call", "release"), call[u].op.ends,
         lost' = lost \cup {hnd[Arg(u)].object},
         UNCHANGED <<tables, hnd, used, home, mine, call>>, ApiInv'
  PROVE  AccountInv'
  <1> USE DEF AccountInv
  <1> DEFINE o == hnd[Arg(u)].object
  <1>1. /\ UNCHANGED <<registered, funcs, hnd, used, home, call>>
        /\ pc' = [pc EXCEPT ![u] = "release"]
    BY DEF Goto, tables
  <1>2. Kept' = Kept \ {Arg(u)} /\ InFlight' = InFlight
    BY <1>1, ReleasedNext
  <1>3. Arg(u) \in Kept /\ o \in Objects
    BY ArgKept
  <1>4. o \notin InFlight /\ home[o] # NoProvider
    BY <1>3 DEF KeptInv
  <1>5. \A h \in Kept' : hnd[h].object # o
    BY <1>2, <1>3 DEF OneHandleInv
  <1>6. KeptInv' /\ OneHandleInv'
    BY <1>1, <1>2, <1>5 DEF KeptInv, OneHandleInv
  <1>7. LostInv' /\ HomeInv'
    BY <1>1, <1>2, <1>3, <1>4 DEF LostInv, HomeInv
  <1>8. Behind \subseteq Behind' \cup {o}
    BY <1>1, <1>2 DEF Behind
  <1>9. LeftInv'
    BY <1>1, <1>2, <1>8 DEF LeftInv
  <1> QED
    BY <1>6, <1>7, <1>9

\* The provider makes an object, which is on its way to a handle.
LEMMA MakeAccounts ==
  ASSUME AccountInv, NEW u \in Users, Running(u), Goto(u, "call", "build"),
         NEW o \in Objects, home[o] = NoProvider,
         home' = [home EXCEPT ![o] = Prov(u)],
         call' = [call EXCEPT ![u].made = o],
         UNCHANGED <<tables, hnd, used, lost, mine>>, ApiInv'
  PROVE  AccountInv'
  <1> USE DEF AccountInv
  <1>1. /\ UNCHANGED <<registered, funcs, hnd, used, lost>>
        /\ pc' = [pc EXCEPT ![u] = "build"]
    BY DEF Goto, tables
  <1>2. /\ pc[u] \notin {"build", "release"} /\ pc'[u] = "build" /\ call'[u].made = o
        /\ \A v \in Users \ {u} : pc'[v] = pc[v] /\ call'[v] = call[v]
    BY <1>1 DEF ApiInv, ApiTypes, CallRecords, Running
  <1>3. \A h : h \in Released' <=> h \in Released
    BY <1>2, InReleased DEF Released, Arg
  <1>4. \A x : x \in InFlight' <=> x \in InFlight \cup {o}
    BY <1>2, InFlightIs DEF InFlight
  <1>5. Kept' = Kept /\ Behind' = Behind
    BY <1>1, <1>3 DEF Kept, Behind
  <1>6. Prov(u) \in registered /\ Prov(u) \in Providers
    BY DEF ApiInv, ApiTypes, CallsOK, CallOK, Running
  <1>7. home'[o] = Prov(u) /\ \A x \in Objects \ {o} : home'[x] = home[x]
    BY DEF ApiInv, ApiTypes
  <1>8. KeptInv' /\ OneHandleInv'
    BY <1>1, <1>4, <1>5, <1>7 DEF KeptInv, OneHandleInv
  <1>9. LostInv' /\ HomeInv'
    BY <1>1, <1>4, <1>6, <1>7 DEF LostInv, HomeInv
  <1>10. LeftInv'
    BY <1>1, <1>4, <1>5, <1>7 DEF LeftInv
  <1> QED
    BY <1>8, <1>9, <1>10

\* The object gets its handle, or is lost.
LEMMA BuildAccounts ==
  ASSUME AccountInv, NEW u \in Users, Build(u), ApiInv'
  PROVE  AccountInv'
  <1> USE DEF AccountInv
  <1> DEFINE o == call[u].made
  <1>1. /\ UNCHANGED <<registered, funcs, home>>
        /\ pc[u] = "build"
        /\ pc' = [pc EXCEPT ![u] = "idle"]
        /\ call' = [call EXCEPT ![u] = NoCall]
    BY DEF Build, Goto, tables
  <1>2. /\ pc'[u] = "idle"
        /\ \A v \in Users \ {u} : pc'[v] = pc[v] /\ call'[v] = call[v]
    BY <1>1 DEF ApiInv, ApiTypes
  <1>3. BuildOK(u) /\ CallOK(u) /\ Prov(u) \in Providers
    BY <1>1 DEF ApiInv, ApiTypes, EndsOK, CallsOK, CallOK
  <1>4. o \in Objects /\ home[o] # NoProvider /\ o \in InFlight
    BY <1>1, <1>3, InFlightIs, ProvidersAssumption DEF BuildOK
  <1>5. \A x : x \in InFlight' <=> x \in InFlight \ {o}
    BY <1>1, <1>2, <1>3, InFlightIs DEF InFlight, BuildOK
  <1>6. \A h : h \in Released' <=> h \in Released
    BY <1>1, <1>2, InReleased DEF Released, Arg
  <1>7. CASE lost' = lost \cup {o} /\ UNCHANGED <<hnd, used, mine>>
    <2>1. Kept' = Kept /\ Behind' = Behind
      BY <1>6, <1>7 DEF Kept, Behind
    <2>2. KeptInv' /\ OneHandleInv'
      BY <1>1, <1>4, <1>5, <1>7, <2>1 DEF KeptInv, OneHandleInv
    <2>3. LostInv' /\ HomeInv'
      BY <1>1, <1>4, <1>5, <1>7 DEF LostInv, HomeInv
    <2>4. LeftInv'
      BY <1>1, <1>5, <1>7, <2>1 DEF LeftInv
    <2> QED
      BY <2>2, <2>3, <2>4
  <1>8. ASSUME NEW h \in Handles \ used,
               used' = used \cup {h},
               hnd' = [hnd EXCEPT ![h] = [provider |-> Prov(u), kind |-> call[u].op.makes,
                                          object |-> o]],
               lost' = lost
        PROVE  AccountInv'
    <2>1. hnd'[h].object = o /\ \A g \in Handles \ {h} : hnd'[g] = hnd[g]
      BY <1>8 DEF ApiInv, ApiTypes
    <2>2. h \notin Released
      BY InReleased DEF ApiInv, EndsOK, ReleaseOK
    <2>3. Kept' = Kept \cup {h} /\ Kept \subseteq Handles \ {h}
      BY <1>6, <1>8, <2>2 DEF Kept, ApiInv, ApiTypes
    <2>4. \A g \in Kept : hnd'[g] = hnd[g] /\ hnd[g].object # o
      BY <1>4, <2>1, <2>3 DEF KeptInv
    <2>5. KeptInv'
      BY <1>1, <1>4, <1>5, <1>8, <2>1, <2>3, <2>4 DEF KeptInv, LostInv
    <2>6. OneHandleInv'
      BY <2>1, <2>3, <2>4 DEF OneHandleInv
    <2>7. LostInv' /\ HomeInv'
      BY <1>1, <1>5, <1>8 DEF LostInv, HomeInv
    <2>8. Behind \cup {o} \subseteq Behind'
      BY <2>1, <2>3, <2>4 DEF Behind
    <2>9. LeftInv'
      BY <1>1, <1>5, <1>8, <2>8 DEF LeftInv
    <2> QED
      BY <2>5, <2>6, <2>7, <2>9
  <1> QED
    BY <1>7, <1>8 DEF Build

\* The handle goes; its object has gone, or was left, before.
LEMMA ReleaseAccounts ==
  ASSUME AccountInv, NEW u \in Users, Release(u), ApiInv'
  PROVE  AccountInv'
  <1> USE DEF AccountInv
  <1>1. /\ UNCHANGED <<registered, funcs, home, lost>>
        /\ pc[u] = "release"
        /\ pc' = [pc EXCEPT ![u] = "idle"]
        /\ call' = [call EXCEPT ![u] = NoCall]
        /\ used' = used \ {Arg(u)}
        /\ hnd' = [hnd EXCEPT ![Arg(u)] = NoEntry]
    BY DEF Release, Goto, tables
  <1>2. /\ pc'[u] = "idle"
        /\ \A v \in Users \ {u} : pc'[v] = pc[v] /\ call'[v] = call[v]
    BY <1>1 DEF ApiInv, ApiTypes
  <1>3. ReleaseOK(u) /\ Arg(u) \in Released
    BY <1>1, InReleased DEF ApiInv, EndsOK
  <1>4. \A h : h \in Released' <=> h \in Released \ {Arg(u)}
    BY <1>1, <1>2, <1>3, InReleased DEF Released, Arg, ReleaseOK
  <1>5. \A o : o \in InFlight' <=> o \in InFlight
    BY <1>1, <1>2, InFlightIs DEF InFlight
  <1>6. Kept' = Kept /\ \A h \in Kept : hnd'[h] = hnd[h]
    BY <1>1, <1>3, <1>4 DEF Kept, ApiInv, ApiTypes
  <1>7. Behind' = Behind
    BY <1>6 DEF Behind
  <1> QED
    BY <1>1, <1>5, <1>6, <1>7 DEF KeptInv, OneHandleInv, LostInv, HomeInv, LeftInv

-----------------------------------------------------------------------------
\* Looking at things, and coming back, leaves everything where it is.
LEMMA LookAccounts ==
  ASSUME AccountInv, NEW u \in Users, NEW from, Running(u), ApiInv',
         \/ \E to \in Labels \ {"build", "release"} : Advance(u, from, to)
         \/ Return(u, from)
  PROVE  AccountInv'
  <1>1. UNCHANGED <<registered, funcs, hnd, used, home, lost>>
    BY DEF Advance, Return, tables, memory
  <1>2. /\ pc[u] \notin {"build", "release"} /\ pc'[u] \notin {"build", "release"}
        /\ \A v \in Users \ {u} : pc'[v] = pc[v] /\ call'[v] = call[v]
    BY DEF Advance, Return, Goto, AccountInv, ApiInv, ApiTypes, Running
  <1> QED
    BY <1>1, <1>2, AccountSame

LEMMA StartAccounts ==
  ASSUME AccountInv, NEW u \in Users, StartCall(u), ApiInv'
  PROVE  AccountInv'
  <1>1. UNCHANGED <<registered, funcs, hnd, used, home, lost>>
    BY DEF StartCall, tables, memory
  <1>2. /\ pc[u] = "idle" /\ pc'[u] = "sane"
        /\ \A v \in Users \ {u} : pc'[v] = pc[v] /\ call'[v] = call[v]
    BY DEF StartCall, Goto, AccountInv, ApiInv, ApiTypes
  <1> QED
    BY <1>1, <1>2, AccountSame

\* A step of the call of user u.
LEMMA StepAccounts ==
  ASSUME AccountInv, NEW u \in Users, Step(u), ApiInv'
  PROVE  AccountInv'
  <1> DEFINE op == call[u].op
  <1>1. CASE Sane(u)
    <2>1. Running(u) /\ RowOK(op)
      BY <1>1, Rows DEF Sane, Running, AccountInv, ApiInv, CallsOK, CallOK
    <2>2. CASE Return(u, "sane")
      BY <2>1, <2>2, LookAccounts
    <2>3. CASE Funcs(u) = NoTable /\ op.slot = "free" /\ Advance(u, "sane", "release")
      BY <1>1, <2>1, <2>3, DropAccounts DEF RowOK
    <2>4. CASE Advance(u, "sane", AfterSane(op))
      <3>1. AfterSane(op) \in Labels \ {"build", "release"}
        BY DEF AfterSane, Labels
      <3> QED
        BY <2>1, <2>4, <3>1, LookAccounts
    <2> QED
      BY <1>1, <2>2, <2>3, <2>4 DEF Sane
  <1>2. CASE Test(u)
    <2>1. Running(u) /\ {"oops", "needs"} \subseteq Labels \ {"build", "release"}
      BY <1>2 DEF Test, Running, Labels
    <2> QED
      BY <1>2, <2>1, LookAccounts DEF Test
  <1>3. CASE CheckNeeds(u)
    <2>1. Running(u) /\ {"match", "call"} \subseteq Labels \ {"build", "release"}
      BY <1>3 DEF CheckNeeds, Running, Labels
    <2>2. (IF op.late THEN "match" ELSE "call") \in {"match", "call"}
      OBVIOUS
    <2> QED
      BY <1>3, <2>1, <2>2, LookAccounts DEF CheckNeeds
  <1>4. CASE Match(u)
    <2>1. Running(u) /\ "call" \in Labels \ {"build", "release"}
      BY <1>4 DEF Match, Running, Labels
    <2> QED
      BY <1>4, <2>1, LookAccounts DEF Match
  <1>5. CASE Call(u)
    <2>1. Running(u)
      BY <1>5 DEF Call, Running
    <2>2. CASE Advance(u, "call", "oops") \/ Return(u, "call")
      BY <2>1, <2>2, LookAccounts DEF Labels
    <2>3. CASE /\ Goto(u, "call", "build")
               /\ \E o \in Objects :
                    /\ home[o] = NoProvider
                    /\ home' = [home EXCEPT ![o] = Prov(u)]
                    /\ call' = [call EXCEPT ![u].made = o]
               /\ UNCHANGED <<tables, hnd, used, lost, mine>>
      BY <2>1, <2>3, MakeAccounts
    <2>4. CASE /\ op.ends
               /\ Goto(u, "call", "release")
               /\ home' = [home EXCEPT ![hnd[Arg(u)].object] = NoProvider]
               /\ UNCHANGED <<tables, hnd, used, lost, mine, call>>
      BY <2>1, <2>4, EndAccounts
    <2>5. CASE /\ op.ends
               /\ Goto(u, "call", "release")
               /\ lost' = lost \cup {hnd[Arg(u)].object}
               /\ UNCHANGED <<tables, hnd, used, home, mine, call>>
      BY <2>1, <2>5, FailAccounts
    <2> QED
      BY <1>5, <2>2, <2>3, <2>4, <2>5 DEF Call
  <1>6. CASE Build(u)
    BY <1>6, BuildAccounts
  <1>7. CASE Release(u)
    BY <1>7, ReleaseAccounts
  <1> QED
    BY <1>1, <1>2, <1>3, <1>4, <1>5, <1>6, <1>7 DEF Step

LEMMA AccountInvariant == Spec => []AccountInv
  <1>1. ASSUME AccountInv, [Next]_vars PROVE AccountInv'
    <2>1. ApiInv'
      BY <1>1, RegistryKeeps, StartKeeps, StepKeeps, ApiStuttering DEF AccountInv, Next
    <2>2. CASE UNCHANGED vars
      BY <1>1, <2>1, <2>2, AccountSame DEF vars, tables, memory
    <2> QED
      BY <1>1, <2>1, <2>2, RegistryAccounts, StartAccounts, StepAccounts DEF Next
  <1> QED
    BY AccountInitially, <1>1, PTL DEF Spec

\* However calls of any number of users fail half way, the provider's own
\* free included, and whenever their provider goes down: an object has one
\* handle, is about to get it, was lost (no memory for a handle, or the
\* provider failed to free it), or was left at a provider that is down.
THEOREM ObjectsAreAccounted == Spec => []ObjectsAccounted
  BY AccountMeans, AccountInvariant, PTL

=============================================================================
