--------------------------- MODULE ExampleProofs ---------------------------
(***************************************************************************)
(* The users' data on its way through the API and the example provider,    *)
(* for every number of users, providers, handles, objects and buffers.     *)
(***************************************************************************)
EXTENDS ExampleProvider, AccountProofs, StrayProofs, FiniteSetTheorems

\* The alloc_t behind a handle.
At(h) == alloc[hnd[h].object]

ExampleTypes ==
  /\ DOMAIN alloc = Objects
  /\ buffers \subseteq Buffers
  /\ DOMAIN contents = Buffers
  /\ root \in [Handles -> Handles]
  /\ DOMAIN expected = Handles

\* What owns a buffer is live, and the buffer allocated and owned once.
OwnersInv ==
  /\ \A o \in Owners : home[o] # NoProvider /\ alloc[o].ptr \in buffers
  /\ \A b \in buffers : \E o \in Owners : alloc[o].ptr = b
  /\ \A o, q \in Owners : alloc[o].ptr = alloc[q].ptr => o = q

\* What a live object points to is owned by an object of the same provider.
SourceInv ==
  \A o \in Objects \ lost : home[o] # NoProvider =>
    \E q \in Owners : alloc[q].ptr = alloc[o].ptr /\ home[q] = home[o]

\* A user's handle shares the buffer of its root, an owner that the user has.
RootOK(u, h) ==
  /\ root[h] \in Reach(u)
  /\ hnd[root[h]].object \in Owners
  /\ At(root[h]).ptr = At(h).ptr
RootInv == \A u \in Users : \A h \in Reach(u) : RootOK(u, h)

\* The objects of a provider that is up are on their way to a handle, behind
\* a handle in reach, or lost.
UpInv ==
  \A o \in Objects \ lost : home[o] # NoProvider /\ funcs[home[o]] # NoTable =>
    o \in InFlight \/ \E u \in Users : \E h \in Reach(u) : hnd[h].object = o

\* What a call has made refers to what it was given, or owns its buffer; a
\* handle is given up after all that was made of it.
WorkOK(u) ==
  /\ pc[u] # "idle" => call[u].op.slot \in ExampleFunctions
  /\ pc[u] = "build" =>
       \/ call[u].op = Alloc /\ call[u].made \in Owners
       \/ /\ call[u].op = AllocRef /\ Arg(u) \in mine[u]
          /\ alloc[call[u].made].ptr = At(Arg(u)).ptr
  /\ Running(u) /\ call[u].op.ends => \A h \in mine[u] : root[h] # Arg(u)
WorksInv == \A u \in Users : WorkOK(u)

\* What the user wrote is what it will read.
ContentsInv ==
  \A u \in Users : \A h \in Reach(u) :
    expected[root[h]] # Unknown => contents[At(h).ptr] = expected[root[h]]

ExampleInv ==
  /\ ExampleTypes
  /\ OwnersInv
  /\ SourceInv
  /\ RootInv
  /\ UpInv
  /\ WorksInv
  /\ ContentsInv

-----------------------------------------------------------------------------
\* What is known of the API below: its own invariants.
Known == AccountInv /\ StrayInv /\ ExampleInv

\* Every step is one of the API, or none.
LEMMA ExampleSteps ==
  /\ ExampleInit => Init
  /\ [ExampleNext]_exampleVars => [Next]_vars
  <1>1. ASSUME NEW p \in Providers, Registers(p) \/ GoesDown(p) PROVE Next
    BY <1>1 DEF Registers, GoesDown, Next
  <1>2. ASSUME NEW u \in Users,
               Starts(u) \/ Checks(u) \/ CallsExample(u) \/ Builds(u) \/ Releases(u)
        PROVE  Next
    BY <1>2 DEF Starts, Checks, CallsExample, Builds, Releases, Next, Step
  <1> QED
    BY <1>1, <1>2 DEF ExampleInit, ExampleNext, exampleVars

\* Only dpusm_free calls the provider's free, and it alone ends a handle here.
LEMMA FreeRow == \A op \in Operations : op.slot = "free" => op = FreeMem
  <1> USE DEF Row, Makes, Ends, Needs
  <1>1. \A op \in {Alloc, AllocRef, GetSize, AssociateHandle,
                   CopyFromGeneric, CopyToGeneric, CopyFromPtr, CopyToPtr,
                   CopyFromScatterlist, CopyToScatterlist, MemStats, ZeroFill, AllZeros} :
          op.slot # "free"
    BY DEF Alloc, AllocRef, GetSize, AssociateHandle, CopyFromGeneric, CopyToGeneric,
      CopyFromPtr, CopyToPtr, CopyFromScatterlist, CopyToScatterlist, MemStats, ZeroFill,
      AllZeros
  <1>2. \A op \in {RaidCanCompute, RaidSetColumn, RaidFree, RaidGenerate, RaidCompare,
                   RaidReconstruct, FileOpen, FileWrite, FileClose,
                   DiskOpen, DiskInvalidate, DiskWrite, DiskFlush, DiskClose} :
          op.slot # "free"
    BY DEF RaidCanCompute, RaidSetColumn, RaidFree, RaidGenerate, RaidCompare,
      RaidReconstruct, FileOpen, FileWrite, FileClose, DiskOpen, DiskInvalidate, DiskWrite,
      DiskFlush, DiskClose
  <1>3. \A alg, order : /\ Compress(alg).slot # "free" /\ Decompress(alg).slot # "free"
                        /\ Checksum(alg, order).slot # "free" /\ RaidAlloc(alg).slot # "free"
    BY DEF Compress, Decompress, Checksum, RaidAlloc
  <1> QED
    BY <1>1, <1>2, <1>3 DEF Operations

LEMMA EndsFree ==
  ASSUME NEW op \in Operations, op.ends, op.slot \in ExampleFunctions
  PROVE  op = FreeMem
  <1>1. PICK kind \in Kinds : op.slot = CloseSlot[kind]
    BY RowKinds DEF EndingRow
  <1>2. op.slot = "free"
    BY <1>1 DEF ExampleFunctions, CloseSlot, Kinds
  <1> QED
    BY <1>2, FreeRow

\* What a user gives up leaves it the roots of all that it keeps.
LEMMA RootsStay ==
  ASSUME Known, NEW u \in Users, Running(u)
  PROVE  \A h \in mine[u] : root[h] \in mine[u]
  <1>1. \A h \in mine[u] : root[h] \in Reach(u)
    BY DEF Reach, Known, ExampleInv, RootInv, RootOK
  <1>2. CallOK(u) /\ WorkOK(u)
    BY DEF Known, ExampleInv, WorksInv, AccountInv, ApiInv, CallsOK
  <1> QED
    BY <1>1, <1>2 DEF Reach, WorkOK

\* A step of user u that changes no memory but what is in the buffers.
LEMMA QuietKeeps ==
  ASSUME Known, NEW u \in Users,
         UNCHANGED <<registered, funcs, hnd, used, home, lost, alloc, buffers, root>>,
         DOMAIN contents' = Buffers, DOMAIN expected' = Handles, ContentsInv',
         \A v \in Users \ {u} : pc'[v] = pc[v] /\ call'[v] = call[v] /\ mine'[v] = mine[v],
         pc[u] # "build", pc'[u] # "build",
         Reach(u)' \subseteq Reach(u),
         \A h \in Reach(u) \ Reach(u)' : funcs[home[hnd[h].object]] = NoTable,
         \A h \in Reach(u)' : root[h] \in Reach(u)',
         WorkOK(u)'
  PROVE  ExampleInv'
  <1> USE DEF Known, ExampleInv
  <1>1. \A v \in Users \ {u} : Reach(v)' = Reach(v)
    BY DEF Reach, Running, Arg
  <1>2. \A o : o \in InFlight' <=> o \in InFlight
    BY InFlightIs DEF InFlight
  <1>3. ExampleTypes' /\ OwnersInv' /\ SourceInv'
    BY DEF ExampleTypes, OwnersInv, SourceInv, Owners
  <1>4. RootInv'
    BY <1>1 DEF RootInv, RootOK, Owners, At
  <1>5. UpInv'
    BY <1>1, <1>2 DEF UpInv
  <1>6. ASSUME NEW v \in Users, v # u PROVE WorkOK(v)'
    BY <1>6 DEF WorksInv, WorkOK, Owners, At, Arg, Running
  <1> QED
    BY <1>3, <1>4, <1>5, <1>6 DEF WorksInv

\* A step of the registry.
LEMMA TablesKeep ==
  ASSUME Known, NEW p \in Providers, Register(p) \/ InvalidateFuncs(p) \/ InvalidateCaps(p),
         UNCHANGED <<provider, view>>
  PROVE  ExampleInv'
  <1> USE DEF Known, ExampleInv
  <1>1. UNCHANGED <<hnd, used, home, lost, mine, pc, call, alloc, buffers, contents, root, expected>>
    BY DEF Register, InvalidateFuncs, InvalidateCaps, memory, provider, view
  <1>2. \A q \in registered : funcs'[q] \in {funcs[q], NoTable}
    BY DEF Register, InvalidateFuncs, InvalidateCaps, StrayInv, ApiInv, ApiTypes
  <1>3. \A v \in Users : Reach(v)' = Reach(v)
    BY <1>1 DEF Reach, Running, Arg
  <1>4. InFlight' = InFlight
    BY <1>1 DEF InFlight
  <1>5. ExampleTypes' /\ OwnersInv' /\ SourceInv'
    BY <1>1 DEF ExampleTypes, OwnersInv, SourceInv, Owners
  <1>6. RootInv' /\ ContentsInv'
    BY <1>1, <1>3 DEF RootInv, RootOK, Owners, At, ContentsInv
  <1>7. UpInv'
    BY <1>1, <1>2, <1>3, <1>4 DEF UpInv, AccountInv, HomeInv
  <1>8. WorksInv'
    BY <1>1 DEF WorksInv, WorkOK, Owners, At, Arg, Running
  <1> QED
    BY <1>5, <1>6, <1>7, <1>8

\* A call goes on or comes back.
LEMMA LookKeeps ==
  ASSUME Known, NEW u \in Users, NEW to \in Labels \ {"build"}, Running(u),
         UNCHANGED <<registered, funcs, hnd, used, home, lost, mine, alloc, buffers, root>>,
         DOMAIN contents' = Buffers, DOMAIN expected' = Handles,
         UNCHANGED <<contents, expected>> \/ ContentsInv',
         pc' = [pc EXCEPT ![u] = to],
         \A v \in Users \ {u} : call'[v] = call[v],
         to # "idle" => call'[u] = call[u],
         \/ ~call[u].op.ends
         \/ Funcs(u) = NoTable
         \/ to \in {"test", "needs", "match", "call"}
  PROVE  ExampleInv'
  <1> USE DEF Known, ExampleInv
  <1>1. pc'[u] = to /\ \A v \in Users \ {u} : pc'[v] = pc[v]
    BY DEF StrayInv, ApiInv, ApiTypes
  <1>2. CallOK(u) /\ WorkOK(u)
    BY DEF WorksInv, AccountInv, ApiInv, CallsOK
  <1>3. mine[u] \subseteq Reach(u) /\ Reach(u)' \subseteq Reach(u) /\ mine[u] \subseteq Reach(u)'
    BY <1>1 DEF Reach, Running, Arg
  <1>4. CASE Running(u)' \/ ~call[u].op.ends
    <2>1. Reach(u)' = Reach(u)
      BY <1>1, <1>4 DEF Reach, Running, Arg
    <2>2. \A h \in Reach(u)' : root[h] \in Reach(u)'
      BY <2>1 DEF RootInv, RootOK
    <2>3. UNCHANGED <<contents, expected>> => ContentsInv'
      <3>1. \A v \in Users : Reach(v)' = Reach(v)
        BY <1>1, <2>1 DEF Reach, Running, Arg
      <3> QED
        BY <3>1 DEF ContentsInv, At
    <2>4. WorkOK(u)'
      BY <1>1, <1>2 DEF WorkOK, Running, Arg
    <2> QED
      BY <1>1, <2>1, <2>2, <2>3, <2>4, QuietKeeps DEF Running
  <1>5. CASE ~Running(u)' /\ call[u].op.ends
    <2>1. Reach(u)' = mine[u] /\ Reach(u) \subseteq mine[u] \cup {Arg(u)}
      BY <1>1, <1>5 DEF Reach, Running
    <2>2. \A h \in Reach(u)' : root[h] \in Reach(u)'
      BY <2>1, RootsStay
    <2>3. Funcs(u) = NoTable
      BY <1>1, <1>5 DEF Running
    <2>4. \A h \in Reach(u) \ Reach(u)' : funcs[home[hnd[h].object]] = NoTable
      BY <1>5, <2>1, <2>3, ArgKept DEF AccountInv, Funcs
    <2>5. UNCHANGED <<contents, expected>> => ContentsInv'
      <3>1. \A v \in Users : Reach(v)' \subseteq Reach(v)
        BY <1>1, <1>3 DEF Reach, Running, Arg
      <3> QED
        BY <3>1 DEF ContentsInv, At
    <2>6. WorkOK(u)'
      <3>1. pc'[u] # "build" /\ (pc'[u] # "idle" => pc[u] # "idle" /\ call'[u] = call[u])
        BY <1>1 DEF Running
      <3> QED
        BY <1>2, <1>5, <3>1 DEF WorkOK
    <2> QED
      BY <1>1, <1>3, <2>2, <2>4, <2>5, <2>6, QuietKeeps DEF Running
  <1> QED
    BY <1>4, <1>5

\* A user calls, and gives up a handle only when nothing refers to it.
LEMMA StartsKeep ==
  ASSUME Known, NEW u \in Users, Starts(u)
  PROVE  ExampleInv'
  <1>0. StartCall(u)
    BY DEF Starts
  <1>1. PICK op \in Operations, p \in registered :
          \E args \in [DOMAIN op.takes -> mine[u]] :
            /\ \A i \in DOMAIN args : hnd[args[i]].kind = op.takes[i]
            /\ args # <<>> => p = hnd[args[1]].provider
            /\ call' = [call EXCEPT ![u] =
                         [op |-> op, provider |-> p, args |-> args, made |-> NoObject]]
            /\ mine' = [mine EXCEPT ![u] = IF op.ends THEN @ \ {args[1]} ELSE @]
    BY <1>0 DEF StartCall
  <1>2. PICK args \in [DOMAIN op.takes -> mine[u]] :
          /\ call' = [call EXCEPT ![u] =
                       [op |-> op, provider |-> p, args |-> args, made |-> NoObject]]
          /\ mine' = [mine EXCEPT ![u] = IF op.ends THEN @ \ {args[1]} ELSE @]
    BY <1>1
  <1> USE DEF Known, ExampleInv
  <1>3. /\ UNCHANGED <<registered, funcs, hnd, used, home, lost, alloc, buffers, contents, root, expected>>
        /\ pc[u] = "idle"
        /\ pc' = [pc EXCEPT ![u] = "sane"]
    BY DEF Starts, StartCall, Goto, tables, memory, provider, view
  <1>4. /\ pc'[u] = "sane"
        /\ call'[u] = [op |-> op, provider |-> p, args |-> args, made |-> NoObject]
        /\ mine'[u] = IF op.ends THEN mine[u] \ {args[1]} ELSE mine[u]
        /\ \A v \in Users \ {u} : pc'[v] = pc[v] /\ call'[v] = call[v] /\ mine'[v] = mine[v]
    BY <1>2, <1>3 DEF StrayInv, ApiInv, ApiTypes
  <1>5. op.ends => args[1] \in mine[u]
    BY Rows DEF RowOK
  <1>6. Reach(u) = mine[u] /\ mine[u] \subseteq Handles
    BY <1>3 DEF Reach, Running, StrayInv, ApiInv, ApiTypes
  <1>7. Reach(u)' = mine[u]
    BY <1>4, <1>5, <1>6 DEF Reach, Running, Arg
  <1>8. WorkOK(u)'
    <2>1. op.slot \in ExampleFunctions
      BY <1>4 DEF Starts
    <2>2. op.ends => op = FreeMem
      BY <2>1, EndsFree
    <2>3. op.ends => \A h \in mine'[u] : root[h] # args[1]
      BY <1>4, <2>2 DEF Starts
    <2> QED
      BY <1>3, <1>4, <2>1, <2>3 DEF WorkOK, Arg
  <1>9. ContentsInv'
    <2>1. \A v \in Users : Reach(v)' = Reach(v)
      BY <1>4, <1>6, <1>7 DEF Reach, Running, Arg
    <2> QED
      BY <1>3, <2>1 DEF ContentsInv, At
  <1>10. \A h \in Reach(u)' : root[h] \in Reach(u)'
    BY <1>6, <1>7 DEF RootInv, RootOK
  <1> QED
    BY <1>3, <1>4, <1>6, <1>7, <1>8, <1>9, <1>10, QuietKeeps DEF ExampleTypes

\* The checks of the provider and the handles.
LEMMA ChecksKeep ==
  ASSUME Known, NEW u \in Users, Checks(u)
  PROVE  ExampleInv'
  <1>1. Running(u) /\ UNCHANGED <<alloc, buffers, contents, root, expected>>
    BY DEF Checks, Sane, Running, provider, view
  <1>2. ExampleTypes
    BY DEF Known, ExampleInv
  <1>3. CASE /\ \/ Mismatch(u) /\ ~call[u].op.late
                \/ Funcs(u) = NoTable
                \/ call[u].op = RaidCompare
             /\ Return(u, "sane")
    <2>1. call[u].op.ends => Funcs(u) = NoTable
      BY <1>1, <1>3, EndingCall DEF Known
    <2> QED
      BY <1>1, <1>2, <1>3, <2>1, LookKeeps
      DEF Return, Goto, tables, memory, Labels, ExampleTypes, Known, StrayInv, ApiInv, ApiTypes
  <1>4. CASE Funcs(u) = NoTable /\ Advance(u, "sane", "release")
    BY <1>1, <1>2, <1>4, LookKeeps DEF Advance, Goto, tables, memory, Labels, ExampleTypes
  <1>5. CASE Advance(u, "sane", AfterSane(call[u].op))
    <2>1. AfterSane(call[u].op) \in {"test", "call"}
      BY DEF AfterSane
    <2> QED
      BY <1>1, <1>2, <1>5, <2>1, LookKeeps DEF Advance, Goto, tables, memory, Labels, ExampleTypes
  <1> QED
    BY <1>3, <1>4, <1>5 DEF Checks, Sane

\* What is behind a handle in reach is live, and nowhere else.
LEMMA InReach ==
  ASSUME Known, NEW u \in Users, NEW h \in Reach(u)
  PROVE  /\ h \in Kept /\ h \in Handles
         /\ hnd[h].object \in Objects \ (InFlight \cup lost)
         /\ hnd[h].provider \in Providers
         /\ home[hnd[h].object] = hnd[h].provider
  <1>1. Holds(h)
    BY DEF Known, AccountInv, ApiInv, HandlesHold
  <1>2. h \notin Released
    BY InReleased DEF Known, AccountInv, ApiInv, EndsOK, ReleaseOK
  <1>3. h \in Kept /\ h \in Handles
    BY <1>1, <1>2 DEF Holds, Kept, Known, AccountInv, ApiInv, ApiTypes
  <1> QED
    BY <1>1, <1>3 DEF Holds, Known, AccountInv, KeptInv

\* Handles that share a buffer are one user's, and of one root.
LEMMA SameBuffer ==
  ASSUME Known, NEW u \in Users, NEW v \in Users, NEW g \in Reach(u), NEW h \in Reach(v),
         At(g).ptr = At(h).ptr
  PROVE  u = v /\ root[g] = root[h]
  <1>1. RootOK(u, g) /\ RootOK(v, h)
    BY DEF Known, ExampleInv, RootInv
  <1>2. hnd[root[g]].object = hnd[root[h]].object
    BY <1>1 DEF RootOK, At, Known, ExampleInv, OwnersInv
  <1> QED
    BY <1>1, <1>2 DEF RootOK, Known, AccountInv, ApiInv, HandlesApart

\* The handle of a call that takes one and does not end it.
LEMMA TakenArg ==
  ASSUME Known, NEW u \in Users, Running(u), call[u].op \in {AllocRef, CopyFromGeneric}
  PROVE  /\ Arg(u) \in mine[u] /\ Arg(u) \in Reach(u)
         /\ hnd[Arg(u)].provider = Prov(u)
  <1>1. CallOK(u) /\ ArgsOK(u)
    BY DEF Known, AccountInv, ApiInv, CallsOK
  <1>2. ~call[u].op.ends /\ 1 \in DOMAIN call[u].op.takes
    BY DEF AllocRef, CopyFromGeneric, Row, Makes
  <1>3. 1 \in DOMAIN call[u].args
    BY <1>1, <1>2 DEF CallOK, Running
  <1> QED
    BY <1>1, <1>2, <1>3 DEF ArgsOK, Reach, Arg

\* The provider writes to the buffer of a handle.
LEMMA CopyKeeps ==
  ASSUME Known, NEW u \in Users, NEW value, Return(u, "call"), call[u].op = CopyFromGeneric,
         ProviderCopyFrom(hnd[Arg(u)].object, value),
         expected' = [expected EXCEPT ![root[Arg(u)]] = value],
         UNCHANGED root
  PROVE  ExampleInv'
  <1> DEFINE a == Arg(u)
             b == At(a).ptr
  <1>1. /\ UNCHANGED <<registered, funcs, hnd, used, home, lost, mine, alloc, buffers, root>>
        /\ pc[u] = "call" /\ pc' = [pc EXCEPT ![u] = "idle"]
        /\ call' = [call EXCEPT ![u] = NoCall]
        /\ contents' = [contents EXCEPT ![b] = value]
    BY DEF Return, Goto, tables, memory, ProviderCopyFrom, At
  <1>2. Running(u) /\ ~call[u].op.ends
    BY <1>1 DEF Running, CopyFromGeneric, Row
  <1>3. a \in Reach(u)
    BY <1>2, TakenArg
  <1>4. \A v \in Users : Reach(v)' \subseteq Reach(v)
    BY <1>1 DEF Reach, Running, Arg, Known, StrayInv, ApiInv, ApiTypes
  <1>5. b \in Buffers /\ root[a] \in Handles
    <2>1. RootOK(u, a) /\ ExampleTypes /\ OwnersInv
      BY <1>3 DEF Known, ExampleInv, RootInv
    <2>2. root[a] \in Handles
      BY <2>1, InReach DEF RootOK
    <2> QED
      BY <2>1, <2>2 DEF RootOK, OwnersInv, ExampleTypes, At
  <1>6. ContentsInv'
    <2> SUFFICES ASSUME NEW v \in Users, NEW h \in Reach(v),
                        expected'[root[h]] # Unknown
                 PROVE  contents'[At(h).ptr] = expected'[root[h]]
      BY <1>1, <1>4 DEF ContentsInv, At
    <2>1. CASE root[h] = root[a]
      <3>1. At(h).ptr = b
        BY <1>3, <2>1 DEF Known, ExampleInv, RootInv, RootOK
      <3> QED
        BY <1>1, <1>5, <2>1, <3>1 DEF Known, ExampleInv, ExampleTypes
    <2>2. CASE root[h] # root[a]
      <3>1. At(h).ptr # b
        BY <1>3, <2>2, SameBuffer
      <3>2. expected[root[h]] = expected'[root[h]] /\ contents'[At(h).ptr] = contents[At(h).ptr]
        BY <1>1, <2>2, <3>1 DEF Known, ExampleInv, ExampleTypes
      <3> QED
        BY <3>2 DEF Known, ExampleInv, ContentsInv
    <2> QED
      BY <2>1, <2>2
  <1>7. DOMAIN contents' = Buffers /\ DOMAIN expected' = Handles
    BY <1>1 DEF Known, ExampleInv, ExampleTypes
  <1>8. \A v \in Users \ {u} : call'[v] = call[v]
    BY <1>1
  <1> QED
    BY <1>1, <1>2, <1>6, <1>7, <1>8, LookKeeps DEF Labels

\* The provider makes an object, with a buffer of its own or its source's.
LEMMA MakeKeeps ==
  ASSUME Known, NEW u \in Users, Running(u), call[u].op \in {Alloc, AllocRef},
         Goto(u, "call", "build"),
         NEW o \in Objects, home[o] = NoProvider,
         home' = [home EXCEPT ![o] = Prov(u)],
         call' = [call EXCEPT ![u].made = o],
         UNCHANGED <<tables, hnd, used, lost, mine, contents, view>>,
         \/ call[u].op = Alloc /\ ProviderAlloc(o)
         \/ call[u].op = AllocRef /\ ProviderAllocRef(hnd[Arg(u)].object, o)
  PROVE  ExampleInv'
  <1> USE DEF Known, ExampleInv
  <1>1. /\ UNCHANGED <<registered, funcs, hnd, used, lost, mine, contents, root, expected>>
        /\ pc'[u] = "build"
        /\ call'[u].op = call[u].op /\ call'[u].args = call[u].args /\ call'[u].made = o
        /\ \A v \in Users \ {u} : pc'[v] = pc[v] /\ call'[v] = call[v]
    BY DEF Goto, tables, view, StrayInv, ApiInv, ApiTypes, CallRecords
  <1>2. ~call[u].op.ends /\ call[u].op.slot \in ExampleFunctions
    BY DEF Alloc, AllocRef, Row, Makes, ExampleFunctions
  <1>3. \A v \in Users : Reach(v)' = Reach(v)
    BY <1>1, <1>2 DEF Reach, Running, Arg
  <1>4. Prov(u) \in Providers /\ Prov(u) # NoProvider
    BY ProvidersAssumption DEF StrayInv, ApiInv, ApiTypes, CallsOK, CallOK, Running
  <1>5. home'[o] = Prov(u) /\ \A x \in Objects \ {o} : home'[x] = home[x]
    BY DEF StrayInv, ApiInv, ApiTypes
  <1>6. \A v \in Users : \A h \in Reach(v) : hnd[h].object \in Objects \ {o}
    BY InReach, ProvidersAssumption
  <1>7. \A x \in Objects \ {o} : alloc'[x] = alloc[x]
    BY DEF ProviderAlloc, ProviderAllocRef, ExampleTypes
  <1>8. \A v \in Users : \A h \in Reach(v) : At(h)' = At(h)
    BY <1>1, <1>6, <1>7 DEF At
  <1>9. o \notin Owners
    BY DEF OwnersInv
  <1>10. o \notin lost /\ \A x : x \in InFlight' <=> x \in InFlight \cup {o}
    <2>1. pc[u] # "build"
      BY DEF Running
    <2> QED
      BY <1>1, <2>1, InFlightIs DEF InFlight, AccountInv, LostInv
  <1>11. call[u].op = AllocRef => Arg(u) \in mine[u] /\ Arg(u) \in Reach(u)
                                  /\ hnd[Arg(u)].provider = Prov(u)
    BY TakenArg
  <1>12. Owners \subseteq Owners'
    BY <1>7, <1>9 DEF Owners
  <1>13. ASSUME call[u].op = Alloc, ProviderAlloc(o)
         PROVE  ExampleTypes' /\ OwnersInv' /\ SourceInv' /\ WorkOK(u)'
    <2>1. PICK b \in Buffers \ buffers :
            /\ alloc' = [alloc EXCEPT ![o] = [type |-> "ALLOC_REAL", ptr |-> b]]
            /\ buffers' = buffers \cup {b}
      BY <1>13 DEF ProviderAlloc
    <2>2. alloc'[o].type = "ALLOC_REAL" /\ alloc'[o].ptr = b
      BY <2>1 DEF ExampleTypes
    <2>3. Owners' = Owners \cup {o}
      BY <1>7, <2>2 DEF Owners
    <2>4. OwnersInv'
      BY <1>4, <1>5, <1>7, <1>9, <2>1, <2>2, <2>3 DEF OwnersInv, Owners
    <2>5. ExampleTypes'
      BY <1>1, <2>1 DEF ExampleTypes
    <2>6. SourceInv'
      BY <1>1, <1>5, <1>7, <1>9, <2>3 DEF SourceInv, Owners
    <2>7. WorkOK(u)'
      BY <1>1, <1>2, <1>13, <2>3 DEF WorkOK, Running
    <2> QED
      BY <2>4, <2>5, <2>6, <2>7
  <1>14. ASSUME call[u].op = AllocRef, ProviderAllocRef(hnd[Arg(u)].object, o)
         PROVE  ExampleTypes' /\ OwnersInv' /\ SourceInv' /\ WorkOK(u)'
    <2> DEFINE s == hnd[Arg(u)].object
    <2>1. /\ alloc' = [alloc EXCEPT ![o] = [type |-> "ALLOC_REF", ptr |-> alloc[s].ptr]]
          /\ buffers' = buffers
      BY <1>14 DEF ProviderAllocRef
    <2>2. alloc'[o].type = "ALLOC_REF" /\ alloc'[o].ptr = alloc[s].ptr
      BY <2>1 DEF ExampleTypes
    <2>3. \A x : x \in Owners' <=> x \in Owners
      BY <1>7, <1>9, <2>2 DEF Owners
    <2>4. OwnersInv'
      BY <1>5, <1>7, <1>9, <2>1, <2>3 DEF OwnersInv, Owners
    <2>5. ExampleTypes'
      BY <1>1, <2>1 DEF ExampleTypes
    <2>6. s \in Objects \ lost /\ home[s] = Prov(u)
      BY <1>11, <1>14, InReach
    <2>7. PICK q \in Owners : alloc[q].ptr = alloc[s].ptr /\ home[q] = home[s]
      BY <1>4, <2>6 DEF SourceInv
    <2>8. SourceInv'
      <3> SUFFICES ASSUME NEW x \in Objects \ lost, home'[x] # NoProvider
                   PROVE  \E y \in Owners' : alloc'[y].ptr = alloc'[x].ptr /\ home'[y] = home'[x]
        BY <1>1 DEF SourceInv
      <3>1. CASE x = o
        BY <1>5, <1>7, <1>9, <2>2, <2>3, <2>6, <2>7, <3>1 DEF Owners
      <3>2. CASE x # o
        <4>1. PICK y \in Owners : alloc[y].ptr = alloc[x].ptr /\ home[y] = home[x]
          BY <1>5, <3>2 DEF SourceInv
        <4> QED
          BY <1>5, <1>7, <1>9, <2>3, <3>2, <4>1 DEF Owners
      <3> QED
        BY <3>1, <3>2
    <2>9. WorkOK(u)'
      <3>1. Arg(u)' = Arg(u) /\ At(Arg(u))'.ptr = alloc'[o].ptr
        BY <1>1, <1>8, <1>11, <1>14, <2>2 DEF Arg, At
      <3> QED
        BY <1>1, <1>2, <1>11, <1>14, <3>1 DEF WorkOK, Running
    <2> QED
      BY <2>4, <2>5, <2>8, <2>9
  <1>15. RootInv'
    BY <1>1, <1>3, <1>8, <1>12 DEF RootInv, RootOK
  <1>16. UpInv'
    BY <1>1, <1>3, <1>5, <1>10 DEF UpInv
  <1>17. ContentsInv'
    BY <1>1, <1>3, <1>8 DEF ContentsInv
  <1>18. ASSUME NEW v \in Users, v # u PROVE WorkOK(v)'
    <2>1. pc[v] = "build" => call[v].made \in Objects \ {o}
      BY <1>4, <1>10, ProvidersAssumption DEF AccountInv, ApiInv, ApiTypes, EndsOK, BuildOK,
        CallsOK, CallOK
    <2>2. mine[v] \subseteq Reach(v) /\ mine'[v] = mine[v] /\ Arg(v)' = Arg(v)
      BY <1>1, <1>18 DEF Reach, Arg
    <2> QED
      BY <1>1, <1>7, <1>8, <1>12, <1>18, <2>1, <2>2 DEF WorksInv, WorkOK, Running
  <1> QED
    BY <1>13, <1>14, <1>15, <1>16, <1>17, <1>18 DEF WorksInv

\* Whose buffer a provider that is up frees: nobody else points to it.
LEMMA NothingDangles ==
  ASSUME Known, NEW u \in Users, Running(u), call[u].op.ends, Funcs(u) # NoTable,
         hnd[Arg(u)].object \in Owners,
         NEW x \in Objects \ lost, home[x] # NoProvider,
         alloc[x].ptr = At(Arg(u)).ptr, home[x] = Prov(u)
  PROVE  x = hnd[Arg(u)].object
  <1> USE DEF Known, ExampleInv
  <1> DEFINE a == Arg(u)
             o == hnd[a].object
  <1>1. a \in Reach(u) /\ Reach(u) \subseteq mine[u] \cup {a}
    BY ReachOf DEF AccountInv, ApiInv, CallsOK, Reach
  <1>2. x \in InFlight \/ \E v \in Users : \E h \in Reach(v) : hnd[h].object = x
    BY DEF UpInv, Funcs
  <1>3. ASSUME NEW v \in Users, NEW h \in Reach(v), At(h).ptr = At(a).ptr
        PROVE  v = u /\ root[h] = a
    <2>1. RootOK(v, h)
      BY DEF RootInv
    <2>2. hnd[root[h]].object = o
      BY <1>3, <2>1 DEF RootOK, OwnersInv, At
    <2> QED
      BY <1>1, <2>1, <2>2 DEF RootOK, AccountInv, ApiInv, HandlesApart
  <1>4. CASE x \in InFlight
    <2>1. PICK v \in Users : pc[v] = "build" /\ call[v].made = x
      BY <1>4, InFlightIs
    <2>2. CASE x \in Owners
      BY <2>2 DEF OwnersInv, At
    <2>3. CASE Arg(v) \in mine[v] /\ alloc[x].ptr = At(Arg(v)).ptr
      BY <1>3, <2>1, <2>3 DEF Reach, Running
    <2> QED
      BY <2>1, <2>2, <2>3 DEF WorksInv, WorkOK
  <1>5. ASSUME NEW v \in Users, NEW h \in Reach(v), hnd[h].object = x
        PROVE  x = o
    <2>1. v = u /\ root[h] = a
      BY <1>3, <1>5 DEF At
    <2>2. h \notin mine[u]
      BY <2>1 DEF WorksInv, WorkOK
    <2> QED
      BY <1>1, <1>5, <2>1, <2>2
  <1> QED
    BY <1>2, <1>4, <1>5

\* The provider frees the object of the handle, and its buffer if it owns one.
LEMMA FreeKeeps ==
  ASSUME Known, NEW u \in Users, Running(u), call[u].op.ends, Funcs(u) # NoTable,
         Goto(u, "call", "release"),
         home' = [home EXCEPT ![hnd[Arg(u)].object] = NoProvider],
         UNCHANGED <<tables, hnd, used, lost, mine, call, view>>,
         ProviderFree(hnd[Arg(u)].object)
  PROVE  ExampleInv'
  <1> USE DEF Known, ExampleInv
  <1> DEFINE a == Arg(u)
             o == hnd[a].object
             gone == IF alloc[o].type = "ALLOC_REAL" THEN {alloc[o].ptr} ELSE {}
  <1>0. /\ buffers' = buffers \ gone
        /\ contents' = [b \in Buffers |-> IF b \in gone THEN Unknown ELSE contents[b]]
    BY DEF ProviderFree, Kfree
  <1>1. /\ UNCHANGED <<registered, funcs, hnd, used, lost, mine, call, root, expected>>
        /\ pc'[u] = "release"
        /\ \A v \in Users \ {u} : pc'[v] = pc[v]
        /\ alloc' = [alloc EXCEPT ![o] = NoAlloc]
    BY DEF Goto, tables, view, ProviderFree, StrayInv, ApiInv, ApiTypes
  <1>2. a \in Reach(u) /\ Reach(u) \subseteq mine[u] \cup {a} /\ a \notin mine[u]
    <2>1. ApiTypes /\ CallOK(u) /\ ArgsOK(u)
      BY DEF AccountInv, ApiInv, CallsOK
    <2> QED
      BY <2>1, ReachOf DEF ArgsOK, Reach
  <1>3. o \in Objects \ (InFlight \cup lost) /\ home[o] = Prov(u) /\ Prov(u) \in Providers
    <2>1. home[o] = Prov(u) /\ Prov(u) \in Providers
      BY ArgKept DEF AccountInv
    <2>2. o \in Objects \ (InFlight \cup lost)
      BY <1>2, InReach
    <2> QED
      BY <2>1, <2>2
  <1>4. Reach(u)' = mine[u] /\ \A v \in Users \ {u} : Reach(v)' = Reach(v)
    BY <1>1 DEF Reach, Running, Arg
  <1>5. \A v \in Users : Reach(v)' \subseteq Reach(v) /\ a \notin Reach(v)'
    BY <1>2, <1>4 DEF AccountInv, ApiInv, HandlesApart, Reach
  <1>6. home'[o] = NoProvider /\ \A x \in Objects \ {o} : home'[x] = home[x]
    BY <1>3 DEF StrayInv, ApiInv, ApiTypes
  <1>7. alloc'[o] = NoAlloc /\ \A x \in Objects \ {o} : alloc'[x] = alloc[x]
    BY <1>1, <1>3 DEF ExampleTypes
  <1>8. \A v \in Users : \A h \in Reach(v)' : hnd[h].object \in Objects \ {o}
    <2> SUFFICES ASSUME NEW v \in Users, NEW h \in Reach(v)'
                 PROVE  hnd[h].object \in Objects /\ hnd[h].object # o
      OBVIOUS
    <2>1. h \in Reach(v) /\ h # a
      BY <1>5
    <2> QED
      BY <1>2, <2>1, InReach DEF AccountInv, ApiInv, HandlesApart
  <1>9. \A v \in Users : \A h \in Reach(v)' : At(h)' = At(h)
    BY <1>1, <1>7, <1>8 DEF At
  <1>10. \A x : x \in InFlight' <=> x \in InFlight
    BY <1>1, InFlightIs DEF InFlight, Running
  <1>11. \A x : x \in Owners' <=> x \in Owners /\ x # o
    BY <1>1, <1>3, <1>7 DEF Owners, NoAlloc
  <1>12. \A v \in Users : \A h \in Reach(v)' : root[h] \in Reach(v)'
    <2>1. \A h \in Reach(u)' : root[h] \in Reach(u)'
      BY <1>4, RootsStay
    <2> QED
      BY <1>4, <2>1 DEF RootInv, RootOK
  <1>13. o \in Owners <=> alloc[o].type = "ALLOC_REAL"
    BY <1>3 DEF Owners
  <1>14. ExampleTypes'
    BY <1>0, <1>1 DEF ExampleTypes
  <1>15. OwnersInv'
    <2>1. \A x \in Owners' : x \in Objects \ {o} /\ alloc'[x] = alloc[x] /\ home'[x] = home[x]
      BY <1>6, <1>7, <1>11 DEF Owners
    <2>2. \A x \in Owners' : alloc[x].ptr \notin gone
      BY <1>11, <1>13 DEF OwnersInv
    <2>3. \A b \in buffers' : \E x \in Owners' : alloc'[x].ptr = b
      <3> SUFFICES ASSUME NEW b \in buffers' PROVE \E x \in Owners' : alloc'[x].ptr = b
        OBVIOUS
      <3>1. PICK x \in Owners : alloc[x].ptr = b
        BY <1>0 DEF OwnersInv
      <3>2. x # o
        BY <1>0, <1>13, <3>1
      <3> QED
        BY <1>11, <2>1, <3>1, <3>2
    <2> QED
      BY <1>0, <1>11, <2>1, <2>2, <2>3 DEF OwnersInv
  <1>16. SourceInv'
    <2> SUFFICES ASSUME NEW x \in Objects \ lost, home'[x] # NoProvider
                 PROVE  \E q \in Owners' : alloc'[q].ptr = alloc'[x].ptr /\ home'[q] = home'[x]
      BY <1>1 DEF SourceInv
    <2>1. x # o /\ home'[x] = home[x] /\ alloc'[x] = alloc[x]
      BY <1>6, <1>7
    <2>2. PICK q \in Owners : alloc[q].ptr = alloc[x].ptr /\ home[q] = home[x]
      BY <2>1 DEF SourceInv
    <2>3. q # o
      BY <1>3, <2>1, <2>2, NothingDangles DEF At
    <2> QED
      BY <1>6, <1>7, <1>11, <2>1, <2>2, <2>3 DEF Owners
  <1>17. RootInv'
    <2> SUFFICES ASSUME NEW v \in Users, NEW h \in Reach(v)' PROVE RootOK(v, h)'
      BY DEF RootInv
    <2>1. RootOK(v, h)
      BY <1>5 DEF RootInv
    <2> QED
      BY <1>1, <1>8, <1>9, <1>11, <1>12, <2>1 DEF RootOK
  <1>18. UpInv'
    <2> SUFFICES ASSUME NEW x \in Objects \ lost, home'[x] # NoProvider, funcs[home'[x]] # NoTable
                 PROVE  x \in InFlight' \/ \E v \in Users : \E h \in Reach(v)' : hnd[h].object = x
      BY <1>1 DEF UpInv
    <2>1. x # o /\ home'[x] = home[x]
      BY <1>6
    <2>2. CASE x \in InFlight
      BY <1>10, <2>2
    <2>3. ASSUME NEW v \in Users, NEW h \in Reach(v), hnd[h].object = x
          PROVE  h \in Reach(v)'
      BY <1>2, <1>4, <2>1, <2>3
    <2> QED
      BY <2>1, <2>2, <2>3 DEF UpInv
  <1>19. WorksInv'
    <2>0. \A v \in Users : WorkOK(v)
      BY DEF WorksInv
    <2>1. WorkOK(u)'
      <3>1. pc[u] # "idle" /\ ~Running(u)'
        BY <1>1 DEF Running
      <3> QED
        BY <1>1, <2>0, <3>1 DEF WorkOK
    <2>2. ASSUME NEW v \in Users, v # u PROVE WorkOK(v)'
      <3>1. pc[v] = "build" => call[v].made \in Objects \ {o}
        BY <1>3, InFlightIs DEF AccountInv, ApiInv, EndsOK, BuildOK
      <3>2. pc[v] = "build" /\ call[v].made \in Owners => call[v].made \in Owners'
        BY <1>3, <1>11, InFlightIs
      <3>3. pc[v] = "build" => alloc'[call[v].made] = alloc[call[v].made]
        BY <1>7, <3>1
      <3>4. mine[v] \subseteq Reach(v)' /\ pc'[v] = pc[v]
        BY <1>1, <1>4, <2>2 DEF Reach
      <3>5. Arg(v) \in mine[v] => At(Arg(v))' = At(Arg(v))
        BY <1>1, <1>9, <3>4 DEF Arg
      <3>6. Running(v)' = Running(v) /\ Arg(v)' = Arg(v)
        BY <1>1, <3>4 DEF Running, Arg
      <3> QED
        BY <1>1, <2>0, <3>2, <3>3, <3>4, <3>5, <3>6 DEF WorkOK
    <2> QED
      BY <2>1, <2>2 DEF WorksInv
  <1>20. ContentsInv'
    <2> SUFFICES ASSUME NEW v \in Users, NEW h \in Reach(v)', expected[root[h]] # Unknown
                 PROVE  contents'[At(h).ptr] = expected[root[h]]
      BY <1>1, <1>9 DEF ContentsInv
    <2>1. RootOK(v, h) /\ hnd[root[h]].object # o
      BY <1>5, <1>8, <1>12 DEF RootInv
    <2>2. At(h).ptr \notin gone /\ At(h).ptr \in Buffers
      BY <1>13, <2>1 DEF RootOK, OwnersInv, ExampleTypes, At
    <2>3. contents[At(h).ptr] = expected[root[h]]
      BY <1>5 DEF ContentsInv
    <2> QED
      BY <1>0, <2>2, <2>3
  <1> QED
    BY <1>14, <1>15, <1>16, <1>17, <1>18, <1>19, <1>20

\* A call of the provider's function.
LEMMA CallsKeep ==
  ASSUME Known, NEW u \in Users, CallsExample(u)
  PROVE  ExampleInv'
  <1>1. Running(u) /\ Call(u)
    BY DEF CallsExample, Call, Running
  <1>2. ExampleTypes
    BY DEF Known, ExampleInv
  <1>3. CASE pc'[u] \in {"idle", "oops"} /\ UNCHANGED <<provider, view>>
    <2>1. CASE Return(u, "call") /\ ~call[u].op.ends
      <3>1. \A v \in Users \ {u} : call'[v] = call[v]
        BY <2>1 DEF Return
      <3> QED
        BY <1>1, <1>2, <1>3, <2>1, <3>1, LookKeeps
        DEF Return, Goto, tables, memory, provider, view, Labels, ExampleTypes
    <2>2. CASE ~Callable(u) /\ Advance(u, "call", "oops")
      <3>1. call[u].op.ends => Funcs(u) = NoTable
        BY <1>1, <2>2, EndingCall DEF Known, Closable, Callable, Funcs
      <3> QED
        BY <1>1, <1>2, <1>3, <2>2, <3>1, LookKeeps
        DEF Advance, Goto, tables, memory, provider, view, Labels, ExampleTypes
    <2>3. CASE pc'[u] \in {"build", "release"}
      BY <1>3, <2>3
    <2> QED
      BY <1>1, <2>1, <2>2, <2>3 DEF Call, Goto, Known, StrayInv, ApiInv, ApiTypes
  <1>4. CASE /\ pc'[u] = "build"
             /\ UNCHANGED view
             /\ \/ call[u].op = Alloc /\ ProviderAlloc(call'[u].made)
                \/ /\ call[u].op = AllocRef
                   /\ ProviderAllocRef(hnd[Arg(u)].object, call'[u].made)
    <2>1. PICK o \in Objects :
            /\ home[o] = NoProvider
            /\ home' = [home EXCEPT ![o] = Prov(u)]
            /\ call' = [call EXCEPT ![u].made = o]
            /\ Goto(u, "call", "build")
            /\ UNCHANGED <<tables, hnd, used, lost, mine>>
      BY <1>1, <1>4 DEF Call, Advance, Return, Goto, Known, StrayInv, ApiInv, ApiTypes
    <2>2. call'[u].made = o
      BY <2>1 DEF Known, StrayInv, ApiInv, ApiTypes, CallRecords
    <2>3. UNCHANGED contents
      BY <1>4 DEF ProviderAlloc, ProviderAllocRef
    <2> QED
      BY <1>1, <1>4, <2>1, <2>2, <2>3, MakeKeeps
  <1>5. CASE /\ pc'[u] = "release" /\ home' # home
             /\ ProviderFree(hnd[Arg(u)].object)
             /\ UNCHANGED view
    <2>1. /\ Callable(u) /\ call[u].op.ends
          /\ Goto(u, "call", "release")
          /\ home' = [home EXCEPT ![hnd[Arg(u)].object] = NoProvider]
          /\ UNCHANGED <<tables, hnd, used, lost, mine, call>>
      BY <1>1, <1>5 DEF Call, Advance, Return, Goto, Known, StrayInv, ApiInv, ApiTypes
    <2> QED
      BY <1>1, <1>5, <2>1, FreeKeeps DEF Callable
  <1>6. ASSUME pc'[u] = "idle", call[u].op = CopyFromGeneric, NEW value,
               ProviderCopyFrom(hnd[Arg(u)].object, value),
               expected' = [expected EXCEPT ![root[Arg(u)]] = value],
               UNCHANGED root
        PROVE  ExampleInv'
    <2>1. Return(u, "call")
      BY <1>1, <1>6 DEF Call, Advance, Goto, Known, StrayInv, ApiInv, ApiTypes
    <2> QED
      BY <1>6, <2>1, CopyKeeps
  <1> QED
    BY <1>3, <1>4, <1>5, <1>6 DEF CallsExample

\* The object gets its handle, or is lost.
LEMMA BuildsKeep ==
  ASSUME Known, NEW u \in Users, Builds(u)
  PROVE  ExampleInv'
  <1> USE DEF Known, ExampleInv
  <1> DEFINE o == call[u].made
  <1>1. /\ UNCHANGED <<registered, funcs, home, alloc, buffers, contents>>
        /\ pc[u] = "build" /\ pc'[u] = "idle"
        /\ \A v \in Users \ {u} : pc'[v] = pc[v] /\ call'[v] = call[v]
    BY DEF Builds, Build, Goto, tables, provider, StrayInv, ApiInv, ApiTypes
  <1>2. WorkOK(u) /\ BuildOK(u)
    BY DEF WorksInv, AccountInv, ApiInv, EndsOK
  <1>3. \A x : x \in InFlight' <=> x \in InFlight /\ x # o
    BY <1>1, <1>2, InFlightIs DEF InFlight, BuildOK
  <1>4. Reach(u) = mine[u] /\ Reach(u)' = mine'[u] /\ \A v \in Users : mine[v] \subseteq Reach(v)
    BY <1>1 DEF Reach, Running, StrayInv, ApiInv, ApiTypes
  <1>5. \A x : x \in Owners' <=> x \in Owners
    BY <1>1 DEF Owners
  <1>6. OwnersInv'
    BY <1>1, <1>5 DEF OwnersInv
  <1>7. WorkOK(u)'
    BY <1>1 DEF WorkOK, Running
  <1>8. ASSUME UNCHANGED <<hnd, used, mine, view>>, lost' = lost \cup {o}
        PROVE  ExampleInv'
    <2>1. \A v \in Users : Reach(v)' = Reach(v)
      BY <1>1, <1>4, <1>8 DEF Reach, Running, Arg
    <2>2. ExampleTypes' /\ SourceInv'
      BY <1>1, <1>5, <1>8 DEF ExampleTypes, SourceInv, view
    <2>3. RootInv' /\ ContentsInv'
      BY <1>1, <1>5, <1>8, <2>1 DEF RootInv, RootOK, ContentsInv, At, view
    <2>4. UpInv'
      BY <1>1, <1>3, <1>8, <2>1 DEF UpInv
    <2>5. ASSUME NEW v \in Users, v # u PROVE WorkOK(v)'
      BY <1>1, <1>5, <1>8, <2>5 DEF WorksInv, WorkOK, Running, Arg, At, view
    <2> QED
      BY <1>6, <1>7, <2>2, <2>3, <2>4, <2>5 DEF WorksInv
  <1>9. ASSUME NEW h \in Handles \ used, lost' = lost,
               hnd' = [hnd EXCEPT ![h] = [provider |-> Prov(u), kind |-> call[u].op.makes,
                                          object |-> o]],
               mine' = [mine EXCEPT ![u] = @ \cup {h}],
               root' = [root EXCEPT ![h] = IF call[u].op = Alloc THEN h ELSE root[Arg(u)]],
               expected' = [expected EXCEPT ![h] = Unknown]
        PROVE  ExampleInv'
    <2>1. /\ mine'[u] = mine[u] \cup {h} /\ \A v \in Users \ {u} : mine'[v] = mine[v]
          /\ hnd'[h].object = o /\ \A g \in Handles \ {h} : hnd'[g] = hnd[g]
          /\ root'[h] = (IF call[u].op = Alloc THEN h ELSE root[Arg(u)])
          /\ \A g \in Handles \ {h} : root'[g] = root[g] /\ expected'[g] = expected[g]
          /\ expected'[h] = Unknown
      BY <1>9 DEF StrayInv, ApiInv, ApiTypes, ExampleTypes
    <2>2. Reach(u)' = Reach(u) \cup {h} /\ \A v \in Users \ {u} : Reach(v)' = Reach(v)
      BY <1>1, <1>4, <2>1 DEF Reach, Running, Arg
    <2>3. \A v \in Users : Reach(v) \subseteq Handles \ {h}
      BY <1>9, InReach DEF Kept
    <2>4. \A v \in Users : \A g \in Reach(v) :
            /\ At(g)' = At(g) /\ root'[g] = root[g] /\ hnd'[g] = hnd[g]
            /\ root[g] \in Reach(v) /\ hnd'[root[g]] = hnd[root[g]]
            /\ expected'[root[g]] = expected[root[g]] /\ At(root[g])' = At(root[g])
      BY <1>1, <2>1, <2>3 DEF At, RootInv, RootOK
    <2>5. \A v \in Users : \A g \in Reach(v) : RootOK(v, g)'
      BY <1>5, <2>2, <2>4 DEF RootInv, RootOK
    <2>6. At(h)' = alloc[o]
      BY <1>1, <2>1 DEF At
    <2>7. /\ RootOK(u, h)'
          /\ expected'[root'[h]] # Unknown => contents[alloc[o].ptr] = expected'[root'[h]]
      <3>1. CASE call[u].op = Alloc
        <4>1. o \in Owners
          BY <1>1, <1>2, <3>1 DEF WorkOK, Alloc, AllocRef, Makes, Row
        <4> QED
          BY <1>5, <2>1, <2>2, <3>1, <4>1 DEF RootOK
      <3>2. CASE call[u].op # Alloc
        <4>1. /\ Arg(u) \in Reach(u) /\ At(Arg(u)).ptr = alloc[o].ptr
              /\ RootOK(u, Arg(u))
          BY <1>1, <1>2, <1>4, <3>2 DEF WorkOK, RootInv
        <4>2. expected[root[Arg(u)]] # Unknown =>
                contents[alloc[o].ptr] = expected[root[Arg(u)]]
          BY <4>1 DEF ContentsInv
        <4>3. RootOK(u, h)'
          BY <1>5, <2>1, <2>2, <2>4, <2>6, <3>2, <4>1 DEF RootOK
        <4> QED
          BY <2>1, <2>4, <3>2, <4>1, <4>2, <4>3
      <3> QED
        BY <3>1, <3>2
    <2>8. RootInv'
      BY <2>2, <2>5, <2>7 DEF RootInv
    <2>9. ContentsInv'
      BY <1>1, <2>2, <2>4, <2>6, <2>7 DEF ContentsInv
    <2>10. ExampleTypes'
      <3>1. root' \in [Handles -> Handles]
        <4>1. call[u].op # Alloc => root[Arg(u)] \in Handles
          BY <1>1, <1>2, <1>4, <2>3, <2>4 DEF WorkOK
        <4> QED
          BY <1>9, <4>1 DEF ExampleTypes
      <3> QED
        BY <1>1, <1>9, <3>1 DEF ExampleTypes
    <2>11. SourceInv'
      BY <1>1, <1>5, <1>9 DEF SourceInv
    <2>12. UpInv'
      <3> SUFFICES ASSUME NEW x \in Objects \ lost, home[x] # NoProvider, funcs[home[x]] # NoTable
                   PROVE  x \in InFlight' \/ \E v \in Users : \E g \in Reach(v)' : hnd'[g].object = x
        BY <1>1, <1>9 DEF UpInv
      <3>1. CASE x \in InFlight
        BY <1>3, <2>1, <2>2, <3>1
      <3>2. ASSUME NEW v \in Users, NEW g \in Reach(v), hnd[g].object = x
            PROVE  g \in Reach(v)' /\ hnd'[g].object = x
        BY <2>2, <2>4, <3>2
      <3> QED
        BY <3>1, <3>2 DEF UpInv
    <2>13. ASSUME NEW v \in Users, v # u PROVE WorkOK(v)'
      <3>1. /\ pc'[v] = pc[v] /\ call'[v] = call[v] /\ mine'[v] = mine[v] /\ Arg(v)' = Arg(v)
            /\ \A g \in mine[v] : root'[g] = root[g] /\ At(g)' = At(g)
        BY <1>1, <1>4, <2>1, <2>4, <2>13 DEF Arg
      <3> QED
        BY <1>1, <1>5, <3>1 DEF WorksInv, WorkOK, Running
    <2> QED
      BY <1>6, <1>7, <2>8, <2>9, <2>10, <2>11, <2>12, <2>13 DEF WorksInv
  <1> QED
    <2>1. CASE UNCHANGED <<hnd, used, mine>> /\ lost' = lost \cup {o}
      <3>1. UNCHANGED view
        BY <2>1 DEF Builds
      <3> QED
        BY <1>8, <2>1, <3>1
    <2>2. ASSUME NEW h \in Handles \ used, lost' = lost,
                 hnd' = [hnd EXCEPT ![h] = [provider |-> Prov(u), kind |-> call[u].op.makes,
                                            object |-> o]],
                 mine' = [mine EXCEPT ![u] = @ \cup {h}]
          PROVE  ExampleInv'
      <3>1. mine'[u] = mine[u] \cup {h} /\ h \notin mine[u]
        BY <1>4, <2>2, InReach DEF Kept, StrayInv, ApiInv, ApiTypes
      <3>2. mine' # mine /\ mine'[u] \ mine[u] = {h}
        BY <3>1
      <3> QED
        BY <1>9, <2>2, <3>2 DEF Builds
    <2> QED
      BY <2>1, <2>2 DEF Builds, Build

\* The handle goes, and with it what the user knew of it.
LEMMA ReleasesKeep ==
  ASSUME Known, NEW u \in Users, Releases(u)
  PROVE  ExampleInv'
  <1> USE DEF Known, ExampleInv
  <1> DEFINE a == Arg(u)
  <1>1. /\ UNCHANGED <<registered, funcs, home, lost, mine, alloc, buffers, contents>>
        /\ pc[u] = "release" /\ pc'[u] = "idle"
        /\ \A v \in Users \ {u} : pc'[v] = pc[v] /\ call'[v] = call[v]
        /\ hnd' = [hnd EXCEPT ![a] = NoEntry]
        /\ root' = [root EXCEPT ![a] = a]
        /\ expected' = [expected EXCEPT ![a] = Unknown]
    BY DEF Releases, Release, Goto, tables, provider, StrayInv, ApiInv, ApiTypes
  <1>2. \A v \in Users : Reach(v)' = Reach(v)
    BY <1>1 DEF Reach, Running, Arg
  <1>3. a \in Handles /\ \A v \in Users : a \notin Reach(v)
    BY <1>1 DEF AccountInv, ApiInv, ApiTypes, EndsOK, ReleaseOK
  <1>4. \A v \in Users : \A g \in Reach(v) :
          /\ At(g)' = At(g) /\ root'[g] = root[g] /\ hnd'[g] = hnd[g]
          /\ root[g] \in Reach(v) /\ hnd'[root[g]] = hnd[root[g]]
          /\ expected'[root[g]] = expected[root[g]] /\ At(root[g])' = At(root[g])
    <2>1. \A g \in Handles \ {a} : hnd'[g] = hnd[g] /\ root'[g] = root[g] /\ expected'[g] = expected[g]
      BY <1>1 DEF ExampleTypes, StrayInv, ApiInv, ApiTypes
    <2>2. \A v \in Users : \A g \in Reach(v) : root[g] \in Reach(v)
      BY DEF RootInv, RootOK
    <2> QED
      BY <1>1, <1>3, <2>1, <2>2, InReach DEF At
  <1>5. \A x : x \in InFlight' <=> x \in InFlight
    BY <1>1, InFlightIs DEF InFlight
  <1>6. \A x : x \in Owners' <=> x \in Owners
    BY <1>1 DEF Owners
  <1>7. ExampleTypes' /\ OwnersInv' /\ SourceInv'
    BY <1>1, <1>3, <1>6 DEF ExampleTypes, OwnersInv, SourceInv
  <1>8. RootInv' /\ ContentsInv'
    BY <1>1, <1>2, <1>4, <1>6 DEF RootInv, RootOK, ContentsInv
  <1>9. UpInv'
    BY <1>1, <1>2, <1>4, <1>5 DEF UpInv
  <1>10. WorkOK(u)'
    BY <1>1 DEF WorkOK, Running
  <1>11. ASSUME NEW v \in Users, v # u PROVE WorkOK(v)'
    <2>1. /\ pc'[v] = pc[v] /\ call'[v] = call[v] /\ mine'[v] = mine[v] /\ Arg(v)' = Arg(v)
          /\ \A g \in mine[v] : root'[g] = root[g] /\ At(g)' = At(g)
      BY <1>1, <1>4, <1>11 DEF Arg, Reach
    <2> QED
      BY <1>1, <1>6, <2>1 DEF WorksInv, WorkOK, Running
  <1> QED
    BY <1>7, <1>8, <1>9, <1>10, <1>11 DEF WorksInv

-----------------------------------------------------------------------------
LEMMA ExampleInitially == ExampleInit => ExampleInv
  <1> SUFFICES ASSUME ExampleInit PROVE ExampleInv
    OBVIOUS
  <1>1. Owners = {} /\ \A o \in Objects : home[o] = NoProvider
    BY DEF ExampleInit, Init, Owners, NoAlloc
  <1>2. \A u \in Users : pc[u] = "idle" /\ Reach(u) = {}
    BY DEF ExampleInit, Init, Reach, Running
  <1>3. ExampleTypes
    BY DEF ExampleInit, ExampleTypes
  <1> QED
    BY <1>1, <1>2, <1>3
    DEF ExampleInit, ExampleInv, OwnersInv, SourceInv, RootInv, UpInv, WorksInv, WorkOK,
      Running, ContentsInv

LEMMA ExampleStuttering ==
  ASSUME Known, UNCHANGED exampleVars
  PROVE  ExampleInv'
  <1>1. UNCHANGED <<registered, funcs, hnd, used, home, lost, mine, pc, call,
                    alloc, buffers, contents, root, expected>>
    BY DEF exampleVars, vars, tables, memory, provider, view
  <1>2. UNCHANGED <<InFlight, Owners>> /\ \A v \in Users : Reach(v)' = Reach(v)
    BY <1>1 DEF InFlight, Owners, Reach, Running, Arg
  <1> QED
    BY <1>1, <1>2 DEF Known, ExampleInv, ExampleTypes, OwnersInv, SourceInv, RootInv, RootOK,
      At, UpInv, WorksInv, WorkOK, Running, Arg, ContentsInv

LEMMA ExampleInvariant == ExampleSpec => []ExampleInv
  <1>1. ASSUME Known, [ExampleNext]_exampleVars PROVE ExampleInv'
    <2>1. ASSUME NEW p \in Providers, Registers(p) \/ GoesDown(p) PROVE ExampleInv'
      BY <1>1, <2>1, TablesKeep DEF Registers, GoesDown
    <2> QED
      BY <1>1, <2>1, StartsKeep, ChecksKeep, CallsKeep, BuildsKeep, ReleasesKeep,
        ExampleStuttering DEF ExampleNext
  <1>2. ExampleSpec => Spec
    BY ExampleSteps, PTL DEF ExampleSpec, Spec
  <1>3. Known <=> AccountInv /\ StrayInv /\ ExampleInv
    BY DEF Known
  <1> QED
    BY ExampleInitially, <1>1, <1>2, <1>3, AccountInvariant, StrayInvariant, PTL
    DEF ExampleSpec

\* What the invariants of the API and of the provider say of the buffers.
LEMMA OwnedMeans == Known => MemoryOwned
  <1> SUFFICES ASSUME Known PROVE MemoryOwned
    OBVIOUS
  <1> USE DEF Known, ExampleInv
  <1>1. \A o \in Owners : o \in Behind \cup InFlight \/ Leaked(o)
    BY DEF AccountInv, LeftInv, OwnersInv, Owners, Leaked
  <1>2. ASSUME NEW o \in Behind \cup InFlight
        PROVE  o \in Objects \ lost /\ home[o] # NoProvider
    <2>1. ObjectsAccounted
      BY AccountMeans
    <2>2. o \in Objects /\ home[o] # NoProvider
      BY <1>2, <2>1 DEF ObjectsAccounted
    <2>3. o \notin lost
      BY <1>2, <2>1 DEF AccountInv, KeptInv, LostInv, Behind
    <2> QED
      BY <2>2, <2>3
  <1>3. \A o \in Behind \cup InFlight : alloc[o].ptr \in buffers
    BY <1>2 DEF OwnersInv, SourceInv
  <1>4. ASSUME NEW b \in buffers
        PROVE  \E o \in Owners : /\ alloc[o].ptr = b
                                 /\ \A q \in Owners \ {o} : alloc[q].ptr # b
                                 /\ o \in Behind \cup InFlight \/ Leaked(o)
    BY <1>1, <1>4 DEF OwnersInv
  <1> QED
    BY <1>3, <1>4 DEF MemoryOwned

\* For any number of buffers, objects, handles and users, wherever calls
\* stop and whenever the provider goes down: each buffer of the example
\* provider has one owner, which a handle can still have freed unless the
\* owner never got one or its provider is down, and no handle points to a
\* buffer that was freed.
THEOREM MemoryIsOwned == ExampleSpec => []MemoryOwned
  <1>1. ExampleSpec => Spec
    BY ExampleSteps, PTL DEF ExampleSpec, Spec
  <1>2. Known <=> AccountInv /\ StrayInv /\ ExampleInv
    BY DEF Known
  <1> QED
    BY <1>1, <1>2, OwnedMeans, AccountInvariant, StrayInvariant, ExampleInvariant, PTL

\* What any user reads, through any of its handles, is what it wrote last.
THEOREM ContentsAlwaysMatch == ExampleSpec => []ContentsMatch
  <1>1. ExampleInv => ContentsMatch
    BY DEF ExampleInv, ContentsInv, ContentsMatch, Reach, At
  <1> QED
    BY <1>1, ExampleInvariant, PTL


-----------------------------------------------------------------------------
(* The DPUSM's own allocations are counted modulo the width of a counter,  *)
(* and a counter that wrapped around finds its way back.                   *)

\* b and a differ by a multiple of M.
Congruent(b, a, M) == \E q \in Int : b = a + M * q

LEMMA Residue ==
  ASSUME NEW a \in Int, NEW M \in Nat \ {0}
  PROVE  (a % M) \in 0..(M - 1) /\ a \div M \in Int /\ a = M * (a \div M) + (a % M)
  OBVIOUS

LEMMA NoMultiple ==
  ASSUME NEW k \in Int, NEW M \in Nat \ {0}, M * k < M, -M < M * k
  PROVE  k = 0
  <1>1. CASE k >= 1
    <2>1. (k - 1) * M >= 0
      BY <1>1
    <2> QED
      BY <2>1
  <1>2. CASE k <= -1
    <2>1. (-1 - k) * M >= 0
      BY <1>2
    <2> QED
      BY <2>1
  <1> QED
    BY <1>1, <1>2

\* Two remainders that differ by a multiple are the same.
LEMMA OneResidue ==
  ASSUME NEW M \in Nat \ {0}, NEW r \in 0..(M - 1), NEW s \in 0..(M - 1), NEW k \in Int,
         r - s = M * k
  PROVE  r = s
  <1>1. k = 0
    BY NoMultiple
  <1> QED
    BY <1>1

LEMMA SameResidue ==
  ASSUME NEW a \in Int, NEW M \in Nat \ {0}, NEW b \in Int, Congruent(b, a, M)
  PROVE  (b % M) = (a % M)
  <1> PICK q \in Int : b = a + M * q
    BY DEF Congruent
  <1> DEFINE x == a \div M
             y == b \div M
             r == a % M
             s == b % M
  <1>1. r \in 0..(M - 1) /\ x \in Int /\ a = M * x + r
    BY Residue
  <1>2. s \in 0..(M - 1) /\ y \in Int /\ b = M * y + s
    BY Residue
  <1> HIDE DEF x, y, r, s
  <1>3. s - r = M * (q + x - y)
    BY <1>1, <1>2
  <1>4. s = r
    BY <1>1, <1>2, <1>3, OneResidue
  <1> QED
    BY <1>4 DEF r, s

\* Adding to what is left of a number leaves what is left of the sum.
LEMMA WrapAdd ==
  ASSUME NEW n \in Int, NEW d \in Int
  PROVE  Wrap(Wrap(n) + d) = Wrap(n + d)
  <1> DEFINE M == 2 * Half
             a == n + Half
             r == a % M
             q == a \div M
  <1>1. M \in Nat \ {0} /\ Half \in Int
    BY HalfAssumption
  <1>2. a \in Int
    BY <1>1
  <1> HIDE DEF M, a
  <1>3. r \in 0..(M - 1) /\ q \in Int /\ a = M * q + r
    BY <1>1, <1>2, Residue
  <1> HIDE DEF r, q
  <1> DEFINE s == r + d
             b == a + d
             k == -q
  <1>4. s \in Int /\ b \in Int /\ k \in Int /\ s = b + M * k
    BY <1>1, <1>2, <1>3
  <1>5. (s % M) = (b % M)
    <2> HIDE DEF s, b, k
    <2>1. Congruent(s, b, M)
      BY <1>4 DEF Congruent
    <2> QED
      BY <1>1, <1>4, <2>1, SameResidue
  <1>6. Wrap(n) = r - Half
    BY DEF Wrap, r, a, M
  <1>7. (r - Half) + d + Half = r + d /\ n + d + Half = a + d
    BY <1>1, <1>3 DEF a
  <1> QED
    BY <1>5, <1>6, <1>7 DEF Wrap, M

LEMMA WrapFits ==
  ASSUME NEW n \in Int, -Half <= n, n < Half
  PROVE  Wrap(n) = n
  BY HalfAssumption DEF Wrap

LEMMA SizeTFits ==
  ASSUME NEW n \in Nat, n < Half
  PROVE  SizeT(n) = n
  <1>1. Half * (Half - 1) >= 0
    BY HalfAssumption
  <1>2. (2 * Half) * (2 * Half) >= 2 * Half
    BY <1>1, HalfAssumption
  <1>3. n < (2 * Half) * (2 * Half) /\ (2 * Half) * (2 * Half) \in Nat \ {0}
    BY <1>2, HalfAssumption
  <1> QED
    BY <1>3 DEF SizeT

\* What the counters hold of the numbers they stand for.
CountersInv ==
  /\ IsFiniteSet(registered) /\ IsFiniteSet(used)
  /\ active_count = Wrap(LiveCount)
  /\ active_size = Wrap(LiveSize)

LEMMA LiveNumbers ==
  ASSUME IsFiniteSet(registered), IsFiniteSet(used)
  PROVE  LiveCount \in Nat /\ LiveSize \in Nat
  <1>1. Cardinality(registered) \in Nat /\ Cardinality(used) \in Nat
    BY FS_CardinalityType
  <1> HIDE DEF ExampleAssumption
  <1>2. PhSize * Cardinality(registered) \in Nat /\ HandleSize * Cardinality(used) \in Nat
    BY <1>1, ExampleAssumption DEF ExampleAssumption
  <1> QED
    BY <1>1, <1>2 DEF LiveCount, LiveSize

\* What one more provider, and one handle more or less, makes of the sizes.
LEMMA OneMore ==
  ASSUME NEW r \in Nat, NEW c \in Nat
  PROVE  /\ PhSize * (r + 1) + HandleSize * c = (PhSize * r + HandleSize * c) + PhSize
         /\ PhSize * r + HandleSize * (c + 1) = (PhSize * r + HandleSize * c) + HandleSize
         /\ PhSize * r + HandleSize * (c - 1) = (PhSize * r + HandleSize * c) + (-HandleSize)
  BY ExampleAssumption DEF ExampleAssumption

LEMMA CountersInitially == ExampleInit => CountersInv
  <1> SUFFICES ASSUME ExampleInit PROVE CountersInv
    OBVIOUS
  <1>1. registered = {} /\ used = {} /\ active_count = 0 /\ active_size = 0
    BY DEF ExampleInit, Init, MemInit
  <1>2. LiveCount = 0 /\ LiveSize = 0
    BY <1>1, FS_EmptySet, ExampleAssumption DEF LiveCount, LiveSize, ExampleAssumption
  <1> QED
    BY <1>1, <1>2, FS_EmptySet, WrapFits, HalfAssumption DEF CountersInv

\* A counter that goes along with its number keeps to it.
LEMMA CountersKeep ==
  ASSUME CountersInv, NEW d \in Int, NEW e \in Int,
         IsFiniteSet(registered)', IsFiniteSet(used)',
         LiveCount' = LiveCount + d, LiveSize' = LiveSize + e,
         active_count' = Wrap(active_count + d), active_size' = Wrap(active_size + e)
  PROVE  CountersInv'
  <1>1. LiveCount \in Int /\ LiveSize \in Int
    BY LiveNumbers DEF CountersInv
  <1>2. active_count' = Wrap(Wrap(LiveCount) + d) /\ active_size' = Wrap(Wrap(LiveSize) + e)
    BY DEF CountersInv
  <1>3. active_count' = Wrap(LiveCount + d) /\ active_size' = Wrap(LiveSize + e)
    BY <1>1, <1>2, WrapAdd
  <1> QED
    BY <1>3 DEF CountersInv

LEMMA RegistersCounts ==
  ASSUME CountersInv, NEW p \in Providers, Registers(p)
  PROVE  CountersInv'
  <1>1. p \notin registered /\ registered' = registered \cup {p} /\ used' = used
    BY DEF Registers, Register, memory
  <1>2. active_count' = Wrap(active_count + 1) /\ active_size' = Wrap(active_size + PhSize)
    BY DEF Registers, MemAlloc
  <1>3. /\ IsFiniteSet(registered)' /\ IsFiniteSet(used)'
        /\ Cardinality(registered)' = Cardinality(registered) + 1
        /\ Cardinality(used)' = Cardinality(used)
    BY <1>1, FS_AddElement DEF CountersInv
  <1>4. Cardinality(registered) \in Nat /\ Cardinality(used) \in Nat
    BY FS_CardinalityType DEF CountersInv
  <1>5. LiveCount' = LiveCount + 1 /\ LiveSize' = LiveSize + PhSize
    <2>1. LiveCount' = LiveCount + 1
      BY <1>3, <1>4 DEF LiveCount
    <2>2. LiveSize' = LiveSize + PhSize
      BY <1>3, <1>4, OneMore DEF LiveSize
    <2> QED
      BY <2>1, <2>2
  <1> QED
    BY <1>2, <1>3, <1>5, CountersKeep, ExampleAssumption DEF ExampleAssumption

LEMMA BuildsCounts ==
  ASSUME CountersInv, Known, NEW u \in Users, Builds(u)
  PROVE  CountersInv'
  <1>1. registered' = registered
    BY DEF Builds, Build, tables
  <1>2. CASE UNCHANGED <<used, mine>>
    <2>1. UNCHANGED counters
      BY <1>2 DEF Builds, MemAlloc
    <2> QED
      BY <1>1, <1>2, <2>1 DEF counters, CountersInv, LiveCount, LiveSize
  <1>3. ASSUME NEW h \in Handles \ used, used' = used \cup {h},
               mine' = [mine EXCEPT ![u] = @ \cup {h}]
        PROVE  CountersInv'
    <2>1. mine' # mine
      BY <1>3, InReach DEF Known, StrayInv, ApiInv, ApiTypes, HandlesHold, Holds, Reach
    <2>2. active_count' = Wrap(active_count + 1) /\ active_size' = Wrap(active_size + HandleSize)
      BY <2>1 DEF Builds, MemAlloc
    <2>3. /\ IsFiniteSet(registered)' /\ IsFiniteSet(used)'
          /\ Cardinality(registered)' = Cardinality(registered)
          /\ Cardinality(used)' = Cardinality(used) + 1
      BY <1>1, <1>3, FS_AddElement DEF CountersInv
    <2>4. Cardinality(registered) \in Nat /\ Cardinality(used) \in Nat
      BY FS_CardinalityType DEF CountersInv
    <2>5. LiveCount' = LiveCount + 1 /\ LiveSize' = LiveSize + HandleSize
      <3>1. LiveCount' = LiveCount + 1
        BY <2>3, <2>4 DEF LiveCount
      <3>2. LiveSize' = LiveSize + HandleSize
        BY <2>3, <2>4, OneMore DEF LiveSize
      <3> QED
        BY <3>1, <3>2
    <2> QED
      BY <2>2, <2>3, <2>5, CountersKeep, ExampleAssumption DEF ExampleAssumption
  <1> QED
    BY <1>2, <1>3 DEF Builds, Build

\* A handle is released once: it was in use until now.
LEMMA ReleasesCounts ==
  ASSUME CountersInv, Known, NEW u \in Users, Releases(u)
  PROVE  CountersInv'
  <1> DEFINE a == Arg(u)
  <1>1. registered' = registered /\ used' = used \ {a} /\ a \in used
    BY DEF Releases, Release, Goto, tables, Known, AccountInv, ApiInv, EndsOK, ReleaseOK
  <1>2. active_count' = Wrap(active_count + (-1)) /\ active_size' = Wrap(active_size + (-HandleSize))
    <2>1. active_count \in Int /\ active_size \in Int
      BY LiveNumbers, HalfAssumption DEF CountersInv, Wrap
    <2> QED
      BY <2>1, ExampleAssumption DEF Releases, MemFree, ExampleAssumption
  <1>3. /\ IsFiniteSet(registered)' /\ IsFiniteSet(used)'
        /\ Cardinality(registered)' = Cardinality(registered)
        /\ Cardinality(used)' = Cardinality(used) - 1
    BY <1>1, FS_RemoveElement DEF CountersInv
  <1>4. Cardinality(registered) \in Nat /\ Cardinality(used) \in Nat
    BY FS_CardinalityType DEF CountersInv
  <1>5. LiveCount' = LiveCount + (-1) /\ LiveSize' = LiveSize + (-HandleSize)
    <2>1. LiveCount' = LiveCount + (-1)
      BY <1>3, <1>4 DEF LiveCount
    <2>2. LiveSize' = LiveSize + (-HandleSize)
      BY <1>3, <1>4, OneMore DEF LiveSize
    <2> QED
      BY <2>1, <2>2
  <1> QED
    BY <1>2, <1>3, <1>5, CountersKeep, ExampleAssumption DEF ExampleAssumption

LEMMA OthersCount ==
  ASSUME CountersInv, UNCHANGED <<registered, used, counters>>
  PROVE  CountersInv'
  BY DEF CountersInv, LiveCount, LiveSize, counters

LEMMA CountersInvariant == ExampleSpec => []CountersInv
  <1>1. ASSUME CountersInv, Known, [ExampleNext]_exampleVars PROVE CountersInv'
    <2>1. ASSUME NEW p \in Providers, GoesDown(p) PROVE UNCHANGED <<registered, used, counters>>
      BY <2>1 DEF GoesDown, InvalidateFuncs, InvalidateCaps, memory
    <2>2. ASSUME NEW u \in Users, Starts(u) \/ Checks(u) \/ CallsExample(u)
          PROVE  UNCHANGED <<registered, used, counters>>
      <3>1. CASE Starts(u)
        BY <3>1 DEF Starts, StartCall, tables, memory
      <3>2. CASE Checks(u)
        BY <3>2 DEF Checks, Sane, Return, Advance, tables, memory
      <3>3. CASE CallsExample(u)
        BY <3>3 DEF CallsExample, Call, Return, Advance, Goto, tables, memory
      <3> QED
        BY <2>2, <3>1, <3>2, <3>3
    <2>3. CASE UNCHANGED exampleVars
      BY <1>1, <2>3, OthersCount DEF exampleVars, vars, tables, memory
    <2> QED
      BY <1>1, <2>1, <2>2, <2>3, RegistersCounts, BuildsCounts, ReleasesCounts, OthersCount
      DEF ExampleNext
  <1>2. ExampleSpec => Spec
    BY ExampleSteps, PTL DEF ExampleSpec, Spec
  <1>3. Known <=> AccountInv /\ StrayInv /\ ExampleInv
    BY DEF Known
  <1> QED
    BY CountersInitially, <1>1, <1>2, <1>3, AccountInvariant, StrayInvariant, ExampleInvariant, PTL
    DEF ExampleSpec

\* For counters of any width and structures of any size: what
\* dpusm_mem_stats reports is what providers and handles take up, whenever
\* that fits, even if it did not fit at some time before.
THEOREM AllocsAreCounted == ExampleSpec => []AllocsCounted
  <1>1. CountersInv => AllocsCounted
    <2> SUFFICES ASSUME CountersInv PROVE AllocsCounted
      OBVIOUS
    <2>1. LiveCount \in Nat /\ LiveSize \in Nat
      BY LiveNumbers DEF CountersInv
    <2>2. ASSUME NEW n \in Nat, n < Half PROVE SizeT(Wrap(n)) = n
      BY <2>2, WrapFits, SizeTFits, HalfAssumption
    <2> QED
      BY <2>1, <2>2 DEF CountersInv, AllocsCounted, MemStatistics
  <1> QED
    BY <1>1, CountersInvariant, PTL
=============================================================================
