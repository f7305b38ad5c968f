---------------------------- MODULE StrayProofs ----------------------------
(***************************************************************************)
(* Where the handles are, for every number of users, providers, handles    *)
(* and objects: with the user that got it, in the call that ends it, or    *)
(* stranded at a provider that went down.                                  *)
(***************************************************************************)
EXTENDS UserApiProofs

\* The function that ends a handle of each kind, and the ones that make one.
CloseSlot == [mem |-> "free", raid |-> "raid_free", file |-> "file_close", disk |-> "disk_close"]
Opens == {<<"mem", "alloc">>, <<"mem", "alloc_ref">>, <<"raid", "raid_alloc">>,
          <<"file", "file_open">>, <<"disk", "disk_open">>}

\* A call that ends a handle takes that one alone, and is turned away for
\* want of its function or its provider and for nothing else; a call that
\* makes a handle makes one of the kind its function is for.
EndingRow(op) ==
  op.ends => \E kind \in Kinds :
    /\ op.takes = <<kind>>
    /\ op.slot = CloseSlot[kind]
    /\ op.needs = {}
    /\ ~op.late
MakingRow(op) == op.makes # "none" => <<op.makes, op.slot>> \in Opens

LEMMA PlainRows ==
  ASSUME NEW takes, NEW slot, NEW bits
  PROVE  /\ EndingRow(Row(takes, slot)) /\ MakingRow(Row(takes, slot))
         /\ EndingRow(Needs(Row(takes, slot), bits)) /\ MakingRow(Needs(Row(takes, slot), bits))
  BY DEF EndingRow, MakingRow, Row, Needs

LEMMA OpeningRows ==
  ASSUME NEW takes, NEW kind, NEW slot, NEW bits, <<kind, slot>> \in Opens
  PROVE  /\ EndingRow(Makes(Row(takes, slot), kind)) /\ MakingRow(Makes(Row(takes, slot), kind))
         /\ EndingRow(Makes(Needs(Row(takes, slot), bits), kind))
         /\ MakingRow(Makes(Needs(Row(takes, slot), bits), kind))
  BY DEF EndingRow, MakingRow, Row, Needs, Makes

LEMMA ClosingRows ==
  ASSUME NEW kind \in Kinds, NEW slot, slot = CloseSlot[kind]
  PROVE  EndingRow(Ends(Row(<<kind>>, slot))) /\ MakingRow(Ends(Row(<<kind>>, slot)))
  BY DEF EndingRow, MakingRow, Row, Ends

LEMMA RowKinds == \A op \in Operations : EndingRow(op) /\ MakingRow(op)
  <1>1. EndingRow(RaidSetColumn) /\ MakingRow(RaidSetColumn)
    BY DEF EndingRow, MakingRow, RaidSetColumn, Row
  <1>2. \A op \in {Alloc, AllocRef, FileOpen, DiskOpen} : EndingRow(op) /\ MakingRow(op)
    BY OpeningRows DEF Alloc, AllocRef, FileOpen, DiskOpen, Opens
  <1>3. \A op \in {FreeMem, RaidFree, FileClose, DiskClose} : EndingRow(op) /\ MakingRow(op)
    <2>1. /\ CloseSlot["mem"] = "free" /\ CloseSlot["raid"] = "raid_free"
          /\ CloseSlot["file"] = "file_close" /\ CloseSlot["disk"] = "disk_close"
      BY DEF CloseSlot
    <2> QED
      BY <2>1, Takes, ClosingRows DEF FreeMem, RaidFree, FileClose, DiskClose
  <1>4. \A op \in {RaidGenerate, RaidCompare, RaidReconstruct} : EndingRow(op) /\ MakingRow(op)
    BY PlainRows DEF RaidGenerate, RaidCompare, RaidReconstruct
  <1>5. \A op \in {GetSize, AssociateHandle, CopyFromGeneric, CopyToGeneric, CopyFromPtr,
                   CopyToPtr, CopyFromScatterlist, CopyToScatterlist, ZeroFill, AllZeros,
                   DiskInvalidate, DiskFlush, MemStats, RaidCanCompute, FileWrite, DiskWrite} :
          EndingRow(op) /\ MakingRow(op)
    BY PlainRows DEF GetSize, AssociateHandle, CopyFromGeneric, CopyToGeneric,
      CopyFromPtr, CopyToPtr, CopyFromScatterlist, CopyToScatterlist, ZeroFill, AllZeros,
      DiskInvalidate, DiskFlush, MemStats, RaidCanCompute, FileWrite, DiskWrite
  <1>6. \A alg, order : /\ EndingRow(Compress(alg)) /\ MakingRow(Compress(alg))
                        /\ EndingRow(Decompress(alg)) /\ MakingRow(Decompress(alg))
                        /\ EndingRow(Checksum(alg, order)) /\ MakingRow(Checksum(alg, order))
    BY PlainRows DEF Compress, Decompress, Checksum
  <1>7. \A nparity : EndingRow(RaidAlloc(nparity)) /\ MakingRow(RaidAlloc(nparity))
    BY OpeningRows DEF RaidAlloc, Opens
  <1> QED
    BY <1>1, <1>2, <1>3, <1>4, <1>5, <1>6, <1>7 DEF Operations

\* A table that makes handles of a kind and passes the check ends them too.
LEMMA ClosesToo ==
  ASSUME NEW table, SaneAtLoad(table), NEW kind, NEW slot \in table, <<kind, slot>> \in Opens
  PROVE  kind \in Kinds /\ CloseSlot[kind] \in table
  <1>1. /\ Required \subseteq table
        /\ RaidGen \cap table = {} \/ RaidGen \subseteq table
        /\ File \cap table = {} \/ File \subseteq table
        /\ Disk \cap table = {} \/ Disk \subseteq table
    BY DEF SaneAtLoad, BadGroups, All, None
  <1> QED
    BY <1>1 DEF Opens, Kinds, CloseSlot, Required, RaidGen, File, Disk

-----------------------------------------------------------------------------
(* The inductive invariant.                                                *)

\* The handle is u's, or in the call of u that ends it.
Has(u, h) == h \in mine[u] \/ (pc[u] # "idle" /\ call[u].op.ends /\ Arg(u) = h)

\* A handle that nobody has was stranded.
Stranded(h) == funcs[hnd[h].provider] = NoTable /\ hnd[h].kind # "mem"
PlaceInv == \A h \in used : Stranded(h) \/ \E u \in Users : Has(u, h)

\* The provider of a handle has the function that ends it.
Closable(h) ==
  /\ hnd[h].provider \in registered
  /\ hnd[h].kind \in Kinds
  /\ funcs[hnd[h].provider] # NoTable => CloseSlot[hnd[h].kind] \in funcs[hnd[h].provider]
ClosableInv == \A h \in used : Closable(h)

TablesSane == \A p \in registered : funcs[p] # NoTable => SaneAtLoad(funcs[p])

\* What a call has found out about its handle and its function.
KnowsOK(u) ==
  /\ pc[u] = "match" => call[u].op.late
  /\ pc[u] = "build" =>
       /\ call[u].op.makes # "none"
       /\ Funcs(u) # NoTable => call[u].op.slot \in Funcs(u)
  /\ Running(u) /\ call[u].op.ends => hnd[Arg(u)].kind = call[u].op.takes[1]
KnowsInv == \A u \in Users : KnowsOK(u)

StrayInv ==
  /\ ApiInv
  /\ PlaceInv
  /\ ClosableInv
  /\ TablesSane
  /\ KnowsInv

LEMMA StrayInitially == Init => StrayInv
  <1> SUFFICES ASSUME Init PROVE StrayInv
    OBVIOUS
  <1>1. ApiInv
    BY ApiInitially
  <1> QED
    BY <1>1 DEF Init, StrayInv, PlaceInv, ClosableInv, TablesSane, KnowsInv, KnowsOK, Running

\* The invariant says what StrayHandles asks for.
LEMMA StrayMeans == StrayInv => StrayHandles
  <1> SUFFICES ASSUME StrayInv, NEW h \in used, h \notin Ending,
                      \A u \in Users : h \notin mine[u],
                      ~(\E u \in Users : pc[u] = "oops" /\ call[u].op.ends /\ Arg(u) = h)
               PROVE  funcs[hnd[h].provider] = NoTable /\ hnd[h].kind # "mem"
    BY DEF StrayHandles
  <1>1. \A u \in Users : ~Has(u, h)
    BY DEF Has, Ending
  <1> QED
    BY <1>1 DEF StrayInv, PlaceInv, Stranded

-----------------------------------------------------------------------------
\* A step of the registry.
LEMMA RegistryStrays ==
  ASSUME StrayInv, NEW p \in Providers, Register(p) \/ InvalidateFuncs(p) \/ InvalidateCaps(p),
         ApiInv'
  PROVE  StrayInv'
  <1> USE DEF StrayInv
  <1>1. UNCHANGED <<hnd, used, home, lost, mine, pc, call>>
    BY DEF Register, InvalidateFuncs, InvalidateCaps, memory
  <1>2. /\ registered \subseteq registered'
        /\ \A q \in registered : funcs'[q] \in {funcs[q], NoTable}
    BY DEF Register, InvalidateFuncs, InvalidateCaps, ApiInv, ApiTypes
  <1>3. TablesSane'
    BY DEF Register, InvalidateFuncs, InvalidateCaps, ApiInv, ApiTypes, TablesSane
  <1>4. ClosableInv'
    BY <1>1, <1>2 DEF ClosableInv, Closable
  <1>5. PlaceInv'
    <2>1. ASSUME NEW h \in used PROVE Stranded(h) => Stranded(h)'
      BY <1>1, <1>2 DEF Stranded, ClosableInv, Closable
    <2>2. \A u, h : Has(u, h)' <=> Has(u, h)
      BY <1>1 DEF Has, Arg
    <2> QED
      BY <1>1, <2>1, <2>2 DEF PlaceInv
  <1>6. ASSUME NEW u \in Users PROVE KnowsOK(u)'
    <2>1. pc[u] = "build" => Prov(u) \in registered
      BY DEF ApiInv, CallsOK, CallOK
    <2> QED
      BY <1>1, <1>2, <2>1 DEF KnowsInv, KnowsOK, Running, Arg, Funcs, Prov
  <1> QED
    BY <1>3, <1>4, <1>5, <1>6 DEF KnowsInv

\* A step of user u that leaves handles and tables alone: what u has it
\* still has, and the others know what they knew.
LEMMA UserStrays ==
  ASSUME StrayInv, NEW u \in Users, UNCHANGED <<registered, funcs, hnd, used>>,
         \A v \in Users \ {u} : pc'[v] = pc[v] /\ call'[v] = call[v] /\ mine'[v] = mine[v],
         \A h \in used : Has(u, h) => Has(u, h)' \/ Stranded(h),
         KnowsOK(u)', ApiInv'
  PROVE  StrayInv'
  <1> USE DEF StrayInv
  <1>1. ClosableInv' /\ TablesSane'
    BY DEF ClosableInv, Closable, TablesSane
  <1>2. \A v \in Users \ {u} : \A h : Has(v, h)' <=> Has(v, h)
    BY DEF Has, Arg
  <1>3. PlaceInv'
    BY <1>2 DEF PlaceInv, Stranded
  <1>4. ASSUME NEW v \in Users, v # u PROVE KnowsOK(v)'
    BY <1>4 DEF KnowsInv, KnowsOK, Running, Arg, Funcs, Prov
  <1> QED
    BY <1>1, <1>3, <1>4 DEF KnowsInv

\* A user gives the handle that its call ends to the call.
LEMMA StartStrays ==
  ASSUME StrayInv, NEW u \in Users, StartCall(u), ApiInv'
  PROVE  StrayInv'
  <1>1. PICK op \in Operations, p \in registered :
          \E args \in [DOMAIN op.takes -> mine[u]] :
            /\ \A i \in DOMAIN args : hnd[args[i]].kind = op.takes[i]
            /\ args # <<>> => p = hnd[args[1]].provider
            /\ call' = [call EXCEPT ![u] =
                         [op |-> op, provider |-> p, args |-> args, made |-> NoObject]]
            /\ mine' = [mine EXCEPT ![u] = IF op.ends THEN @ \ {args[1]} ELSE @]
    BY DEF StartCall
  <1>2. PICK args \in [DOMAIN op.takes -> mine[u]] :
          /\ \A i \in DOMAIN args : hnd[args[i]].kind = op.takes[i]
          /\ call' = [call EXCEPT ![u] =
                       [op |-> op, provider |-> p, args |-> args, made |-> NoObject]]
          /\ mine' = [mine EXCEPT ![u] = IF op.ends THEN @ \ {args[1]} ELSE @]
    BY <1>1
  <1>3. /\ UNCHANGED <<registered, funcs, hnd, used>>
        /\ pc[u] = "idle"
        /\ pc' = [pc EXCEPT ![u] = "sane"]
    BY DEF StartCall, Goto, tables, memory
  <1>4. /\ pc'[u] = "sane"
        /\ call'[u] = [op |-> op, provider |-> p, args |-> args, made |-> NoObject]
        /\ mine'[u] = IF op.ends THEN mine[u] \ {args[1]} ELSE mine[u]
        /\ \A v \in Users \ {u} : pc'[v] = pc[v] /\ call'[v] = call[v] /\ mine'[v] = mine[v]
    BY <1>2, <1>3 DEF StrayInv, ApiInv, ApiTypes
  <1>5. \A h : Has(u, h) => Has(u, h)'
    BY <1>3, <1>4 DEF Has, Arg
  <1>6. op.ends => 1 \in DOMAIN args
    BY Rows DEF RowOK
  <1>7. KnowsOK(u)'
    BY <1>2, <1>3, <1>4, <1>6 DEF KnowsOK, Running, Arg
  <1> QED
    BY <1>3, <1>4, <1>5, <1>7, UserStrays

\* A call goes on, keeping its handles.
LEMMA GoesOn ==
  ASSUME StrayInv, NEW u \in Users, Running(u), NEW to, to \notin {"idle", "sane"},
         UNCHANGED <<registered, funcs, hnd, used, mine>>,
         pc' = [pc EXCEPT ![u] = to],
         \A v \in Users \ {u} : call'[v] = call[v],
         call'[u].op = call[u].op, call'[u].args = call[u].args,
         call'[u].provider = call[u].provider,
         to = "match" => call[u].op.late,
         to = "build" => call[u].op.makes # "none" /\ Callable(u),
         ApiInv'
  PROVE  StrayInv'
  <1>1. pc'[u] = to /\ \A v \in Users \ {u} : pc'[v] = pc[v]
    BY DEF StrayInv, ApiInv, ApiTypes
  <1>2. \A h : Has(u, h) => Has(u, h)'
    BY <1>1 DEF Has, Arg
  <1>3. KnowsOK(u)'
    BY <1>1 DEF StrayInv, KnowsInv, KnowsOK, Running, Arg, Funcs, Prov, Callable
  <1> QED
    BY <1>1, <1>2, <1>3, UserStrays

\* A call comes back without its end, of a handle that it leaves stranded.
LEMMA ComesBack ==
  ASSUME StrayInv, NEW u \in Users, NEW from, Running(u), Return(u, from),
         call[u].op.ends => Stranded(Arg(u)), ApiInv'
  PROVE  StrayInv'
  <1>1. /\ UNCHANGED <<registered, funcs, hnd, used, mine>>
        /\ pc'[u] = "idle"
        /\ \A v \in Users \ {u} : pc'[v] = pc[v] /\ call'[v] = call[v]
    BY DEF Return, Goto, tables, memory, StrayInv, ApiInv, ApiTypes
  <1>2. \A h : Has(u, h) => Has(u, h)' \/ Stranded(h)
    BY <1>1 DEF Has
  <1>3. KnowsOK(u)'
    BY <1>1 DEF KnowsOK, Running
  <1> QED
    BY <1>1, <1>2, <1>3, UserStrays

\* The new handle is u's, and its provider can end it.
LEMMA BuildStrays ==
  ASSUME StrayInv, NEW u \in Users, Build(u), ApiInv'
  PROVE  StrayInv'
  <1> USE DEF StrayInv
  <1>1. /\ UNCHANGED <<registered, funcs, home>>
        /\ pc[u] = "build" /\ pc'[u] = "idle"
        /\ \A v \in Users \ {u} : pc'[v] = pc[v] /\ call'[v] = call[v]
    BY DEF Build, Goto, tables, ApiInv, ApiTypes
  <1>2. KnowsOK(u) /\ CallOK(u)
    BY DEF ApiInv, CallsOK, KnowsInv
  <1>3. KnowsOK(u)'
    BY <1>1 DEF KnowsOK, Running
  <1>4. ~call[u].op.ends
    <2>1. EndingRow(call[u].op) /\ MakingRow(call[u].op)
      BY <1>1, <1>2, RowKinds DEF CallOK
    <2> QED
      BY <1>1, <1>2, <2>1 DEF KnowsOK, EndingRow, MakingRow, CloseSlot, Opens, Kinds
  <1>5. CASE UNCHANGED <<hnd, used, mine>>
    <2>1. \A h : Has(u, h) => Has(u, h)'
      BY <1>4, <1>5 DEF Has
    <2> QED
      BY <1>1, <1>3, <1>5, <2>1, UserStrays
  <1>6. ASSUME NEW h \in Handles \ used,
               used' = used \cup {h},
               hnd' = [hnd EXCEPT ![h] = [provider |-> Prov(u), kind |-> call[u].op.makes,
                                          object |-> call[u].made]],
               mine' = [mine EXCEPT ![u] = @ \cup {h}]
        PROVE  StrayInv'
    <2>1. /\ hnd'[h].provider = Prov(u) /\ hnd'[h].kind = call[u].op.makes
          /\ \A g \in used : g # h /\ hnd'[g] = hnd[g]
          /\ mine'[u] = mine[u] \cup {h}
          /\ \A v \in Users \ {u} : mine'[v] = mine[v]
      BY <1>6 DEF ApiInv, ApiTypes
    <2>2. Closable(h)'
      <3>1. <<call[u].op.makes, call[u].op.slot>> \in Opens
        BY <1>1, <1>2, RowKinds DEF CallOK, KnowsOK, MakingRow
      <3>2. call[u].op.makes \in Kinds
        BY <3>1 DEF Opens, Kinds
      <3>3. Funcs(u) # NoTable => SaneAtLoad(Funcs(u)) /\ call[u].op.slot \in Funcs(u)
        BY <1>1, <1>2 DEF CallOK, KnowsOK, TablesSane, Funcs
      <3>4. Funcs(u) # NoTable => CloseSlot[call[u].op.makes] \in Funcs(u)
        BY <3>1, <3>3, ClosesToo
      <3> QED
        BY <1>1, <1>2, <2>1, <3>2, <3>4 DEF Closable, CallOK, Funcs
    <2>3. ClosableInv' /\ TablesSane'
      BY <1>1, <1>6, <2>1, <2>2 DEF ClosableInv, Closable, TablesSane
    <2>4. \A g \in used : Stranded(g)' <=> Stranded(g)
      BY <1>1, <2>1 DEF Stranded
    <2>5. \A v \in Users : \A g \in used : Has(v, g) => Has(v, g)'
      BY <1>1, <1>4, <2>1 DEF Has, Arg
    <2>6. Has(u, h)'
      BY <2>1 DEF Has
    <2>7. PlaceInv'
      BY <1>6, <2>4, <2>5, <2>6 DEF PlaceInv
    <2>8. ASSUME NEW v \in Users, v # u PROVE KnowsOK(v)'
      <3>1. Running(v) /\ call[v].op.ends => hnd'[Arg(v)] = hnd[Arg(v)]
        BY <2>1, ReachOf DEF ApiInv, CallsOK, HandlesHold, Holds
      <3> QED
        BY <1>1, <2>8, <3>1 DEF KnowsInv, KnowsOK, Running, Arg, Funcs, Prov
    <2> QED
      BY <1>3, <2>3, <2>7, <2>8 DEF KnowsInv
  <1> QED
    BY <1>5, <1>6 DEF Build

\* The handle goes.
LEMMA ReleaseStrays ==
  ASSUME StrayInv, NEW u \in Users, Release(u), ApiInv'
  PROVE  StrayInv'
  <1> USE DEF StrayInv
  <1>1. /\ UNCHANGED <<registered, funcs, home, lost, mine>>
        /\ pc[u] = "release" /\ pc'[u] = "idle"
        /\ \A v \in Users \ {u} : pc'[v] = pc[v] /\ call'[v] = call[v]
        /\ used' = used \ {Arg(u)}
        /\ hnd' = [hnd EXCEPT ![Arg(u)] = NoEntry]
    BY DEF Release, Goto, tables, ApiInv, ApiTypes
  <1>2. \A g \in used' : g # Arg(u) /\ hnd'[g] = hnd[g]
    BY <1>1 DEF ApiInv, ApiTypes
  <1>3. ClosableInv' /\ TablesSane'
    BY <1>1, <1>2 DEF ClosableInv, Closable, TablesSane
  <1>4. \A g \in used' : Stranded(g)' <=> Stranded(g)
    BY <1>1, <1>2 DEF Stranded
  <1>5. \A v \in Users : \A g \in used' : Has(v, g) => Has(v, g)'
    BY <1>1, <1>2 DEF Has, Arg
  <1>6. PlaceInv'
    BY <1>1, <1>4, <1>5 DEF PlaceInv
  <1>7. KnowsOK(u)'
    BY <1>1 DEF KnowsOK, Running
  <1>8. ASSUME NEW v \in Users, v # u PROVE KnowsOK(v)'
    <2>1. Running(v) /\ call[v].op.ends => Arg(v) \in used' /\ Arg(v) # Arg(u)
      BY <1>1, ReachOf DEF ApiInv, CallsOK, HandlesHold, Holds, EndsOK, ReleaseOK
    <2>2. Running(v) /\ call[v].op.ends => hnd'[Arg(v)] = hnd[Arg(v)]
      BY <1>2, <2>1
    <2> QED
      BY <1>1, <1>8, <2>2 DEF KnowsInv, KnowsOK, Running, Arg, Funcs, Prov
  <1> QED
    BY <1>3, <1>6, <1>7, <1>8 DEF KnowsInv

-----------------------------------------------------------------------------
\* What a call that ends a handle has to do with it.
LEMMA EndingCall ==
  ASSUME StrayInv, NEW u \in Users, Running(u), call[u].op.ends
  PROVE  /\ Closable(Arg(u))
         /\ hnd[Arg(u)].provider = Prov(u)
         /\ hnd[Arg(u)].kind \in Kinds
         /\ call[u].op.slot = CloseSlot[hnd[Arg(u)].kind]
         /\ call[u].op.needs = {} /\ ~call[u].op.late
         /\ ~Mismatch(u)
         /\ call[u].op # RaidCompare
  <1>1. /\ CallOK(u) /\ ArgsOK(u) /\ KnowsOK(u)
        /\ call[u].op \in Operations
    BY DEF StrayInv, ApiInv, CallsOK, CallOK, KnowsInv, Running
  <1>2. PICK kind \in Kinds : /\ call[u].op.takes = <<kind>>
                              /\ call[u].op.slot = CloseSlot[kind]
                              /\ call[u].op.needs = {} /\ ~call[u].op.late
    BY <1>1, RowKinds DEF EndingRow
  <1>3. DOMAIN call[u].args = {1}
    BY <1>1, <1>2 DEF CallOK, Running
  <1>4. hnd[Arg(u)].kind = kind /\ hnd[Arg(u)].provider = Prov(u)
    BY <1>1, <1>2, <1>3 DEF KnowsOK, ArgsOK
  <1>5. Arg(u) \in used
    BY <1>1, ReachOf DEF StrayInv, ApiInv, HandlesHold, Holds
  <1>6. ~Mismatch(u)
    BY <1>3 DEF Mismatch
  <1>7. call[u].op # RaidCompare
    BY DEF RaidCompare, Needs, Row
  <1> QED
    BY <1>2, <1>4, <1>5, <1>6, <1>7 DEF StrayInv, ClosableInv

\* A step of the call of user u.
LEMMA StepStrays ==
  ASSUME StrayInv, NEW u \in Users, Step(u), ApiInv'
  PROVE  StrayInv'
  <1> DEFINE op == call[u].op
  <1>0. ASSUME NEW from, NEW to \in Labels \ {"idle", "sane", "match", "build"},
               Running(u), Advance(u, from, to)
        PROVE  StrayInv'
    BY <1>0, GoesOn DEF Advance, Goto, tables, memory
  <1>1. CASE Sane(u)
    <2>1. Running(u)
      BY <1>1 DEF Sane, Running
    <2>2. CASE /\ \/ Mismatch(u) /\ ~op.late
                  \/ Funcs(u) = NoTable /\ op.slot # "free"
                  \/ op = RaidCompare
               /\ Return(u, "sane")
      <3>1. op.ends => Stranded(Arg(u))
        BY <2>1, <2>2, EndingCall DEF Stranded, Funcs, CloseSlot
      <3> QED
        BY <2>1, <2>2, <3>1, ComesBack
    <2>3. CASE Advance(u, "sane", "release") \/ Advance(u, "sane", AfterSane(op))
      <3>1. {"release", AfterSane(op)} \subseteq Labels \ {"idle", "sane", "match", "build"}
        BY DEF AfterSane, Labels
      <3> QED
        BY <1>0, <2>1, <2>3, <3>1
    <2> QED
      BY <1>1, <2>2, <2>3 DEF Sane
  <1>2. CASE Test(u)
    <2>1. Running(u) /\ {"oops", "needs"} \subseteq Labels \ {"idle", "sane", "match", "build"}
      BY <1>2 DEF Test, Running, Labels
    <2>2. CASE Funcs(u) # NoTable /\ op.slot \notin Funcs(u) /\ Return(u, "test")
      <3>1. ~op.ends
        BY <2>1, <2>2, EndingCall DEF Closable, Funcs
      <3> QED
        BY <2>1, <2>2, <3>1, ComesBack
    <2>3. CASE Advance(u, "test", "oops") \/ Advance(u, "test", "needs")
      BY <1>0, <2>1, <2>3
    <2> QED
      BY <1>2, <2>2, <2>3 DEF Test
  <1>3. CASE CheckNeeds(u)
    <2>1. Running(u)
      BY <1>3 DEF CheckNeeds, Running
    <2>2. CASE ~Advertised(u) /\ Return(u, "needs")
      <3>1. ~op.ends
        BY <2>1, <2>2, EndingCall DEF Advertised
      <3> QED
        BY <2>1, <2>2, <3>1, ComesBack
    <2>3. CASE Advance(u, "needs", IF op.late THEN "match" ELSE "call")
      <3>1. CASE op.late
        BY <2>1, <2>3, <3>1, GoesOn DEF Advance, Goto, tables, memory
      <3>2. CASE ~op.late
        BY <1>0, <2>1, <2>3, <3>2 DEF Labels
      <3> QED
        BY <3>1, <3>2
    <2> QED
      BY <1>3, <2>2, <2>3 DEF CheckNeeds
  <1>4. CASE Match(u)
    <2>1. Running(u) /\ op.late
      BY <1>4 DEF Match, Running, StrayInv, KnowsInv, KnowsOK
    <2>2. ~op.ends
      BY <2>1, EndingCall
    <2>3. CASE Return(u, "match")
      BY <2>1, <2>2, <2>3, ComesBack
    <2>4. CASE Advance(u, "match", "call")
      BY <1>0, <2>1, <2>4 DEF Labels
    <2> QED
      BY <1>4, <2>3, <2>4 DEF Match
  <1>5. CASE Call(u)
    <2>1. Running(u)
      BY <1>5 DEF Call, Running
    <2>2. CASE Advance(u, "call", "oops")
      BY <1>0, <2>1, <2>2 DEF Labels
    <2>3. CASE ~op.ends /\ Return(u, "call")
      BY <2>1, <2>3, ComesBack
    <2>4. CASE /\ Callable(u) /\ op.makes # "none"
               /\ Goto(u, "call", "build")
               /\ \E o \in Objects : call' = [call EXCEPT ![u].made = o]
               /\ UNCHANGED <<tables, hnd, used, lost, mine>>
      <3>1. /\ call'[u].op = op /\ call'[u].args = call[u].args
            /\ call'[u].provider = call[u].provider
            /\ \A v \in Users \ {u} : call'[v] = call[v]
        BY <2>4 DEF StrayInv, ApiInv, ApiTypes, CallRecords
      <3> QED
        BY <2>1, <2>4, <3>1, GoesOn DEF Goto, tables
    <2>5. CASE Goto(u, "call", "release") /\ UNCHANGED <<tables, hnd, used, mine, call>>
      BY <2>1, <2>5, GoesOn DEF Goto, tables
    <2> QED
      BY <1>5, <2>2, <2>3, <2>4, <2>5 DEF Call
  <1>6. CASE Build(u)
    BY <1>6, BuildStrays
  <1>7. CASE Release(u)
    BY <1>7, ReleaseStrays
  <1> QED
    BY <1>1, <1>2, <1>3, <1>4, <1>5, <1>6, <1>7 DEF Step

LEMMA StrayStuttering ==
  ASSUME StrayInv, UNCHANGED vars, ApiInv'
  PROVE  StrayInv'
  <1>1. UNCHANGED <<registered, funcs, hnd, used, mine, pc, call>>
    BY DEF vars, tables, memory
  <1> QED
    BY <1>1 DEF StrayInv, PlaceInv, Stranded, Has, Arg, ClosableInv, Closable, TablesSane,
      KnowsInv, KnowsOK, Running, Funcs, Prov

LEMMA StrayInvariant == Spec => []StrayInv
  <1>1. ASSUME StrayInv, [Next]_vars PROVE StrayInv'
    <2>1. ApiInv'
      BY <1>1, RegistryKeeps, StartKeeps, StepKeeps, ApiStuttering DEF StrayInv, Next
    <2> QED
      BY <1>1, <2>1, StrayStuttering, RegistryStrays, StartStrays, StepStrays DEF Next
  <1> QED
    BY StrayInitially, <1>1, PTL DEF Spec

\* Whatever calls of whatever users fail at which point: a handle that its
\* user is done with is freed, unless it is a RAID context, a file or a disk
\* of a provider that went down before, or the call crashed there.
THEOREM StraysAreKnown == Spec => []StrayHandles
  BY StrayMeans, StrayInvariant, PTL

-----------------------------------------------------------------------------
(* Types, as far as ApiTypes leaves them open.                             *)

Entries == [provider : Providers, kind : Kinds, object : Objects] \cup {NoEntry}

Masks(c) == \A mask \in DOMAIN NoCapabilities : c[mask] \subseteq 0..31

TypeInv ==
  /\ StrayInv
  /\ DOMAIN caps = Providers
  /\ \A p \in Providers : Masks(caps[p])
  /\ hnd \in [Handles -> Entries]
  /\ lost \subseteq Objects

LEMMA TypeMeans == TypeInv => TypeOK
  <1> SUFFICES ASSUME TypeInv PROVE TypeOK
    OBVIOUS
  <1>1. ApiTypes
    BY DEF TypeInv, StrayInv, ApiInv
  <1>2. ASSUME NEW u \in Users, pc[u] # "idle"
        PROVE  /\ call[u].op \in Operations
               /\ call[u].provider \in registered
               /\ call[u].made \in Objects \cup {NoObject}
    <2>1. CallOK(u)
      BY DEF TypeInv, StrayInv, ApiInv, CallsOK
    <2>2. call[u].made \in Objects \cup {NoObject}
      BY <1>1 DEF ApiTypes, CallRecords
    <2> QED
      BY <1>2, <2>1, <2>2 DEF CallOK, Prov
  <1> QED
    BY <1>1, <1>2 DEF TypeInv, TypeOK, ApiTypes, Entries, Masks

LEMMA NothingMasked == Masks(NoCapabilities)
  BY DEF Masks, NoCapabilities

\* What dpusmph_init records fits into ints.
LEMMA CapabilitiesMasked ==
  ASSUME NEW table, NEW claim \in Claims, NEW junk \in Junk
  PROVE  Masks(Capabilities(table, claim, junk))
  <1>1. \A s \in DOMAIN OptionalBit : OptionalBit[s] \in 0..31
    BY DEF OptionalBit
  <1> DEFINE c == Capabilities(table, claim, junk)
  <1>2. c.optional \subseteq 0..31
    BY <1>1, MasksAssumption DEF Capabilities
  <1>3. /\ c.compress \subseteq 0..31 /\ c.decompress \subseteq 0..31
        /\ c.checksum \subseteq 0..31 /\ c.byteorder \subseteq 0..31 /\ c.raid \subseteq 0..31
    BY MasksAssumption DEF Capabilities, Backed
  <1>4. c.io \subseteq 0..31
    BY MasksAssumption DEF Capabilities, Backed, IoFile, IoDisk
  <1>5. DOMAIN NoCapabilities =
          {"optional", "compress", "decompress", "checksum", "byteorder", "raid", "io"}
    BY DEF NoCapabilities
  <1> QED
    BY <1>2, <1>3, <1>4, <1>5 DEF Masks

\* The two steps that write to a handle.
LEMMA BuildTypes ==
  ASSUME TypeInv, NEW u \in Users, Build(u)
  PROVE  hnd' \in [Handles -> Entries] /\ lost' \subseteq Objects
  <1>1. pc[u] = "build" /\ CallOK(u) /\ BuildOK(u) /\ KnowsOK(u)
    BY DEF Build, Goto, TypeInv, StrayInv, ApiInv, CallsOK, EndsOK, KnowsInv
  <1>2. call[u].made \in Objects /\ Prov(u) \in Providers
    BY <1>1 DEF BuildOK, CallOK, TypeInv, StrayInv, ApiInv, ApiTypes
  <1>3. <<call[u].op.makes, call[u].op.slot>> \in Opens
    BY <1>1, RowKinds DEF CallOK, KnowsOK, MakingRow
  <1>4. call[u].op.makes \in Kinds
    BY <1>3 DEF Opens, Kinds
  <1> QED
    BY <1>2, <1>4 DEF Build, TypeInv, Entries

LEMMA ApiTypesStep ==
  ASSUME TypeInv, [Next]_vars, StrayInv'
  PROVE  TypeInv'
  <1> USE DEF TypeInv
  <1>1. ASSUME NEW p \in Providers, Register(p) PROVE TypeInv'
    <2>1. PICK table \in Tables, claim \in Claims, junk \in Junk :
            caps' = [caps EXCEPT ![p] = Capabilities(table, claim, junk)]
      BY <1>1 DEF Register
    <2>2. \A q \in Providers : Masks(caps'[q])
      BY <2>1, CapabilitiesMasked
    <2> QED
      BY <1>1, <2>1, <2>2 DEF Register, memory
  <1>2. ASSUME NEW p \in Providers, InvalidateFuncs(p) PROVE TypeInv'
    BY <1>2 DEF InvalidateFuncs, memory
  <1>3. ASSUME NEW p \in Providers, InvalidateCaps(p) PROVE TypeInv'
    <2>1. \A q \in Providers : Masks(caps'[q])
      BY <1>3, NothingMasked DEF InvalidateCaps
    <2> QED
      BY <1>3, <2>1 DEF InvalidateCaps, memory
  <1>4. ASSUME NEW u \in Users, Build(u) PROVE TypeInv'
    BY <1>4, BuildTypes DEF Build, tables
  <1>5. ASSUME NEW u \in Users, Release(u) PROVE TypeInv'
    BY <1>5 DEF Release, tables, Entries
  <1>6. ASSUME UNCHANGED <<caps, hnd, lost>> PROVE TypeInv'
    BY <1>6
  <1>7. ASSUME NEW u \in Users, StartCall(u) PROVE TypeInv'
    BY <1>6, <1>7 DEF StartCall, tables, memory
  <1>8. ASSUME NEW u \in Users, NEW from, NEW to, Advance(u, from, to) \/ Return(u, from)
        PROVE  TypeInv'
    BY <1>6, <1>8 DEF Advance, Return, tables, memory
  <1>9. ASSUME NEW u \in Users,
               Sane(u) \/ Test(u) \/ CheckNeeds(u) \/ Match(u) PROVE TypeInv'
    BY <1>8, <1>9 DEF Sane, Test, CheckNeeds, Match
  <1>10. ASSUME NEW u \in Users, Call(u) PROVE TypeInv'
    <2>1. CASE lost' = lost \cup {hnd[Arg(u)].object} /\ UNCHANGED <<caps, hnd>>
      <3>1. (Running(u) /\ call[u].op.ends) \/ lost' = lost
        BY <1>10 DEF Call, Running, Advance, Return, memory
      <3>2. CASE Running(u) /\ call[u].op.ends
        <4>1. Arg(u) \in Reach(u)
          BY <3>2, ReachOf DEF StrayInv, ApiInv, CallsOK
        <4>2. hnd[Arg(u)].object \in Objects
          BY <4>1 DEF StrayInv, ApiInv, HandlesHold, Holds
        <4> QED
          BY <2>1, <4>2
      <3> QED
        BY <1>6, <2>1, <3>1, <3>2
    <2> QED
      BY <1>6, <1>8, <1>10, <2>1 DEF Call, tables
  <1>11. CASE UNCHANGED vars
    BY <1>6, <1>11 DEF vars, tables, memory
  <1> QED
    BY <1>1, <1>2, <1>3, <1>4, <1>5, <1>7, <1>9, <1>10, <1>11 DEF Next, Step

LEMMA TypesInvariant == Spec => []TypeInv
  <1>1. Init => TypeInv
    BY StrayInitially, NothingMasked DEF Init, TypeInv, Entries
  <1>2. ASSUME TypeInv, StrayInv', [Next]_vars PROVE TypeInv'
    BY <1>2, ApiTypesStep
  <1> QED
    BY <1>1, <1>2, StrayInvariant, PTL DEF Spec

\* Whatever tables and claims providers come with: handles, masks and calls
\* stay what their C types say.
THEOREM ApiTypeCorrect == Spec => []TypeOK
  BY TypeMeans, TypesInvariant, PTL

-----------------------------------------------------------------------------
(* The names that are printed for the bits of a mask.                      *)

\* Shifting the one bit b right brings it to the end after b times, the sign
\* bit too, which leaves copies behind; and not before.
LEMMA ShiftedOut ==
  ASSUME NEW b \in 0..31, NEW n \in 0..31
  PROVE  0 \in ShiftRight({b}, n) <=> n = b
  BY DEF ShiftRight

\* enum2index finds every bit of an int.
LEMMA IndexFound == \A b \in 0..31 : IndexOf[b] = b
  <1> SUFFICES ASSUME NEW b \in 0..31 PROVE EnumIndex({b}) = b
    BY DEF IndexOf
  <1> DEFINE Out(n) == /\ 0 \in ShiftRight({b}, n)
                       /\ \A k \in 0..(n - 1) : 0 \notin ShiftRight({b}, k)
  <1>1. ASSUME NEW n \in 0..31 PROVE Out(n) <=> n = b
    <2>1. 0 \in ShiftRight({b}, n) <=> n = b
      BY ShiftedOut
    <2>2. ASSUME NEW k \in 0..(n - 1) PROVE 0 \in ShiftRight({b}, k) <=> k = b
      <3>1. k \in 0..31
        OBVIOUS
      <3> QED
        BY <3>1, ShiftedOut
    <2>3. ASSUME NEW k \in 0..(n - 1), n = b PROVE 0 \notin ShiftRight({b}, k)
      BY <2>2, <2>3
    <2> QED
      BY <2>1, <2>3
  <1>2. EnumIndex({b}) = CHOOSE n \in 0..31 : Out(n)
    BY DEF EnumIndex
  <1> HIDE DEF Out
  <1>3. \A n \in 0..31 : n = b => Out(n)
    BY <1>1
  <1> QED
    BY <1>1, <1>2, <1>3

\* Every bit below the end of a loop has a string, and so has the bit of a
\* function.
LEMMA TablesLongEnough ==
  /\ \A mask \in DOMAIN MaxBit : MaxBit[mask] \in 0..32 /\ MaxBit[mask] <= NameCount[mask]
  /\ DOMAIN MaxBit \subseteq DOMAIN NoCapabilities
  /\ \A s \in DOMAIN OptionalBit : OptionalBit[s] \in 0..(NameCount.optional - 1)
  /\ {IoFile, IoDisk} \subseteq 0..(NameCount.io - 1)
  /\ NameCount.optional = 8 /\ NameCount.io = 2
  BY DEF MaxBit, NameCount, NoCapabilities, OptionalBit, IoFile, IoDisk

LEMMA PrintedNamed ==
  ASSUME NEW table, NEW c, Masks(c), NEW name \in Printed(table, c)
  PROVE  IndexOf[name[2]] = name[2] /\ name[2] < NameCount[name[1]]
  <1>1. CASE \E s \in DOMAIN OptionalBit : name = <<"optional", OptionalBit[s]>>
    BY <1>1, TablesLongEnough, IndexFound
  <1>2. CASE \E b \in {IoFile, IoDisk} : name = <<"io", b>>
    BY <1>2, TablesLongEnough, IndexFound
  <1>3. ASSUME NEW mask \in DOMAIN MaxBit, NEW b \in c[mask], b < MaxBit[mask],
               name = <<mask, b>>
        PROVE  IndexOf[name[2]] = name[2] /\ name[2] < NameCount[name[1]]
    <2>1. b \in 0..31 /\ MaxBit[mask] \in Int /\ NameCount[mask] \in Int
      BY <1>3, TablesLongEnough DEF Masks, NameCount, MaxBit
    <2> QED
      BY <1>3, <2>1, TablesLongEnough, IndexFound
  <1> QED
    BY <1>1, <1>2, <1>3 DEF Printed

\* Whatever tables and claims providers come with, and whatever was in the
\* memory of a new provider: what is printed has a name, its own.
THEOREM NamesAlwaysExist == Spec => []NamesExist
  <1>1. TypeInv => NamesExist
    BY PrintedNamed DEF TypeInv, StrayInv, ApiInv, ApiTypes, NamesExist
  <1> QED
    BY <1>1, TypesInvariant, PTL

-----------------------------------------------------------------------------
(* What the counterexamples of the runs come from, and nothing else.       *)

\* A call only crashes at a provider that was invalidated.
CrashedAtInvalid == \A u \in Users : pc[u] = "oops" => Funcs(u) = NoTable

CauseInv ==
  /\ \A p \in registered : funcs[p] = NoTable => p \in Fallible
  /\ CrashedAtInvalid

LEMMA CauseStep ==
  ASSUME CauseInv, ApiInv, ApiInv', [Next]_vars
  PROVE  CauseInv'
  <1> USE DEF CauseInv, CrashedAtInvalid
  <1>0. \A u \in Users : pc[u] # "idle" => Prov(u) \in registered
    BY DEF ApiInv, CallsOK, CallOK
  <1>1. ASSUME NEW p \in Providers, Register(p) PROVE CauseInv'
    <2>1. funcs'[p] # NoTable /\ UNCHANGED <<pc, call>>
      BY <1>1, TablesAssumption DEF Register, ApiInv, ApiTypes, memory
    <2>2. \A q \in registered : funcs'[q] = funcs[q]
      BY <1>1 DEF Register
    <2> QED
      BY <1>0, <1>1, <2>1, <2>2 DEF Register, Funcs, Prov
  <1>2. ASSUME NEW p \in Providers, InvalidateFuncs(p) PROVE CauseInv'
    BY <1>2 DEF InvalidateFuncs, Funcs, Prov, ApiInv, ApiTypes
  <1>3. ASSUME NEW u \in Users, UNCHANGED <<registered, funcs>>,
               \A v \in Users \ {u} : pc'[v] = pc[v] /\ call'[v] = call[v],
               pc'[u] = "oops" => call'[u] = call[u] /\ Funcs(u) = NoTable
        PROVE  CauseInv'
    BY <1>3 DEF Funcs, Prov
  <1>4. ASSUME NEW u \in Users, StartCall(u) \/ Step(u) PROVE CauseInv'
    <2>1. UNCHANGED <<registered, funcs>>
      BY <1>4 DEF StartCall, Step, Sane, Test, CheckNeeds, Match, Call, Build, Release,
        Advance, Return, tables
    <2>2. \A v \in Users \ {u} : pc'[v] = pc[v] /\ call'[v] = call[v]
      BY <1>4 DEF StartCall, Step, Sane, Test, CheckNeeds, Match, Call, Build, Release,
        Advance, Return, Goto, ApiInv, ApiTypes
    <2>3. pc'[u] = "oops" => call'[u] = call[u] /\ Funcs(u) = NoTable
      BY <1>4 DEF StartCall, Step, Sane, Test, CheckNeeds, Match, Call, Build, Release,
        Advance, Return, Goto, ApiInv, ApiTypes, CallsOK, StageOK, Callable, AfterSane
    <2> QED
      BY <1>3, <2>1, <2>2, <2>3
  <1>5. CASE UNCHANGED <<registered, funcs, pc, call>>
    BY <1>5 DEF Funcs, Prov
  <1> QED
    BY <1>1, <1>2, <1>4, <1>5 DEF Next, InvalidateCaps, vars, tables

\* Whatever users do and providers are made of: a call that crashed was at a
\* provider whose module had called dpusm_provider_invalidate.
THEOREM CrashIsInvalidation ==
  Spec => [](\A u \in Users : pc[u] = "oops" => Prov(u) \in Fallible /\ Funcs(u) = NoTable)
  <1> DEFINE Cause ==
        \A u \in Users : pc[u] = "oops" => Prov(u) \in Fallible /\ Funcs(u) = NoTable
  <1>1. Init => CauseInv
    BY DEF Init, CauseInv, CrashedAtInvalid
  <1>2. CauseInv /\ ApiInv => Cause
    BY DEF CauseInv, CrashedAtInvalid, ApiInv, CallsOK, CallOK, Funcs
  <1> HIDE DEF Cause
  <1>3. Spec => []Cause
    BY <1>1, <1>2, CauseStep, ApiInvariant, PTL DEF Spec
  <1> QED
    BY <1>3 DEF Cause

\* If no provider is invalidated while users have it, every call comes back.
THEOREM UsersSurviveOtherwise ==
  ASSUME Fallible = {}
  PROVE  Spec => []UserSurvivesInvalidate
  <1> DEFINE Cause ==
        \A u \in Users : pc[u] = "oops" => Prov(u) \in Fallible /\ Funcs(u) = NoTable
  <1>1. Cause => UserSurvivesInvalidate
    BY DEF UserSurvivesInvalidate
  <1>2. Spec => []Cause
    BY CrashIsInvalidation
  <1> QED
    BY <1>1, <1>2, PTL

=============================================================================
