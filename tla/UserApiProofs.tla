--------------------------- MODULE UserApiProofs ---------------------------
(***************************************************************************)
(* What is proved of the user API for every number of users, providers,    *)
(* handles and objects, every set of function tables, every claim and      *)
(* every set of arguments.                                                 *)
(***************************************************************************)
EXTENDS UserApi, TLAPS

-----------------------------------------------------------------------------
(* The rows of the table of calls.                                         *)

\* What the steps of a call rely on in its row: a function is not looked for
\* exactly when it is a required one, a call that compares its handles late
\* looks for its function first, one that ends a handle takes one, and
\* dpusm_free is one that does.
RowOK(op) ==
  /\ op.takes \in Seq(Kinds)
  /\ op.tested = (op.slot \notin Required)
  /\ op.late => op.tested
  /\ op.ends => 1 \in DOMAIN op.takes
  /\ op.slot = "free" => op.ends

\* A plain row is one, and what is added to it keeps it one.
LEMMA RowPlain ==
  ASSUME NEW takes \in Seq(Kinds), NEW slot, slot # "free"
  PROVE  RowOK(Row(takes, slot))
  BY DEF RowOK, Row

LEMMA RowNeeds ==
  ASSUME NEW takes \in Seq(Kinds), NEW slot, slot # "free", NEW bits
  PROVE  RowOK(Needs(Row(takes, slot), bits))
  BY DEF RowOK, Row, Needs

LEMMA RowMakes ==
  ASSUME NEW takes \in Seq(Kinds), NEW slot, slot # "free", NEW bits, NEW kind
  PROVE  /\ RowOK(Makes(Row(takes, slot), kind))
         /\ RowOK(Makes(Needs(Row(takes, slot), bits), kind))
  BY DEF RowOK, Row, Needs, Makes

LEMMA RowEnds ==
  ASSUME NEW kind \in Kinds, NEW slot
  PROVE  RowOK(Ends(Row(<<kind>>, slot)))
  <1>1. 1 \in DOMAIN <<kind>> /\ <<kind>> \in Seq(Kinds)
    OBVIOUS
  <1> QED
    BY <1>1 DEF RowOK, Row, Ends

\* What the functions take.
LEMMA Takes ==
  /\ <<>> \in Seq(Kinds)
  /\ \A kind \in Kinds : <<kind>> \in Seq(Kinds)
  /\ \A kind, other \in Kinds : <<kind, other>> \in Seq(Kinds)
  /\ "mem" \in Kinds /\ "raid" \in Kinds /\ "file" \in Kinds /\ "disk" \in Kinds
  BY DEF Kinds

\* Every function of the API has such a row.
LEMMA Rows == \A op \in Operations : RowOK(op)
  <1>1. RowOK(RaidSetColumn)
    BY Takes DEF RowOK, RaidSetColumn, Row, Required
  <1>2. \A op \in {Alloc, AllocRef, FileOpen, DiskOpen} : RowOK(op)
    BY RowMakes, Takes DEF Alloc, AllocRef, FileOpen, DiskOpen
  <1>3. \A op \in {FreeMem, RaidFree, FileClose, DiskClose} : RowOK(op)
    BY RowEnds, Takes DEF FreeMem, RaidFree, FileClose, DiskClose
  <1>4. \A op \in {RaidGenerate, RaidCompare, RaidReconstruct} : RowOK(op)
    BY RowNeeds, Takes DEF RaidGenerate, RaidCompare, RaidReconstruct
  <1>5. \A op \in {GetSize, AssociateHandle, CopyFromGeneric, CopyToGeneric, CopyFromPtr,
                   CopyToPtr, CopyFromScatterlist, CopyToScatterlist, ZeroFill, AllZeros,
                   DiskInvalidate, DiskFlush} : RowOK(op)
    BY RowPlain, Takes DEF GetSize, AssociateHandle, CopyFromGeneric, CopyToGeneric,
      CopyFromPtr, CopyToPtr, CopyFromScatterlist, CopyToScatterlist, ZeroFill, AllZeros,
      DiskInvalidate, DiskFlush
  <1>6. \A op \in {MemStats, RaidCanCompute, FileWrite, DiskWrite} : RowOK(op)
    BY RowPlain, Takes DEF MemStats, RaidCanCompute, FileWrite, DiskWrite
  <1>7. \A alg, order : RowOK(Compress(alg)) /\ RowOK(Decompress(alg)) /\ RowOK(Checksum(alg, order))
    BY RowNeeds, Takes DEF Compress, Decompress, Checksum
  <1>8. \A nparity : RowOK(RaidAlloc(nparity))
    BY RowMakes, Takes DEF RaidAlloc
  <1> QED
    BY <1>1, <1>2, <1>3, <1>4, <1>5, <1>6, <1>7, <1>8 DEF Operations

-----------------------------------------------------------------------------
(* The inductive invariant.                                                *)

\* A call that has not come to its end.
Running(u) == pc[u] \in {"sane", "test", "needs", "match", "call"}

\* The handles that user u, or the call it is in, may still pass on.
Reach(u) ==
  mine[u] \cup {h \in Handles : Running(u) /\ call[u].op.ends /\ h = Arg(u)}

CallRecords ==
  [op : Operations \cup {"none"}, provider : Providers \cup {NoProvider},
   args : {<<>>} \cup UNION {[DOMAIN op.takes -> Handles] : op \in Operations},
   made : Objects \cup {NoObject}]

ApiTypes ==
  /\ registered \subseteq Providers
  /\ funcs \in [Providers -> Tables \cup {NoTable}]
  /\ DOMAIN hnd = Handles
  /\ used \subseteq Handles
  /\ home \in [Objects -> Providers \cup {NoProvider}]
  /\ mine \in [Users -> SUBSET Handles]
  /\ pc \in [Users -> Labels]
  /\ call \in [Users -> CallRecords]

\* The table of a provider that is up has passed the check.
TablesChecked ==
  \A p \in registered : funcs[p] # NoTable => Required \subseteq funcs[p]

\* The call a user is in, and what its steps have found out so far.
CallOK(u) ==
  pc[u] # "idle" =>
    /\ call[u].op \in Operations
    /\ Prov(u) \in registered
    /\ call[u].args \in [DOMAIN call[u].op.takes -> Handles]
StageOK(u) ==
  /\ pc[u] \in {"needs", "match", "call"} /\ Funcs(u) # NoTable =>
       call[u].op.slot \in Funcs(u)
  /\ pc[u] \in {"test", "needs"} => ~Mismatch(u) \/ call[u].op.late
  /\ pc[u] = "call" => ~Mismatch(u)

\* The arguments are the caller's, and the one it gave up is no longer its.
ArgsOK(u) ==
  Running(u) =>
    /\ \A i \in DOMAIN call[u].args : call[u].args[i] \in Reach(u)
    /\ 1 \in DOMAIN call[u].args => hnd[Arg(u)].provider = Prov(u)
    /\ call[u].op.ends => Arg(u) \notin mine[u]

\* A handle within reach is in use, for an object its provider has.
Holds(h) ==
  /\ h \in used
  /\ hnd[h].object \in Objects
  /\ hnd[h].provider \in Providers
  /\ home[hnd[h].object] = hnd[h].provider
HandlesHold == \A u \in Users : \A h \in Reach(u) : Holds(h)

\* No handle is within the reach of two users, and no object behind two.
HandlesApart ==
  \A u, v \in Users : \A g \in Reach(u), h \in Reach(v) :
    hnd[g].object = hnd[h].object => u = v /\ g = h

\* An object no handle has been made for yet is nobody else's.
BuildOK(u) ==
  pc[u] = "build" =>
    /\ call[u].made \in Objects
    /\ home[call[u].made] = Prov(u)
    /\ \A v \in Users : \A h \in Reach(v) : hnd[h].object # call[u].made
    /\ \A v \in Users : pc[v] = "build" /\ call[v].made = call[u].made => v = u

\* A handle on its way to be freed is out of everybody's reach.
ReleaseOK(u) ==
  pc[u] = "release" =>
    /\ Arg(u) \in used
    /\ \A v \in Users : Arg(u) \notin Reach(v)
    /\ \A v \in Users : pc[v] = "release" /\ Arg(v) = Arg(u) => v = u

CallsOK == \A u \in Users : CallOK(u) /\ StageOK(u) /\ ArgsOK(u)
EndsOK == \A u \in Users : BuildOK(u) /\ ReleaseOK(u)

ApiInv ==
  /\ ApiTypes
  /\ TablesChecked
  /\ CallsOK
  /\ HandlesHold
  /\ HandlesApart
  /\ EndsOK

-----------------------------------------------------------------------------
LEMMA ApiInitially == Init => ApiInv
  <1> SUFFICES ASSUME Init PROVE ApiInv
    OBVIOUS
  <1> USE DEF Init
  <1>1. ApiTypes
    <2>1. NoCall \in CallRecords
      BY DEF CallRecords, NoCall
    <2> QED
      BY <2>1 DEF ApiTypes, Labels
  <1>2. \A u \in Users : pc[u] = "idle" /\ Reach(u) = {}
    BY DEF Reach, Running
  <1>3. TablesChecked
    BY DEF TablesChecked
  <1> QED
    BY <1>1, <1>2, <1>3
    DEF ApiInv, CallsOK, CallOK, StageOK, ArgsOK, Running, HandlesHold, HandlesApart, EndsOK,
      BuildOK, ReleaseOK

\* When nothing comes within anybody's reach and the memory stays as it is,
\* what is within reach stays good.
LEMMA ReachShrinks ==
  ASSUME HandlesHold, HandlesApart, UNCHANGED <<hnd, used, home>>,
         \A v \in Users : Reach(v)' \subseteq Reach(v)
  PROVE  HandlesHold' /\ HandlesApart'
  BY DEF HandlesHold, HandlesApart, Holds

\* A step of another user that leaves this one's handles alone.
LEMMA OthersStay ==
  ASSUME NEW v \in Users, UNCHANGED tables,
         pc'[v] = pc[v], call'[v] = call[v], mine'[v] = mine[v],
         \A h \in Reach(v) : hnd'[h] = hnd[h],
         CallOK(v), StageOK(v), ArgsOK(v)
  PROVE  /\ Reach(v)' = Reach(v)
         /\ CallOK(v)' /\ StageOK(v)' /\ ArgsOK(v)'
  <1>1. Reach(v)' = Reach(v)
    BY DEF Reach, Running, Arg
  <1>2. CallOK(v)'
    BY DEF CallOK, Prov, tables
  <1>3. Running(v) => \A i \in DOMAIN call[v].args : hnd'[call[v].args[i]] = hnd[call[v].args[i]]
    BY DEF ArgsOK
  <1>4. Running(v) => Mismatch(v)' = Mismatch(v)
    BY <1>3 DEF Mismatch
  <1>5. StageOK(v)'
    BY <1>4 DEF StageOK, Running, Funcs, Prov, tables
  <1>6. ArgsOK(v)'
    BY <1>1, <1>3 DEF ArgsOK, Running, Arg, Prov
  <1> QED
    BY <1>1, <1>2, <1>5, <1>6

\* The handles of a running call whose first handle it gave up.
LEMMA ReachOf ==
  ASSUME ApiTypes, NEW u \in Users, CallOK(u)
  PROVE  /\ Reach(u) \subseteq Handles
         /\ mine[u] \subseteq Reach(u)
         /\ Running(u) /\ call[u].op.ends => Arg(u) \in Reach(u)
         /\ ~Running(u) \/ ~call[u].op.ends => Reach(u) = mine[u]
  <1>1. Running(u) /\ call[u].op.ends => Arg(u) \in Handles
    BY Rows DEF RowOK, CallOK, Running, Arg
  <1> QED
    BY <1>1 DEF Reach, ApiTypes

\* A call goes on to its next look, with what that look relies on known, or
\* to the end of its handle.
LEMMA AdvanceKeeps ==
  ASSUME ApiInv, NEW u \in Users, NEW from, NEW to \in Labels \ {"idle", "sane", "build"},
         Running(u), Goto(u, from, to), UNCHANGED <<tables, hnd, used, home, mine, call>>,
         to \in {"needs", "match", "call"} /\ Funcs(u) # NoTable =>
           call[u].op.slot \in Funcs(u),
         to \in {"test", "needs"} => ~Mismatch(u) \/ call[u].op.late,
         to = "call" => ~Mismatch(u),
         to = "release" => call[u].op.ends
  PROVE  ApiInv'
  <1> USE DEF ApiInv
  <1>1. /\ UNCHANGED <<registered, funcs, caps, hnd, used, home, mine, call>>
        /\ pc' = [pc EXCEPT ![u] = to]
    BY DEF Goto, tables
  <1>2. ApiTypes'
    BY <1>1 DEF ApiTypes
  <1>3. TablesChecked'
    BY <1>1 DEF TablesChecked
  <1>4. pc'[u] = to /\ \A v \in Users \ {u} : pc'[v] = pc[v]
    BY <1>1 DEF ApiTypes
  <1>5. \A v \in Users : Reach(v)' \subseteq Reach(v)
    BY <1>1, <1>4 DEF Reach, Running, Arg
  <1>6. HandlesHold' /\ HandlesApart'
    BY <1>1, <1>5, ReachShrinks
  <1>7. CallOK(u) /\ StageOK(u) /\ ArgsOK(u)
    BY DEF CallsOK
  <1>8. ASSUME Running(u)' PROVE Reach(u)' = Reach(u)
    BY <1>1, <1>8 DEF Reach, Arg
  <1>9. CallOK(u)'
    BY <1>1, <1>7 DEF CallOK, Running, Prov
  <1>10. StageOK(u)'
    BY <1>1, <1>4 DEF StageOK, Funcs, Prov, Mismatch
  <1>11. ArgsOK(u)'
    BY <1>1, <1>7, <1>8 DEF ArgsOK, Arg, Prov
  <1>12. ASSUME NEW v \in Users, v # u PROVE CallOK(v)' /\ StageOK(v)' /\ ArgsOK(v)'
    BY <1>1, <1>4, <1>12, OthersStay DEF CallsOK, tables
  <1>13. CallsOK'
    BY <1>9, <1>10, <1>11, <1>12 DEF CallsOK
  <1>14. ASSUME NEW v \in Users PROVE BuildOK(v)'
    BY <1>1, <1>4, <1>5 DEF EndsOK, BuildOK, Prov
  <1>15. to = "release" => Arg(u) \in used /\ Arg(u) \in Reach(u) /\ Arg(u) \notin mine[u]
    BY <1>7, ReachOf DEF HandlesHold, Holds, ArgsOK
  <1>16. to = "release" => \A v \in Users \ {u} : Arg(u) \notin Reach(v)
    BY <1>15 DEF HandlesApart
  <1>17. to = "release" => Reach(u)' = mine[u]
    BY <1>1, <1>4 DEF Reach, Running
  <1>18. ASSUME NEW v \in Users PROVE ReleaseOK(v)'
    <2>1. CASE v = u
      <3>1. ASSUME NEW w \in Users, to = "release", w # u, pc[w] = "release", Arg(w) = Arg(u)
            PROVE  FALSE
        BY <1>15, <3>1 DEF EndsOK, ReleaseOK
      <3> QED
        BY <1>1, <1>4, <1>5, <1>15, <1>16, <1>17, <2>1, <3>1 DEF ReleaseOK, Arg
    <2>2. CASE v # u
      <3>1. pc[v] = "release" /\ to = "release" => Arg(v) # Arg(u)
        BY <1>15 DEF EndsOK, ReleaseOK
      <3> QED
        BY <1>1, <1>4, <1>5, <2>2, <3>1 DEF EndsOK, ReleaseOK, Arg
    <2> QED
      BY <2>1, <2>2
  <1> QED
    BY <1>2, <1>3, <1>6, <1>13, <1>14, <1>18 DEF EndsOK

\* A call comes back without having done anything.
LEMMA ReturnKeeps ==
  ASSUME ApiInv, NEW u \in Users, NEW from, Running(u), Return(u, from)
  PROVE  ApiInv'
  <1> USE DEF ApiInv
  <1>1. /\ UNCHANGED <<registered, funcs, caps, hnd, used, home, lost, mine>>
        /\ pc' = [pc EXCEPT ![u] = "idle"]
        /\ call' = [call EXCEPT ![u] = NoCall]
    BY DEF Return, Goto, tables, memory
  <1>2. ApiTypes'
    <2>1. NoCall \in CallRecords
      BY DEF CallRecords, NoCall
    <2> QED
      BY <1>1, <2>1 DEF ApiTypes, Labels
  <1>3. TablesChecked'
    BY <1>1 DEF TablesChecked
  <1>4. pc'[u] = "idle" /\ \A v \in Users \ {u} : pc'[v] = pc[v] /\ call'[v] = call[v]
    BY <1>1 DEF ApiTypes
  <1>5. \A v \in Users : Reach(v)' \subseteq Reach(v)
    BY <1>1, <1>4 DEF Reach, Running, Arg
  <1>6. HandlesHold' /\ HandlesApart'
    BY <1>1, <1>5, ReachShrinks
  <1>7. CallOK(u)' /\ StageOK(u)' /\ ArgsOK(u)'
    BY <1>4 DEF CallOK, StageOK, ArgsOK, Running
  <1>8. ASSUME NEW v \in Users, v # u PROVE CallOK(v)' /\ StageOK(v)' /\ ArgsOK(v)'
    BY <1>1, <1>4, <1>8, OthersStay DEF CallsOK, tables
  <1>9. ASSUME NEW v \in Users PROVE BuildOK(v)' /\ ReleaseOK(v)'
    BY <1>1, <1>4, <1>5 DEF EndsOK, BuildOK, ReleaseOK, Prov, Arg
  <1> QED
    BY <1>2, <1>3, <1>6, <1>7, <1>8, <1>9 DEF CallsOK, EndsOK

\* A step of the registry: the tables of the listed providers stay or go.
LEMMA RegistryKeeps ==
  ASSUME ApiInv, NEW p \in Providers, Register(p) \/ InvalidateFuncs(p) \/ InvalidateCaps(p)
  PROVE  ApiInv'
  <1> USE DEF ApiInv
  <1>1. UNCHANGED <<hnd, used, home, lost, mine, pc, call>>
    BY DEF Register, InvalidateFuncs, InvalidateCaps, memory
  <1>2. /\ registered \subseteq registered' /\ registered' \subseteq Providers
        /\ funcs' \in [Providers -> Tables \cup {NoTable}]
        /\ \A q \in registered : funcs'[q] \in {funcs[q], NoTable}
    BY DEF ApiTypes, Register, InvalidateFuncs, InvalidateCaps
  <1>3. TablesChecked'
    <2>1. CASE Register(p)
      <3>1. \A table : SaneAtLoad(table) => Required \subseteq table
        BY DEF SaneAtLoad, BadGroups, All
      <3> QED
        BY <2>1, <3>1, <1>2 DEF Register, TablesChecked, ApiTypes
    <2>2. CASE InvalidateFuncs(p) \/ InvalidateCaps(p)
      BY <2>2, <1>2 DEF InvalidateFuncs, InvalidateCaps, TablesChecked
    <2> QED
      BY <2>1, <2>2
  <1>4. ApiTypes'
    BY <1>1, <1>2 DEF ApiTypes
  <1>5. \A v \in Users : Reach(v)' = Reach(v)
    BY <1>1 DEF Reach, Running, Arg
  <1>6. HandlesHold' /\ HandlesApart'
    BY <1>1, <1>5, ReachShrinks
  <1>7. ASSUME NEW v \in Users PROVE CallOK(v)' /\ StageOK(v)' /\ ArgsOK(v)'
    <2>1. CallOK(v) /\ StageOK(v) /\ ArgsOK(v)
      BY DEF CallsOK
    <2>2. CallOK(v)'
      BY <1>1, <1>2, <2>1 DEF CallOK, Prov
    <2>3. StageOK(v)'
      BY <1>1, <1>2, <2>1 DEF CallOK, StageOK, Funcs, Prov, Mismatch, Labels
    <2>4. ArgsOK(v)'
      BY <1>1, <1>5, <2>1 DEF ArgsOK, Running, Arg, Prov
    <2> QED
      BY <2>2, <2>3, <2>4
  <1>8. ASSUME NEW v \in Users PROVE BuildOK(v)' /\ ReleaseOK(v)'
    BY <1>1, <1>5 DEF EndsOK, BuildOK, ReleaseOK, Prov, Arg
  <1> QED
    BY <1>3, <1>4, <1>6, <1>7, <1>8 DEF CallsOK, EndsOK

\* A user calls with handles of its own and gives up the one the call ends.
LEMMA StartKeeps ==
  ASSUME ApiInv, NEW u \in Users, StartCall(u)
  PROVE  ApiInv'
  <1> USE DEF ApiInv
  <1>0. PICK op \in Operations, p \in registered :
          \E args \in [DOMAIN op.takes -> mine[u]] :
            /\ \A i \in DOMAIN args : hnd[args[i]].kind = op.takes[i]
            /\ args # <<>> => p = hnd[args[1]].provider
            /\ call' = [call EXCEPT ![u] =
                         [op |-> op, provider |-> p, args |-> args, made |-> NoObject]]
            /\ mine' = [mine EXCEPT ![u] = IF op.ends THEN @ \ {args[1]} ELSE @]
    BY DEF StartCall
  <1>1. PICK args \in [DOMAIN op.takes -> mine[u]] :
          /\ args # <<>> => p = hnd[args[1]].provider
          /\ call' = [call EXCEPT ![u] =
                       [op |-> op, provider |-> p, args |-> args, made |-> NoObject]]
          /\ mine' = [mine EXCEPT ![u] = IF op.ends THEN @ \ {args[1]} ELSE @]
    BY <1>0
  <1>2. /\ UNCHANGED <<registered, funcs, caps, hnd, used, home, lost>>
        /\ pc[u] = "idle"
        /\ pc' = [pc EXCEPT ![u] = "sane"]
    BY DEF StartCall, Goto, tables, memory
  <1>3. RowOK(op)
    BY Rows
  <1>4. mine[u] \subseteq Handles /\ args \in [DOMAIN op.takes -> Handles]
    BY DEF ApiTypes
  <1>5. ApiTypes'
    <2>1. [op |-> op, provider |-> p, args |-> args, made |-> NoObject] \in CallRecords
      BY <1>4 DEF CallRecords, ApiTypes
    <2>2. mine' \in [Users -> SUBSET Handles]
      BY <1>1, <1>4 DEF ApiTypes
    <2> QED
      BY <1>1, <1>2, <2>1, <2>2 DEF ApiTypes, Labels
  <1>6. /\ pc'[u] = "sane"
        /\ call'[u] = [op |-> op, provider |-> p, args |-> args, made |-> NoObject]
        /\ mine'[u] = IF op.ends THEN mine[u] \ {args[1]} ELSE mine[u]
        /\ \A v \in Users \ {u} : pc'[v] = pc[v] /\ call'[v] = call[v] /\ mine'[v] = mine[v]
    BY <1>1, <1>2 DEF ApiTypes
  <1>7. op.ends => args[1] \in mine[u]
    BY <1>3 DEF RowOK
  <1>8. Reach(u) = mine[u] /\ Reach(u)' = mine[u]
    BY <1>2, <1>4, <1>6, <1>7 DEF Reach, Running, Arg
  <1>9. \A v \in Users \ {u} : Reach(v)' = Reach(v)
    BY <1>6 DEF Reach, Running, Arg
  <1>10. HandlesHold' /\ HandlesApart'
    BY <1>2, <1>8, <1>9, ReachShrinks
  <1>11. CallOK(u)' /\ StageOK(u)'
    BY <1>2, <1>4, <1>6 DEF CallOK, StageOK, Prov
  <1>12. ArgsOK(u)'
    <2>1. 1 \in DOMAIN args => args # <<>>
      OBVIOUS
    <2> QED
      BY <1>1, <1>2, <1>6, <1>8, <2>1 DEF ArgsOK, Arg, Prov
  <1>13. ASSUME NEW v \in Users, v # u PROVE CallOK(v)' /\ StageOK(v)' /\ ArgsOK(v)'
    BY <1>2, <1>6, <1>13, OthersStay DEF CallsOK, tables
  <1>14. CallsOK'
    BY <1>11, <1>12, <1>13 DEF CallsOK
  <1>15. ASSUME NEW v \in Users PROVE BuildOK(v)' /\ ReleaseOK(v)'
    BY <1>2, <1>6, <1>8, <1>9 DEF EndsOK, BuildOK, ReleaseOK, Prov, Arg
  <1> QED
    BY <1>5, <1>2, <1>10, <1>14, <1>15 DEF TablesChecked, EndsOK

\* The provider makes an object, which is nobody's yet.
LEMMA CallMakesKeeps ==
  ASSUME ApiInv, NEW u \in Users, Running(u), Goto(u, "call", "build"),
         NEW o \in Objects, home[o] = NoProvider,
         home' = [home EXCEPT ![o] = Prov(u)],
         call' = [call EXCEPT ![u].made = o],
         UNCHANGED <<tables, hnd, used, lost, mine>>
  PROVE  ApiInv'
  <1> USE DEF ApiInv
  <1>1. /\ UNCHANGED <<registered, funcs, caps, hnd, used, lost, mine>>
        /\ pc' = [pc EXCEPT ![u] = "build"]
    BY DEF Goto, tables
  <1>2. CallOK(u) /\ Prov(u) \in Providers
    BY DEF CallsOK, CallOK, Running, ApiTypes
  <1>3. /\ call'[u].op = call[u].op /\ call'[u].provider = call[u].provider
        /\ call'[u].args = call[u].args /\ call'[u].made = o
        /\ call'[u] \in CallRecords
    <2>1. call[u] \in CallRecords /\ call'[u] = [call[u] EXCEPT !.made = o]
      BY DEF ApiTypes
    <2> QED
      BY <2>1 DEF CallRecords
  <1>4. /\ pc'[u] = "build"
        /\ \A v \in Users \ {u} : pc'[v] = pc[v] /\ call'[v] = call[v]
    BY <1>1 DEF ApiTypes
  <1>5. ApiTypes'
    BY <1>1, <1>2, <1>3 DEF ApiTypes, Labels
  <1>6. TablesChecked'
    BY <1>1 DEF TablesChecked
  <1>7. \A v \in Users : Reach(v)' \subseteq Reach(v)
    BY <1>1, <1>4 DEF Reach, Running, Arg
  <1>8. \A v \in Users : \A h \in Reach(v) : hnd[h].object # o
    BY ProvidersAssumption DEF HandlesHold, Holds
  <1>9. \A x \in Objects \ {o} : home'[x] = home[x]
    BY DEF ApiTypes
  <1>10. HandlesHold'
    BY <1>1, <1>7, <1>8, <1>9 DEF HandlesHold, Holds
  <1>11. HandlesApart'
    BY <1>1, <1>7 DEF HandlesApart
  <1>12. CallOK(u)' /\ StageOK(u)' /\ ArgsOK(u)'
    BY <1>1, <1>2, <1>3, <1>4 DEF CallOK, StageOK, ArgsOK, Running, Prov
  <1>13. ASSUME NEW v \in Users, v # u PROVE CallOK(v)' /\ StageOK(v)' /\ ArgsOK(v)'
    BY <1>1, <1>4, <1>13, OthersStay DEF CallsOK, tables
  <1>14. CallsOK'
    BY <1>12, <1>13 DEF CallsOK
  <1>15. \A v \in Users : pc[v] = "build" => Prov(v) \in Providers /\ call[v].made # o
    BY ProvidersAssumption DEF EndsOK, BuildOK, CallsOK, CallOK, ApiTypes
  <1>16. home'[o] = Prov(u)
    BY DEF ApiTypes
  <1>17. ASSUME NEW v \in Users PROVE BuildOK(v)'
    <2>1. CASE v = u
      BY <1>1, <1>3, <1>4, <1>7, <1>8, <1>15, <1>16, <2>1 DEF BuildOK, Prov
    <2>2. CASE v # u
      BY <1>1, <1>3, <1>4, <1>7, <1>9, <1>15, <2>2 DEF EndsOK, BuildOK, Prov
    <2> QED
      BY <2>1, <2>2
  <1>18. ASSUME NEW v \in Users PROVE ReleaseOK(v)'
    BY <1>1, <1>4, <1>7 DEF EndsOK, ReleaseOK, Arg
  <1> QED
    BY <1>5, <1>6, <1>10, <1>11, <1>14, <1>17, <1>18 DEF EndsOK

\* The provider frees the object of the handle the call was given.
LEMMA CallEndsKeeps ==
  ASSUME ApiInv, NEW u \in Users, Running(u), Goto(u, "call", "release"), call[u].op.ends,
         home' = [home EXCEPT ![hnd[Arg(u)].object] = NoProvider],
         UNCHANGED <<tables, hnd, used, lost, mine, call>>
  PROVE  ApiInv'
  <1> USE DEF ApiInv
  <1> DEFINE o == hnd[Arg(u)].object
  <1>1. /\ UNCHANGED <<registered, funcs, caps, hnd, used, lost, mine, call>>
        /\ pc' = [pc EXCEPT ![u] = "release"]
    BY DEF Goto, tables
  <1>2. CallOK(u) /\ ArgsOK(u)
    BY DEF CallsOK
  <1>3. Arg(u) \in Reach(u) /\ Arg(u) \notin mine[u]
    BY <1>2, ReachOf DEF ArgsOK
  <1>4. Holds(Arg(u))
    BY <1>3 DEF HandlesHold
  <1>5. /\ pc'[u] = "release"
        /\ \A v \in Users \ {u} : pc'[v] = pc[v]
    BY <1>1 DEF ApiTypes
  <1>6. ApiTypes' /\ TablesChecked'
    BY <1>1 DEF ApiTypes, TablesChecked, Labels
  <1>7. Reach(u)' = mine[u] /\ \A v \in Users \ {u} : Reach(v)' = Reach(v)
    BY <1>1, <1>5 DEF Reach, Running, Arg
  <1>8. mine[u] \subseteq Reach(u)
    BY DEF Reach
  <1>9. \A v \in Users : \A h \in Reach(v)' : h \in Reach(v) /\ hnd[h].object # o
    <2>1. \A v \in Users : \A h \in Reach(v) : hnd[h].object = o => v = u /\ h = Arg(u)
      BY <1>3 DEF HandlesApart
    <2> QED
      BY <2>1, <1>3, <1>7, <1>8
  <1>10. \A x \in Objects \ {o} : home'[x] = home[x]
    BY DEF ApiTypes
  <1>11. HandlesHold'
    BY <1>1, <1>9, <1>10 DEF HandlesHold, Holds
  <1>12. HandlesApart'
    BY <1>1, <1>9 DEF HandlesApart
  <1>13. CallOK(u)' /\ StageOK(u)' /\ ArgsOK(u)'
    BY <1>1, <1>2, <1>5 DEF CallOK, StageOK, ArgsOK, Running, Prov
  <1>14. ASSUME NEW v \in Users, v # u PROVE CallOK(v)' /\ StageOK(v)' /\ ArgsOK(v)'
    BY <1>1, <1>5, <1>14, OthersStay DEF CallsOK, tables
  <1>15. CallsOK'
    BY <1>13, <1>14 DEF CallsOK
  <1>16. \A v \in Users : pc[v] = "build" => call[v].made # o
    BY <1>3 DEF EndsOK, BuildOK
  <1>17. ASSUME NEW v \in Users PROVE BuildOK(v)'
    BY <1>1, <1>5, <1>9, <1>10, <1>16 DEF EndsOK, BuildOK, Prov
  <1>18. \A v \in Users : pc[v] = "release" => Arg(v) # Arg(u)
    BY <1>3 DEF EndsOK, ReleaseOK
  <1>19. \A v \in Users \ {u} : Arg(u) \notin Reach(v)
    BY <1>3 DEF HandlesApart
  <1>20. ASSUME NEW v \in Users PROVE ReleaseOK(v)'
    <2>1. CASE v = u
      BY <1>1, <1>3, <1>4, <1>5, <1>7, <1>18, <1>19, <2>1 DEF ReleaseOK, Arg, Holds
    <2>2. CASE v # u
      BY <1>1, <1>5, <1>9, <1>18, <2>2 DEF EndsOK, ReleaseOK, Arg
    <2> QED
      BY <2>1, <2>2
  <1> QED
    BY <1>6, <1>11, <1>12, <1>15, <1>17, <1>20 DEF EndsOK

\* A new handle is made of the object, or the object is lost.
LEMMA BuildKeeps ==
  ASSUME ApiInv, NEW u \in Users, Build(u)
  PROVE  ApiInv'
  <1> USE DEF ApiInv
  <1> DEFINE o == call[u].made
  <1>1. /\ UNCHANGED <<registered, funcs, caps, home>>
        /\ pc[u] = "build"
        /\ pc' = [pc EXCEPT ![u] = "idle"]
        /\ call' = [call EXCEPT ![u] = NoCall]
    BY DEF Build, Goto, tables
  <1>2. CallOK(u) /\ BuildOK(u) /\ Prov(u) \in Providers
    BY <1>1 DEF CallsOK, EndsOK, CallOK, ApiTypes
  <1>3. Reach(u) = mine[u]
    BY <1>1 DEF Reach, Running
  <1>4. /\ pc'[u] = "idle"
        /\ \A v \in Users \ {u} : pc'[v] = pc[v] /\ call'[v] = call[v]
    BY <1>1 DEF ApiTypes
  <1>5. NoCall \in CallRecords
    BY DEF CallRecords, NoCall
  <1>6. TablesChecked'
    BY <1>1 DEF TablesChecked
  <1>7. CallOK(u)' /\ StageOK(u)' /\ ArgsOK(u)'
    BY <1>4 DEF CallOK, StageOK, ArgsOK, Running
  <1>8. CASE UNCHANGED <<hnd, used, mine>>
    <2>1. ApiTypes'
      BY <1>1, <1>5, <1>8 DEF ApiTypes, Labels
    <2>2. \A v \in Users : Reach(v)' \subseteq Reach(v)
      BY <1>4, <1>8 DEF Reach, Running, Arg
    <2>3. HandlesHold' /\ HandlesApart'
      BY <1>1, <1>8, <2>2, ReachShrinks
    <2>4. ASSUME NEW v \in Users, v # u PROVE CallOK(v)' /\ StageOK(v)' /\ ArgsOK(v)'
      BY <1>1, <1>4, <1>8, <2>4, OthersStay DEF CallsOK, tables
    <2>5. ASSUME NEW v \in Users PROVE BuildOK(v)' /\ ReleaseOK(v)'
      BY <1>1, <1>4, <1>8, <2>2 DEF EndsOK, BuildOK, ReleaseOK, Prov, Arg
    <2> QED
      BY <1>6, <1>7, <2>1, <2>3, <2>4, <2>5 DEF CallsOK, EndsOK
  <1>9. ASSUME NEW h \in Handles \ used,
               used' = used \cup {h},
               hnd' = [hnd EXCEPT ![h] = [provider |-> Prov(u), kind |-> call[u].op.makes,
                                          object |-> o]],
               mine' = [mine EXCEPT ![u] = @ \cup {h}]
        PROVE  ApiInv'
    <2>1. /\ hnd'[h].provider = Prov(u) /\ hnd'[h].object = o
          /\ \A g \in Handles \ {h} : hnd'[g] = hnd[g]
      BY <1>9 DEF ApiTypes
    <2>2. \A v \in Users : h \notin Reach(v)
      BY DEF HandlesHold, Holds
    <2>3. \A v \in Users \ {u} : mine'[v] = mine[v]
      BY <1>9 DEF ApiTypes
    <2>4. Reach(u)' = Reach(u) \cup {h}
      BY <1>3, <1>4, <1>9 DEF Reach, Running, ApiTypes
    <2>5. \A v \in Users \ {u} : Reach(v)' = Reach(v)
      BY <1>4, <2>3 DEF Reach, Running, Arg
    <2>6. \A v \in Users : Reach(v) \subseteq Handles
      BY DEF Reach, ApiTypes
    <2>7. \A v \in Users : \A g \in Reach(v) : hnd'[g] = hnd[g] /\ hnd[g].object # o
      BY <1>1, <1>2, <2>1, <2>2, <2>6 DEF BuildOK
    <2>8. ApiTypes'
      BY <1>1, <1>5, <1>9 DEF ApiTypes, Labels
    <2>9. HandlesHold'
      <3>1. Holds(h)'
        BY <1>1, <1>2, <1>9, <2>1 DEF Holds, BuildOK
      <3>2. \A v \in Users : \A g \in Reach(v) : Holds(g)'
        BY <1>1, <1>9, <2>7 DEF HandlesHold, Holds
      <3> QED
        BY <3>1, <3>2, <2>4, <2>5 DEF HandlesHold
    <2>10. HandlesApart'
      BY <2>1, <2>4, <2>5, <2>7 DEF HandlesApart
    <2>11. ASSUME NEW v \in Users, v # u PROVE CallOK(v)' /\ StageOK(v)' /\ ArgsOK(v)'
      BY <1>1, <1>4, <2>3, <2>7, <2>11, OthersStay DEF CallsOK, tables
    <2>12. CallsOK'
      BY <1>7, <2>11 DEF CallsOK
    <2>13. ASSUME NEW v \in Users PROVE BuildOK(v)'
      <3>1. pc[v] = "build" /\ v # u => call[v].made # o
        BY <1>1, <1>2 DEF BuildOK
      <3>2. \A w \in Users : \A g \in Reach(w)' : g = h \/ (g \in Reach(w) /\ hnd'[g] = hnd[g])
        BY <2>4, <2>5, <2>7
      <3> QED
        BY <1>1, <1>4, <2>1, <3>1, <3>2 DEF EndsOK, BuildOK, Prov
    <2>14. ASSUME NEW v \in Users PROVE ReleaseOK(v)'
      <3>1. pc[v] = "release" => Arg(v) # h
        BY DEF EndsOK, ReleaseOK
      <3> QED
        BY <1>4, <1>9, <2>4, <2>5, <3>1 DEF EndsOK, ReleaseOK, Arg
    <2> QED
      BY <1>6, <2>8, <2>9, <2>10, <2>12, <2>13, <2>14 DEF EndsOK
  <1> QED
    BY <1>8, <1>9 DEF Build

\* The handle goes, once nobody can reach it.
LEMMA ReleaseKeeps ==
  ASSUME ApiInv, NEW u \in Users, Release(u)
  PROVE  ApiInv'
  <1> USE DEF ApiInv
  <1>1. /\ UNCHANGED <<registered, funcs, caps, home, lost, mine>>
        /\ pc[u] = "release"
        /\ pc' = [pc EXCEPT ![u] = "idle"]
        /\ call' = [call EXCEPT ![u] = NoCall]
        /\ used' = used \ {Arg(u)}
        /\ hnd' = [hnd EXCEPT ![Arg(u)] = NoEntry]
    BY DEF Release, Goto, tables
  <1>2. ReleaseOK(u)
    BY DEF EndsOK
  <1>3. /\ pc'[u] = "idle"
        /\ \A v \in Users \ {u} : pc'[v] = pc[v] /\ call'[v] = call[v]
    BY <1>1 DEF ApiTypes
  <1>4. NoCall \in CallRecords
    BY DEF CallRecords, NoCall
  <1>5. ApiTypes' /\ TablesChecked'
    BY <1>1, <1>4 DEF ApiTypes, TablesChecked, Labels
  <1>6. \A v \in Users : Reach(v)' \subseteq Reach(v) /\ Reach(v) \subseteq Handles
    BY <1>1, <1>3 DEF Reach, Running, Arg, ApiTypes
  <1>7. \A v \in Users : \A h \in Reach(v) : h # Arg(u) /\ hnd'[h] = hnd[h]
    BY <1>1, <1>2, <1>6 DEF ReleaseOK, ApiTypes
  <1>8. HandlesHold'
    BY <1>1, <1>6, <1>7 DEF HandlesHold, Holds
  <1>9. HandlesApart'
    BY <1>6, <1>7 DEF HandlesApart
  <1>10. CallOK(u)' /\ StageOK(u)' /\ ArgsOK(u)'
    BY <1>3 DEF CallOK, StageOK, ArgsOK, Running
  <1>11. ASSUME NEW v \in Users, v # u PROVE CallOK(v)' /\ StageOK(v)' /\ ArgsOK(v)'
    BY <1>1, <1>3, <1>7, <1>11, OthersStay DEF CallsOK, tables
  <1>12. CallsOK'
    BY <1>10, <1>11 DEF CallsOK
  <1>13. ASSUME NEW v \in Users PROVE BuildOK(v)'
    BY <1>1, <1>3, <1>6, <1>7 DEF EndsOK, BuildOK, Prov
  <1>14. ASSUME NEW v \in Users PROVE ReleaseOK(v)'
    BY <1>1, <1>2, <1>3, <1>6 DEF EndsOK, ReleaseOK, Arg
  <1> QED
    BY <1>5, <1>8, <1>9, <1>12, <1>13, <1>14 DEF EndsOK

\* A step of the call of user u.
LEMMA StepKeeps ==
  ASSUME ApiInv, NEW u \in Users, Step(u)
  PROVE  ApiInv'
  <1> DEFINE op == call[u].op
  <1>1. pc[u] # "idle" =>
          /\ CallOK(u) /\ StageOK(u) /\ RowOK(op)
          /\ Funcs(u) # NoTable => Required \subseteq Funcs(u)
    BY Rows DEF ApiInv, CallsOK, CallOK, TablesChecked, Funcs
  <1>2. CASE Sane(u)
    <2> USE <1>1, <1>2
    <2>1. Running(u) /\ pc[u] = "sane"
      BY DEF Sane, Running
    <2>2. CASE Return(u, "sane")
      BY <2>1, <2>2, ReturnKeeps
    <2>3. CASE op.slot = "free" /\ Advance(u, "sane", "release")
      BY <2>1, <2>3, AdvanceKeeps DEF Advance, memory, RowOK, Labels
    <2>4. CASE /\ Funcs(u) # NoTable
               /\ Mismatch(u) => op.late
               /\ Advance(u, "sane", AfterSane(op))
      <3>1. CASE op.tested
        BY <2>1, <2>4, <3>1, AdvanceKeeps DEF Advance, memory, AfterSane, Labels
      <3>2. CASE ~op.tested
        <4>1. op.slot \in Required /\ ~op.late
          BY <2>1, <3>2 DEF RowOK
        <4> QED
          BY <2>1, <2>4, <3>2, <4>1, AdvanceKeeps DEF Advance, memory, AfterSane, Labels
      <3> QED
        BY <3>1, <3>2
    <2> QED
      BY <2>2, <2>3, <2>4 DEF Sane
  <1>3. CASE Test(u)
    <2> USE <1>1, <1>3
    <2>1. Running(u) /\ pc[u] = "test"
      BY DEF Test, Running
    <2>2. CASE Advance(u, "test", "oops")
      BY <2>1, <2>2, AdvanceKeeps DEF Advance, memory, Labels
    <2>3. CASE Return(u, "test")
      BY <2>1, <2>3, ReturnKeeps
    <2>4. CASE op.slot \in Funcs(u) /\ Advance(u, "test", "needs")
      BY <2>1, <2>4, AdvanceKeeps DEF Advance, memory, Labels, StageOK
    <2> QED
      BY <2>2, <2>3, <2>4 DEF Test
  <1>4. CASE CheckNeeds(u)
    <2> USE <1>1, <1>4
    <2>1. Running(u) /\ pc[u] = "needs"
      BY DEF CheckNeeds, Running
    <2>2. CASE Return(u, "needs")
      BY <2>1, <2>2, ReturnKeeps
    <2>3. CASE Advance(u, "needs", IF op.late THEN "match" ELSE "call")
      <3>1. CASE op.late
        BY <2>1, <2>3, <3>1, AdvanceKeeps DEF Advance, memory, Labels, StageOK
      <3>2. CASE ~op.late
        BY <2>1, <2>3, <3>2, AdvanceKeeps DEF Advance, memory, Labels, StageOK
      <3> QED
        BY <3>1, <3>2
    <2> QED
      BY <2>2, <2>3 DEF CheckNeeds
  <1>5. CASE Match(u)
    <2> USE <1>1, <1>5
    <2>1. Running(u) /\ pc[u] = "match"
      BY DEF Match, Running
    <2>2. CASE Return(u, "match")
      BY <2>1, <2>2, ReturnKeeps
    <2>3. CASE ~Mismatch(u) /\ Advance(u, "match", "call")
      BY <2>1, <2>3, AdvanceKeeps DEF Advance, memory, Labels, StageOK
    <2> QED
      BY <2>2, <2>3 DEF Match
  <1>6. CASE Call(u)
    <2> USE <1>1, <1>6
    <2>1. Running(u) /\ pc[u] = "call"
      BY DEF Call, Running
    <2>2. CASE Advance(u, "call", "oops")
      BY <2>1, <2>2, AdvanceKeeps DEF Advance, memory, Labels
    <2>3. CASE Return(u, "call")
      BY <2>1, <2>3, ReturnKeeps
    <2>4. CASE /\ Goto(u, "call", "build")
               /\ \E o \in Objects :
                    /\ home[o] = NoProvider
                    /\ home' = [home EXCEPT ![o] = Prov(u)]
                    /\ call' = [call EXCEPT ![u].made = o]
               /\ UNCHANGED <<tables, hnd, used, lost, mine>>
      BY <2>1, <2>4, CallMakesKeeps
    <2>5. CASE /\ op.ends
               /\ Goto(u, "call", "release")
               /\ home' = [home EXCEPT ![hnd[Arg(u)].object] = NoProvider]
               /\ UNCHANGED <<tables, hnd, used, lost, mine, call>>
      BY <2>1, <2>5, CallEndsKeeps
    <2>6. CASE /\ op.ends
               /\ Goto(u, "call", "release")
               /\ UNCHANGED <<tables, hnd, used, home, mine, call>>
      BY <2>1, <2>6, AdvanceKeeps DEF Labels
    <2> QED
      BY <2>2, <2>3, <2>4, <2>5, <2>6 DEF Call
  <1>7. CASE Build(u)
    BY <1>7, BuildKeeps
  <1>8. CASE Release(u)
    BY <1>8, ReleaseKeeps
  <1> QED
    BY <1>2, <1>3, <1>4, <1>5, <1>6, <1>7, <1>8 DEF Step

LEMMA ApiStuttering ==
  ASSUME ApiInv, UNCHANGED vars
  PROVE  ApiInv'
  <1>1. UNCHANGED <<registered, funcs, hnd, used, home, mine, pc, call>>
    BY DEF vars, tables, memory
  <1>2. \A v \in Users : Reach(v)' = Reach(v)
    BY <1>1 DEF Reach, Running, Arg
  <1>3. /\ ApiTypes' /\ TablesChecked' /\ HandlesHold' /\ HandlesApart'
    BY <1>1, <1>2 DEF ApiInv, ApiTypes, TablesChecked, HandlesHold, Holds, HandlesApart
  <1>4. CallsOK'
    BY <1>1, <1>2
    DEF ApiInv, CallsOK, CallOK, StageOK, ArgsOK, Running, Arg, Prov, Funcs, Mismatch
  <1>5. EndsOK'
    BY <1>1, <1>2 DEF ApiInv, EndsOK, BuildOK, ReleaseOK, Arg, Prov
  <1> QED
    BY <1>3, <1>4, <1>5 DEF ApiInv

LEMMA ApiInvariant == Spec => []ApiInv
  <1>1. ASSUME ApiInv, [Next]_vars PROVE ApiInv'
    BY <1>1, RegistryKeeps, StartKeeps, StepKeeps, ApiStuttering DEF Next
  <1> QED
    BY ApiInitially, <1>1, PTL DEF Spec

-----------------------------------------------------------------------------
(* What follows from it.                                                   *)

\* A function that user.c calls through a table is in the table, whatever
\* tables providers come with, unless the table was taken away meanwhile.
THEOREM CalledIsImplemented == Spec => []CallsImplemented
  <1>1. ApiInv => CallsImplemented
    BY DEF ApiInv, CallsOK, StageOK, CallsImplemented
  <1> QED
    BY <1>1, ApiInvariant, PTL

\* The handles of a call that is made are for live objects of its provider.
LEMMA ArgsOwned ==
  ASSUME ApiInv, NEW u \in Users, pc[u] = "call", NEW i \in DOMAIN call[u].args
  PROVE  home[hnd[call[u].args[i]].object] = Prov(u)
  <1>1. CallOK(u) /\ ArgsOK(u) /\ ~Mismatch(u) /\ Running(u)
    BY DEF ApiInv, CallsOK, StageOK, Running
  <1>2. 1 \in DOMAIN call[u].args
    <2>1. call[u].op.takes \in Seq(Kinds) /\ DOMAIN call[u].args = DOMAIN call[u].op.takes
      BY <1>1, Rows DEF CallOK, RowOK, Running
    <2> QED
      BY <2>1
  <1>3. hnd[call[u].args[i]].provider = Prov(u)
    BY <1>1, <1>2 DEF ArgsOK, Mismatch, Arg
  <1>4. Holds(call[u].args[i])
    BY <1>1 DEF ApiInv, ArgsOK, HandlesHold
  <1> QED
    BY <1>3, <1>4 DEF Holds

\* A provider is given only what it made and has not freed, by any number of
\* users that mix the handles of any number of providers in their calls.
THEOREM GivenIsOwn == Spec => []OwnObjectsOnly
  <1>1. ApiInv => OwnObjectsOnly
    BY ArgsOwned DEF OwnObjectsOnly
  <1> QED
    BY <1>1, ApiInvariant, PTL

=============================================================================
