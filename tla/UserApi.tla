------------------------------ MODULE UserApi ------------------------------
(***************************************************************************)
(* The functions the DPUSM hands to its users: src/src/user.c.             *)
(*                                                                         *)
(* Every one of them has the same shape: look at the provider, look        *)
(* whether it has the function, and whether it advertises what is asked    *)
(* for, then call it, reading the function table anew each time and        *)
(* without a lock, while dpusm_invalidate may take the table away.  What   *)
(* the functions differ in is a row of a table: see Operations.            *)
(*                                                                         *)
(* A user holds the providers it uses, so they stay registered: what       *)
(* Registry shows (HeldProviderRegistered) is what this module starts      *)
(* from.  A handle is used by the thread that made it, in calls for its    *)
(* kind, until that thread passes it to the call that ends it.  Arguments  *)
(* that are NULL come back before anything is read and are left out.       *)
(***************************************************************************)
EXTENDS FunctionTable, Sequences

CONSTANTS
  Users,       \* threads that call the API
  Providers,   \* names of providers
  Fallible,    \* the providers whose device may go down
  Handles,     \* addresses of dpusm_handle_t
  Objects,     \* what providers allocate: memory, RAID contexts, files, disks
  Tables,      \* function tables that providers come with
  Claims,      \* what providers' algorithms() report
  Junk,        \* what unzeroed memory holds
  Algorithms,  \* bits users ask for: compress and decompress
  Sums,        \* checksum
  Orders,      \* checksum_byteorder
  Parities,    \* nparity of raid.alloc
  NoTable,     \* a NULL funcs
  NoObject,    \* a NULL from a provider
  NoProvider   \* of an object nobody has allocated

ASSUME ProvidersAssumption ==
  /\ Fallible \subseteq Providers
  /\ NoProvider \notin Providers
  /\ NoObject \notin Objects

ASSUME TablesAssumption ==
  /\ Tables \subseteq SUBSET Slots
  /\ NoTable \notin Tables

\* Masks are ints.
ASSUME MasksAssumption ==
  /\ \A claim \in Claims :
       /\ claim.compress \subseteq 0..31 /\ claim.decompress \subseteq 0..31
       /\ claim.checksum \subseteq 0..31 /\ claim.byteorder \subseteq 0..31
       /\ claim.raid \subseteq 0..31
  /\ \A junk \in Junk : junk.optional \subseteq 0..31 /\ junk.io \subseteq 0..31

VARIABLES
  registered,  \* the providers on the list
  funcs,       \* funcs[p]: the function table, or NoTable
  caps,        \* caps[p]: the capabilities
  hnd,         \* hnd[h]: the dpusm_handle_t at h
  used,        \* the addresses in use
  home,        \* home[o]: the provider that has object o, or NoProvider
  lost,        \* objects with no handle: there was no memory for one, or the
               \* provider failed to free the object and the handle went
  mine,        \* mine[u]: the handles user u has got and not passed to its end
  pc,          \* pc[u]: where user u is in its call
  call         \* call[u]: the call

tables == <<registered, funcs, caps>>
memory == <<hnd, used, home, lost>>
vars == <<tables, memory, mine, pc, call>>

Labels == {"idle", "sane", "test", "needs", "match", "call", "build", "release", "oops"}

-----------------------------------------------------------------------------
(* The rows: the kinds of the handles the function takes, the slot it      *)
(* calls, whether it looks for the slot first, the capability bits it asks *)
(* for, the kind of handle it makes, whether it ends its first handle, and *)
(* whether two handles are compared first or last.                         *)

Row(takes, slot) ==
  [takes |-> takes, slot |-> slot, tested |-> slot \notin Required, needs |-> {},
   makes |-> "none", ends |-> FALSE, late |-> FALSE]

Makes(row, kind) == [row EXCEPT !.makes = kind]
Ends(row) == [row EXCEPT !.ends = TRUE]
Needs(row, bits) == [row EXCEPT !.needs = bits]

Alloc == Makes(Row(<<>>, "alloc"), "mem")
AllocRef == Makes(Row(<<"mem">>, "alloc_ref"), "mem")
GetSize == Row(<<"mem">>, "get_size")
FreeMem == Ends(Row(<<"mem">>, "free"))
AssociateHandle == Row(<<"mem">>, "associate_handle")

CopyFromGeneric == Row(<<"mem">>, "copy_from_generic")
CopyToGeneric == Row(<<"mem">>, "copy_to_generic")
CopyFromPtr == Row(<<"mem">>, "copy_from_ptr")
CopyToPtr == Row(<<"mem">>, "copy_to_ptr")
CopyFromScatterlist == Row(<<"mem">>, "copy_from_scatterlist")
CopyToScatterlist == Row(<<"mem">>, "copy_to_scatterlist")

MemStats == Row(<<>>, "mem_stats")
ZeroFill == Row(<<"mem">>, "zero_fill")
AllZeros == Row(<<"mem">>, "all_zeros")

Compress(alg) == Needs(Row(<<"mem", "mem">>, "compress"), {<<"compress", {alg}>>})
Decompress(alg) == Needs(Row(<<"mem", "mem">>, "decompress"), {<<"decompress", {alg}>>})
Checksum(alg, order) ==
  Needs(Row(<<"mem">>, "checksum"), {<<"checksum", {alg}>>, <<"byteorder", {order}>>})

RaidCanCompute == Row(<<>>, "raid_can_compute")
\* 1 << nparity, in an int: the processor takes the count modulo 32.
RaidAlloc(nparity) ==
  Makes(Needs(Row(<<>>, "raid_alloc"), {<<"raid", {nparity % 32}>>}), "raid")
RaidSetColumn == [Row(<<"raid", "mem">>, "raid_set_column") EXCEPT !.late = TRUE]
RaidFree == Ends(Row(<<"raid">>, "raid_free"))
RaidGenerate == Needs(Row(<<"raid">>, "raid_gen"), {<<"raid", RaidGenBits>>})
RaidCompare == Needs(Row(<<"mem", "mem">>, "raid_cmp"), {<<"raid", RaidRecBits>>})
RaidReconstruct == Needs(Row(<<"raid">>, "raid_rec"), {<<"raid", RaidRecBits>>})

FileOpen == Makes(Row(<<>>, "file_open"), "file")
FileWrite == Row(<<"file", "mem">>, "file_write")
FileClose == Ends(Row(<<"file">>, "file_close"))

DiskOpen == Makes(Row(<<>>, "disk_open"), "disk")
DiskInvalidate == Row(<<"disk">>, "disk_invalidate")
DiskWrite == Row(<<"disk", "mem">>, "disk_write")
DiskFlush == Row(<<"disk">>, "disk_flush")
DiskClose == Ends(Row(<<"disk">>, "disk_close"))

\* user_functions, less the ones that call no provider.
Operations ==
  {Alloc, AllocRef, GetSize, FreeMem, AssociateHandle,
   CopyFromGeneric, CopyToGeneric, CopyFromPtr, CopyToPtr,
   CopyFromScatterlist, CopyToScatterlist, MemStats, ZeroFill, AllZeros,
   RaidCanCompute, RaidSetColumn, RaidFree, RaidGenerate, RaidCompare,
   RaidReconstruct, FileOpen, FileWrite, FileClose,
   DiskOpen, DiskInvalidate, DiskWrite, DiskFlush, DiskClose}
    \cup {Compress(alg) : alg \in Algorithms}
    \cup {Decompress(alg) : alg \in Algorithms}
    \cup {Checksum(alg, order) : alg \in Sums, order \in Orders}
    \cup {RaidAlloc(nparity) : nparity \in Parities}

Kinds == {"mem", "raid", "file", "disk"}

-----------------------------------------------------------------------------
NoCall == [op |-> "none", provider |-> NoProvider, args |-> <<>>, made |-> NoObject]
NoEntry == [provider |-> NoProvider, kind |-> "none", object |-> NoObject]

Init ==
  /\ registered = {}
  /\ funcs = [p \in Providers |-> NoTable]
  /\ caps = [p \in Providers |-> NoCapabilities]
  /\ hnd = [h \in Handles |-> NoEntry]
  /\ used = {}
  /\ home = [o \in Objects |-> NoProvider]
  /\ lost = {}
  /\ mine = [u \in Users |-> {}]
  /\ pc = [u \in Users |-> "idle"]
  /\ call = [u \in Users |-> NoCall]

\* A provider whose table passes the check is listed.
Register(p) ==
  /\ p \notin registered
  /\ \E table \in Tables, claim \in Claims, junk \in Junk :
       /\ SaneAtLoad(table)
       /\ funcs' = [funcs EXCEPT ![p] = table]
       /\ caps' = [caps EXCEPT ![p] = Capabilities(table, claim, junk)]
  /\ registered' = registered \cup {p}
  /\ UNCHANGED <<memory, mine, pc, call>>

\* dpusm_provider_invalidate under dpusm.lock, which no user of a provider
\* takes: the two fields go one after the other.
InvalidateFuncs(p) ==
  /\ p \in registered \cap Fallible
  /\ funcs' = [funcs EXCEPT ![p] = NoTable]
  /\ UNCHANGED <<registered, caps, memory, mine, pc, call>>

InvalidateCaps(p) ==
  /\ p \in registered
  /\ funcs[p] = NoTable
  /\ caps' = [caps EXCEPT ![p] = NoCapabilities]
  /\ UNCHANGED <<registered, funcs, memory, mine, pc, call>>

-----------------------------------------------------------------------------
Goto(u, from, to) ==
  /\ pc[u] = from
  /\ pc' = [pc EXCEPT ![u] = to]

Return(u, from) ==
  /\ Goto(u, from, "idle")
  /\ call' = [call EXCEPT ![u] = NoCall]
  /\ UNCHANGED <<tables, memory, mine>>

Advance(u, from, to) ==
  /\ Goto(u, from, to)
  /\ UNCHANGED <<tables, memory, mine, call>>

\* The provider, the first handle and the function table of u's call.
Prov(u) == call[u].provider
Arg(u) == call[u].args[1]
Funcs(u) == funcs[Prov(u)]

\* The handles of the call come from two providers.
Mismatch(u) ==
  \E i, j \in DOMAIN call[u].args :
    hnd[call[u].args[i]].provider # hnd[call[u].args[j]].provider

StartCall(u) ==
  /\ Goto(u, "idle", "sane")
  /\ \E op \in Operations, p \in registered :
       \E args \in [DOMAIN op.takes -> mine[u]] :
         /\ \A i \in DOMAIN args : hnd[args[i]].kind = op.takes[i]
         /\ args # <<>> => p = hnd[args[1]].provider
         /\ call' = [call EXCEPT ![u] =
                      [op |-> op, provider |-> p, args |-> args, made |-> NoObject]]
         /\ mine' = [mine EXCEPT ![u] = IF op.ends THEN @ \ {args[1]} ELSE @]
  /\ UNCHANGED <<tables, memory>>

\* Where a call goes on once the provider has been looked at.
AfterSane(op) == IF op.tested THEN "test" ELSE "call"

\* Mutant: the providers of two handles are not compared.
SaneUnmatched(u) ==
  /\ pc[u] = "sane"
  /\ \/ /\ Funcs(u) # NoTable
        /\ Advance(u, "sane", AfterSane(call[u].op))
     \/ /\ Funcs(u) = NoTable
        /\ call[u].op.slot # "free"
        /\ Return(u, "sane")
     \/ /\ Funcs(u) = NoTable
        /\ call[u].op.slot = "free"
        /\ Advance(u, "sane", "release")

\* Mutant: dpusm_free checks the provider as the other calls do.
SaneFree(u) ==
  /\ pc[u] = "sane"
  /\ \/ /\ Funcs(u) # NoTable /\ ~Mismatch(u)
        /\ Advance(u, "sane", AfterSane(call[u].op))
     \/ /\ Funcs(u) = NoTable \/ Mismatch(u)
        /\ Return(u, "sane")

\* Mutant: dpusm_free drops its handle without telling the provider.
SaneFreeAlone(u) ==
  /\ pc[u] = "sane"
  /\ \/ /\ call[u].op.slot = "free"
        /\ Advance(u, "sane", "release")
     \/ /\ Funcs(u) # NoTable
        /\ call[u].op.slot # "free"
        /\ Advance(u, "sane", AfterSane(call[u].op))

\* CHECK_PROVIDER, CHECK_HANDLE and SAME_PROVIDERS.  dpusm_free goes on with
\* its own handle when the provider is down; dpusm_raid_cmp is done when its
\* handles are one and the same.
Sane(u) ==
  /\ pc[u] = "sane"
  /\ \/ /\ \/ Mismatch(u) /\ ~call[u].op.late
           \/ Funcs(u) = NoTable /\ call[u].op.slot # "free"
           \/ call[u].op = RaidCompare /\ Arg(u) = call[u].args[2]
        /\ Return(u, "sane")
     \/ /\ Funcs(u) = NoTable
        /\ call[u].op.slot = "free"
        /\ Advance(u, "sane", "release")
     \/ /\ Funcs(u) # NoTable
        /\ Mismatch(u) => call[u].op.late
        /\ call[u].op = RaidCompare => Arg(u) # call[u].args[2]
        /\ Advance(u, "sane", AfterSane(call[u].op))

\* if (!FUNCS(provider)->slot): the table may have gone since.
Test(u) ==
  /\ pc[u] = "test"
  /\ \/ /\ Funcs(u) = NoTable
        /\ Advance(u, "test", "oops")
     \/ /\ Funcs(u) # NoTable
        /\ call[u].op.slot \notin Funcs(u)
        /\ Return(u, "test")
     \/ /\ Funcs(u) # NoTable
        /\ call[u].op.slot \in Funcs(u)
        /\ Advance(u, "test", "needs")

\* An int mask meets a 64-bit dpusm_compress_t: its sign bit is extended.
Extended(bits) == IF 31 \in bits THEN bits \cup 32..63 ELSE bits

\* The capability masks, which are cleared after the table is.
Advertised(u) ==
  \A need \in call[u].op.needs : Extended(caps[Prov(u)][need[1]]) \cap need[2] # {}

CheckNeeds(u) ==
  /\ pc[u] = "needs"
  /\ \/ /\ ~Advertised(u)
        /\ Return(u, "needs")
     \/ /\ Advertised(u)
        /\ Advance(u, "needs", IF call[u].op.late THEN "match" ELSE "call")

\* dpusm_raid_set_column looks at its second handle only now.
Match(u) ==
  LET column == hnd[call[u].args[2]].provider IN
  /\ pc[u] = "match"
  /\ \/ /\ funcs[column] = NoTable \/ Mismatch(u)
        /\ Return(u, "match")
     \/ /\ funcs[column] # NoTable /\ ~Mismatch(u)
        /\ Advance(u, "match", "call")

Callable(u) == Funcs(u) # NoTable /\ call[u].op.slot \in Funcs(u)

\* Mutant: a NULL from the provider is made a handle of.
CallBuildsNull(u) ==
  /\ pc[u] = "call"
  /\ Callable(u)
  /\ call[u].op.makes # "none"
  /\ Advance(u, "call", "build")

\* free and raid.free may return an error; the two close functions are void.
CanFail(op) == op.slot \in {"free", "raid_free"}

\* FUNCS(provider)->slot(...): it makes an object (or returns NULL), ends
\* one, or does something to those it is given.  An object that its provider
\* failed to free loses its handle all the same.
Call(u) ==
  /\ pc[u] = "call"
  /\ \/ /\ ~Callable(u)
        /\ Advance(u, "call", "oops")
     \/ /\ Callable(u)
        /\ ~call[u].op.ends                      \* makes none, or returns NULL
        /\ Return(u, "call")
     \/ /\ Callable(u)
        /\ call[u].op.makes # "none"
        /\ Goto(u, "call", "build")
        /\ \E o \in Objects :
             /\ home[o] = NoProvider
             /\ home' = [home EXCEPT ![o] = Prov(u)]
             /\ call' = [call EXCEPT ![u].made = o]
        /\ UNCHANGED <<tables, hnd, used, lost, mine>>
     \/ /\ Callable(u)
        /\ call[u].op.ends
        /\ Goto(u, "call", "release")
        /\ home' = [home EXCEPT ![hnd[Arg(u)].object] = NoProvider]
        /\ UNCHANGED <<tables, hnd, used, lost, mine, call>>
     \/ /\ Callable(u)
        /\ call[u].op.ends /\ CanFail(call[u].op)
        /\ Goto(u, "call", "release")
        /\ lost' = lost \cup {hnd[Arg(u)].object}
        /\ UNCHANGED <<tables, hnd, used, home, mine, call>>

\* dpusm_handle_construct: without memory for the handle the call returns
\* NULL, and the object stays with the provider.
Build(u) ==
  /\ Goto(u, "build", "idle")
  /\ call' = [call EXCEPT ![u] = NoCall]
  /\ \/ /\ lost' = lost \cup {call[u].made}
        /\ UNCHANGED <<hnd, used, mine>>
     \/ /\ \E h \in Handles \ used :
             /\ used' = used \cup {h}
             /\ hnd' = [hnd EXCEPT ![h] =
                         [provider |-> Prov(u), kind |-> call[u].op.makes,
                          object |-> call[u].made]]
             /\ mine' = [mine EXCEPT ![u] = @ \cup {h}]
        /\ UNCHANGED lost
  /\ UNCHANGED <<tables, home>>

\* dpusm_handle_free.
Release(u) ==
  /\ Goto(u, "release", "idle")
  /\ used' = used \ {Arg(u)}
  /\ hnd' = [hnd EXCEPT ![Arg(u)] = NoEntry]
  /\ call' = [call EXCEPT ![u] = NoCall]
  /\ UNCHANGED <<tables, home, lost, mine>>

Step(u) ==
  Sane(u) \/ Test(u) \/ CheckNeeds(u) \/ Match(u) \/ Call(u) \/ Build(u) \/ Release(u)

Next ==
  \/ \E p \in Providers : Register(p) \/ InvalidateFuncs(p) \/ InvalidateCaps(p)
  \/ \E u \in Users : StartCall(u) \/ Step(u)

Spec == Init /\ [][Next]_vars

-----------------------------------------------------------------------------
TypeOK ==
  /\ registered \subseteq Providers
  /\ funcs \in [Providers -> Tables \cup {NoTable}]
  /\ \A p \in Providers : \A mask \in DOMAIN NoCapabilities : caps[p][mask] \subseteq 0..31
  /\ used \subseteq Handles
  /\ hnd \in [Handles -> [provider : Providers, kind : Kinds, object : Objects]
                           \cup {NoEntry}]
  /\ home \in [Objects -> Providers \cup {NoProvider}]
  /\ lost \subseteq Objects
  /\ mine \in [Users -> SUBSET Handles]
  /\ pc \in [Users -> Labels]
  /\ \A u \in Users : pc[u] # "idle" =>
       /\ call[u].op \in Operations
       /\ call[u].provider \in registered
       /\ call[u].made \in Objects \cup {NoObject}

\* The handles that a running call is about to end.
Ending == {Arg(u) : u \in {v \in Users : pc[v] \notin {"idle", "oops"} /\ call[v].op.ends}}

\* The objects that a running call has and no handle yet.
InFlight == {call[u].made : u \in {v \in Users : pc[v] = "build"}}

\* A function that is called is there: either the table was checked for it
\* when the provider was loaded, or the call looked for it and found it.
\* (A table that is taken away between the look and the call is another
\* matter: UserSurvivesInvalidate.)
CallsImplemented ==
  \A u \in Users : pc[u] = "call" /\ Funcs(u) # NoTable =>
    call[u].op.slot \in Funcs(u)

\* A provider is only given objects of its own that it has not freed,
\* whatever handles of whatever providers a user mixes and whichever calls
\* ended others before.
OwnObjectsOnly ==
  \A u \in Users : pc[u] = "call" =>
    \A i \in DOMAIN call[u].args : home[hnd[call[u].args[i]].object] = Prov(u)

\* The handles in use that are not about to be freed, and their objects.
Released == {Arg(u) : u \in {v \in Users : pc[v] = "release"}}
Kept == used \ Released
Behind == {hnd[h].object : h \in Kept}

\* Every object a provider has is behind exactly one handle, on its way to
\* one, or lost: its handle could not be allocated, or the provider returned
\* an error when it was to free the object.  Nothing else leaks at an up
\* provider, no object gets two handles, and no handle outlives its object,
\* except in the last step of the call that ends both.
ObjectsAccounted ==
  LET live == {o \in Objects : home[o] # NoProvider} IN
  /\ Behind \cup InFlight \cup lost \subseteq live
  /\ \A o \in live \ (Behind \cup InFlight \cup lost) : funcs[home[o]] = NoTable
  /\ \A g, h \in Kept : hnd[g].object = hnd[h].object => g = h
  /\ Behind \cap (InFlight \cup lost) = {}

\* A handle whose user is done with it is freed.  The ones that stay behind
\* are RAID, file and disk handles of a provider that went down before they
\* were closed, which no call of the API can free, and the handle of a call
\* that did not come back.
StrayHandles ==
  \A h \in used : h \notin Ending /\ (\A u \in Users : h \notin mine[u]) =>
    \/ funcs[hnd[h].provider] = NoTable /\ hnd[h].kind # "mem"
    \/ \E u \in Users : pc[u] = "oops" /\ call[u].op.ends /\ Arg(u) = h

\* Whatever bits a provider claims, those that are printed have a name, and
\* it is the name at the bit's own place: the loops over the masks end where
\* the tables of strings do, and enum2index ends at each of the bits, the
\* sign bit included.
NamesExist ==
  \A p \in registered : funcs[p] # NoTable =>
    \A name \in Printed(funcs[p], caps[p]) :
      IndexOf[name[2]] = name[2] /\ name[2] < NameCount[name[1]]

\* A user's call comes back with an error when the provider went down: the
\* check at run time is there "to make sure the offloader has not gone down".
UserSurvivesInvalidate == \A u \in Users : pc[u] # "oops"

\* raid.alloc is called for the parities whose generation the provider
\* advertises ("at minumum, raid N generation is required").
RaidAllocGenerates ==
  \A u \in Users : pc[u] = "call" /\ call[u].op.slot = "raid_alloc" =>
    \E n \in RaidGenBits : call[u].op = RaidAlloc(n)

\* What a provider is said to support is what its table has.
OptionalBitsTrue ==
  \A p \in registered : funcs[p] # NoTable =>
    caps[p].optional = {OptionalBit[s] : s \in funcs[p] \cap DOMAIN OptionalBit}

=============================================================================
