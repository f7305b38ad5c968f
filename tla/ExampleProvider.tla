-------------------------- MODULE ExampleProvider --------------------------
(***************************************************************************)
(* The API on top of the provider of src/examples/providers: what the      *)
(* users' data goes through between copy.from and copy.to.                 *)
(*                                                                         *)
(* An object of this provider is an alloc_t, which owns a buffer or refers *)
(* into the buffer of another.  Offsets and sizes are left out: a          *)
(* reference shares all of its source's buffer.  The provider counts no    *)
(* references, so the users here free what they made of a handle before    *)
(* the handle itself.  Next to the provider's memory the DPUSM's own is    *)
(* counted (AllocCounters).                                                *)
(***************************************************************************)
EXTENDS UserApi, AllocCounters

CONSTANTS
  Buffers,     \* addresses of the buffers that kmalloc gives the provider
  Values,      \* what a buffer may hold
  Unknown,     \* memory that nobody wrote to since it was allocated
  PhSize,      \* sizeof(dpusm_ph_t)
  HandleSize   \* sizeof(dpusm_handle_t)

ASSUME ExampleAssumption ==
  /\ Unknown \notin Values
  /\ PhSize \in Nat /\ HandleSize \in Nat

VARIABLES
  alloc,       \* alloc[o]: the alloc_t at o
  buffers,     \* the buffers that are allocated
  contents,    \* contents[b]: what is in b
  root,        \* root[h]: the handle from dpusm->alloc that h came from
  expected     \* expected[h]: what the user wrote to the memory of root h

provider == <<alloc, buffers, contents>>
view == <<root, expected>>
exampleVars == <<vars, provider, view, counters>>

NoAlloc == [type |-> "ALLOC_INVALID", ptr |-> Unknown]

\* example_dpusm_provider_functions, and what its algorithms() reports.
ExampleFunctions ==
  {"algorithms", "alloc", "alloc_ref", "get_size", "free",
   "copy_from_generic", "copy_to_generic"}

ExampleAlgorithms ==
  [compress |-> {}, decompress |-> {}, checksum |-> {}, byteorder |-> {}, raid |-> {}]

ExampleInit ==
  /\ Init
  /\ MemInit
  /\ alloc = [o \in Objects |-> NoAlloc]
  /\ buffers = {}
  /\ contents = [b \in Buffers |-> Unknown]
  /\ root = [h \in Handles |-> h]
  /\ expected = [h \in Handles |-> Unknown]

-----------------------------------------------------------------------------
(* The provider's functions.                                               *)

\* dpusm_provider_alloc; without memory for either part there is no object.
ProviderAlloc(o) ==
  \E b \in Buffers \ buffers :
    /\ alloc' = [alloc EXCEPT ![o] = [type |-> "ALLOC_REAL", ptr |-> b]]
    /\ buffers' = buffers \cup {b}
    /\ UNCHANGED contents

\* Freed memory is anybody's.
Kfree(gone) ==
  /\ buffers' = buffers \ gone
  /\ contents' = [b \in Buffers |-> IF b \in gone THEN Unknown ELSE contents[b]]

\* Mutant: a reference passes for an allocation of its own.
ProviderAllocRefReal(src, o) ==
  /\ alloc' = [alloc EXCEPT ![o] = [type |-> "ALLOC_REAL", ptr |-> alloc[src].ptr]]
  /\ UNCHANGED <<buffers, contents>>

\* dpusm_provider_alloc_ref, of an allocation or of another reference.
ProviderAllocRef(src, o) ==
  /\ alloc' = [alloc EXCEPT ![o] = [type |-> "ALLOC_REF", ptr |-> alloc[src].ptr]]
  /\ UNCHANGED <<buffers, contents>>

\* Mutant: the buffer goes with whatever pointed to it.
ProviderFreeAll(o) ==
  /\ Kfree({alloc[o].ptr})
  /\ alloc' = [alloc EXCEPT ![o] = NoAlloc]

\* dpusm_provider_free: only an ALLOC_REAL takes its buffer along.
ProviderFree(o) ==
  /\ Kfree(IF alloc[o].type = "ALLOC_REAL" THEN {alloc[o].ptr} ELSE {})
  /\ alloc' = [alloc EXCEPT ![o] = NoAlloc]

\* dpusm_provider_copy_from_generic.
ProviderCopyFrom(o, value) ==
  /\ contents' = [contents EXCEPT ![alloc[o].ptr] = value]
  /\ UNCHANGED <<alloc, buffers>>

-----------------------------------------------------------------------------
(* The API's steps, with what they do to memory.                           *)

Registers(p) ==
  /\ Register(p)
  /\ MemAlloc(PhSize, TRUE)
  /\ UNCHANGED <<provider, view>>

GoesDown(p) ==
  /\ InvalidateFuncs(p) \/ InvalidateCaps(p)
  /\ UNCHANGED <<provider, view, counters>>

\* Calls of functions that the provider does not have come back without
\* touching anything (UserApi) and are left out.  A user frees nothing that
\* a handle it has still refers to.
Starts(u) ==
  /\ StartCall(u)
  /\ call'[u].op.slot \in ExampleFunctions
  /\ call'[u].op = FreeMem => \A h \in mine'[u] : root[h] # call'[u].args[1]
  /\ UNCHANGED <<provider, view, counters>>

\* Required functions are called right after the check of the provider.
Checks(u) ==
  /\ Sane(u)
  /\ UNCHANGED <<provider, view, counters>>

\* The provider's function runs; a get_size, a copy.to and a call that
\* returns NULL leave its memory alone, and its free never fails.
CallsExample(u) ==
  LET o == hnd[Arg(u)].object IN
  /\ Call(u)
  /\ UNCHANGED counters
  /\ \/ /\ pc'[u] = "build" /\ call[u].op = Alloc
        /\ ProviderAlloc(call'[u].made)
        /\ UNCHANGED view
     \/ /\ pc'[u] = "build" /\ call[u].op = AllocRef
        /\ ProviderAllocRef(o, call'[u].made)
        /\ UNCHANGED view
     \/ /\ pc'[u] = "release" /\ home' # home
        /\ ProviderFree(o)
        /\ UNCHANGED view
     \/ /\ pc'[u] = "idle" /\ call[u].op = CopyFromGeneric
        /\ \E value \in Values :
             /\ ProviderCopyFrom(o, value)
             /\ expected' = [expected EXCEPT ![root[Arg(u)]] = value]
        /\ UNCHANGED root
     \/ /\ pc'[u] \in {"idle", "oops"}
        /\ call[u].op = CopyFromGeneric => pc'[u] = "oops"
        /\ UNCHANGED <<provider, view>>

\* The user learns of its new handle, or gets NULL.
Builds(u) ==
  /\ Build(u)
  /\ \/ /\ mine' = mine
        /\ MemAlloc(HandleSize, FALSE)
        /\ UNCHANGED view
     \/ /\ MemAlloc(HandleSize, TRUE)
        /\ \E h \in mine'[u] \ mine[u] :
             /\ root' = [root EXCEPT ![h] = IF call[u].op = Alloc THEN h ELSE root[Arg(u)]]
             /\ expected' = [expected EXCEPT ![h] = Unknown]
  /\ UNCHANGED provider

Releases(u) ==
  /\ Release(u)
  /\ MemFree(HandleSize)
  /\ root' = [root EXCEPT ![Arg(u)] = Arg(u)]
  /\ expected' = [expected EXCEPT ![Arg(u)] = Unknown]
  /\ UNCHANGED provider

ExampleNext ==
  \/ \E p \in Providers : Registers(p) \/ GoesDown(p)
  \/ \E u \in Users : Starts(u) \/ Checks(u) \/ CallsExample(u) \/ Builds(u) \/ Releases(u)

ExampleSpec == ExampleInit /\ [][ExampleNext]_exampleVars

-----------------------------------------------------------------------------
\* The objects that are allocated and own a buffer.
Owners == {o \in Objects : alloc[o].type = "ALLOC_REAL"}

\* Two things leak: an alloc_t that got no handle (user.c:37), and one whose
\* provider is down, which dpusm_free no longer asks to free it (user.c:205).
Leaked(o) == o \in lost \/ funcs[home[o]] = NoTable

\* A buffer belongs to exactly one alloc_t, which a handle in use can free or
\* is about to be able to, unless it leaked in one of the two ways; and every
\* alloc_t that a handle has or gets, an owner or a reference, points to a
\* buffer that is allocated.  So no other buffer leaks, none is freed twice,
\* and nothing a user can reach dangles, wherever calls stop.
MemoryOwned ==
  /\ \A b \in buffers : \E o \in Owners :
       /\ alloc[o].ptr = b
       /\ \A q \in Owners \ {o} : alloc[q].ptr # b
       /\ o \in Behind \cup InFlight \/ Leaked(o)
  /\ \A o \in Behind \cup InFlight : alloc[o].ptr \in buffers

\* A user finds in its memory what it last wrote there, through this handle
\* or one that refers to the same memory, whatever others allocate, free and
\* write in between: "contents should match" (the example user).
ContentsMatch ==
  \A u \in Users : \A h \in mine[u] :
    expected[root[h]] # Unknown =>
      contents[alloc[hnd[h].object].ptr] = expected[root[h]]

\* What providers and handles take up: how many allocations, and bytes.
LiveCount == Cardinality(registered) + Cardinality(used)
LiveSize == PhSize * Cardinality(registered) + HandleSize * Cardinality(used)

\* As long as an atomic_t can hold them, dpusm_mem_stats reports the
\* allocations and bytes that providers and handles take up, also after
\* there were too many for it in between.
AllocsCounted ==
  /\ LiveCount < Half => MemStatistics.count = LiveCount
  /\ LiveSize < Half => MemStatistics.size = LiveSize

=============================================================================
