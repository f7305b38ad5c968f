--------------------------- MODULE AllocCounters ---------------------------
(***************************************************************************)
(* src/src/alloc.c in a build with DPUSM_TRACK_ALLOCS: what the DPUSM      *)
(* itself allocates, in three 32-bit signed counters (atomic_t) that       *)
(* size_t amounts are added to and taken from.  A counter holds the        *)
(* numbers -Half to Half - 1, where Half is 2^31 in the program.           *)
(***************************************************************************)
EXTENDS Integers

CONSTANT Half       \* half of the numbers an atomic_t can hold

ASSUME HalfAssumption == Half \in Nat \ {0}

VARIABLES
  alloc_count,      \* allocations so far
  active_count,     \* allocations not freed yet
  active_size       \* their bytes

counters == <<alloc_count, active_count, active_size>>

\* What is left of a number in an atomic_t.
Wrap(n) == ((n + Half) % (2 * Half)) - Half

MemInit ==
  /\ alloc_count = 0
  /\ active_count = 0
  /\ active_size = 0

\* Mutant: the counters go up whether or not there was memory.
MemAllocEager(size, ok) ==
  /\ alloc_count' = Wrap(alloc_count + 1)
  /\ active_count' = Wrap(active_count + 1)
  /\ active_size' = Wrap(active_size + size)

\* dpusm_mem_alloc; ok says whether kmalloc had the memory.
MemAlloc(size, ok) ==
  \/ /\ ok
     /\ alloc_count' = Wrap(alloc_count + 1)
     /\ active_count' = Wrap(active_count + 1)
     /\ active_size' = Wrap(active_size + size)
  \/ /\ ~ok
     /\ UNCHANGED counters

\* dpusm_mem_free, with the size the caller says.
MemFree(size) ==
  /\ active_count' = Wrap(active_count - 1)
  /\ active_size' = Wrap(active_size - size)
  /\ UNCHANGED alloc_count

\* A negative int becomes a size_t, of twice the bits, by sign extension.
SizeT(n) == n % ((2 * Half) * (2 * Half))

\* dpusm_mem_stats.
MemStatistics ==
  [total |-> SizeT(alloc_count), count |-> SizeT(active_count), size |-> SizeT(active_size)]

=============================================================================
