# A verification project for the DPUSM

The Data Processing Unit Services Module (`src/`) is a Linux kernel module that
brings together *providers*, kernel modules that drive an accelerator, and
*users*, kernel code that wants data moved, compressed, checksummed or written
by one. Providers register a table of functions, users get a provider by name
and call it through the DPUSM, which checks each call first. This directory
models the DPUSM in TLA+, checks the models with TLC and proves theorems about
them with TLAPS.

## The system

| part | source | state | operations |
|---|---|---|---|
| provider registry | `src/src/provider.c`, reached through `src/src/dpusm.c` and the `get`/`put` of `src/src/user.c` | `dpusm_t` (list, `count`, `lock`, `active`), a `dpusm_ph_t` per provider (`module`, `capabilities`, `funcs`, `refs`, `self`) | register, unregister, get, put, invalidate |
| function tables, capabilities | `src/src/provider.c:21-76, 110-239` | none: functions of a table | the check at load time, the masks of `dpusm_pc_t`, printing them |
| user API | `src/src/user.c` | `dpusm_handle_t` objects, each with its provider and the provider's own handle | 32 functions that check and call a provider, five that only read |
| DPUSM init and exit | `src/src/dpusm.c:64-115` | the global `dpusm` | set up; wait for the lock, unregister what is left |
| allocation counters | `src/src/alloc.c` | three counters, compiled out by `src/Makefile` | alloc, free, stats |
| names of enumeration values | `src/src/common.c` | none | first set bit, its string |
| example providers | `src/examples/providers` | the allocations of `common.c` | register in init, unregister in exit, six table functions |
| example users | `src/examples/users` | none | get, invalidate, alloc, copy, free, put in a row |
| module loader, kmalloc | the kernel | state and reference count of modules | insmod, rmmod, `try_module_get`, `module_put` |

How they interact. A provider's init function registers its table and its exit
function unregisters it. A user's `get` takes two references: one on the
provider's *module*, so that `rmmod` refuses it, and one in `refs`, counted
once more in `active`. Register, unregister, get and invalidate run inside
`dpusm.lock`; `put` and the whole API take no lock. `dpusm_invalidate`, called by
whoever learns that the device is gone, leaves the provider registered and takes
its function table away, under the feet of calls that are running.

What is hard: threads that meet in the unlocked code, an object that is freed
while its address is still in somebody's hands, the order of `module_put` and
the accesses after it, a lock that every path has to give back, a check that is
stale when the function table is read again, and calls that fail half way,
between the provider's object and the DPUSM's handle for it. `PROJECT.json`
lists these hazards, each at its line.

What makes each part correct:

- registry: a provider somebody holds stays registered; names are unique; `count`,
  `refs` and `active` are what they say; a put of a held provider is accepted; each
  call comes back and the lock with it;
- tables: a function that will be called without being looked for is there;
  capabilities are those of the table;
- API: a provider is only called for a function it has and with live objects of
  its own; every object has one handle; every handle is freed by the call that
  ends it.

## The modules

| module | models | from |
|---|---|---|
| `KernelModules` | the loader, external | its use in `provider.c` and the providers' init/exit |
| `ProviderService` | abstract: what the registry promises | |
| `Registry` | the registry, thread by thread | `provider.c:78-428` without `dpusmph_init`'s masks, `dpusm.c:13-62`, `user.c:120-149` |
| `Dpusm` | `dpusm.ko` and the user modules around the registry | `dpusm.c:64-115`, init and exit of `examples/users` |
| `FunctionTable` | load check, capabilities, the names printed for them | `provider.c:21-76, 110-239`, `common.c`, `common.h` |
| `UserApi` | the API, call by call | `user.c:55-118, 168-739` |
| `AllocCounters` | the counters of `dpusm_mem_*` | `alloc.c` |
| `ExampleProvider` | the API on top of the example provider | `examples/providers/common.c` |
| `RegistryProofs`, `CountProofs`, `ServiceProofs`, `DpusmProofs` | theorems about `Registry` and `Dpusm` | |
| `UserApiProofs`, `AccountProofs`, `StrayProofs`, `ExampleProofs` | theorems about `UserApi` and `ExampleProvider` | |
| `MCRegistry`, `MCDpusm`, `MCUserApi`, `MCExampleProvider` | values for TLC | |

How they compose. `Registry` EXTENDS `KernelModules` (a registration runs inside an
init function, whose result tells the loader whether the module stays) and is
shown to implement `ProviderService`. `Dpusm` EXTENDS `Registry`: its next-state
relation wraps the steps of users, provider modules and monitors in what has
to be loaded for them to run. `UserApi` EXTENDS `FunctionTable`, and
`ExampleProvider` EXTENDS `UserApi` and `AllocCounters`: each API step takes along
what it does to the provider's memory and to the DPUSM's.

### Registry

A user thread is one reference: it gets, holds and puts. A module thread runs the
module's init and exit functions. Besides, a module may have `Workers`, threads of its own
(`Owner` says whose) that register and unregister while it is live, several at once, which
`dpusm_register_*` allows; they have stopped before the module goes. A monitor
calls `dpusm_invalidate`. `pc` says where a thread is; each action is the code
between two points where another thread can see or change what it uses:

| function | actions |
|---|---|
| `dpusm_provider_register` | `StartRegister`, `RegisterSane` (-EINVAL, unlocked), `RegisterLock`, `RegisterFind` (-EEXIST), `RegisterAdd` (-ECANCELED or listed) |
| `dpusm_provider_unregister` | `StartUnregister`, `UnregisterLock`, `UnregisterFind` (reads `refs`), `UnregisterDrop` (`list_del`, `active`), `UnregisterFree` |
| `dpusm_get_provider` | `StartGet`, `GetLock`, `GetFind` (`try_module_get`), `GetConnect` (counts, `at_connect`), `GetCheck` (unlocked, in `user.c`) |
| `dpusm_provider_put` | `StartPut`, `PutCheck`, `PutModule`, `PutRefs`, `PutActive`, `PutFuncs`, `PutHook`, `PutReport`, one per access |
| `dpusm_invalidate` | `StartInvalidate`, `InvalidateLock`, `InvalidateSet` |

Code inside the lock is cut where an unlocked put interferes (before
`at_connect` is read, between unregister's read of `refs` and its use, and before the
free) and where a provider's own code runs, between register's look for the name and its
`list_add`: `dpusmph_init` calls `algorithms()`. The function table and the capabilities go in one step of `InvalidateSet`:
put and get only read the table. (`UserApi`, whose calls read both, has two steps.)

A name is the module that has it. A `dpusm_ph_t` lives at an address of
`Handles`, and a freed address can be allocated again. A user holds the address
of the object's `self` field, which unregister sets to NULL after it freed the
object, so a freed object reads as NULL, or as anything: `PutCheck` on one
returns an error or crashes. The last line of a put also reads the name of the module it has
released, which is freed memory once that module is unloaded (`PutReport`). A thread that
dereferences NULL or garbage ends in `"oops"` with what it had locked.

### Dpusm

`dpusm` is the state of `dpusm.ko`, `linked` the user modules that are loaded
and found it. `LoadDpusm` is `dpusm_init`. A provider module needs `dpusm.ko` to
be loaded and keeps it there, as does a user module and a call of a monitor
(`InUse`): the symbols they use are its own. `StartExit` and `FinishExit` are
`dpusm_exit` before and after it has the lock; with nobody left to look on, the loop
over the list is one step. A user module may go while it holds a
provider: the reference stays, and the provider's module with it, so `dpusm.ko`
cannot go either.

`ExitClean` says that the two messages of `dpusm_exit` ("should not print unless there
are active users or providers still registered") have no cause on its side of
list and `count`, whatever was registered, held and removed before, also when a provider
was unregistered in the middle of its last user's put. `active`, which the second one reads, is left
out: through that race of `dpusm_provider_put` it can be off by one after a removal.

### FunctionTable and UserApi

A table is the set of its slots that are not NULL, a mask the set of its bit
positions. `Capabilities(funcs, claim, junk)` has what `algorithms()` reported
(`claim`) and what the unzeroed memory held (`junk`) as parameters.

All API functions have one shape, so each is a *row*: the handles it takes, the
slot it calls, whether it tests the slot, the bits it asks for, what it makes or
ends. A call walks `StartCall`, `Sane` (`CHECK_PROVIDER`, `CHECK_HANDLE`,
`SAME_PROVIDERS`), `Test` (`if (!FUNCS(provider)->slot)`), `CheckNeeds`
(capability masks), `Match` (only `raid.set_column`, whose second handle is
looked at late), `Call`, then `Build` (`dpusm_handle_construct`, whose `kmalloc`
may fail) or `Release` (`dpusm_handle_free`). `InvalidateFuncs` and `InvalidateCaps` fall
between any of these. `dpusm_free` and `dpusm_raid_cmp` have their own branches
in `Sane`.

The module starts from what `Registry` shows: a user holds its providers, so
they stay registered (`HeldProviderRegistered`). A user passes handles it made, of
the kind the function takes, each to one call that ends it; a NULL argument, which
every function turns away before it reads anything, is left out, as are
`get_name`, `extract`, `capabilities`, `initialize` and `finalize`, which change nothing.
An `int` mask that meets a `dpusm_compress_t` in `CheckNeeds` is sign-extended
(`Extended`): a provider with ZSTD 22, bit 31, passes for every algorithm above.
What a provider does to an object it is given is its own affair; that it makes one,
returns NULL, ends one, or fails to is in `Call`. A provider's `free` and `raid.free` may
return an error, and the handle is freed regardless (`user.c:206-209, 459-461`): the object is
then `lost`, like one for which there was no memory for a handle.

`Printed` has the bits that `dpusmph_init` prints a name for and `IndexOf` the index
`enum2index` finds by shifting an `int` right, the sign bit included: `ShiftRight` is what
its loop has made of the mask after some number of shifts. A name is its
place in its table of strings; `NamesExist` says that no lookup is past the end and
that each finds the string of its own bit.

### AllocCounters and ExampleProvider

The counters are of a build with `DPUSM_TRACK_ALLOCS`, which `src/Makefile` leaves
off. An `atomic_t` holds `-Half` to `Half - 1`, where `Half` is 2^31 in the program, and
wraps around; a `size_t` has twice its bits, and a negative counter is sign-extended into it. `Registers`, `Builds` and `Releases`
drive them with the sizes of a `dpusm_ph_t` and a `dpusm_handle_t`.

An object of the example provider is an `alloc_t`: `ALLOC_REAL` owns a buffer, `ALLOC_REF`
points into the buffer of another. `ProviderAlloc`, `ProviderAllocRef`,
`ProviderFree` and `ProviderCopyFrom` are its functions; `get_size` and
`copy_to` read. Offsets and sizes are left out: a reference shares all of its
source's buffer. The provider does not count references. Its users therefore
free what they made of a handle before the handle itself, as the
example users do (`Starts` has the rule); without it, a reference dangles and nothing in the
code prevents it. `root` and `expected` are the user's side: what it wrote last
to the memory a handle stands for.

## The runs

| run | instance | shows |
|---|---|---|
| `registry_unload` | `Dpusm`: 2 users, 2 removable modules, 1 monitor, 2 addresses, 3 registers | `TypeOK`; a held provider stays registered; the registry implements `ProviderService`; `dpusm_exit` finds nothing |
| `registry_down` | 3 users, 2 modules that stay once they are loaded, 1 monitor, 3 addresses, 3 registers | counts are true and puts accepted, whenever a provider is invalidated |
| `registry_dynamic` | 1 user, 1 module with 2 more threads that register and unregister it at will, 2 addresses, 3 registers | unique names, true `count`; only critical sections have the lock, every call returns and the lock with it |
| `api_calls` | 2 users, 2 providers (one may go down), 2 handles, 2 objects, 4 tables | calls are implemented, given own live objects, and every object and handle is accounted for, whichever free fails; printed names exist |
| `example_provider` | 2 users, 1 provider that may go down, 3 handles, 3 objects, 2 buffers, counters from -4 to 3 | buffers are owned once, leak in two ways only and are not freed under a handle; users read what they wrote; the counters are right |

and seven that end in a counterexample, each against a sentence of the
repository's (quoted in `PROJECT.json`, `findings`):

| run | property | what the code does |
|---|---|---|
| `registry_lock_leak` | `CallsReturn` | `provider.c:360`: a get that meets an rmmod returns with the lock; the unregister of that rmmod waits for ever |
| `registry_put_race` | `RefsCoverHolders` | `provider.c:398`: after `module_put` the provider can be unregistered and its memory be another provider's; the late decrement takes that one to -1 |
| `registry_get_down` | `GetSurvivesInvalidate` | `provider.c:369`: a get of an invalidated provider dereferences NULL inside the lock |
| `registry_get_leak` | `IdleUsersPinNothing` | `user.c:134`: a get that finds the provider down keeps its references |
| `api_down` | `UserSurvivesInvalidate` | `user.c:172` and alike: the table is read again after the check |
| `api_raid_parity` | `RaidAllocGenerates` | `user.c:469`: 4 to 6 parities test a reconstruction bit |
| `api_optional` | `OptionalBitsTrue` | `provider.c:118`: bits are or-ed into memory nobody cleared |

The passing registry runs are split along these: each leaves out the one thing
that breaks its properties and keeps the rest. `registry_unload` has all but
the workers, `dpusm.ko` included: what it checks holds in spite of removals and invalidations. In it
providers are removed in any order, users put or leave without, and `dpusm_exit` runs after each such history. `registry_down` has no rmmod (the put
race), `registry_dynamic` has neither rmmod (the lock leak) nor monitor (the crash
inside the lock). Its user may still crash, outside the lock, on a
provider that was unregistered under it, which -EBUSY only warns of; `CallsReturn` counts a
crashed thread as having left its call.

Bounds. `MaxRegister` bounds register calls, the only counter that grows: 3
allow a second registration of one module while the other is up, so an address
is reused by either module, and, in `registry_dynamic`, both workers to be in
a register call after one of them has unregistered what the init function registered. Two users are enough for two puts, or a put and a get, to
meet; every hazard listed involves at most two users and one other thread. Two
addresses let a new object take the old address or another one. In `api_calls` two
objects give a call with two handles of one provider or of two; the tables are the
example provider's, a full one, one with half a group and one without a required
function; the provider claims bits at both ends of an `int` and some that mean nothing yet;
the algorithms asked for are one it advertises and one that only the sign extension lets
through. In `example_provider` three handles are an allocation, a reference to it and a
reference to the reference, or two of one and one of the other; counters up to 3 make `active_size`
overflow (2 for the provider, 1 for each of 3 handles) and come back.

Deadlock is checked in `registry_dynamic`. Elsewhere the model really stops:
when `MaxRegister` is used up, when the lock is gone with a leaking get or a
crashed thread, or (`api_*`) when all users have crashed at a provider that
went down.

Fairness (`FairSpec`, for `CallsReturn` and `LockReleased`). A thread inside a
call is runnable, and the kernel schedules it: weak fairness of its steps. A
thread that waits for `dpusm.lock` loops over `mutex_lock_interruptible` and the
kernel's mutex hands the lock to waiters in turn (its hand-off mode): strong
fairness of the lock step. Nothing obliges a thread to start a call or a user to
put, and no property needs it.

## The proofs

All theorems are for every set of users, modules, monitors and addresses
(`ThreadsAssumption`, `HandlesAssumption`, `ModulesAssumption`, `MaxRegisterAssumption`: the kinds of
threads are disjoint, the NULL values are no members, users and addresses are
finitely many), or of users, providers, handles, objects, buffers, tables and claims (`MasksAssumption`: the masks that a
provider claims and that unzeroed memory holds are ints; `HalfAssumption`: a counter holds something). Each rests on
an inductive invariant that TLC checked before it was proved. A proof of a step has one case
per action.

`RegistryProofs`:

- `TypeCorrect`: `Spec => []TypeOK`.
- `NamesUnique` and `CountCorrect`: `UniqueNames` and `CountMatchesList`, for any number of threads
  that register and unregister one module at once, also a provider in use. Neither is inductive: a second
  thread could have found the same name free, or be between `list_del` and `count--`, or delete an
  object that is not its own. `ListInv` adds that only the lock's owner is in the
  critical code (`LockInv`), that the name a thread is about to list is free (`FoundInv`),
  that an unregister works on the listed object with its module's name (`TargetInv`), and that `count` is one ahead of the list exactly
  while some module is at `unreg_free` (`CountInv`).
- `LockLostByCrashOnly`, with `Removable = {}`: whoever has `dpusm.lock` is in a critical section, or
  crashed in one on a provider that was invalidated. `LiveInv` says why no other way is left: a module
  whose threads run, its workers included, is not on its way out and a listed one is live (`LivePhase`, `ListedLive`), so
  `try_module_get` does not fail. `LockAlwaysInside` adds `Monitors = {}` and is `LockHeldInside` and
  `GetSurvivesInvalidate`. So the lock leak (`registry_lock_leak`) and the crash inside the lock
  (`registry_get_down`) have a removal and an invalidation as their causes and no others, with any
  number of workers.
- `HoldSafe`: `HeldProviderRegistered`, assuming that `Workers = {}`, that is,
  that providers unregister only from their exit functions, as the examples do.
  `LeaseInv` says why it holds: where a module's thread is determines the state the
  loader has it in (`ModulePhase`); a listed provider's module has begun its init and has not
  finished its exit (`ListedPhase`); a user that holds has a listed object
  (`HoldInv`), and a module has at least as many references as users hold it, so rmmod,
  which wants none, finds no holder (`PinInv`). A counting lemma over the finite set of
  users carries the last one through get and put.

`CountProofs`, with `Workers = {}` and `Removable = {}`, since with a removal the race of
`dpusm_provider_put` makes the counts wrong (`registry_put_race`):

- `CountsTrue` and `PutsAccepted`: `RefsCountHolders` and `PutAccepted`. `CountsInv` adds to
  `LeaseInv` that nobody is in an exit function and that what a user works on is listed to
  the very end of its put, after the module was released.
- `ActiveTrue`: `ActiveMatchesRefs`. The references on the list are a set of pairs, of an address and
  a number up to its `refs`, so that the sum over the providers is a cardinality and no induction is needed:
  get adds one pair, `PutRefs` moves one to the puts in progress, unregister takes off what
  it read (nothing, since a provider is unregistered in its exit function only).
- `PinsTrue`: the reference count of the module of an up provider is the number of users that pinned it
  (`UpPins`). With `Monitors = {}` nothing goes down and `NoLeakWithoutInvalidate` is
  `IdleUsersPinNothing`: what `registry_get_leak` shows takes an invalidation.
- `HoldersCovered`: `RefsCoverHolders`, from `CountsInv`: what `registry_put_race` shows takes a removal.

`ServiceProofs`, with `Workers = {}`:

- `ServiceImplemented`: `Registry` implements `ProviderService`. A user of the service sees of a
  module whether its provider is absent, up or down, and of a user which module it
  holds; each action is shown to leave both alone or to be one step of the
  service on them. That unregister is the service's `Unregister`, which wants no holder, is
  where `LeaseInv` is needed.

`DpusmProofs`, with `Workers = {}`:

- `HoldSafeInDpusm` and `ServiceImplementedInDpusm`: the steps of `dpusm.ko` itself keep `LeaseInv`
  and stutter for the service.
- `ExitIsClean`: `ExitClean`. `DpusmInv` adds that whatever is allocated is listed or about to
  be freed (`AliveInv`), that a user module that is not loaded runs nothing (`LinkInv`)
  and that nothing uses `dpusm.ko` from the start of its exit on (`QuietInv`).

`UserApiProofs`:

- `CalledIsImplemented`: `CallsImplemented`, from the rows (`Rows`: what a call tests for is
  exactly what is not required at load time) and `StageOK`, what a call has found out by the time it is
  at a label.
- `GivenIsOwn`: `OwnObjectsOnly`. By itself it is not inductive: another user could end the
  object between the check of a call and the call. `ApiInv` says who can reach a handle
  (its maker, or the one call it was given up to), that a handle within reach is in use for a
  live object of its provider (`HandlesHold`), and that no two reach the same handle or the
  same object (`HandlesApart`); a new object and a handle about to be freed are out of
  everybody's reach (`BuildOK`, `ReleaseOK`).

`AccountProofs`, on top of `ApiInv`:

- `ObjectsAreAccounted`: `ObjectsAccounted`. Not inductive, since it does not say which objects may
  get a handle next. `AccountInv` adds that an object on its way to a handle, or lost, is live and
  behind no handle (`KeptInv`, `LostInv`), and that a live object's provider is listed (`HomeInv`), so
  that a registration cannot bring one up again that has objects left (`LeftInv`). A free that fails
  moves the object from behind its handle to the lost ones, in the step in which the handle leaves
  the kept ones (`FailAccounts`).

`StrayProofs`, on top of `ApiInv`:

- `StraysAreKnown`: `StrayHandles`. A call that ends a handle may be turned away at each of its
  looks. `StrayInv` says why that happens only at a provider that went down: a table that passed
  the check and makes handles of a kind ends them too (`ClosesToo`, `ClosableInv`), and a
  call that ends a handle takes that one alone and asks for no capability (`RowKinds`).
- `ApiTypeCorrect`: `TypeOK` of `UserApi`.
- `NamesAlwaysExist`: `NamesExist`, from the masks being ints (`TypeInv`), the index that `enum2index`
  finds for each bit of one (`ShiftedOut`, `IndexFound`), and the ends of the loops and the tables of strings
  (`TablesLongEnough`).
- `CrashIsInvalidation`: a call crashes only at a provider that was invalidated, for all users and tables; from
  `StageOK`, since a table that is not NULL has what was looked for in it. So `UsersSurviveOtherwise`: with
  `Fallible = {}`, `UserSurvivesInvalidate`; what `api_down` shows takes an invalidation.

`ExampleProofs`, on top of the invariants of `AccountProofs` and `StrayProofs`, which hold because every
step of `ExampleProvider` is one of `UserApi`:

- `MemoryIsOwned`: `MemoryOwned`. A buffer leaks in two ways, which the property names (`Leaked`): its
  `alloc_t` got no handle (`user.c:37`), or its provider was down when the handle was freed
  (`user.c:205`). That there is no third is `LeftInv` of `AccountInv`, as every owner is live
  (`OwnersInv`). For the other half the point is the free: it may take a buffer that a
  reference points to. `SourceInv` says that what a live object points to is owned by an object of
  the same provider; so a reference left dangling is at a provider that is up, and is
  behind a handle or on the way to one (`UpInv`). `RootInv` and `WorksInv` then trace it to the handle
  from `alloc` that the user is giving up, and the rule of `Starts` excludes that.
- `ContentsAlwaysMatch`: `ContentsMatch`. Handles that share a buffer are one user's and have one root
  (`SameBuffer`, from `RootInv` and `HandlesApart`), so a write reaches exactly those for which the
  user expects it, and a freed buffer is nobody's.
- `AllocsAreCounted`: `AllocsCounted`, for every `Half` and every size of the two structures. `CountersInv`:
  the counters are what is left of the true numbers in an `atomic_t`, however large those are. Each
  step keeps it, since adding to what is left leaves what is left of the sum (`WrapAdd`, from a
  few lemmas about remainders), and a number that fits is all left (`WrapFits`, `SizeTFits`). That each
  `dpusm_mem_free` meets a handle still in use is `ReleaseOK` of `ApiInv`.

Of the passing runs' properties, only the two liveness properties, `CallsReturn` and `LockReleased`, are
model-checked and not proved: fairness and ENABLED are out of the prover's reach. `LockHeldInside` is the
safety half of `LockReleased`. What each violation run shows is a counterexample of one instance; the
theorems named above show for all instances what it takes. There is no such theorem for
`api_raid_parity`, whose cause is the number the user passes, and for `api_optional`, where it is the memory
the masks are or-ed into, as the definition of `Capabilities` says.

Two definitions have the form they have for the proofs: `ActiveMatchesRefs`, a cardinality instead of a sum, and
`ShiftRight`, n shifts at once instead of a recursion.

## Not modelled

- The text of log messages, and the two prints of `dpusm_exit` (`ExitClean` says when the
  first has a cause).
- Sizes and offsets of data; the example provider copies what it is told to, anywhere.
- What callbacks of providers do (`at_connect` and `at_disconnect` are NULL in the
  repository's), and what a user reads through the pointer `capabilities` returns.
- The example users' exact sequence of calls; the users of `ExampleProvider` make those
  calls in any order, and `ContentsMatch` is the `BUG_ON` on the contents. The other
  `BUG_ON`s are about getting anything at all.
- A user that puts a reference twice, or frees a source before its references: both break the
  user's side of the protocol, and the code has nothing against them.
- The build files and the test script.

## Plan

Done: `KernelModules`, `Registry` with `ProviderService` and `RegistryProofs`; `FunctionTable` and
`UserApi`; `Dpusm`; `AllocCounters` and `ExampleProvider`; every safety property
of the passing runs, the refinement, and the causes of five of the seven counterexamples proved. Left:

1. Callbacks as running code: a provider whose `at_connect` calls the DPUSM back.
2. The abstract memory that the API promises its users, as a specification that `ExampleProvider`
   implements.
