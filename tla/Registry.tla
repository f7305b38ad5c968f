------------------------------ MODULE Registry ------------------------------
(***************************************************************************)
(* The provider registry of the DPUSM: src/src/provider.c from             *)
(* dpusm_provider_register down, reached through the wrappers of           *)
(* src/src/dpusm.c and through dpusm_get_provider/dpusm_put_provider of    *)
(* src/src/user.c.                                                         *)
(*                                                                         *)
(* Threads of four kinds call it: users (one thread per reference that is  *)
(* taken and returned), the threads that run the init and exit functions   *)
(* of provider modules (register, unregister), other threads of these      *)
(* modules, which may do the same while the module is live, and monitors   *)
(* (anybody who calls dpusm_invalidate).  register, unregister, get and    *)
(* invalidate hold dpusm.lock; put holds nothing.  Each action is a piece  *)
(* of a function between two points where another thread can see or change *)
(* what it uses: code inside the lock is cut where an unlocked put can     *)
(* interfere and where a provider's own code runs, put is cut at every     *)
(* access to shared memory.                                                *)
(*                                                                         *)
(* A dpusm_ph_t lives at an address in Handles; an address whose object    *)
(* was freed can be allocated again.  What a user holds is the address of  *)
(* the object's "self" field, which unregister sets to NULL after it has   *)
(* freed the object: a freed object reads as NULL, or as garbage once the  *)
(* allocator has given the memory to somebody else.  A thread that follows *)
(* a NULL or garbage pointer ends in "oops", with whatever it had locked.  *)
(***************************************************************************)
EXTENDS KernelModules, FiniteSets, FiniteSetsExt

CONSTANTS
  Users,      \* threads that get, hold and put a provider
  Monitors,   \* threads that call dpusm_invalidate
  Handles,    \* addresses of dpusm_ph_t objects (bounds live objects)
  Removable,  \* the modules an administrator may rmmod
  Workers,    \* threads of modules that (un)register while these are live
  Owner,      \* Owner[w]: the module that worker w belongs to
  MaxRegister,\* bound: register calls in a behaviour (TLC's only; see below)
  NoThread,   \* the lock is free
  NoHandle,   \* a NULL dpusm_ph_t **
  NoModule    \* a NULL struct module *

\* The threads that register and unregister.  The one that runs the init and
\* exit functions of a module has the module's name.
Callers == Modules \cup Workers

ModuleOf(t) == IF t \in Workers THEN Owner[t] ELSE t

Threads == Users \cup Callers \cup Monitors

ASSUME ThreadsAssumption ==
  /\ Users \cap Callers = {}
  /\ Users \cap Monitors = {}
  /\ Callers \cap Monitors = {}
  /\ Modules \cap Workers = {}
  /\ NoThread \notin Threads
  /\ IsFiniteSet(Users)

ASSUME HandlesAssumption ==
  /\ NoHandle \notin Handles
  /\ IsFiniteSet(Handles)

ASSUME ModulesAssumption ==
  /\ NoModule \notin Modules
  /\ Removable \subseteq Modules
  /\ Owner \in [Workers -> Modules]

ASSUME MaxRegisterAssumption == MaxRegister \in Nat

VARIABLES
  lock,       \* dpusm.lock: the thread that owns it, or NoThread
  providers,  \* dpusm.providers: the listed objects
  count,      \* dpusm.count
  active,     \* dpusm.active
  alive,      \* the dpusm_ph_t objects that are allocated
  module,     \* module[h]: the field of that name
  refs,       \* refs[h]: the field of that name
  down,       \* the objects whose funcs field is NULL
  pc,         \* pc[t]: where thread t is
  ptr,        \* ptr[t]: the thread's "provider" variable
  mdl,        \* mdl[u]: the local "module" of dpusm_provider_put
  seen,       \* seen[t]: the local "refs" of dpusm_provider_unregister_handle
  started     \* register calls so far: not in the code, it bounds the model

loader == <<mstate, mrefs>>
list == <<providers, count>>
objects == <<alive, module, refs, down>>
locals == <<ptr, mdl, seen, started>>
vars == <<loader, lock, list, active, objects, pc, locals>>

\* A thread that is in no call: it may start one, stop for good, or (a user)
\* keep the provider it was given.
Resting == {"idle", "holding", "oops"}

UserLabels ==
  {"get_lock", "get_find", "get_connect", "get_check", "put_check",
   "put_module", "put_refs", "put_active", "put_funcs", "put_hook",
   "put_report"}

ModuleLabels ==
  {"reg_sane", "reg_lock", "reg_find", "reg_add",
   "unreg_lock", "unreg_find", "unreg_drop", "unreg_free"}

MonitorLabels == {"inv_lock", "inv_set"}

Labels == Resting \cup UserLabels \cup ModuleLabels \cup MonitorLabels

\* The points between mutex_lock and mutex_unlock.
Critical ==
  {"get_find", "get_connect", "reg_find", "reg_add",
   "unreg_find", "unreg_drop", "unreg_free", "inv_set"}

Init ==
  /\ LoaderInit
  /\ lock = NoThread
  /\ providers = {}
  /\ count = 0
  /\ active = 0
  /\ alive = {}
  /\ module = [h \in Handles |-> NoModule]
  /\ refs = [h \in Handles |-> 0]
  /\ down = {}
  /\ pc = [t \in Threads |-> "idle"]
  /\ ptr = [t \in Threads |-> NoHandle]
  /\ mdl = [u \in Users |-> NoModule]
  /\ seen = [t \in Callers |-> 0]
  /\ started = 0

-----------------------------------------------------------------------------
Goto(t, from, to) ==
  /\ pc[t] = from
  /\ pc' = [pc EXCEPT ![t] = to]

\* while (mutex_lock_interruptible(&dpusm->lock));
Acquire(t, from, to) ==
  /\ lock = NoThread
  /\ lock' = t
  /\ Goto(t, from, to)
  /\ UNCHANGED <<loader, list, active, objects, locals>>

\* find_provider: the listed objects whose module has the given name.
Found(m) == {h \in providers : module[h] = m}

\* The unlocked threads that dereference a freed object: *provider is NULL
\* or garbage.
Oops(t, from) ==
  /\ Goto(t, from, "oops")
  /\ UNCHANGED <<loader, lock, list, active, objects, locals>>

-----------------------------------------------------------------------------
(* dpusm_register_*, called by the thread of module m's init function or,  *)
(* while m is live, by another thread t of m.                              *)

StartRegister(t, m) ==
  /\ started < MaxRegister
  /\ started' = started + 1
  /\ Goto(t, "idle", "reg_sane")
  /\ \/ t = m /\ Insmod(m)
     \/ t \in Workers /\ mstate[m] = "live" /\ UNCHANGED loader
  /\ UNCHANGED <<lock, list, active, objects, ptr, mdl, seen>>

\* The register call returns: an init function returns with it, and its
\* module stays or goes.
RegisterReturns(m, ok) ==
  /\ mstate' = [mstate EXCEPT ![m] = AfterCall(@, ok)]
  /\ UNCHANGED mrefs

\* dpusm_provider_sane_at_load: a bad function table is refused unlocked.
RegisterSane(t, m) ==
  \/ /\ Goto(t, "reg_sane", "reg_lock")
     /\ UNCHANGED <<loader, lock, list, active, objects, locals>>
  \/ /\ Goto(t, "reg_sane", "idle")
     /\ RegisterReturns(m, FALSE)               \* -EINVAL
     /\ UNCHANGED <<lock, list, active, objects, locals>>

\* Mutant: the name is looked up without the lock.
RegisterLockNone(t) ==
  /\ Goto(t, "reg_lock", "reg_find")
  /\ UNCHANGED <<loader, lock, list, active, objects, locals>>

RegisterLock(t) == Acquire(t, "reg_lock", "reg_find")

RegisterFind(t, m) ==
  \/ /\ Found(m) # {}
     /\ Goto(t, "reg_find", "idle")
     /\ lock' = NoThread
     /\ RegisterReturns(m, FALSE)               \* -EEXIST
     /\ UNCHANGED <<list, active, objects, locals>>
  \/ /\ Found(m) = {}
     /\ Goto(t, "reg_find", "reg_add")
     /\ UNCHANGED <<loader, lock, list, active, objects, locals>>

\* Mutant: what dpusmph_init returns is listed without a look for NULL.
RegisterAddUnchecked(t, m) ==
  /\ Goto(t, "reg_add", "idle")
  /\ lock' = NoThread
  /\ RegisterReturns(m, TRUE)
  /\ \E h \in (Handles \ alive) \cup {NoHandle} :
       /\ alive' = alive \cup ({h} \cap Handles)
       /\ module' = [g \in Handles |-> IF g = h THEN m ELSE module[g]]
       /\ refs' = [g \in Handles |-> IF g = h THEN 0 ELSE refs[g]]
       /\ down' = down \ {h}
       /\ providers' = providers \cup {h}
  /\ count' = count + 1
  /\ UNCHANGED <<active, locals>>

\* dpusmph_init, which asks the provider for its algorithms, makes an object
\* that is listed, or fails.
RegisterAdd(t, m) ==
  /\ Goto(t, "reg_add", "idle")
  /\ lock' = NoThread
  /\ \/ /\ RegisterReturns(m, FALSE)            \* -ECANCELED
        /\ UNCHANGED <<list, active, objects, locals>>
     \/ /\ RegisterReturns(m, TRUE)
        /\ \E h \in Handles \ alive :
             /\ alive' = alive \cup {h}
             /\ module' = [module EXCEPT ![h] = m]
             /\ refs' = [refs EXCEPT ![h] = 0]
             /\ down' = down \ {h}
             /\ providers' = providers \cup {h}
        /\ count' = count + 1
        /\ UNCHANGED <<active, locals>>

-----------------------------------------------------------------------------
(* dpusm_unregister_*, called by the thread of module m's exit function    *)
(* or, while m is live, by another thread t of m.  A module stops its      *)
(* other threads before it goes.                                           *)

StartUnregister(t, m) ==
  /\ Goto(t, "idle", "unreg_lock")
  /\ \/ /\ t = m /\ m \in Removable
        /\ Rmmod(m)
        /\ \A w \in Workers : Owner[w] = m => pc[w] = "idle"
     \/ t \in Workers /\ mstate[m] = "live" /\ UNCHANGED loader
  /\ UNCHANGED <<lock, list, active, objects, locals>>

UnregisterReturns(t, m) ==
  /\ Goto(t, pc[t], "idle")
  /\ lock' = NoThread
  /\ mstate' = [mstate EXCEPT ![m] = AfterCall(@, TRUE)]
  /\ UNCHANGED mrefs

UnregisterLock(t) == Acquire(t, "unreg_lock", "unreg_find")

\* Mutant: an unregister that finds nothing returns with the lock held.
UnregisterFindLocked(t, m) ==
  \/ /\ Found(m) = {}
     /\ Goto(t, "unreg_find", "idle")
     /\ UNCHANGED <<loader, lock, list, active, objects, locals>>
  \/ /\ \E h \in Found(m) :
          /\ ptr' = [ptr EXCEPT ![t] = h]
          /\ seen' = [seen EXCEPT ![t] = refs[h]]
     /\ Goto(t, "unreg_find", "unreg_drop")
     /\ UNCHANGED <<loader, lock, list, active, objects, mdl, started>>

\* Mutant: an unregister that finds nothing counts a provider out.
UnregisterFindCounts(t, m) ==
  /\ pc[t] = "unreg_find"
  /\ \/ /\ Found(m) = {}
        /\ UnregisterReturns(t, m)
        /\ count' = count - 1
        /\ UNCHANGED <<providers, active, objects, locals>>
     \/ /\ \E h \in Found(m) :
             /\ ptr' = [ptr EXCEPT ![t] = h]
             /\ seen' = [seen EXCEPT ![t] = refs[h]]
        /\ Goto(t, "unreg_find", "unreg_drop")
        /\ UNCHANGED <<loader, lock, list, active, objects, mdl, started>>

\* Mutant: a provider with references is left where it is.
UnregisterFindBusy(t, m) ==
  /\ pc[t] = "unreg_find"
  /\ \/ /\ \A h \in Found(m) : refs[h] # 0
        /\ UnregisterReturns(t, m)
        /\ UNCHANGED <<list, active, objects, locals>>
     \/ /\ \E h \in Found(m) :
             /\ refs[h] = 0
             /\ ptr' = [ptr EXCEPT ![t] = h]
             /\ seen' = [seen EXCEPT ![t] = 0]
        /\ Goto(t, "unreg_find", "unreg_drop")
        /\ UNCHANGED <<loader, lock, list, active, objects, mdl, started>>

\* Finds the object and reads its reference count, which only decides
\* between 0 and -EBUSY: the object goes in either case.
UnregisterFind(t, m) ==
  /\ pc[t] = "unreg_find"
  /\ \/ /\ Found(m) = {}
        /\ UnregisterReturns(t, m)                 \* DPUSM_ERROR
        /\ UNCHANGED <<list, active, objects, locals>>
     \/ /\ \E h \in Found(m) :
             /\ ptr' = [ptr EXCEPT ![t] = h]
             /\ seen' = [seen EXCEPT ![t] = refs[h]]
        /\ Goto(t, "unreg_find", "unreg_drop")
        /\ UNCHANGED <<loader, lock, list, active, objects, mdl, started>>

\* list_del, and the count read before is taken off the global one.
UnregisterDrop(t) ==
  /\ Goto(t, "unreg_drop", "unreg_free")
  /\ providers' = providers \ {ptr[t]}
  /\ active' = active - seen[t]
  /\ UNCHANGED <<loader, lock, count, objects, locals>>

\* dpusmph_destroy, count--, *provider = NULL (inside the freed object).
UnregisterFree(t, m) ==
  /\ pc[t] = "unreg_free"
  /\ alive' = alive \ {ptr[t]}
  /\ count' = count - 1
  /\ ptr' = [ptr EXCEPT ![t] = NoHandle]
  /\ seen' = [seen EXCEPT ![t] = 0]
  /\ UnregisterReturns(t, m)
  /\ UNCHANGED <<providers, active, module, refs, down, mdl, started>>

-----------------------------------------------------------------------------
(* dpusm->get(name): dpusm_get_provider over dpusm_provider_get.           *)

StartGet(u) ==
  /\ Goto(u, "idle", "get_lock")
  /\ UNCHANGED <<loader, lock, list, active, objects, locals>>

GetLock(u) == Acquire(u, "get_lock", "get_find")

\* Mutant: no reference is taken on the module.
GetFindUnpinned(u, m) ==
  /\ \E h \in Found(m) : ptr' = [ptr EXCEPT ![u] = h]
  /\ Goto(u, "get_find", "get_connect")
  /\ UNCHANGED <<loader, lock, list, active, objects, mdl, seen, started>>

\* Mutant: the reference is taken without asking whether the module is live.
GetFindGoing(u, m) ==
  /\ \E h \in Found(m) : ptr' = [ptr EXCEPT ![u] = h]
  /\ Goto(u, "get_find", "get_connect")
  /\ mrefs' = [mrefs EXCEPT ![m] = @ + 1]
  /\ UNCHANGED <<mstate, lock, list, active, objects, mdl, seen, started>>

\* Not found: NULL, unlocked.  Found, but the module is on its way out:
\* NULL, and the function returns without mutex_unlock.
GetFind(u, m) ==
  \/ /\ Goto(u, "get_find", "idle")
     /\ Found(m) = {} \/ ~ModuleIsLive(m)
     /\ lock' = IF Found(m) = {} THEN NoThread ELSE lock
     /\ UNCHANGED <<loader, list, active, objects, locals>>
  \/ /\ Goto(u, "get_find", "get_connect")
     /\ ModuleGet(m)
     /\ \E h \in Found(m) : ptr' = [ptr EXCEPT ![u] = h]
     /\ UNCHANGED <<lock, list, active, objects, mdl, seen, started>>

\* Counts the user in, then looks for at_connect in funcs, which is NULL
\* in an invalidated provider.
GetConnect(u) ==
  /\ pc[u] = "get_connect"
  /\ refs' = [refs EXCEPT ![ptr[u]] = @ + 1]
  /\ active' = active + 1
  /\ \/ /\ ptr[u] \notin down
        /\ Goto(u, "get_connect", "get_check")
        /\ lock' = NoThread
     \/ /\ ptr[u] \in down
        /\ Goto(u, "get_connect", "oops")
        /\ UNCHANGED lock
  /\ UNCHANGED <<loader, list, alive, module, down, locals>>

\* Back in dpusm_get_provider, unlocked: an invalidated provider is not
\* handed out, and not put back either.
GetCheck(u) ==
  \/ /\ ptr[u] \notin alive
     /\ Oops(u, "get_check")
  \/ /\ ptr[u] \in alive \ down
     /\ Goto(u, "get_check", "holding")
     /\ UNCHANGED <<loader, lock, list, active, objects, locals>>
  \/ /\ ptr[u] \in alive \cap down
     /\ Goto(u, "get_check", "idle")
     /\ ptr' = [ptr EXCEPT ![u] = NoHandle]
     /\ UNCHANGED <<loader, lock, list, active, objects, mdl, seen, started>>

-----------------------------------------------------------------------------
(* dpusm->put(provider): dpusm_provider_put, which takes no lock.          *)

StartPut(u) ==
  /\ Goto(u, "holding", "put_check")
  /\ UNCHANGED <<loader, lock, list, active, objects, locals>>

PutReturns(u, from) ==
  /\ Goto(u, from, "idle")
  /\ ptr' = [ptr EXCEPT ![u] = NoHandle]
  /\ mdl' = [mdl EXCEPT ![u] = NoModule]
  /\ UNCHANGED <<loader, lock, list, active, objects, seen, started>>

\* *provider is NULL after an unregister, or the count is zero: error.
PutCheck(u) ==
  \/ /\ ptr[u] \notin alive
     /\ \/ PutReturns(u, "put_check")
        \/ Oops(u, "put_check")
  \/ /\ ptr[u] \in alive
     /\ refs[ptr[u]] = 0
     /\ PutReturns(u, "put_check")
  \/ /\ ptr[u] \in alive
     /\ refs[ptr[u]] # 0
     /\ Goto(u, "put_check", "put_module")
     /\ mdl' = [mdl EXCEPT ![u] = module[ptr[u]]]
     /\ UNCHANGED <<loader, lock, list, active, objects, ptr, seen, started>>

\* module_put: from here on the module can be removed.
PutModule(u) ==
  /\ Goto(u, "put_module", "put_refs")
  /\ ModulePut(mdl[u])
  /\ UNCHANGED <<lock, list, active, objects, locals>>

PutRefs(u) ==
  \/ /\ ptr[u] \notin alive
     /\ Oops(u, "put_refs")
  \/ /\ ptr[u] \in alive
     /\ Goto(u, "put_refs", "put_active")
     /\ refs' = [refs EXCEPT ![ptr[u]] = @ - 1]
     /\ UNCHANGED <<loader, lock, list, active, alive, module, down, locals>>

\* Mutant: the global count is only taken down for a valid provider.
PutActiveIfValid(u) ==
  /\ Goto(u, "put_active", "put_funcs")
  /\ active' = IF ptr[u] \in down THEN active ELSE active - 1
  /\ UNCHANGED <<loader, lock, list, objects, locals>>

PutActive(u) ==
  /\ Goto(u, "put_active", "put_funcs")
  /\ active' = active - 1
  /\ UNCHANGED <<loader, lock, list, objects, locals>>

\* if ((*provider)->funcs)
PutFuncs(u) ==
  \/ /\ ptr[u] \notin alive
     /\ Oops(u, "put_funcs")
  \/ /\ ptr[u] \in alive
     /\ Goto(u, "put_funcs", IF ptr[u] \in down THEN "put_report" ELSE "put_hook")
     /\ UNCHANGED <<loader, lock, list, active, objects, locals>>

\* if ((*provider)->funcs->at_disconnect), funcs read once more.
PutHook(u) ==
  \/ /\ ptr[u] \notin alive \ down
     /\ Oops(u, "put_hook")
  \/ /\ ptr[u] \in alive \ down
     /\ Goto(u, "put_hook", "put_report")
     /\ UNCHANGED <<loader, lock, list, active, objects, locals>>

\* The closing printk reads the object's count and the module's name, of a
\* struct module that goes with the module.
PutReport(u) ==
  \/ /\ Oops(u, "put_report")
     /\ ptr[u] \notin alive \/ mstate[mdl[u]] = "unloaded"
  \/ /\ ptr[u] \in alive
     /\ PutReturns(u, "put_report")

-----------------------------------------------------------------------------
(* dpusm_invalidate(name): the backing device went down.                   *)

StartInvalidate(t) ==
  /\ Goto(t, "idle", "inv_lock")
  /\ UNCHANGED <<loader, lock, list, active, objects, locals>>

InvalidateLock(t) == Acquire(t, "inv_lock", "inv_set")

\* Mutant: the memset clears the reference count along with the capabilities.
InvalidateSetClears(t, m) ==
  /\ Goto(t, "inv_set", "idle")
  /\ lock' = NoThread
  /\ down' = down \cup Found(m)
  /\ refs' = [h \in Handles |-> IF h \in Found(m) THEN 0 ELSE refs[h]]
  /\ UNCHANGED <<loader, list, active, alive, module, locals>>

InvalidateSet(t, m) ==
  /\ Goto(t, "inv_set", "idle")
  /\ lock' = NoThread
  /\ down' = down \cup Found(m)
  /\ UNCHANGED <<loader, list, active, alive, module, refs, locals>>

-----------------------------------------------------------------------------
RegisterStep(t, m) == RegisterSane(t, m) \/ RegisterFind(t, m) \/ RegisterAdd(t, m)

UnregisterStep(t, m) ==
  UnregisterFind(t, m) \/ UnregisterDrop(t) \/ UnregisterFree(t, m)

GetStep(u) ==
  \/ \E m \in Modules : GetFind(u, m)
  \/ GetConnect(u)
  \/ GetCheck(u)

PutStep(u) ==
  \/ PutCheck(u)
  \/ PutModule(u)
  \/ PutRefs(u)
  \/ PutActive(u)
  \/ PutFuncs(u)
  \/ PutHook(u)
  \/ PutReport(u)

InvalidateStep(t) == \E m \in Modules : InvalidateSet(t, m)

UserNext(u) == StartGet(u) \/ GetLock(u) \/ GetStep(u) \/ StartPut(u) \/ PutStep(u)

ModuleNext(t, m) ==
  \/ StartRegister(t, m) \/ RegisterLock(t) \/ RegisterStep(t, m)
  \/ StartUnregister(t, m) \/ UnregisterLock(t) \/ UnregisterStep(t, m)

MonitorNext(t) == StartInvalidate(t) \/ InvalidateLock(t) \/ InvalidateStep(t)

Next ==
  \/ \E u \in Users : UserNext(u)
  \/ \E t \in Callers : ModuleNext(t, ModuleOf(t))
  \/ \E t \in Monitors : MonitorNext(t)

Spec == Init /\ [][Next]_vars

\* The kernel schedules every runnable thread, and its mutex hands the lock
\* to waiters in turn: a thread inside a call keeps running, and one that
\* waits for a lock that is free again and again gets it.  Nothing obliges
\* anybody to start a call.
Fairness ==
  /\ \A u \in Users : WF_vars(GetStep(u) \/ PutStep(u)) /\ SF_vars(GetLock(u))
  /\ \A t \in Callers :
       /\ WF_vars(RegisterStep(t, ModuleOf(t)) \/ UnregisterStep(t, ModuleOf(t)))
       /\ SF_vars(RegisterLock(t) \/ UnregisterLock(t))
  /\ \A t \in Monitors : WF_vars(InvalidateStep(t)) /\ SF_vars(InvalidateLock(t))

FairSpec == Spec /\ Fairness

-----------------------------------------------------------------------------
TypeOK ==
  /\ mstate \in [Modules -> LoaderStates]
  /\ mrefs \in [Modules -> Int]
  /\ lock \in Threads \cup {NoThread}
  /\ providers \subseteq Handles
  /\ count \in Int
  /\ active \in Int
  /\ alive \subseteq Handles
  /\ module \in [Handles -> Modules \cup {NoModule}]
  /\ refs \in [Handles -> Int]
  /\ down \subseteq Handles
  /\ pc \in [Threads -> Labels]
  /\ ptr \in [Threads -> Handles \cup {NoHandle}]
  /\ mdl \in [Users -> Modules \cup {NoModule}]
  /\ seen \in [Callers -> Int]
  /\ started \in 0..MaxRegister

\* User u has a reference on a provider's module: from try_module_get in
\* dpusm_provider_get to module_put in dpusm_provider_put.
Holding ==
  {"get_connect", "get_check", "holding", "put_check", "put_module"}

Holds(u) == pc[u] \in Holding

\* User u is counted in refs[ptr[u]].
Counted ==
  {"get_check", "holding", "put_check", "put_module", "put_refs"}

Holders(h) == {u \in Users : ptr[u] = h /\ pc[u] \in Counted}

\* A provider that a user has obtained and not yet returned is allocated,
\* listed, and its module is not being removed: "make sure provider can't
\* be unloaded before user" (dpusm_provider_get).  It takes a get, an rmmod
\* and an unregister in the wrong order to break it.
HeldProviderRegistered ==
  \A u \in Users : Holds(u) =>
    /\ ptr[u] \in providers
    /\ ModuleIsLive(module[ptr[u]])

\* No two registered providers have the same name, whatever threads of a
\* module register it at the same time: between the find and the list_add of
\* dpusm_provider_register, which other code separates, no other thread lists
\* that name.
UniqueNames ==
  \A g, h \in providers : module[g] = module[h] => g = h

\* Whenever nobody is inside the lock, dpusm.count is the length of the
\* list, and everything on the list is allocated.
CountMatchesList ==
  lock = NoThread => count = Cardinality(providers) /\ providers \subseteq alive

\* An up provider's refs is exactly the number of users that were counted in
\* and not yet counted out: no put takes a reference off twice and none is
\* forgotten.  At a down provider it may be more, by the references of users
\* that dpusm_get_provider turned away, but never less.
RefsCountHolders ==
  \A h \in providers :
    /\ refs[h] >= Cardinality(Holders(h))
    /\ h \notin down => refs[h] = Cardinality(Holders(h))

\* A registered provider's refs is never below the number of users that have
\* it in their hands: the field is "how many users are holding this provider".
RefsCoverHolders ==
  \A h \in providers :
    refs[h] >= Cardinality({u \in Users :
                 ptr[u] = h /\ pc[u] \in {"get_check", "holding", "put_check"}})

\* A user that asks for a provider after it was invalidated is turned away
\* ("found, but has been invalidated"): it does not look for at_connect in
\* a function table that is gone.
GetSurvivesInvalidate ==
  \A u \in Users : pc[u] = "get_connect" => ptr[u] \notin down

\* When every user has come back from its last call and keeps nothing, no
\* provider module is pinned: a get that returned NULL left nothing behind,
\* so the module can be removed.
IdleUsersPinNothing ==
  (\A u \in Users : pc[u] = "idle") => \A m \in Modules : mrefs[m] = 0

\* A user that returns a provider it was given is never told that the
\* handle is bad or that the count is already zero: dpusm_provider_put gets
\* past both checks, also after an invalidate.
PutAccepted ==
  \A u \in Users : pc[u] = "put_check" => ptr[u] \in alive /\ refs[ptr[u]] > 0

\* The references that dpusm_provider_get counted on registered providers and
\* dpusm_provider_put has not counted off.
References == UNION {{h} \X (1..refs[h]) : h \in providers}

\* The puts that have taken their reference off refs and not off active.
Uncounting == {u \in Users : pc[u] = "put_active"}

\* dpusm.active is the number of references to the registered providers (none
\* of which has less than none), except for the puts that have taken theirs
\* off one and not the other.
ActiveMatchesRefs ==
  /\ \A h \in providers : refs[h] >= 0
  /\ active = Cardinality(References) + Cardinality(Uncounting)

\* Every register, unregister, get, put and invalidate call comes back (a
\* user thread that crashed on a stale pointer excepted).
CallsReturn ==
  \A t \in Threads : pc[t] \notin Resting ~> pc[t] \in Resting

\* Once taken, the lock is given back.
LockReleased == \A t \in Threads : lock = t ~> lock # t

\* Whoever owns the lock is between the lock and the unlock of a function: no
\* path of any of them leaves with it.
LockHeldInside == lock # NoThread => pc[lock] \in Critical

\* The registry implements ProviderService: a user holds a provider from
\* try_module_get to module_put, and only unheld providers are unregistered.
Service == INSTANCE ProviderService WITH
  state <- [m \in Modules |->
             IF Found(m) = {} THEN "absent"
             ELSE IF Found(m) \cap down = {} THEN "up" ELSE "down"],
  held <- [u \in Users |-> IF Holds(u) THEN module[ptr[u]] ELSE NoModule]

ServiceSpec == Service!Spec

=============================================================================
