------------------------------- MODULE Dpusm -------------------------------
(***************************************************************************)
(* The life of dpusm.ko around its registry: dpusm_init and dpusm_exit of  *)
(* src/src/dpusm.c, with the modules that use its symbols.                 *)
(*                                                                         *)
(* The loader keeps dpusm.ko loaded as long as a provider's or a user's    *)
(* module that uses its symbols is.  A user thread belongs to a user       *)
(* module like src/examples/users: it runs while that module is loaded.    *)
(* A user module may be removed with a provider in its hands, which it     *)
(* then never puts.                                                        *)
(***************************************************************************)
EXTENDS Registry

VARIABLES
  dpusm,      \* the loader's state of dpusm.ko: "unloaded", "live" or "going"
  linked      \* the users whose module is loaded

around == <<dpusm, linked>>
allVars == <<vars, around>>

DpusmInit ==
  /\ Init
  /\ dpusm = "unloaded"
  /\ linked = {}

-----------------------------------------------------------------------------
\* insmod dpusm.ko: dpusm_init.
LoadDpusm ==
  /\ dpusm = "unloaded"
  /\ dpusm' = "live"
  /\ providers' = {}
  /\ count' = 0
  /\ lock' = NoThread
  /\ active' = 0
  /\ UNCHANGED <<loader, objects, pc, locals, linked>>

\* A user module's init function finds the DPUSM (dpusm_initialize is a weak
\* symbol, and the init function fails without it).
LoadUser(u) ==
  /\ dpusm = "live"
  /\ u \notin linked
  /\ pc[u] = "idle"
  /\ linked' = linked \cup {u}
  /\ UNCHANGED <<vars, dpusm>>

\* Its exit function runs when none of its calls does, and puts nothing.
UnloadUser(u) ==
  /\ u \in linked
  /\ pc[u] \in {"idle", "holding"}
  /\ linked' = linked \ {u}
  /\ UNCHANGED <<vars, dpusm>>

\* The registry's steps, each in a module that is there.
UserRuns(u) ==
  /\ u \in linked
  /\ UserNext(u)
  /\ UNCHANGED around

ProviderRuns(t, m) ==
  /\ mstate[m] = "unloaded" => dpusm = "live"
  /\ ModuleNext(t, m)
  /\ UNCHANGED around

MonitorRuns(t) ==
  /\ dpusm = "live"
  /\ MonitorNext(t)
  /\ UNCHANGED around

-----------------------------------------------------------------------------
\* rmmod refuses to remove dpusm.ko from under its users.
InUse ==
  \/ linked # {}
  \/ \E m \in Modules : mstate[m] # "unloaded"
  \/ \E t \in Monitors : pc[t] # "idle"

\* rmmod dpusm.ko starts dpusm_exit, which waits for the lock.
StartExit ==
  /\ dpusm = "live"
  /\ ~InUse
  /\ dpusm' = "going"
  /\ UNCHANGED <<vars, linked>>

\* dpusm_provider_unregister_handle for all that is listed, in one step:
\* nobody is left to see it in parts.
FinishExit ==
  /\ dpusm = "going"
  /\ lock = NoThread
  /\ providers' = {}
  /\ count' = count - Cardinality(providers)
  /\ active' = active - MapThenSumSet(LAMBDA h : refs[h], providers)
  /\ alive' = alive \ providers
  /\ dpusm' = "unloaded"
  /\ UNCHANGED <<loader, lock, module, refs, down, pc, locals, linked>>

DpusmNext ==
  \/ LoadDpusm
  \/ StartExit
  \/ FinishExit
  \/ \E u \in Users : LoadUser(u) \/ UnloadUser(u) \/ UserRuns(u)
  \/ \E t \in Callers : ProviderRuns(t, ModuleOf(t))
  \/ \E t \in Monitors : MonitorRuns(t)

DpusmSpec == DpusmInit /\ [][DpusmNext]_allVars

-----------------------------------------------------------------------------
DpusmTypeOK ==
  /\ dpusm \in {"unloaded", "live", "going"}
  /\ linked \subseteq Users

\* dpusm_exit finds what dpusm_init left: no provider "still registered", a
\* count of zero, nothing allocated and nobody in a call, in whatever order
\* providers were registered, invalidated and removed and users came and
\* went, also when a provider is removed before the put of its last user has
\* counted it out, for then its unregister takes it off the list all the same
\* ("this should not print unless there are active users or providers still
\* registered").
ExitClean ==
  dpusm # "live" =>
    /\ providers = {}
    /\ count = 0
    /\ alive = {}
    /\ \A t \in Threads : pc[t] = "idle"

=============================================================================
