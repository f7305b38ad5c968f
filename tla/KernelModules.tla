--------------------------- MODULE KernelModules ---------------------------
(***************************************************************************)
(* The Linux module loader as src/src/provider.c and the example providers *)
(* use it: module_init/module_exit, try_module_get and module_put.  None   *)
(* of this code is in the repository.                                      *)
(*                                                                         *)
(* A module is "coming" while its init function runs, "live" afterwards,   *)
(* and "going" from the moment rmmod finds its reference count at zero     *)
(* until its exit function has returned.                                   *)
(***************************************************************************)
EXTENDS Integers

CONSTANT Modules      \* kernel modules that implement providers

VARIABLES
  mstate,             \* mstate[m]: the loader's state of module m
  mrefs               \* mrefs[m]: references others hold on module m

LoaderStates == {"unloaded", "coming", "live", "going"}

LoaderInit ==
  /\ mstate = [m \in Modules |-> "unloaded"]
  /\ mrefs = [m \in Modules |-> 0]

\* insmod starts the module's init function.
Insmod(m) ==
  /\ mstate[m] = "unloaded"
  /\ mstate' = [mstate EXCEPT ![m] = "coming"]
  /\ UNCHANGED mrefs

\* rmmod refuses a module that is in use, else starts its exit function.
Rmmod(m) ==
  /\ mstate[m] = "live"
  /\ mrefs[m] = 0
  /\ mstate' = [mstate EXCEPT ![m] = "going"]
  /\ UNCHANGED mrefs

\* What the loader does when the call that an init or exit function made
\* last returns: init's result decides whether the module stays, exit's
\* return frees the module.  A live module's own call changes nothing.
AfterCall(state, ok) ==
  CASE state = "coming" -> IF ok THEN "live" ELSE "unloaded"
    [] state = "going"  -> "unloaded"
    [] OTHER            -> state

\* try_module_get succeeds unless the module is on its way out.
ModuleIsLive(m) == mstate[m] \in {"coming", "live"}

ModuleGet(m) ==
  /\ ModuleIsLive(m)
  /\ mrefs' = [mrefs EXCEPT ![m] = @ + 1]
  /\ UNCHANGED mstate

ModulePut(m) ==
  /\ mrefs' = [mrefs EXCEPT ![m] = @ - 1]
  /\ UNCHANGED mstate

=============================================================================
