-------------------------- MODULE ProviderService ---------------------------
(***************************************************************************)
(* What the registry promises to its users, without locks, counters or     *)
(* memory: a provider is known by its module, a user that has been given   *)
(* one keeps a provider that stays registered until the user returns it,   *)
(* and an invalidated provider stays down until it is registered anew.     *)
(***************************************************************************)
CONSTANTS
  Users,
  Modules,
  NoModule            \* "holds nothing"

VARIABLES
  state,              \* state[m]: "absent", "up" or "down"
  held                \* held[u]: the provider user u holds, or NoModule

vars == <<state, held>>

Init ==
  /\ state = [m \in Modules |-> "absent"]
  /\ held = [u \in Users |-> NoModule]

Register(m) ==
  /\ state[m] = "absent"
  /\ state' = [state EXCEPT ![m] = "up"]
  /\ UNCHANGED held

\* Only a provider that nobody holds goes away.
Unregister(m) ==
  /\ state[m] # "absent"
  /\ \A u \in Users : held[u] # m
  /\ state' = [state EXCEPT ![m] = "absent"]
  /\ UNCHANGED held

Invalidate(m) ==
  /\ state[m] = "up"
  /\ state' = [state EXCEPT ![m] = "down"]
  /\ UNCHANGED held

Get(u, m) ==
  /\ held[u] = NoModule
  /\ state[m] # "absent"
  /\ held' = [held EXCEPT ![u] = m]
  /\ UNCHANGED state

Put(u) ==
  /\ held[u] # NoModule
  /\ held' = [held EXCEPT ![u] = NoModule]
  /\ UNCHANGED state

Next ==
  \/ \E m \in Modules : Register(m) \/ Unregister(m) \/ Invalidate(m)
  \/ \E u \in Users : Put(u) \/ \E m \in Modules : Get(u, m)

Spec == Init /\ [][Next]_vars

=============================================================================
