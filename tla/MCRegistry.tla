----------------------------- MODULE MCRegistry -----------------------------
(***************************************************************************)
(* Instances of Registry for TLC.                                          *)
(***************************************************************************)
EXTENDS Registry, TLC

\* All workers are threads of one module.
OneOwner == [w \in Workers |-> CHOOSE m \in Modules : TRUE]

\* Users, addresses and modules of one kind are interchangeable.  Used by the
\* runs that check no liveness property and give all modules the same rights.
Symmetry ==
  Permutations(Users) \cup Permutations(Handles) \cup Permutations(Modules)
    \cup Permutations(Monitors)

=============================================================================
