------------------------- MODULE MCExampleProvider -------------------------
(***************************************************************************)
(* Instances of ExampleProvider for TLC.                                   *)
(***************************************************************************)
EXTENDS ExampleProvider, MCUserApi

ExampleTables == {ExampleFunctions}
ExampleClaims == {ExampleAlgorithms}

ExampleSymmetry ==
  Permutations(Users) \cup Permutations(Handles) \cup Permutations(Objects)
    \cup Permutations(Buffers) \cup Permutations(Values)

=============================================================================
