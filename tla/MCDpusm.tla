------------------------------ MODULE MCDpusm ------------------------------
(***************************************************************************)
(* Instances of Dpusm for TLC: those of Registry, with dpusm.ko around.    *)
(***************************************************************************)
EXTENDS Dpusm, MCRegistry

=============================================================================
