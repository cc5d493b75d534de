---------------------------- MODULE MCReadyEvent ----------------------------
(* Constants of the run of ReadyEvent.                                     *)
EXTENDS ReadyEvent, TLC

CONSTANTS A, B, C

MCSystem == {A, B, C}
Symmetry == Permutations(MCSystem)
=============================================================================
