------------------------- MODULE MCOrderingChannel -------------------------
(***************************************************************************)
(* Model-checking instance of OrderingChannel: five messages of every mix  *)
(* of kinds, in a range of 10 indices that wraps after the second one.     *)
(***************************************************************************)
EXTENDS OrderingChannel

MCStartIndices == {8}
=============================================================================
