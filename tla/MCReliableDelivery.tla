------------------------- MODULE MCReliableDelivery -------------------------
(***************************************************************************)
(* Model-checking instances of ReliableDelivery.                           *)
(***************************************************************************)
EXTENDS ReliableDelivery

MCStartNumbers == {7}
MCStartDatagrams == {6}
=============================================================================
