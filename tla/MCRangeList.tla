---------------------------- MODULE MCRangeList ----------------------------
(***************************************************************************)
(* Model-checking instance of RangeList: every list over 10 numbers, and   *)
(* room for no range, for one, and for two or three of either form.        *)
(***************************************************************************)
EXTENDS RangeList

MCBitLimits == {80, 81, 121, 152, 153, 193}
=============================================================================
