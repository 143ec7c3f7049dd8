------------------------------ MODULE MCRange ------------------------------
(***************************************************************************)
(* RangeDriver with a counter and a timer of a few values.                 *)
(***************************************************************************)
EXTENDS RangeDriver
=============================================================================
