------------------------------- MODULE MCAda -------------------------------
(***************************************************************************)
(* AdaController as it stands; the configurations give the constants.      *)
(***************************************************************************)
EXTENDS AdaController
=============================================================================
