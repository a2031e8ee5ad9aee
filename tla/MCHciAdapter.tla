---------------------------- MODULE MCHciAdapter ----------------------------
(***************************************************************************)
(* Instances of HciAdapter for TLC: two pieces and the three controllers.  *)
(***************************************************************************)
EXTENDS HciAdapter
=============================================================================
