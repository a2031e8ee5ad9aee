---------------------------- MODULE MCHciManager ----------------------------
(***************************************************************************)
(* Instances of HciManager for TLC: two controllers as model values. No    *)
(* symmetry, for the run that checks liveness.                             *)
(***************************************************************************)
EXTENDS HciManager

CONSTANTS a1, a2
=============================================================================
