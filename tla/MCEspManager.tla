---------------------------- MODULE MCEspManager ----------------------------
(***************************************************************************)
(* An instance of EspManager for TLC: two proxies, four faults.            *)
(***************************************************************************)
EXTENDS EspManager
=============================================================================
