---------------------------- MODULE MCApplication ----------------------------
(***************************************************************************)
(* Instances of Application for TLC: the configurations give the constants *)
(* their values.                                                           *)
(***************************************************************************)
EXTENDS Application
=============================================================================
