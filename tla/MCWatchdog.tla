----------------------------- MODULE MCWatchdog -----------------------------
(***************************************************************************)
(* Instances of Watchdog for TLC: the configurations give the constants    *)
(* their values.                                                           *)
(***************************************************************************)
EXTENDS Watchdog
=============================================================================
