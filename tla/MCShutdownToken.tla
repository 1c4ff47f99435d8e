--------------------------- MODULE MCShutdownToken ---------------------------
(***************************************************************************)
(* Instances of ShutdownToken for TLC.                                     *)
(***************************************************************************)
EXTENDS ShutdownToken, TLC

TokenSymmetry == Permutations(Threads)
=============================================================================
