-------------------------- MODULE MCSignalProcessor --------------------------
(***************************************************************************)
(* An instance of SignalProcessor for TLC.  The filter and the FFT are     *)
(* linear, so the unit impulses stand for every signal.                    *)
(***************************************************************************)
EXTENDS SignalProcessor

Impulses == {[a \in Index |-> IF a = p THEN 1 ELSE 0] : p \in Index}
Constants == {[a \in Index |-> c] : c \in {-1, 0, 1}}
MCSignals == Impulses \cup Constants
=============================================================================
