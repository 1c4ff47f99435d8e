--------------------------- MODULE MCRadarProducer ---------------------------
(***************************************************************************)
(* Instances of RadarProducer for TLC: the configurations give the         *)
(* constants their values.                                                 *)
(***************************************************************************)
EXTENDS RadarProducer
=============================================================================
