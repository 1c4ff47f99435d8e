------------------------ MODULE MCRealtimeScheduling ------------------------
(***************************************************************************)
(* The output queue's mutex, shared by a DSP worker, the watchdog and the  *)
(* logger, and the producer that preempts them.                            *)
(***************************************************************************)
EXTENDS RealtimeScheduling

MCThreads == {"producer", "dsp", "watchdog", "logger"}
MCUsers == {"dsp", "watchdog", "logger"}

\* The default priorities of Config::Realtime.
MCPriority == [t \in MCThreads |->
    CASE t = "producer" -> 80 [] t = "dsp" -> 70 [] t = "watchdog" -> 60 [] OTHER -> 40]
=============================================================================
