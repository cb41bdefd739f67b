------------------------ MODULE MCConnectionManager ------------------------
(***************************************************************************)
(* Instances of ConnectionManager for TLC.                                 *)
(***************************************************************************)
EXTENDS ConnectionManager

\* Every step of a setup or a reap that makes a system call which can fail.
EveryCall == (SetupSteps \cup ReapSteps) \ { "activate", "reap_close", "reap_finish" }
=============================================================================
