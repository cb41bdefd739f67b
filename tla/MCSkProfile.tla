----------------------------- MODULE MCSkProfile -----------------------------
(***************************************************************************)
(* Instances of SkProfile for TLC.                                         *)
(***************************************************************************)
EXTENDS SkProfile

AllFailures == { "cpu_count", "map", "line", "late", "timeout" }
=============================================================================
