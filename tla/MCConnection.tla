---------------------------- MODULE MCConnection ----------------------------
(***************************************************************************)
(* Instances of Connection for TLC.                                        *)
(***************************************************************************)
EXTENDS Connection

\* Nothing is promised; nothing fails, though the backlog worker may be slow; the
\* worker is faster than the timer; and a backend may reset all the same.
AnyTiming == [prompt |-> FALSE, resets |-> TRUE, failures |-> TRUE]
Steady == [prompt |-> FALSE, resets |-> FALSE, failures |-> FALSE]
Quiet == [prompt |-> TRUE, resets |-> FALSE, failures |-> FALSE]
Resets == [prompt |-> TRUE, resets |-> TRUE, failures |-> FALSE]

EveryCondition == { AnyTiming, Steady, Quiet }
QuietConditions == { Quiet }
ResetConditions == { Resets }
=============================================================================
