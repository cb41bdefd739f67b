---------------------------- MODULE MCVsrProfile ----------------------------
(***************************************************************************)
(* Instances of VsrProfile for TLC: the paths a request takes.             *)
(***************************************************************************)
EXTENDS VsrProfile, TLC

Routed == << "request_fast_extract", "bm25_native", "decision_policy",
             "request_full_parse", "route_reply_build", "extproc_send",
             "request_body_total" >>
BadRequest == << "request_fast_extract" >>
AnsweredEarly == << "request_fast_extract", "bm25_native", "decision_policy",
                    "extproc_send", "request_body_total" >>
StreamLost == SubSeq(Routed, 1, 5)

AllPaths == { Routed, BadRequest, AnsweredEarly, StreamLost }

\* Requests are told apart by nothing but where they run.
WorkerSymmetry == Permutations(Workers)
=============================================================================
