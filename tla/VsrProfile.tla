------------------------------ MODULE VsrProfile ------------------------------
(***************************************************************************)
(* The component profile of the VSR: the timers its goroutines add to and  *)
(* the collector that exports them (profiling/vsr/patches), and the tool   *)
(* that captures two snapshots and subtracts them                          *)
(* (scripts/vsr_profile_components.py). The VSR may be restarted, and      *)
(* starts again from zero.                                                 *)
(*                                                                         *)
(* Nothing locks the counters: one observation adds to the duration and    *)
(* then to the count, a scrape loads the count and then the duration of    *)
(* one stage after the other. A request is answered before the stages      *)
(* extproc_send and request_body_total are observed.                       *)
(***************************************************************************)
EXTENDS Integers, Sequences, FiniteSets, FiniteSetsExt

CONSTANTS
  Workers,       (* requests that may be under way at once                 *)
  Elapsed,       (* what a stage of a request may take                     *)
  Paths,         (* the stages that a request may come through, in order   *)
  MaxRequests,   (* bound: requests of one measurement                     *)
  MaxRestarts,   (* bound                                                  *)
  MaxTries,      (* bound: captures that fail before one gives up          *)
  Settled        (* captures that wait until every request is observed; the *)
                 (* others wait until every request is answered            *)

STAGES == << "request_fast_extract", "request_full_parse", "bm25_native",
             "decision_policy", "route_reply_build", "extproc_send",
             "request_body_total" >>
Stages == { STAGES[i] : i \in DOMAIN STAGES }
METRICS == << "count", "total_ns" >>
Metrics == { METRICS[i] : i \in DOMAIN METRICS }

OnPath(p, s) == \E i \in DOMAIN p : p[i] = s

\* Every request is looked at quickly first, and comes through a stage once.
ASSUME VsrAssumption ==
  /\ IsFiniteSet(Workers)
  /\ Elapsed \subseteq Nat /\ Elapsed # {}
  /\ Paths \subseteq Seq(Stages)
  /\ \A p \in Paths :
       /\ p # << >> /\ p[1] = "request_fast_extract"
       /\ \A i, j \in DOMAIN p : p[i] = p[j] => i = j
  /\ MaxRequests \in Nat /\ MaxRestarts \in Nat /\ MaxTries \in Nat
  /\ Settled \subseteq { "before", "after" }

VARIABLES
  value,         (* globalAggregates: [Stages -> [Metrics -> Nat]]         *)
  request,       (* [Workers -> what is left of the request there]         *)
  begun, restarts,
  sample, snapshot,   (* the scrape: the next value to load (0 for none)   *)
  \* the tool and the measurement
  phase, tries, before, after, result,
  \* history since the first capture: the valid answers that the clients count
  \* and what a stage of these took, what all requests have to add, how many
  \* they are, and whether the VSR was restarted
  valid, load, loaded, restarted

vsrVars == << value, request, begun, restarts >>
scrapeVars == << sample, snapshot >>
toolVars == << phase, tries, before, after, result >>
history == << valid, load, loaded, restarted >>
vars == << vsrVars, scrapeVars, toolVars, history >>

NoRequest == [left |-> << >>, sent |-> FALSE, added |-> FALSE, ns |-> 0]
Zero == [s \in Stages |-> [m \in Metrics |-> 0]]
NoAnswers == [m \in Metrics |-> 0]
NoResult == << >>

Init ==
  /\ value = Zero /\ request = [w \in Workers |-> NoRequest]
  /\ begun = 0 /\ restarts = 0 /\ sample = 0 /\ snapshot = Zero
  /\ phase = "warmup" /\ tries = 0 /\ result = NoResult
  /\ before = Zero /\ after = Zero
  /\ valid = NoAnswers /\ load = Zero /\ loaded = 0 /\ restarted = FALSE

-----------------------------------------------------------------------------
(* processRequestBody, in one goroutine per request *)

Busy(w) == request[w].left # << >>
Stage(w) == Head(request[w].left)
Answered(w) == ~Busy(w) \/ request[w].sent

Begin(w) ==
  /\ ~Busy(w) /\ phase \in { "warmup", "load" } /\ begun < MaxRequests
  /\ begun' = begun + 1
  /\ \E p \in Paths, e \in Elapsed :
       /\ request' = [request EXCEPT ![w] =
            [left |-> p, sent |-> FALSE, added |-> FALSE, ns |-> e]]
       /\ IF phase = "warmup" THEN UNCHANGED << load, loaded >>
          ELSE /\ loaded' = loaded + 1
               /\ load' = [s \in Stages |->
                    IF OnPath(p, s)
                      THEN [count |-> load[s].count + 1, total_ns |-> load[s].total_ns + e]
                      ELSE load[s]]
  /\ UNCHANGED << value, restarts, scrapeVars, toolVars, valid, restarted >>

\* stream.Send: the client has its answer.
SendResponse(w) ==
  /\ Busy(w) /\ Stage(w) = "extproc_send" /\ ~request[w].sent
  /\ request' = [request EXCEPT ![w].sent = TRUE]
  /\ valid' = IF phase = "load"
       THEN [count |-> valid.count + 1, total_ns |-> valid.total_ns + request[w].ns]
       ELSE valid
  /\ UNCHANGED << value, begun, restarts, scrapeVars, toolVars, load, loaded, restarted >>

CanObserve(w) == Busy(w) /\ (Stage(w) = "extproc_send" => request[w].sent)

\* Observe: aggregate.totalNS.Add, ...
AddDuration(w) ==
  /\ CanObserve(w) /\ ~request[w].added
  /\ value' = [value EXCEPT ![Stage(w)].total_ns = @ + request[w].ns]
  /\ request' = [request EXCEPT ![w].added = TRUE]
  /\ UNCHANGED << begun, restarts, scrapeVars, toolVars, history >>

\* ... and aggregate.count.Add.
AddCount(w) ==
  /\ CanObserve(w) /\ request[w].added
  /\ value' = [value EXCEPT ![Stage(w)].count = @ + 1]
  /\ request' = [request EXCEPT ![w] =
       IF Len(@.left) = 1 THEN NoRequest
       ELSE [left |-> Tail(@.left), sent |-> @.sent, added |-> FALSE, ns |-> @.ns]]
  /\ UNCHANGED << begun, restarts, scrapeVars, toolVars, history >>

-----------------------------------------------------------------------------
(* capture *)

CanCapture(which) ==
  \A w \in Workers : IF which \in Settled THEN ~Busy(w) ELSE Answered(w)

StartCapture ==
  /\ phase \in { "warmup", "load" } /\ sample = 0
  /\ phase' = IF phase = "warmup" THEN "before" ELSE "after"
  /\ CanCapture(phase')
  /\ sample' = 1 /\ snapshot' = Zero
  /\ UNCHANGED << vsrVars, tries, before, after, result, history >>

\* What Collect loads, in its order.
Sample_DurationFirst(n) ==
  << STAGES[(n - 1) \div 2 + 1], METRICS[2 - ((n - 1) % 2)] >>

Sample(n) == << STAGES[(n - 1) \div 2 + 1], METRICS[((n - 1) % 2) + 1] >>
Samples == 2 * Len(STAGES)

Collect ==
  LET s == Sample(sample)[1]  m == Sample(sample)[2] IN
  /\ sample \in 1 .. Samples
  /\ snapshot' = [snapshot EXCEPT ![s][m] = value[s][m]]
  /\ sample' = sample + 1
  /\ UNCHANGED << vsrVars, toolVars, history >>

\* parse_snapshot found every sample, and the file is written.
WriteSnapshot ==
  /\ sample > Samples /\ sample' = 0
  /\ IF phase = "before" THEN phase' = "load" /\ before' = snapshot /\ UNCHANGED after
     ELSE phase' = "captured" /\ after' = snapshot /\ UNCHANGED before
  /\ UNCHANGED << vsrVars, snapshot, tries, result, history >>

\* The scrape ends early, for whatever reason: nothing is written, and the
\* capture is tried again.
CaptureEnds ==
  /\ sample' = 0 /\ snapshot' = Zero
  /\ phase' = IF tries = MaxTries THEN "aborted"
              ELSE IF phase = "before" THEN "warmup" ELSE "load"
  /\ tries' = IF tries = MaxTries THEN tries ELSE tries + 1
  /\ UNCHANGED << before, after, result >>

\* The timeout, a sample that is missing, malformed or there twice.
CaptureFails ==
  /\ sample # 0 /\ CaptureEnds
  /\ UNCHANGED << vsrVars, history >>

\* The VSR is restarted: requests and a scrape under way are lost.
Restart ==
  /\ phase \notin { "captured", "done", "refused", "aborted" }
  /\ restarts < MaxRestarts /\ restarts' = restarts + 1
  /\ value' = Zero /\ request' = [w \in Workers |-> NoRequest]
  /\ IF sample # 0 THEN CaptureEnds ELSE UNCHANGED << scrapeVars, toolVars >>
  /\ restarted' = (phase \in { "load", "after" })
  /\ UNCHANGED << begun, valid, load, loaded >>

-----------------------------------------------------------------------------
(* summarize_snapshots *)

Delta_AfterOnly == after

Delta ==
  [s \in Stages |-> [m \in Metrics |-> after[s][m] - before[s][m]]]

Decreased_Unchecked == FALSE
Decreased == \E s \in Stages, m \in Metrics : Delta[s][m] < 0

CountsAgree_Unchecked == TRUE
CountsAgree == \A s, t \in Stages : Delta[s].count = Delta[t].count

MatchesExpected_Unchecked(completed) == TRUE
MatchesExpected(completed) == completed = valid.count

\* The stages of the figure: both parsers are one component, and the rest is
\* taken as it is; request_body_total includes the others.
Parsing(d) == d["request_fast_extract"].total_ns + d["request_full_parse"].total_ns

\* --expected-completed may be given or not.
Summarize ==
  LET completed == Delta["request_body_total"].count IN
  /\ phase = "captured"
  /\ \E expected \in BOOLEAN :
       IF /\ ~Decreased /\ CountsAgree /\ completed > 0
          /\ expected => MatchesExpected(completed)
         THEN /\ phase' = "done"
              /\ result' = [completed_requests |-> completed, stages |-> Delta,
                            request_parsing |-> Parsing(Delta), expected |-> expected]
         ELSE phase' = "refused" /\ UNCHANGED result
  /\ UNCHANGED << vsrVars, scrapeVars, tries, before, after, history >>

Ended ==
  /\ phase \in { "done", "refused", "aborted" }
  /\ \A w \in Workers : ~Busy(w)
  /\ UNCHANGED vars

Next ==
  \/ \E w \in Workers : Begin(w) \/ SendResponse(w) \/ AddDuration(w) \/ AddCount(w)
  \/ StartCapture \/ Collect \/ WriteSnapshot \/ CaptureFails \/ Restart
  \/ Summarize \/ Ended

Spec == Init /\ [][Next]_vars

-----------------------------------------------------------------------------
(* Properties *)

\* The type invariant: what is left of a request is the end of a path.
TypeOK ==
  /\ value \in [Stages -> [Metrics -> Nat]]
  /\ \A w \in Workers :
       /\ \E p \in Paths \cup { << >> } : \E i \in 1 .. Len(p) + 1 :
            request[w].left = SubSeq(p, i, Len(p))
       /\ request[w].sent \in BOOLEAN /\ request[w].added \in BOOLEAN
       /\ request[w].ns \in Elapsed \cup { 0 }
  /\ begun \in 0 .. MaxRequests /\ restarts \in 0 .. MaxRestarts
  /\ tries \in 0 .. MaxTries /\ sample \in 0 .. Samples + 1
  /\ snapshot \in [Stages -> [Metrics -> Nat]]
  /\ phase \in { "warmup", "before", "load", "after", "captured", "done",
                 "refused", "aborted" }
  /\ valid \in [Metrics -> Nat] /\ loaded \in 0 .. begun /\ restarted \in BOOLEAN
  /\ result # NoResult => result.stages \in [Stages -> [Metrics -> Nat]]

\* What summarize accepts is what the requests between the captures have
\* observed, stage by stage, and nothing of others. A restart in between shows
\* only when it makes a counter smaller, and is left to the next property.
SummaryIsExact ==
  result # NoResult /\ ~restarted =>
    result.stages = load /\ result.request_parsing = Parsing(load)

\* With --expected-completed the summary is that of the valid requests even
\* when the VSR was restarted, as long as no request of the load failed.
ExpectedIsExact ==
  result # NoResult /\ result.expected
    /\ (restarted => \A s, t \in Stages : load[s].count = load[t].count) =>
      \A s \in Stages : result.stages[s] = valid

\* Equal counts mean that every request between the captures came through
\* every stage: one that failed or was answered early is not averaged in.
AcceptedMeansAllStages ==
  result # NoResult /\ ~restarted => result.completed_requests = loaded

\* A snapshot holds the duration of every event that it counts, however the
\* scrape falls between the observations: no mean is too small.
SnapshotCoversCounts ==
  \A captured \in { before, after }, s \in Stages :
    \E e \in Elapsed : captured[s].total_ns >= e * captured[s].count

-----------------------------------------------------------------------------
(* The inductive invariant of the scrape: durations cover counts. *)

First == "request_fast_extract"
Sum(f) == MapThenSumSet(LAMBDA w : f[w], Workers)

\* A request is what is left of its path, and was answered in its stage
\* "extproc_send" or before its last stages.
RequestsAreSuffixes ==
  /\ request \in [Workers -> [left : Seq(Stages), sent : BOOLEAN, added : BOOLEAN,
                              ns : Elapsed \cup { 0 }]]
  /\ \A w \in Workers :
       LET r == request[w] IN
       /\ \A i, j \in DOMAIN r.left : r.left[i] = r.left[j] => i = j
       /\ \A i \in DOMAIN r.left : r.left[i] = First => i = 1
       /\ r.sent => ~OnPath(r.left, First)
       /\ IF Busy(w) THEN r.ns \in Elapsed ELSE r = NoRequest

\* The shortest time a stage can take.
Least == CHOOSE e \in Elapsed : \A d \in Elapsed : e <= d

\* The observations of stage s that have added their duration only.
HalfObserved(s) ==
  [w \in Workers |-> IF request[w].added /\ Head(request[w].left) = s THEN 1 ELSE 0]

DurationsCoverCounts ==
  \A s \in Stages :
    value[s].total_ns >= Least * (value[s].count + Sum(HalfObserved(s)))

\* Between the two loads of stage s.
Loading(s) == sample \in 1 .. Samples /\ Sample(sample) = << s, "total_ns" >>

Covers(captured) == \A s \in Stages : captured[s].total_ns >= Least * captured[s].count

ScrapeCoversCounts ==
  \A s \in Stages :
    /\ sample # 0 => snapshot[s].count <= value[s].count
    /\ Loading(s) \/ snapshot[s].total_ns >= Least * snapshot[s].count

CoverInv ==
  /\ TypeOK /\ RequestsAreSuffixes /\ DurationsCoverCounts /\ ScrapeCoversCounts
  /\ before \in [Stages -> [Metrics -> Nat]] /\ after \in [Stages -> [Metrics -> Nat]]
  /\ Covers(before) /\ Covers(after)

-----------------------------------------------------------------------------
(* The inductive invariant of the summary. It holds when the first capture  *)
(* waits until every request is observed.                                   *)

\* What the request at w still adds to a stage, and to the valid answers.
Share(w, m) == IF m = "count" THEN 1 ELSE request[w].ns
Owes(s, m) ==
  [w \in Workers |->
    IF /\ OnPath(request[w].left, s)
       /\ ~ (m = "total_ns" /\ request[w].added /\ Head(request[w].left) = s)
      THEN Share(w, m) ELSE 0]
Unanswered(m) ==
  [w \in Workers |->
    IF OnPath(request[w].left, "extproc_send") /\ ~request[w].sent THEN Share(w, m) ELSE 0]

\* What the stages and the answers come to when the requests under way have
\* come to the ends of their paths.
Due == [s \in Stages |-> [m \in Metrics |-> value[s][m] + Sum(Owes(s, m))]]
Answers == [m \in Metrics |-> valid[m] + Sum(Unanswered(m))]

\* Who may be under way during a capture, and what was before the first one.
PhasesAreQuiet ==
  /\ sample # 0 <=> phase \in { "before", "after" }
  /\ phase = "before" => \A w \in Workers : ~Busy(w)
  /\ phase \in { "after", "captured" } => \A w \in Workers : Answered(w)
  /\ phase \in { "warmup", "before" } =>
       load = Zero /\ loaded = 0 /\ valid = NoAnswers /\ ~restarted
  /\ result # NoResult => phase = "done"

\* Who is not counted takes no time, and who came through every stage took as
\* long in each of them.
SameTimes ==
  /\ load \in [Stages -> [Metrics -> Nat]]
  /\ \A s \in Stages : /\ Due[s].count = 0 => Due[s].total_ns = 0
                       /\ before[s].count = 0 => before[s].total_ns = 0
                       /\ load[s].count <= loaded
                       /\ load[s].count = loaded => load[s].total_ns = load[First].total_ns
  /\ load[First].count = loaded
  /\ valid.count = 0 => valid.total_ns = 0

SameCounts(f) == \A s, t \in Stages : f[s].count = f[t].count
Base(m) == IF restarted THEN 0 ELSE before["extproc_send"][m]

\* What is due is what was there at the first capture and the load since. After
\* a restart it is the load since then, at most as much as was answered.
LoadIsDue ==
  phase \in { "load", "after", "captured" } =>
    /\ ~restarted => \A s \in Stages, m \in Metrics : Due[s][m] = before[s][m] + load[s][m]
    /\ restarted /\ SameCounts(load) => \A s, t \in Stages : Due[s] = Due[t]
    /\ Due["extproc_send"].count - Base("count") <= Answers.count
    /\ Due["extproc_send"].count - Base("count") = Answers.count =>
         Due["extproc_send"].total_ns - Base("total_ns") = Answers.total_ns

\* A count that is all that is due leaves no duration out.
Exact(captured, s) ==
  captured[s].count = Due[s].count => captured[s].total_ns = Due[s].total_ns

Taken(s) == \E n \in 1 .. Samples : n < sample /\ Sample(n) = << s, "count" >>

ScrapeIsExact ==
  sample # 0 =>
    \A s \in Stages :
      /\ Loading(s) \/ Exact(snapshot, s)
      /\ Taken(s) /\ (phase = "before" \/ s = First) => snapshot[s].count = Due[s].count

CaptureIsExact ==
  phase = "captured" =>
    /\ \A s \in Stages : after[s].count <= Due[s].count /\ Exact(after, s)
    /\ after[First].count = Due[First].count

SummaryInv ==
  /\ CoverInv /\ PhasesAreQuiet /\ SameTimes /\ LoadIsDue /\ ScrapeIsExact /\ CaptureIsExact
  /\ SummaryIsExact /\ ExpectedIsExact /\ AcceptedMeansAllStages
=============================================================================
