--------------------------- MODULE VsrProfileProofs ---------------------------
(***************************************************************************)
(* Proofs about VsrProfile, for every number of requests under way, every  *)
(* set of paths and of times, and every number of requests and restarts.   *)
(***************************************************************************)
EXTENDS VsrProfile, Totals, SequenceTheorems

-----------------------------------------------------------------------------
(* The stages, the samples and the rest of a path. *)

\* The stages and the metrics, by name.
LEMMA StageNames ==
  /\ Stages = { "request_fast_extract", "request_full_parse", "bm25_native",
                "decision_policy", "route_reply_build", "extproc_send",
                "request_body_total" }
  /\ First \in Stages /\ "extproc_send" \in Stages /\ "request_body_total" \in Stages
  /\ Metrics = { "count", "total_ns" } /\ Samples = 14
<1>1. DOMAIN STAGES = 1 .. 7 /\ Len(STAGES) = 7 /\ DOMAIN METRICS = 1 .. 2
  BY DEF STAGES, METRICS
<1>2. Stages = { STAGES[1], STAGES[2], STAGES[3], STAGES[4], STAGES[5], STAGES[6], STAGES[7] }
  BY <1>1 DEF Stages
<1>3. Metrics = { METRICS[1], METRICS[2] }
  BY <1>1 DEF Metrics
<1>4. Samples = 14
  BY <1>1 DEF Samples
<1> QED
  BY <1>2, <1>3, <1>4 DEF STAGES, METRICS, First

\* A scrape loads the count and then the duration of each stage.
LEMMA SampleOrder ==
  /\ \A n \in 1 .. Samples : Sample(n) \in Stages \X Metrics
  /\ \A n \in 1 .. Samples : Sample(n)[2] = "count" =>
       n + 1 \in 1 .. Samples /\ Sample(n + 1) = << Sample(n)[1], "total_ns" >>
  /\ \A n \in 1 .. Samples : Sample(n)[2] = "total_ns" =>
       n + 1 \notin 1 .. Samples \/ Sample(n + 1)[2] = "count"
  /\ \A s \in Stages : \E n \in 1 .. Samples : Sample(n) = << s, "count" >>
<1>1. /\ Sample(1) = << "request_fast_extract", "count" >>
      /\ Sample(2) = << "request_fast_extract", "total_ns" >>
      /\ Sample(3) = << "request_full_parse", "count" >>
      /\ Sample(4) = << "request_full_parse", "total_ns" >>
      /\ Sample(5) = << "bm25_native", "count" >>
      /\ Sample(6) = << "bm25_native", "total_ns" >>
      /\ Sample(7) = << "decision_policy", "count" >>
      /\ Sample(8) = << "decision_policy", "total_ns" >>
      /\ Sample(9) = << "route_reply_build", "count" >>
      /\ Sample(10) = << "route_reply_build", "total_ns" >>
      /\ Sample(11) = << "extproc_send", "count" >>
      /\ Sample(12) = << "extproc_send", "total_ns" >>
      /\ Sample(13) = << "request_body_total", "count" >>
      /\ Sample(14) = << "request_body_total", "total_ns" >>
  BY DEF Sample, STAGES, METRICS
<1>2. \A n \in 1 .. Samples : n \in { 1, 2, 3, 4, 5, 6, 7, 8, 9, 10, 11, 12, 13, 14 }
  BY StageNames
<1>3. \A n \in 1 .. Samples : Sample(n) \in Stages \X Metrics
  BY <1>1, <1>2, StageNames
<1>4. \A n \in 1 .. Samples : Sample(n)[2] = "count" =>
        n + 1 \in 1 .. Samples /\ Sample(n + 1) = << Sample(n)[1], "total_ns" >>
  BY <1>1, <1>2, StageNames
<1>5. \A n \in 1 .. Samples : Sample(n)[2] = "total_ns" =>
        n + 1 \notin 1 .. Samples \/ Sample(n + 1)[2] = "count"
  BY <1>1, <1>2, StageNames
<1>6. \A s \in Stages : \E n \in 1 .. Samples : Sample(n) = << s, "count" >>
  BY <1>1, StageNames
<1> QED
  BY <1>3, <1>4, <1>5, <1>6

\* The rest of a path after its first stage.
LEMMA TailOfPath ==
  ASSUME NEW q \in Seq(Stages), q # << >>
  PROVE  /\ Head(q) = q[1] /\ Head(q) \in Stages /\ Len(q) \in Nat /\ Len(q) >= 1
         /\ Tail(q) \in Seq(Stages) /\ Len(Tail(q)) = Len(q) - 1
         /\ \A i \in DOMAIN Tail(q) : i + 1 \in DOMAIN q /\ Tail(q)[i] = q[i + 1]
         /\ DOMAIN q = 1 .. Len(q) /\ DOMAIN Tail(q) = 1 .. Len(q) - 1
         /\ Len(q) = 1 <=> Tail(q) = << >>
<1>1. Len(q) \in Nat /\ Len(q) # 0
  BY EmptySeq
<1>2. /\ Head(q) = q[1] /\ Head(q) \in Stages /\ Tail(q) \in Seq(Stages)
      /\ Len(Tail(q)) = Len(q) - 1 /\ DOMAIN q = 1 .. Len(q) /\ DOMAIN Tail(q) = 1 .. Len(q) - 1
  BY <1>1
<1>3. \A i \in DOMAIN Tail(q) : i + 1 \in DOMAIN q /\ Tail(q)[i] = q[i + 1]
  BY <1>1, <1>2
<1>4. Tail(q) = << >> <=> Len(Tail(q)) = 0
  BY <1>2, EmptySeq
<1> QED
  BY <1>1, <1>2, <1>3, <1>4

\* What is left of a path keeps being its end.
LEMMA TailOfSuffix ==
  ASSUME NEW p \in Seq(Stages), NEW i \in 1 .. Len(p) + 1,
         SubSeq(p, i, Len(p)) # << >>
  PROVE  /\ i + 1 \in 1 .. Len(p) + 1
         /\ Tail(SubSeq(p, i, Len(p))) = SubSeq(p, i + 1, Len(p))
  OBVIOUS

-----------------------------------------------------------------------------
(* The requests under way. *)

Requests == [left : Seq(Stages), sent : BOOLEAN, added : BOOLEAN, ns : Elapsed \cup { 0 }]

\* The step leaves every request as it is but the one at w, which becomes r.
Becomes(w, r) ==
  /\ r \in Requests /\ request' \in [Workers -> Requests] /\ request'[w] = r
  /\ \A v \in Workers \ {w} : request'[v] = request[v]

LEMMA RequestTypes ==
  ASSUME CoverInv
  PROVE  request \in [Workers -> Requests]
  BY DEF CoverInv, RequestsAreSuffixes, Requests

\* A request at w begins with the whole of path p, whose stages take e.
Arrives(w, p, e) ==
  /\ Becomes(w, [left |-> p, sent |-> FALSE, added |-> FALSE, ns |-> e])
  /\ p \in Seq(Stages) /\ p # << >> /\ p[1] = First /\ 1 \in DOMAIN p
  /\ \A i, j \in DOMAIN p : p[i] = p[j] => i = j
  /\ request[w] = NoRequest
  /\ IF phase = "warmup" THEN UNCHANGED << load, loaded >>
     ELSE /\ loaded' = loaded + 1
          /\ load' = [s \in Stages |->
               IF OnPath(p, s)
                 THEN [count |-> load[s].count + 1, total_ns |-> load[s].total_ns + e]
                 ELSE load[s]]

LEMMA BeginRequest ==
  ASSUME NEW w \in Workers, Begin(w), CoverInv
  PROVE  \E p \in Paths, e \in Elapsed : Arrives(w, p, e)
<1>1. PICK p \in Paths, e \in Elapsed :
        /\ request' = [request EXCEPT ![w] = [left |-> p, sent |-> FALSE, added |-> FALSE, ns |-> e]]
        /\ IF phase = "warmup" THEN UNCHANGED << load, loaded >>
           ELSE /\ loaded' = loaded + 1
                /\ load' = [s \in Stages |->
                     IF OnPath(p, s)
                       THEN [count |-> load[s].count + 1, total_ns |-> load[s].total_ns + e]
                       ELSE load[s]]
  BY DEF Begin
<1>3. /\ p \in Seq(Stages) /\ p # << >> /\ p[1] = First
      /\ \A i, j \in DOMAIN p : p[i] = p[j] => i = j
  BY VsrAssumption DEF First
<1>4. 1 \in DOMAIN p
  BY <1>3, EmptySeq
<1>5. request[w] = NoRequest
  BY DEF Begin, CoverInv, RequestsAreSuffixes
<1> DEFINE r == [left |-> p, sent |-> FALSE, added |-> FALSE, ns |-> e]
<1>6. Becomes(w, r)
  <2>1. r \in Requests
    BY <1>3 DEF Requests
  <2> HIDE DEF r
  <2>2. request' = [request EXCEPT ![w] = r] /\ request \in [Workers -> Requests]
    BY <1>1, RequestTypes DEF r
  <2> QED
    BY <2>1, <2>2 DEF Becomes
<1> QED
  BY <1>1, <1>3, <1>4, <1>5, <1>6 DEF Arrives

\* The last of the two additions ends the stage.
LEMMA NextStage ==
  ASSUME NEW w \in Workers, AddCount(w), CoverInv
  PROVE  /\ request[w].left \in Seq(Stages) /\ request[w].left # << >> /\ request[w].added
         /\ Becomes(w,
              IF Tail(request[w].left) = << >> THEN NoRequest
              ELSE [left |-> Tail(request[w].left), sent |-> request[w].sent, added |-> FALSE,
                    ns |-> request[w].ns])
<1> DEFINE q == request[w].left
           r == IF Tail(q) = << >> THEN NoRequest
                ELSE [left |-> Tail(q), sent |-> request[w].sent, added |-> FALSE,
                      ns |-> request[w].ns]
<1>1. /\ request[w] \in Requests /\ q \in Seq(Stages) /\ q # << >> /\ request[w].added
  BY DEF CoverInv, RequestsAreSuffixes, Requests, AddCount, CanObserve, Busy
<1>2. Len(q) = 1 <=> Tail(q) = << >>
  BY <1>1, TailOfPath
<1>3. r \in Requests
  BY <1>1 DEF Requests, NoRequest
<1>4. request' = [request EXCEPT ![w] = r] /\ request \in [Workers -> Requests]
  BY <1>1, <1>2, RequestTypes DEF AddCount
<1> HIDE DEF r
<1>5. Becomes(w, r)
  BY <1>3, <1>4 DEF Becomes
<1> QED
  BY <1>1, <1>5 DEF r

\* The stages after the first one of a path that comes through each once.
LEMMA RestOfPath ==
  ASSUME NEW q \in Seq(Stages), q # << >>, \A i, j \in DOMAIN q : q[i] = q[j] => i = j
  PROVE  /\ \A i, j \in DOMAIN Tail(q) : Tail(q)[i] = Tail(q)[j] => i = j
         /\ \A s : OnPath(Tail(q), s) <=> OnPath(q, s) /\ s # Head(q)
         /\ OnPath(q, Head(q))
<1>1. /\ Head(q) = q[1] /\ 1 \in DOMAIN q /\ Len(q) \in Nat
      /\ \A i \in DOMAIN Tail(q) : i + 1 \in DOMAIN q /\ Tail(q)[i] = q[i + 1]
      /\ DOMAIN q = 1 .. Len(q) /\ DOMAIN Tail(q) = 1 .. Len(q) - 1
  BY TailOfPath
<1>2. \A i, j \in DOMAIN Tail(q) : Tail(q)[i] = Tail(q)[j] => i = j
  BY <1>1
<1>3. ASSUME NEW s, OnPath(Tail(q), s)
      PROVE  OnPath(q, s) /\ s # Head(q)
  <2>1. PICK i \in DOMAIN Tail(q) : Tail(q)[i] = s
    BY <1>3 DEF OnPath
  <2>2. i + 1 \in DOMAIN q /\ q[i + 1] = s /\ i + 1 # 1
    BY <1>1, <2>1
  <2> QED
    BY <1>1, <2>2 DEF OnPath
<1>4. ASSUME NEW s, OnPath(q, s), s # Head(q)
      PROVE  OnPath(Tail(q), s)
  <2>1. PICK i \in DOMAIN q : q[i] = s
    BY <1>4 DEF OnPath
  <2>2. i # 1 /\ i \in Nat /\ i - 1 \in DOMAIN Tail(q) /\ (i - 1) + 1 = i
    BY <1>1, <1>4, <2>1
  <2>3. Tail(q)[i - 1] = s
    BY <1>1, <2>1, <2>2
  <2> QED
    BY <2>2, <2>3 DEF OnPath
<1>5. OnPath(q, Head(q))
  BY <1>1 DEF OnPath
<1> QED
  BY <1>2, <1>3, <1>4, <1>5

\* What is left of a request stays the end of a path that comes through each
\* stage once, and one that is answered has been looked at.
LEMMA RequestsStep ==
  ASSUME CoverInv, [Next]_vars
  PROVE  RequestsAreSuffixes'
<1> DEFINE Good(r) == /\ r \in Requests
                      /\ \A i, j \in DOMAIN r.left : r.left[i] = r.left[j] => i = j
                      /\ \A i \in DOMAIN r.left : r.left[i] = First => i = 1
                      /\ r.sent => ~OnPath(r.left, First)
                      /\ IF r.left # << >> THEN r.ns \in Elapsed ELSE r = NoRequest
<1>0. request \in [Workers -> Requests] /\ \A w \in Workers : Good(request[w])
  BY DEF CoverInv, RequestsAreSuffixes, Requests, Busy
<1>1. ASSUME request' \in [Workers -> Requests], \A w \in Workers : Good(request'[w])
      PROVE  RequestsAreSuffixes'
  BY <1>1 DEF RequestsAreSuffixes, Requests, Busy
<1>2. ASSUME NEW w \in Workers, NEW r, Good(r), Becomes(w, r)
      PROVE  RequestsAreSuffixes'
  <2>1. request' \in [Workers -> Requests] /\ request'[w] = r
        /\ \A v \in Workers \ {w} : request'[v] = request[v]
    BY <1>2 DEF Becomes
  <2> HIDE DEF Good
  <2>2. \A v \in Workers : Good(request'[v])
    BY <1>0, <1>2, <2>1
  <2> QED
    BY <1>1, <2>1, <2>2
<1>3. Good(NoRequest)
  BY DEF NoRequest, Requests, OnPath
<1>4. ASSUME NEW w \in Workers, Begin(w)
      PROVE  RequestsAreSuffixes'
  <2>1. PICK p \in Paths, e \in Elapsed : Arrives(w, p, e)
    BY <1>4, BeginRequest
  <2> DEFINE r == [left |-> p, sent |-> FALSE, added |-> FALSE, ns |-> e]
  <2>2. Good(r)
    <3>1. r \in Requests /\ r.left = p /\ ~r.sent /\ r.ns \in Elapsed
      BY <2>1 DEF Requests, Arrives
    <3> HIDE DEF r
    <3> QED
      BY <2>1, <3>1 DEF Arrives
  <2> HIDE DEF Good
  <2> QED
    BY <1>2, <2>1, <2>2 DEF Arrives
<1>5. ASSUME NEW w \in Workers, SendResponse(w)
      PROVE  RequestsAreSuffixes'
  <2> DEFINE r == [request[w] EXCEPT !.sent = TRUE]
  <2>1. /\ r \in Requests /\ r.left = request[w].left /\ r.ns = request[w].ns /\ r.left # << >>
        /\ request[w].left \in Seq(Stages) /\ Head(r.left) = "extproc_send"
        /\ Becomes(w, r)
    BY <1>0, <1>5 DEF SendResponse, Requests, Busy, Stage, Becomes
  <2>2. ~OnPath(r.left, First)
    <3>1. Head(r.left) = r.left[1] /\ 1 \in DOMAIN r.left
      BY <2>1, TailOfPath
    <3> QED
      BY <1>0, <2>1, <3>1 DEF OnPath, First
  <2>3. Good(r)
    <3> HIDE DEF r
    <3> QED
      BY <1>0, <2>1, <2>2
  <2> HIDE DEF Good, r
  <2> QED
    BY <1>2, <2>1, <2>3
<1>6. ASSUME NEW w \in Workers, AddDuration(w)
      PROVE  RequestsAreSuffixes'
  <2> DEFINE r == [request[w] EXCEPT !.added = TRUE]
  <2>1. /\ r \in Requests /\ r.left = request[w].left /\ r.ns = request[w].ns /\ r.left # << >>
        /\ r.sent = request[w].sent /\ Becomes(w, r)
    BY <1>0, <1>6 DEF AddDuration, CanObserve, Requests, Busy, Stage, Becomes
  <2>2. Good(r)
    <3> HIDE DEF r
    <3> QED
      BY <1>0, <2>1
  <2> HIDE DEF Good, r
  <2> QED
    BY <1>2, <2>1, <2>2
<1>7. ASSUME NEW w \in Workers, AddCount(w)
      PROVE  RequestsAreSuffixes'
  <2> DEFINE q == request[w].left
             t == [left |-> Tail(q), sent |-> request[w].sent, added |-> FALSE,
                   ns |-> request[w].ns]
             r == IF Tail(q) = << >> THEN NoRequest ELSE t
  <2>1. q \in Seq(Stages) /\ q # << >> /\ Becomes(w, r)
    BY <1>7, NextStage
  <2>2. \A i, j \in DOMAIN q : q[i] = q[j] => i = j
    BY <1>0
  <2>3. CASE Tail(q) # << >>
    <3>1. t \in Requests /\ t.left = Tail(q) /\ t.sent = request[w].sent /\ t.ns \in Elapsed
      BY <1>0, <2>1, TailOfPath DEF Requests
    <3>2. /\ \A i, j \in DOMAIN Tail(q) : Tail(q)[i] = Tail(q)[j] => i = j
          /\ OnPath(Tail(q), First) => OnPath(q, First)
      BY <2>1, <2>2, RestOfPath
    <3>3. \A i \in DOMAIN Tail(q) : Tail(q)[i] # First
      <4>1. \A i \in DOMAIN Tail(q) : i + 1 \in DOMAIN q /\ Tail(q)[i] = q[i + 1] /\ i + 1 # 1
        BY <2>1, TailOfPath
      <4> QED
        BY <1>0, <4>1
    <3>4. Good(t)
      <4> HIDE DEF t
      <4> QED
        BY <1>0, <2>3, <3>1, <3>2, <3>3
    <3> HIDE DEF Good, t
    <3> QED
      BY <1>2, <2>1, <2>3, <3>4
  <2>4. CASE Tail(q) = << >>
    <3> HIDE DEF Good
    <3> QED
      BY <1>2, <1>3, <2>1, <2>4
  <2> QED
    BY <2>3, <2>4
<1>8. CASE Restart
  <2>1. request' = [w \in Workers |-> NoRequest]
    BY <1>8 DEF Restart
  <2> QED
    BY <1>1, <1>3, <2>1
<1>9. CASE UNCHANGED request
  BY <1>0, <1>1, <1>9
<1>10. StartCapture \/ Collect \/ WriteSnapshot \/ CaptureFails \/ Summarize \/ Ended
         \/ UNCHANGED vars => UNCHANGED request
  BY DEF StartCapture, Collect, WriteSnapshot, CaptureFails, Summarize, Ended, vars, vsrVars
<1> QED
  BY <1>4, <1>5, <1>6, <1>7, <1>8, <1>9, <1>10 DEF Next

-----------------------------------------------------------------------------
(* The counters and the sums over the requests under way. *)

Counters == [Stages -> [Metrics -> Nat]]

\* One mark set in a request.
LEMMA MarkAdded ==
  ASSUME NEW r \in Requests
  PROVE  [r EXCEPT !.added = TRUE]
           = [left |-> r.left, sent |-> r.sent, added |-> TRUE, ns |-> r.ns]
<1> DEFINE u == [r EXCEPT !.added = TRUE]
<1>1. u \in Requests /\ u.left = r.left /\ u.sent = r.sent /\ u.added /\ u.ns = r.ns
  BY DEF Requests
<1> HIDE DEF u
<1>2. u = [left |-> r.left, sent |-> r.sent, added |-> TRUE, ns |-> r.ns]
  BY <1>1 DEF Requests
<1> QED
  BY <1>2 DEF u

LEMMA MarkSent ==
  ASSUME NEW r \in Requests
  PROVE  [r EXCEPT !.sent = TRUE]
           = [left |-> r.left, sent |-> TRUE, added |-> r.added, ns |-> r.ns]
<1> DEFINE u == [r EXCEPT !.sent = TRUE]
<1>1. u \in Requests /\ u.left = r.left /\ u.sent /\ u.added = r.added /\ u.ns = r.ns
  BY DEF Requests
<1> HIDE DEF u
<1>2. u = [left |-> r.left, sent |-> TRUE, added |-> r.added, ns |-> r.ns]
  BY <1>1 DEF Requests
<1> QED
  BY <1>2 DEF u

\* No stage takes less than the shortest time.
LEMMA LeastTime ==
  /\ Least \in Elapsed /\ Least \in Nat
  /\ \A e \in Elapsed : e \in Nat /\ Least <= e
<1>1. PICK n \in Elapsed : \A m \in Elapsed : ~ (m < n)
  BY VsrAssumption, LeastNumber
<1>2. n \in Elapsed /\ \A m \in Elapsed : n <= m
  BY <1>1, VsrAssumption
<1>3. Least \in Elapsed /\ \A m \in Elapsed : Least <= m
  BY <1>2 DEF Least
<1> QED
  BY <1>3, VsrAssumption

\* A sum over the requests, when one of them changes.
LEMMA ChangeSum ==
  ASSUME NEW f \in [Workers -> Int], NEW h \in [Workers -> Int], NEW w \in Workers,
         \A v \in Workers \ {w} : h[v] = f[v]
  PROVE  Sum(f) \in Int /\ Sum(h) \in Int /\ Sum(h) = Sum(f) - f[w] + h[w]
<1>1. /\ Total(f, Workers) \in Int /\ Total(h, Workers) \in Int
      /\ Total(h, Workers) = Total(f, Workers) - f[w] + h[w]
  BY VsrAssumption, TotalType, TotalUpdate
<1> QED
  BY <1>1 DEF Sum, Total

LEMMA SumOfNumbers ==
  ASSUME NEW f \in [Workers -> Nat]
  PROVE  /\ Sum(f) \in Nat
         /\ Sum([w \in Workers |-> 0]) = 0
         /\ \A w \in Workers : f[w] <= Sum(f)
<1> DEFINE z == [w \in Workers |-> 0]
<1>1. f \in [Workers -> Int] /\ z \in [Workers -> Int] /\ \A w \in Workers : z[w] <= f[w]
  OBVIOUS
<1>2. Total(z, Workers) = 0
  BY VsrAssumption, TotalZero
<1> HIDE DEF z
<1>3. Total(f, Workers) \in Int /\ Total(z, Workers) <= Total(f, Workers)
  BY <1>1, VsrAssumption, TotalType, TotalMonotone
<1>4. Total(f, Workers) \in Nat /\ Sum(f) = Total(f, Workers)
  BY <1>2, <1>3 DEF Sum, Total
<1>5. ASSUME NEW w \in Workers
      PROVE  f[w] <= Sum(f)
  <2> DEFINE h == [f EXCEPT ![w] = 0]
  <2>1. h \in [Workers -> Int] /\ h[w] = 0 /\ f[w] \in Nat
        /\ (\A v \in Workers \ {w} : h[v] = f[v]) /\ (\A v \in Workers : z[v] <= h[v])
    BY <1>1 DEF z
  <2> HIDE DEF h
  <2>2. Total(h, Workers) \in Int /\ Total(h, Workers) = Total(f, Workers) - f[w] + h[w]
    <3>1. Sum(h) \in Int /\ Sum(h) = Sum(f) - f[w] + h[w]
      BY <1>1, <2>1, ChangeSum
    <3> QED
      BY <1>4, <3>1 DEF Sum, Total
  <2>3. Total(z, Workers) <= Total(h, Workers)
    <3>1. z \in [Workers -> Int]
      BY <1>1
    <3> QED
      BY <2>1, <3>1, VsrAssumption, TotalMonotone
  <2> QED
    BY <1>2, <1>4, <2>1, <2>2, <2>3
<1>6. Sum(z) = 0
  BY <1>2 DEF Sum, Total
<1> QED
  BY <1>4, <1>5, <1>6 DEF z

\* The answer to the client.
LEMMA ResponseSent ==
  ASSUME NEW w \in Workers, SendResponse(w), CoverInv
  PROVE  LET q == request[w].left IN
         /\ q \in Seq(Stages) /\ q # << >> /\ Head(q) = "extproc_send" /\ OnPath(q, Head(q))
         /\ ~request[w].sent /\ request[w].ns \in Elapsed /\ request[w].ns \in Nat
         /\ value' = value
         /\ Becomes(w, [left |-> q, sent |-> TRUE, added |-> request[w].added,
                        ns |-> request[w].ns])
<1> DEFINE q == request[w].left
           r == [left |-> q, sent |-> TRUE, added |-> request[w].added, ns |-> request[w].ns]
<1>1. /\ request \in [Workers -> Requests] /\ request[w] \in Requests
      /\ q \in Seq(Stages) /\ q # << >> /\ Head(q) = "extproc_send"
      /\ request[w].ns \in Elapsed /\ ~request[w].sent /\ value' = value
      /\ request' = [request EXCEPT ![w].sent = TRUE]
  BY DEF CoverInv, RequestsAreSuffixes, Requests, SendResponse, Busy, Stage
<1>2. OnPath(q, Head(q))
  BY <1>1, TailOfPath DEF OnPath
<1>3. request[w].ns \in Nat
  BY <1>1, LeastTime
<1>4. r \in Requests /\ r = [request[w] EXCEPT !.sent = TRUE]
  BY <1>1, MarkSent DEF Requests
<1> HIDE DEF r
<1>5. request' = [request EXCEPT ![w] = r]
  BY <1>1, <1>4
<1>6. Becomes(w, r)
  BY <1>1, <1>4, <1>5 DEF Becomes
<1> QED
  BY <1>1, <1>2, <1>3, <1>6 DEF r

\* The first of the two additions of an observation.
LEMMA DurationAdded ==
  ASSUME NEW w \in Workers, AddDuration(w), CoverInv
  PROVE  LET q == request[w].left  s == Head(q) IN
         /\ q \in Seq(Stages) /\ q # << >> /\ s \in Stages /\ OnPath(q, s)
         /\ (s = "extproc_send" => request[w].sent) /\ ~request[w].added
         /\ request[w].ns \in Elapsed /\ request[w].ns \in Nat
         /\ value' \in Counters
         /\ value'[s].total_ns = value[s].total_ns + request[w].ns
         /\ value'[s].count = value[s].count
         /\ \A t \in Stages : t # s => value'[t] = value[t]
         /\ Becomes(w, [left |-> q, sent |-> request[w].sent, added |-> TRUE,
                        ns |-> request[w].ns])
<1> DEFINE q == request[w].left
           s == Head(q)
<1>1. /\ request \in [Workers -> Requests] /\ q \in Seq(Stages) /\ q # << >>
      /\ request[w].ns \in Elapsed /\ ~request[w].added
      /\ (s = "extproc_send" => request[w].sent)
      /\ request' = [request EXCEPT ![w].added = TRUE]
      /\ value' = [value EXCEPT ![s].total_ns = @ + request[w].ns]
  BY DEF CoverInv, RequestsAreSuffixes, Requests, AddDuration, CanObserve, Busy, Stage
<1>2. s \in Stages /\ OnPath(q, s)
  BY <1>1, TailOfPath, RestOfPath DEF OnPath
<1>3. request[w].ns \in Nat
  BY <1>1, LeastTime
<1>4. value \in Counters /\ "total_ns" \in Metrics /\ "count" \in Metrics
  BY StageNames DEF CoverInv, TypeOK, Counters
<1>5. value[s].total_ns + request[w].ns \in Nat
  BY <1>2, <1>3, <1>4 DEF Counters
<1> DEFINE k == value[s].total_ns + request[w].ns
<1>6. value' = [value EXCEPT ![s].total_ns = k]
  BY <1>1
<1> HIDE DEF k, s, q
<1>7. /\ value' \in Counters /\ value'[s].total_ns = k /\ value'[s].count = value[s].count
      /\ \A t \in Stages : t # s => value'[t] = value[t]
  <2>1. k \in Nat
    BY <1>5 DEF k
  <2> QED
    BY <1>2, <1>4, <1>6, <2>1 DEF Counters
<1>8. Becomes(w, [left |-> q, sent |-> request[w].sent, added |-> TRUE, ns |-> request[w].ns])
  <2> DEFINE r == [left |-> q, sent |-> request[w].sent, added |-> TRUE, ns |-> request[w].ns]
  <2>1. request[w] \in Requests /\ r \in Requests
    BY <1>1 DEF Requests, q
  <2>2. r = [request[w] EXCEPT !.added = TRUE]
    BY <2>1, MarkAdded DEF q
  <2> HIDE DEF r
  <2>3. request' = [request EXCEPT ![w] = r]
    BY <1>1, <2>2
  <2>4. Becomes(w, r)
    BY <1>1, <2>1, <2>3 DEF Becomes
  <2> QED
    BY <2>4 DEF r
<1> QED
  BY <1>1, <1>2, <1>3, <1>7, <1>8 DEF k, s, q

\* The second one.
LEMMA CountAdded ==
  ASSUME NEW w \in Workers, AddCount(w), CoverInv
  PROVE  LET q == request[w].left  s == Head(q) IN
         /\ q \in Seq(Stages) /\ q # << >> /\ s \in Stages /\ OnPath(q, s)
         /\ (s = "extproc_send" => request[w].sent) /\ request[w].added
         /\ value' \in Counters
         /\ value'[s].count = value[s].count + 1
         /\ value'[s].total_ns = value[s].total_ns
         /\ \A t \in Stages : t # s => value'[t] = value[t]
<1> DEFINE q == request[w].left
           s == Head(q)
<1>1. /\ q \in Seq(Stages) /\ q # << >> /\ request[w].added
      /\ (s = "extproc_send" => request[w].sent)
      /\ value' = [value EXCEPT ![s].count = @ + 1]
  BY DEF CoverInv, RequestsAreSuffixes, AddCount, CanObserve, Busy, Stage
<1>2. s \in Stages /\ OnPath(q, s)
  BY <1>1, TailOfPath DEF OnPath
<1>4. value \in Counters /\ "total_ns" \in Metrics /\ "count" \in Metrics
  BY StageNames DEF CoverInv, TypeOK, Counters
<1> DEFINE k == value[s].count + 1
<1>5. k \in Nat
  BY <1>2, <1>4 DEF Counters
<1>6. value' = [value EXCEPT ![s].count = k]
  BY <1>1
<1> HIDE DEF s, q
<1>7. /\ value' \in Counters /\ value'[s].count = k /\ value'[s].total_ns = value[s].total_ns
      /\ \A t \in Stages : t # s => value'[t] = value[t]
  <2> HIDE DEF k
  <2> QED
    BY <1>2, <1>4, <1>5, <1>6 DEF Counters
<1> QED
  BY <1>1, <1>2, <1>7 DEF s, q

\* One more observation that is half done, or one less.
LEMMA ChangeHalfObserved ==
  ASSUME CoverInv, NEW w \in Workers, NEW r, NEW s \in Stages, Becomes(w, r)
  PROVE  /\ Sum(HalfObserved(s)) \in Nat /\ Sum(HalfObserved(s))' \in Nat
         /\ Sum(HalfObserved(s))' = Sum(HalfObserved(s))
              - (IF request[w].added /\ Head(request[w].left) = s THEN 1 ELSE 0)
              + (IF r.added /\ Head(r.left) = s THEN 1 ELSE 0)
<1> DEFINE f == HalfObserved(s)
           h == HalfObserved(s)'
<1>1. request \in [Workers -> Requests] /\ request' \in [Workers -> Requests]
  BY RequestTypes DEF Becomes
<1>2. /\ f \in [Workers -> Nat] /\ h \in [Workers -> Nat]
      /\ \A v \in Workers \ {w} : h[v] = f[v]
      /\ f[w] = IF request[w].added /\ Head(request[w].left) = s THEN 1 ELSE 0
      /\ h[w] = IF r.added /\ Head(r.left) = s THEN 1 ELSE 0
  BY <1>1 DEF HalfObserved, Becomes
<1>3. Sum(HalfObserved(s))' = Sum(h)
  OBVIOUS
<1> HIDE DEF f, h
<1>4. Sum(f) \in Nat /\ Sum(h) \in Nat
  BY <1>2, SumOfNumbers
<1>5. f \in [Workers -> Int] /\ h \in [Workers -> Int]
  BY <1>2
<1>6. Sum(h) = Sum(f) - f[w] + h[w]
  BY <1>2, <1>5, ChangeSum
<1> QED
  BY <1>2, <1>3, <1>4, <1>6 DEF f

-----------------------------------------------------------------------------
(* Durations cover counts. *)

LEMMA Times ==
  ASSUME NEW k \in Nat, NEW a \in Nat, NEW b \in Nat
  PROVE  k * a \in Nat /\ k * (a + b) = k * a + k * b /\ (a <= b => k * a <= k * b)
<1>1. k * a \in Nat /\ k * b \in Nat /\ k * (a + b) = k * a + k * b
  OBVIOUS
<1>2. ASSUME a <= b
      PROVE  k * a <= k * b
  <2>1. b - a \in Nat /\ a + (b - a) = b
    BY <1>2
  <2>2. k * (b - a) \in Nat /\ k * (a + (b - a)) = k * a + k * (b - a)
    BY <2>1
  <2> QED
    BY <1>1, <2>1, <2>2
<1> QED
  BY <1>1, <1>2

\* What the counters are at zero.
LEMMA ZeroCounters ==
  /\ Zero \in Counters
  /\ \A s \in Stages : Zero[s].count = 0 /\ Zero[s].total_ns = 0
  BY StageNames DEF Zero, Counters

\* The durations at a stage stay ahead of its count and of the observations that
\* are half done.
LEMMA DurationsStep ==
  ASSUME CoverInv, [Next]_vars
  PROVE  DurationsCoverCounts' /\ value' \in Counters
<1> DEFINE H == [s \in Stages |-> Sum(HalfObserved(s))]
           Half(r, s) == IF r.added /\ Head(r.left) = s THEN 1 ELSE 0
<1>0. /\ value \in Counters /\ request \in [Workers -> Requests]
      /\ \A s \in Stages : value[s].count \in Nat /\ value[s].total_ns \in Nat
      /\ \A s \in Stages : value[s].total_ns >= Least * (value[s].count + H[s])
  <2>1. value \in Counters
    BY DEF CoverInv, TypeOK, Counters
  <2>2. request \in [Workers -> Requests]
    BY DEF CoverInv, RequestsAreSuffixes, Requests
  <2>3. \A s \in Stages : value[s].count \in Nat /\ value[s].total_ns \in Nat
    BY <2>1, StageNames DEF Counters
  <2>4. \A s \in Stages : value[s].total_ns >= Least * (value[s].count + H[s])
    BY DEF CoverInv, DurationsCoverCounts
  <2> QED
    BY <2>1, <2>2, <2>3, <2>4
<1>1. ASSUME value' \in Counters,
             \A s \in Stages : value'[s].total_ns >= Least * (value'[s].count + H'[s])
      PROVE  DurationsCoverCounts' /\ value' \in Counters
  BY <1>1 DEF DurationsCoverCounts
<1>2. ASSUME value' = value, \A s \in Stages : H'[s] = H[s]
      PROVE  DurationsCoverCounts' /\ value' \in Counters
  BY <1>0, <1>1, <1>2
<1>3. ASSUME NEW w \in Workers, NEW r, Becomes(w, r),
             NEW s \in Stages
      PROVE  H[s] \in Nat /\ H'[s] \in Nat /\ H'[s] = H[s] - Half(request[w], s) + Half(r, s)
  BY <1>3, ChangeHalfObserved
<1> HIDE DEF H
<1>4. ASSUME NEW w \in Workers, Begin(w)
      PROVE  DurationsCoverCounts' /\ value' \in Counters
  <2>1. PICK p \in Paths, e \in Elapsed : Arrives(w, p, e)
    BY <1>4, BeginRequest
  <2> DEFINE r == [left |-> p, sent |-> FALSE, added |-> FALSE, ns |-> e]
  <2>2. r \in Requests /\ ~r.added /\ ~request[w].added /\ Becomes(w, r)
    BY <2>1 DEF Requests, NoRequest, Arrives
  <2> HIDE DEF r
  <2>3. \A s \in Stages : H'[s] = H[s]
    BY <1>3, <2>2
  <2>4. value' = value
    BY <1>4 DEF Begin
  <2> QED
    BY <1>2, <2>3, <2>4
<1>5. ASSUME NEW w \in Workers, SendResponse(w)
      PROVE  DurationsCoverCounts' /\ value' \in Counters
  <2> DEFINE r == [left |-> request[w].left, sent |-> TRUE, added |-> request[w].added,
                   ns |-> request[w].ns]
  <2>1. r \in Requests /\ r.added = request[w].added /\ r.left = request[w].left
    BY <1>0 DEF Requests
  <2>2. value' = value /\ Becomes(w, r)
    BY <1>5, ResponseSent
  <2> HIDE DEF r
  <2>3. \A s \in Stages : H'[s] = H[s]
    BY <1>3, <2>1, <2>2
  <2> QED
    BY <1>2, <2>2, <2>3
<1>6. ASSUME NEW w \in Workers, AddDuration(w)
      PROVE  DurationsCoverCounts' /\ value' \in Counters
  <2> DEFINE q == request[w].left
             t == Head(q)
             r == [left |-> q, sent |-> request[w].sent, added |-> TRUE, ns |-> request[w].ns]
  <2>1. /\ t \in Stages /\ ~request[w].added /\ request[w].ns \in Elapsed /\ request[w].ns \in Nat
        /\ value' \in Counters
        /\ value'[t].total_ns = value[t].total_ns + request[w].ns
        /\ value'[t].count = value[t].count
        /\ \A s \in Stages : s # t => value'[s] = value[s]
        /\ Becomes(w, r)
    BY <1>6, DurationAdded
  <2>2. r \in Requests /\ r.added /\ Head(r.left) = t
    BY <1>0 DEF Requests
  <2> HIDE DEF r, t
  <2>3. \A s \in Stages : /\ H[s] \in Nat /\ H'[s] \in Nat
                          /\ H'[s] = IF s = t THEN H[s] + 1 ELSE H[s]
    BY <1>3, <2>1, <2>2
  <2>4. ASSUME NEW s \in Stages, s # t
        PROVE  value'[s].total_ns >= Least * (value'[s].count + H'[s])
    BY <1>0, <2>1, <2>3, <2>4
  <2>5. value'[t].total_ns >= Least * (value'[t].count + H'[t])
    <3>1. /\ value[t].count \in Nat /\ value[t].total_ns \in Nat
          /\ value[t].total_ns >= Least * (value[t].count + H[t])
      BY <1>0, <2>1
    <3>2. Least \in Nat /\ Least <= request[w].ns
      BY <2>1, LeastTime
    <3> DEFINE a == value[t].count + H[t]
    <3>3. a \in Nat /\ value'[t].count + H'[t] = a + 1
      BY <2>1, <2>3, <3>1
    <3>4. Least * a \in Nat /\ Least * (a + 1) = Least * a + Least
      BY <3>2, <3>3
    <3> QED
      BY <2>1, <3>1, <3>2, <3>3, <3>4
  <2> QED
    BY <1>1, <2>1, <2>4, <2>5
<1>7. ASSUME NEW w \in Workers, AddCount(w)
      PROVE  DurationsCoverCounts' /\ value' \in Counters
  <2> DEFINE q == request[w].left
             t == Head(q)
             r == IF Tail(q) = << >> THEN NoRequest
                  ELSE [left |-> Tail(q), sent |-> request[w].sent, added |-> FALSE,
                        ns |-> request[w].ns]
  <2>1. /\ t \in Stages /\ request[w].added /\ q \in Seq(Stages) /\ q # << >>
        /\ value' \in Counters
        /\ value'[t].total_ns = value[t].total_ns
        /\ value'[t].count = value[t].count + 1
        /\ \A s \in Stages : s # t => value'[s] = value[s]
    BY <1>7, CountAdded
  <2>2. Becomes(w, r)
    BY <1>7, NextStage
  <2>3. r \in Requests /\ ~r.added
    BY <1>0, <2>1 DEF Requests, NoRequest
  <2> HIDE DEF r
  <2>4. Half(request[w], t) = 1 /\ \A s \in Stages : s # t => Half(request[w], s) = 0
    BY <2>1
  <2> HIDE DEF t
  <2>5. \A s \in Stages : /\ H[s] \in Nat /\ H'[s] \in Nat
                          /\ H'[s] = IF s = t THEN H[s] - 1 ELSE H[s]
    BY <1>3, <2>1, <2>2, <2>3, <2>4
  <2>6. ASSUME NEW s \in Stages, s # t
        PROVE  value'[s].total_ns >= Least * (value'[s].count + H'[s])
    BY <1>0, <2>1, <2>5, <2>6
  <2>7. value'[t].total_ns >= Least * (value'[t].count + H'[t])
    <3>1. /\ value[t].count \in Nat /\ value[t].total_ns \in Nat
          /\ value[t].total_ns >= Least * (value[t].count + H[t])
      BY <1>0, <2>1
    <3>2. H'[t] = H[t] - 1 /\ H[t] \in Nat
      BY <2>1, <2>5
    <3>3. value'[t].count = value[t].count + 1
      BY <2>1
    <3>4. value'[t].count + H'[t] = value[t].count + H[t]
      BY <3>1, <3>2, <3>3
    <3> QED
      BY <2>1, <3>1, <3>4
  <2> QED
    BY <1>1, <2>1, <2>6, <2>7
<1>8. CASE Restart
  <2>1. value' = Zero /\ request' = [w \in Workers |-> NoRequest]
    BY <1>8 DEF Restart
  <2>2. ASSUME NEW s \in Stages
        PROVE  H'[s] = 0
    <3>1. HalfObserved(s)' = [w \in Workers |-> 0]
      BY <2>1 DEF HalfObserved, NoRequest
    <3>2. HalfObserved(s)' \in [Workers -> Nat]
      BY <3>1
    <3> QED
      BY <3>1, <3>2, SumOfNumbers DEF H
  <2>3. Least * (0 + 0) = 0
    BY LeastTime
  <2> QED
    BY <1>1, <2>1, <2>2, <2>3, ZeroCounters
<1>9. CASE UNCHANGED << value, request >>
  <2>1. \A s \in Stages : H'[s] = H[s]
    BY <1>9 DEF H, HalfObserved
  <2> QED
    BY <1>2, <1>9, <2>1
<1>10. StartCapture \/ Collect \/ WriteSnapshot \/ CaptureFails \/ Summarize \/ Ended
         \/ UNCHANGED vars => UNCHANGED << value, request >>
  BY DEF StartCapture, Collect, WriteSnapshot, CaptureFails, Summarize, Ended, vars, vsrVars
<1> QED
  BY <1>4, <1>5, <1>6, <1>7, <1>8, <1>9, <1>10 DEF Next

\* No count gets smaller but at a restart.
LEMMA CountsGrow ==
  ASSUME CoverInv, [Next]_vars, ~Restart, NEW s \in Stages
  PROVE  /\ value[s].count \in Nat /\ value'[s].count \in Nat
         /\ value[s].count <= value'[s].count
<1>1. /\ value \in Counters /\ value' \in Counters
      /\ value[s].count \in Nat /\ value'[s].count \in Nat
  <2>1. value \in Counters /\ value' \in Counters
    BY DurationsStep DEF CoverInv, TypeOK, Counters
  <2> QED
    BY <2>1, StageNames DEF Counters
<1>2. ASSUME NEW w \in Workers, AddDuration(w)
      PROVE  value[s].count <= value'[s].count
  <2>1. value'[Head(request[w].left)].count = value[Head(request[w].left)].count
        /\ \A t \in Stages : t # Head(request[w].left) => value'[t] = value[t]
    BY <1>2, DurationAdded
  <2> QED
    BY <1>1, <2>1
<1>3. ASSUME NEW w \in Workers, AddCount(w)
      PROVE  value[s].count <= value'[s].count
  <2>1. value'[Head(request[w].left)].count = value[Head(request[w].left)].count + 1
        /\ \A t \in Stages : t # Head(request[w].left) => value'[t] = value[t]
    BY <1>3, CountAdded
  <2> QED
    BY <1>1, <2>1
<1>4. CASE UNCHANGED value
  BY <1>1, <1>4
<1>5. (\E w \in Workers : Begin(w) \/ SendResponse(w)) \/ StartCapture \/ Collect
        \/ WriteSnapshot \/ CaptureFails \/ Summarize \/ Ended \/ UNCHANGED vars
        => UNCHANGED value
  BY DEF Begin, SendResponse, StartCapture, Collect, WriteSnapshot, CaptureFails, Summarize,
         Ended, vars, vsrVars
<1> QED
  BY <1>1, <1>2, <1>3, <1>4, <1>5 DEF Next

\* What one load of the scrape changes.
LEMMA LoadOne ==
  ASSUME CoverInv, Collect
  PROVE  \E s \in Stages, m \in { "count", "total_ns" } :
         /\ sample \in 1 .. Samples /\ sample' = sample + 1
         /\ Sample(sample) = << s, m >>
         /\ snapshot' \in Counters
         /\ \A t \in Stages : t # s => snapshot'[t] = snapshot[t]
         /\ m = "count" =>
              /\ snapshot'[s].count = value[s].count
              /\ snapshot'[s].total_ns = snapshot[s].total_ns
         /\ m = "total_ns" =>
              /\ snapshot'[s].count = snapshot[s].count
              /\ snapshot'[s].total_ns = value[s].total_ns
         /\ UNCHANGED << value, request, before, after, phase, tries >>
<1> DEFINE s == Sample(sample)[1]
           m == Sample(sample)[2]
           k == value[s][m]
<1>1. sample \in 1 .. Samples /\ sample' = sample + 1
      /\ UNCHANGED << value, request, before, after, phase, tries >>
  BY DEF Collect, vsrVars, toolVars
<1>2. s \in Stages /\ m \in { "count", "total_ns" } /\ Sample(sample) = << s, m >>
  BY <1>1, SampleOrder, StageNames
<1>3. value \in Counters /\ snapshot \in Counters
  BY DEF CoverInv, TypeOK, Counters
<1>4. snapshot' = [snapshot EXCEPT ![s][m] = k]
  BY DEF Collect
<1> HIDE DEF s, m
<1>5. k \in Nat
  BY <1>2, <1>3, StageNames DEF Counters
<1>6. /\ snapshot' \in Counters /\ \A t \in Stages : t # s => snapshot'[t] = snapshot[t]
      /\ snapshot'[s][m] = k
      /\ \A n \in Metrics : n # m => snapshot'[s][n] = snapshot[s][n]
  <2> HIDE DEF k
  <2>1. m \in Metrics
    BY <1>2, StageNames
  <2> QED
    BY <1>2, <1>3, <1>4, <1>5, <2>1 DEF Counters
<1>7. "count" \in Metrics /\ "total_ns" \in Metrics
  BY StageNames
<1>8. /\ m = "count" =>
           /\ snapshot'[s].count = value[s].count
           /\ snapshot'[s].total_ns = snapshot[s].total_ns
      /\ m = "total_ns" =>
           /\ snapshot'[s].count = snapshot[s].count
           /\ snapshot'[s].total_ns = value[s].total_ns
  BY <1>6, <1>7
<1> QED
  BY <1>1, <1>2, <1>6, <1>8

\* A scrape loads the count of a stage before its duration, so that what it has
\* of the stage, and what it writes, covers the count.
LEMMA ScrapeStep ==
  ASSUME CoverInv, [Next]_vars
  PROVE  /\ ScrapeCoversCounts'
         /\ before' \in Counters /\ after' \in Counters /\ Covers(before)' /\ Covers(after)'
<1> DEFINE Goal == /\ ScrapeCoversCounts
                   /\ before \in Counters /\ after \in Counters
                   /\ Covers(before) /\ Covers(after)
<1> SUFFICES Goal'
  OBVIOUS
<1>1. /\ value \in Counters /\ snapshot \in Counters
      /\ before \in Counters /\ after \in Counters /\ Covers(before) /\ Covers(after)
      /\ sample \in 0 .. Samples + 1
  BY DEF CoverInv, TypeOK, Counters
<1>2. ScrapeCoversCounts /\ DurationsCoverCounts
  BY DEF CoverInv
<1>3. ASSUME UNCHANGED << sample, snapshot, before, after >>, ~Restart
      PROVE  Goal'
  <2>1. \A s \in Stages : snapshot[s].count \in Nat
    BY <1>1, StageNames DEF Counters
  <2>2. \A s \in Stages : sample' # 0 => snapshot'[s].count <= value'[s].count
    BY <1>2, <1>3, <2>1, CountsGrow DEF ScrapeCoversCounts
  <2>3. \A s \in Stages : Loading(s)' <=> Loading(s)
    BY <1>3 DEF Loading
  <2>4. \A s \in Stages : Loading(s)' \/ snapshot'[s].total_ns >= Least * snapshot'[s].count
    BY <1>2, <1>3, <2>3 DEF ScrapeCoversCounts
  <2>5. ScrapeCoversCounts'
    BY <2>2, <2>4 DEF ScrapeCoversCounts
  <2>6. before' \in Counters /\ after' \in Counters /\ Covers(before)' /\ Covers(after)'
    BY <1>1, <1>3 DEF Covers
  <2> QED
    BY <2>5, <2>6
<1>4. ASSUME sample' \in { 0, 1 }, snapshot' = Zero, UNCHANGED << before, after >>,
             sample' # 0 => value' = value
      PROVE  Goal'
  <2>1. \A s \in Stages : Least * 0 = 0 /\ snapshot'[s].count = 0 /\ snapshot'[s].total_ns = 0
    BY <1>4, ZeroCounters, LeastTime
  <2>2. \A s \in Stages : sample' # 0 => snapshot'[s].count <= value'[s].count
    BY <1>1, <1>4, <2>1, StageNames DEF Counters
  <2>3. \A s \in Stages : snapshot'[s].total_ns >= Least * snapshot'[s].count
    BY <2>1
  <2>4. ScrapeCoversCounts'
    BY <2>2, <2>3 DEF ScrapeCoversCounts
  <2>5. before' \in Counters /\ after' \in Counters /\ Covers(before)' /\ Covers(after)'
    BY <1>1, <1>4 DEF Covers
  <2> QED
    BY <2>4, <2>5
<1>5. CASE Collect
  <2>1. PICK s \in Stages, m \in { "count", "total_ns" } :
        /\ sample \in 1 .. Samples /\ sample' = sample + 1
        /\ Sample(sample) = << s, m >>
        /\ snapshot' \in Counters
        /\ \A t \in Stages : t # s => snapshot'[t] = snapshot[t]
        /\ m = "count" =>
             /\ snapshot'[s].count = value[s].count
             /\ snapshot'[s].total_ns = snapshot[s].total_ns
        /\ m = "total_ns" =>
             /\ snapshot'[s].count = snapshot[s].count
             /\ snapshot'[s].total_ns = value[s].total_ns
        /\ UNCHANGED << value, request, before, after, phase, tries >>
    BY <1>5, LoadOne
  <2>2. /\ m = "count" => Sample(sample + 1) = << s, "total_ns" >> /\ sample + 1 \in 1 .. Samples
        /\ Sample(sample') = Sample(sample + 1)
    BY <2>1, SampleOrder
  <2>3. \A t \in Stages : snapshot[t].count <= value[t].count
    BY <1>2, <2>1 DEF ScrapeCoversCounts
  <2>4. \A t \in Stages : snapshot'[t].count <= value'[t].count
    <3>1. snapshot'[s].count <= value[s].count
      <4>1. value[s].count \in Nat
        BY <1>1, <2>1, StageNames DEF Counters
      <4> QED
        BY <2>1, <2>3, <4>1
    <3> QED
      BY <2>1, <2>3, <3>1
  <2>5. ASSUME NEW t \in Stages, t # s
        PROVE  snapshot'[t].total_ns >= Least * snapshot'[t].count
    <3>1. ~Loading(t)
      BY <2>1, <2>5 DEF Loading
    <3> QED
      BY <1>2, <2>1, <2>5, <3>1 DEF ScrapeCoversCounts
  <2>6. Loading(s)' \/ snapshot'[s].total_ns >= Least * snapshot'[s].count
    <3>1. CASE m = "count"
      <4>1. sample' \in 1 .. Samples /\ Sample(sample') = << s, "total_ns" >>
        BY <2>1, <2>2, <3>1
      <4> QED
        BY <4>1 DEF Loading
    <3>2. CASE m = "total_ns"
      <4> DEFINE h == Sum(HalfObserved(s))
                 c == value[s].count
                 d == snapshot[s].count
      <4>1. c \in Nat /\ d \in Nat /\ d <= c
        BY <1>1, <2>1, <2>3, StageNames DEF Counters
      <4>2. h \in Nat
        <5>1. HalfObserved(s) \in [Workers -> Nat]
          BY DEF HalfObserved
        <5> QED
          BY <5>1, SumOfNumbers
      <4>3. value[s].total_ns \in Nat /\ value[s].total_ns >= Least * (c + h)
        BY <1>1, <1>2, <2>1, StageNames DEF Counters, DurationsCoverCounts
      <4> HIDE DEF h, c, d
      <4>4. d <= c + h /\ c + h \in Nat
        BY <4>1, <4>2
      <4>5. Least * d <= Least * (c + h) /\ Least * d \in Nat /\ Least * (c + h) \in Nat
        BY <4>1, <4>4, LeastTime, Times
      <4>6. value[s].total_ns >= Least * d
        BY <4>3, <4>5
      <4> QED
        BY <2>1, <3>2, <4>6 DEF d
    <3> QED
      BY <2>1, <3>1, <3>2
  <2>7. ScrapeCoversCounts'
    BY <2>4, <2>5, <2>6 DEF ScrapeCoversCounts
  <2>8. before' \in Counters /\ after' \in Counters /\ Covers(before)' /\ Covers(after)'
    BY <1>1, <2>1 DEF Covers
  <2> QED
    BY <2>7, <2>8
<1>6. CASE WriteSnapshot
  <2>1. /\ sample > Samples /\ sample' = 0 /\ snapshot' = snapshot
        /\ before' \in { before, snapshot } /\ after' \in { after, snapshot }
    BY <1>6 DEF WriteSnapshot
  <2>2. \A s \in Stages : ~Loading(s)
    BY <1>1, <2>1, StageNames DEF Loading
  <2>3. Covers(snapshot)
    BY <1>2, <2>2 DEF ScrapeCoversCounts, Covers
  <2>4. ScrapeCoversCounts'
    BY <2>1, <2>3 DEF ScrapeCoversCounts, Covers
  <2>5. before' \in Counters /\ after' \in Counters /\ Covers(before)' /\ Covers(after)'
    BY <1>1, <2>1, <2>3 DEF Covers
  <2> QED
    BY <2>4, <2>5
<1>7. CASE StartCapture
  BY <1>4, <1>7 DEF StartCapture, vsrVars
<1>8. CASE CaptureFails
  BY <1>4, <1>8 DEF CaptureFails, CaptureEnds
<1>9. CASE Restart
  <2>1. CASE sample # 0
    BY <1>4, <1>9, <2>1 DEF Restart, CaptureEnds
  <2>2. CASE sample = 0
    <3>1. UNCHANGED << sample, snapshot, before, after >>
      BY <1>9, <2>2 DEF Restart, scrapeVars, toolVars
    <3>2. \A s \in Stages : ~Loading(s)
      BY <2>2 DEF Loading
    <3>3. ScrapeCoversCounts'
      BY <1>2, <2>2, <3>1, <3>2 DEF ScrapeCoversCounts
    <3>4. before' \in Counters /\ after' \in Counters /\ Covers(before)' /\ Covers(after)'
      BY <1>1, <3>1 DEF Covers
    <3> QED
      BY <3>3, <3>4
  <2> QED
    BY <2>1, <2>2
<1>10. ASSUME NEW w \in Workers,
              Begin(w) \/ SendResponse(w) \/ AddDuration(w) \/ AddCount(w)
       PROVE  Goal'
  <2>1. UNCHANGED << sample, snapshot, before, after >> /\ restarts' = restarts
    BY <1>10 DEF Begin, SendResponse, AddDuration, AddCount, scrapeVars, toolVars
  <2>2. restarts \in Nat
    BY VsrAssumption DEF CoverInv, TypeOK
  <2>3. ~Restart
    BY <2>1, <2>2 DEF Restart
  <2> QED
    BY <1>3, <2>1, <2>3
<1>11. CASE Summarize \/ Ended \/ UNCHANGED vars
  <2>1. UNCHANGED << sample, snapshot, before, after >> /\ restarts' = restarts
    BY <1>11 DEF Summarize, Ended, vars, vsrVars, scrapeVars, toolVars
  <2>2. restarts \in Nat
    BY VsrAssumption DEF CoverInv, TypeOK
  <2>3. ~Restart
    BY <2>1, <2>2 DEF Restart
  <2> QED
    BY <1>3, <2>1, <2>3
<1> QED
  BY <1>5, <1>6, <1>7, <1>8, <1>9, <1>10, <1>11 DEF Next

-----------------------------------------------------------------------------
(* Type correctness. *)

EndOfPath(q) ==
  \E p \in Paths \cup { << >> } : \E i \in 1 .. Len(p) + 1 : q = SubSeq(p, i, Len(p))

\* What is left of a request stays the end of one of the paths.
LEMMA EndsOfPathsStep ==
  ASSUME CoverInv, [Next]_vars
  PROVE  \A w \in Workers : EndOfPath(request'[w].left)
<1> DEFINE Goal == \A w \in Workers : EndOfPath(request'[w].left)
<1> SUFFICES Goal
  OBVIOUS
<1>1. \A w \in Workers : EndOfPath(request[w].left)
  BY DEF CoverInv, TypeOK, EndOfPath
<1>2. EndOfPath(NoRequest.left)
  <2>1. << >> = SubSeq(<< >>, 1, Len(<< >>)) /\ 1 \in 1 .. Len(<< >>) + 1
    OBVIOUS
  <2> QED
    BY <2>1 DEF EndOfPath, NoRequest
<1>3. ASSUME NEW w \in Workers, NEW r, Becomes(w, r), EndOfPath(r.left)
      PROVE  Goal
  BY <1>1, <1>3 DEF Becomes
<1>4. ASSUME NEW w \in Workers, Begin(w)
      PROVE  Goal
  <2>1. PICK p \in Paths, e \in Elapsed : Arrives(w, p, e)
    BY <1>4, BeginRequest
  <2> DEFINE r == [left |-> p, sent |-> FALSE, added |-> FALSE, ns |-> e]
  <2>2. p = SubSeq(p, 1, Len(p)) /\ 1 \in 1 .. Len(p) + 1 /\ r.left = p
    BY <2>1 DEF Arrives
  <2>3. EndOfPath(r.left)
    BY <2>2 DEF EndOfPath
  <2> HIDE DEF r
  <2>4. Becomes(w, r)
    BY <2>1 DEF r, Arrives
  <2> QED
    BY <1>3, <2>3, <2>4
<1>5. ASSUME NEW w \in Workers, SendResponse(w)
      PROVE  Goal
  <2> DEFINE r == [left |-> request[w].left, sent |-> TRUE, added |-> request[w].added,
                   ns |-> request[w].ns]
  <2>1. Becomes(w, r) /\ r.left = request[w].left
    BY <1>5, ResponseSent
  <2> HIDE DEF r
  <2> QED
    BY <1>1, <1>3, <2>1
<1>6. ASSUME NEW w \in Workers, AddDuration(w)
      PROVE  Goal
  <2> DEFINE r == [left |-> request[w].left, sent |-> request[w].sent, added |-> TRUE,
                   ns |-> request[w].ns]
  <2>1. Becomes(w, r) /\ r.left = request[w].left
    BY <1>6, DurationAdded
  <2> HIDE DEF r
  <2> QED
    BY <1>1, <1>3, <2>1
<1>7. ASSUME NEW w \in Workers, AddCount(w)
      PROVE  Goal
  <2> DEFINE q == request[w].left
             r == IF Tail(q) = << >> THEN NoRequest
                  ELSE [left |-> Tail(q), sent |-> request[w].sent, added |-> FALSE,
                        ns |-> request[w].ns]
  <2>1. q \in Seq(Stages) /\ q # << >> /\ Becomes(w, r)
    BY <1>7, NextStage
  <2>2. r.left = Tail(q)
    BY <2>1 DEF NoRequest
  <2>3. PICK p \in Paths \cup { << >> } : \E i \in 1 .. Len(p) + 1 : q = SubSeq(p, i, Len(p))
    BY <1>1 DEF EndOfPath
  <2>4. PICK i \in 1 .. Len(p) + 1 : q = SubSeq(p, i, Len(p))
    BY <2>3
  <2>5. p \in Seq(Stages)
    <3>1. << >> \in Seq(Stages)
      OBVIOUS
    <3>2. p = << >> \/ p \in Paths
      OBVIOUS
    <3> QED
      BY <3>1, <3>2, VsrAssumption
  <2>6. i + 1 \in 1 .. Len(p) + 1 /\ Tail(q) = SubSeq(p, i + 1, Len(p))
    <3> HIDE DEF q
    <3> QED
      BY <2>1, <2>4, <2>5, TailOfSuffix
  <2>7. EndOfPath(Tail(q))
    BY <2>6 DEF EndOfPath
  <2> HIDE DEF r
  <2> QED
    BY <1>3, <2>1, <2>2, <2>7
<1>8. CASE Restart
  BY <1>2, <1>8 DEF Restart
<1>9. CASE UNCHANGED request
  BY <1>1, <1>9
<1>10. StartCapture \/ Collect \/ WriteSnapshot \/ CaptureFails \/ Summarize \/ Ended
         \/ UNCHANGED vars => UNCHANGED request
  BY DEF StartCapture, Collect, WriteSnapshot, CaptureFails, Summarize, Ended, vars, vsrVars
<1> QED
  BY <1>4, <1>5, <1>6, <1>7, <1>8, <1>9, <1>10 DEF Next

Phases == { "warmup", "before", "load", "after", "captured", "done", "refused", "aborted" }

\* The bounded counters of the measurement, and where the tool is.
LEMMA ToolStep ==
  ASSUME CoverInv, [Next]_vars
  PROVE  /\ begun' \in 0 .. MaxRequests /\ restarts' \in 0 .. MaxRestarts
         /\ tries' \in 0 .. MaxTries /\ sample' \in 0 .. Samples + 1
         /\ phase' \in Phases /\ loaded' \in 0 .. begun' /\ restarted' \in BOOLEAN
         /\ valid' \in [Metrics -> Nat]
<1> DEFINE Goal == /\ begun' \in 0 .. MaxRequests /\ restarts' \in 0 .. MaxRestarts
                   /\ tries' \in 0 .. MaxTries /\ sample' \in 0 .. Samples + 1
                   /\ phase' \in Phases /\ loaded' \in 0 .. begun' /\ restarted' \in BOOLEAN
                   /\ valid' \in [Metrics -> Nat]
<1> SUFFICES Goal
  OBVIOUS
<1>1. /\ begun \in 0 .. MaxRequests /\ restarts \in 0 .. MaxRestarts
      /\ tries \in 0 .. MaxTries /\ sample \in 0 .. Samples + 1
      /\ phase \in Phases /\ loaded \in 0 .. begun /\ restarted \in BOOLEAN
      /\ valid \in [Metrics -> Nat]
      /\ MaxRequests \in Nat /\ MaxRestarts \in Nat /\ MaxTries \in Nat
  BY VsrAssumption DEF CoverInv, TypeOK, Phases
<1>2. ASSUME NEW w \in Workers, Begin(w)
      PROVE  Goal
  <2>1. begun < MaxRequests /\ begun' = begun + 1
        /\ UNCHANGED << restarts, tries, sample, phase, restarted, valid >>
    BY <1>2 DEF Begin, scrapeVars, toolVars
  <2>2. loaded' \in { loaded, loaded + 1 }
    BY <1>2 DEF Begin
  <2> QED
    BY <1>1, <2>1, <2>2
<1>3. ASSUME NEW w \in Workers, SendResponse(w)
      PROVE  Goal
  <2>1. UNCHANGED << begun, restarts, tries, sample, phase, loaded, restarted >>
    BY <1>3 DEF SendResponse, scrapeVars, toolVars
  <2>2. request[w].ns \in Nat
    BY <1>3, ResponseSent
  <2>3. valid.count \in Nat /\ valid.total_ns \in Nat /\ Metrics = { "count", "total_ns" }
    BY <1>1, StageNames
  <2>4. valid' \in [Metrics -> Nat]
    BY <1>1, <1>3, <2>2, <2>3 DEF SendResponse
  <2> QED
    BY <1>1, <2>1, <2>4
<1>4. ASSUME NEW w \in Workers, AddDuration(w) \/ AddCount(w)
      PROVE  Goal
  <2>1. UNCHANGED << begun, restarts, tries, sample, phase, loaded, restarted, valid >>
    BY <1>4 DEF AddDuration, AddCount, scrapeVars, toolVars, history
  <2> QED
    BY <1>1, <2>1
<1>5. CASE StartCapture
  <2>1. UNCHANGED << begun, restarts, tries, loaded, restarted, valid >> /\ sample' = 1
        /\ phase' \in { "before", "after" }
    BY <1>5 DEF StartCapture, vsrVars, history
  <2> QED
    BY <1>1, <2>1, StageNames DEF Phases
<1>6. CASE Collect
  <2>1. UNCHANGED << begun, restarts, tries, phase, loaded, restarted, valid >>
        /\ sample \in 1 .. Samples /\ sample' = sample + 1
    BY <1>6 DEF Collect, vsrVars, toolVars, history
  <2> QED
    BY <1>1, <2>1, StageNames
<1>7. CASE WriteSnapshot
  <2>1. UNCHANGED << begun, restarts, tries, loaded, restarted, valid >> /\ sample' = 0
        /\ phase' \in { "load", "captured" }
    BY <1>7 DEF WriteSnapshot, vsrVars, history
  <2> QED
    BY <1>1, <2>1, StageNames DEF Phases
<1>8. ASSUME CaptureEnds
      PROVE  /\ tries' \in 0 .. MaxTries /\ sample' \in 0 .. Samples + 1 /\ phase' \in Phases
  <2>1. tries' \in { tries, tries + 1 } /\ (tries = MaxTries => tries' = tries) /\ sample' = 0
        /\ phase' \in { "aborted", "warmup", "load" }
    BY <1>8 DEF CaptureEnds
  <2> QED
    BY <1>1, <2>1, StageNames DEF Phases
<1>9. CASE CaptureFails
  <2>1. CaptureEnds /\ UNCHANGED << begun, restarts, loaded, restarted, valid >>
    BY <1>9 DEF CaptureFails, vsrVars, history
  <2> QED
    BY <1>1, <1>8, <2>1
<1>10. CASE Restart
  <2>1. UNCHANGED << begun, loaded, valid >> /\ restarts < MaxRestarts
        /\ restarts' = restarts + 1
    BY <1>10 DEF Restart
  <2>2. restarted' \in BOOLEAN
    <3>1. restarted' = (phase \in { "load", "after" })
      BY <1>10, Zenon DEF Restart
    <3>2. (phase \in { "load", "after" }) \in BOOLEAN
      OBVIOUS
    <3> QED
      BY <3>1, <3>2, Zenon
  <2>3. /\ tries' \in 0 .. MaxTries /\ sample' \in 0 .. Samples + 1 /\ phase' \in Phases
    <3>1. CASE sample # 0
      BY <1>8, <1>10, <3>1 DEF Restart
    <3>2. CASE sample = 0
      <4>1. UNCHANGED << tries, sample, phase >>
        BY <1>10, <3>2 DEF Restart, scrapeVars, toolVars
      <4> QED
        BY <1>1, <4>1
    <3> QED
      BY <3>1, <3>2
  <2> QED
    BY <1>1, <2>1, <2>2, <2>3
<1>11. CASE Summarize
  <2>1. UNCHANGED << begun, restarts, tries, sample, loaded, restarted, valid >>
        /\ phase' \in { "done", "refused" }
    BY <1>11 DEF Summarize, vsrVars, scrapeVars, history
  <2> QED
    BY <1>1, <2>1 DEF Phases
<1>12. CASE Ended \/ UNCHANGED vars
  <2>1. UNCHANGED << begun, restarts, tries, sample, phase, loaded, restarted, valid >>
    BY <1>12 DEF Ended, vars, vsrVars, scrapeVars, toolVars, history
  <2> QED
    BY <1>1, <2>1
<1> QED
  BY <1>2, <1>3, <1>4, <1>5, <1>6, <1>7, <1>9, <1>10, <1>11, <1>12 DEF Next

\* What the tool accepts has no value that became smaller.
LEMMA AcceptedDelta ==
  ASSUME CoverInv, Summarize, phase' = "done"
  PROVE  /\ result' # NoResult /\ result'.stages = Delta /\ Delta \in Counters
         /\ result'.request_parsing = Parsing(Delta)
         /\ result'.completed_requests = Delta["request_body_total"].count
         /\ CountsAgree /\ Delta["request_body_total"].count > 0
         /\ result'.expected \in BOOLEAN
         /\ result'.expected => MatchesExpected(Delta["request_body_total"].count)
<1> DEFINE completed == Delta["request_body_total"].count
<1>1. PICK expected \in BOOLEAN :
        /\ ~Decreased /\ CountsAgree /\ completed > 0
        /\ expected => MatchesExpected(completed)
        /\ result' = [completed_requests |-> completed, stages |-> Delta,
                      request_parsing |-> Parsing(Delta), expected |-> expected]
  <2>1. phase = "captured"
    BY DEF Summarize
  <2> QED
    BY <2>1 DEF Summarize
<1>2. Delta \in Counters
  <2>1. before \in Counters /\ after \in Counters
    BY DEF CoverInv, Counters
  <2>2. \A s \in Stages, m \in Metrics : after[s][m] - before[s][m] >= 0
                                         /\ after[s][m] - before[s][m] \in Int
    <3>1. \A s \in Stages, m \in Metrics :
            /\ after[s][m] \in Nat /\ before[s][m] \in Nat
            /\ Delta[s][m] = after[s][m] - before[s][m]
      BY <2>1 DEF Delta, Counters
    <3>2. \A s \in Stages, m \in Metrics : ~ (Delta[s][m] < 0)
      BY <1>1 DEF Decreased
    <3> QED
      BY <3>1, <3>2
  <2> QED
    BY <2>2 DEF Delta, Counters
<1>3. result' # NoResult
  <2>1. result'.expected \in BOOLEAN /\ DOMAIN result' = { "completed_requests", "stages", "request_parsing", "expected" }
    BY <1>1
  <2>2. DOMAIN NoResult = {}
    BY DEF NoResult
  <2> QED
    BY <2>1, <2>2
<1> QED
  BY <1>1, <1>2, <1>3

\* The types of the next state.
LEMMA TypesStep ==
  ASSUME CoverInv, [Next]_vars
  PROVE  TypeOK'
<1>1. value' \in [Stages -> [Metrics -> Nat]]
  BY DurationsStep DEF Counters
<1>2. ASSUME NEW w \in Workers
      PROVE  /\ EndOfPath(request'[w].left)
             /\ request'[w].sent \in BOOLEAN /\ request'[w].added \in BOOLEAN
             /\ request'[w].ns \in Elapsed \cup { 0 }
  <2>1. EndOfPath(request'[w].left)
    BY EndsOfPathsStep
  <2>2. request'[w] \in Requests
    BY RequestsStep DEF RequestsAreSuffixes, Requests
  <2> QED
    BY <2>1, <2>2 DEF Requests
<1>3. snapshot' \in [Stages -> [Metrics -> Nat]]
  <2>0. snapshot \in Counters
    BY DEF CoverInv, TypeOK, Counters
  <2>1. CASE Collect
    <3>1. snapshot' \in Counters
      BY <2>1, LoadOne
    <3> QED
      BY <3>1 DEF Counters
  <2>2. ASSUME ~Collect
        PROVE  snapshot' \in { snapshot, Zero }
    <3>1. ASSUME NEW w \in Workers,
                 Begin(w) \/ SendResponse(w) \/ AddDuration(w) \/ AddCount(w)
          PROVE  snapshot' = snapshot
      BY <3>1 DEF Begin, SendResponse, AddDuration, AddCount, scrapeVars
    <3>2. CASE StartCapture \/ WriteSnapshot \/ CaptureFails
      BY <3>2 DEF StartCapture, WriteSnapshot, CaptureFails, CaptureEnds
    <3>3. CASE Restart
      <4>1. CASE sample # 0
        BY <3>3, <4>1 DEF Restart, CaptureEnds
      <4>2. CASE sample = 0
        BY <3>3, <4>2 DEF Restart, scrapeVars
      <4> QED
        BY <4>1, <4>2
    <3>4. CASE Summarize \/ Ended \/ UNCHANGED vars
      BY <3>4 DEF Summarize, Ended, vars, scrapeVars
    <3> QED
      BY <2>2, <3>1, <3>2, <3>3, <3>4 DEF Next
  <2> QED
    BY <2>0, <2>1, <2>2, ZeroCounters DEF Counters
<1>4. result' # NoResult => result'.stages \in [Stages -> [Metrics -> Nat]]
  <2>1. CASE Summarize
    <3>1. CASE phase' = "done"
      <4>1. result'.stages = Delta /\ Delta \in Counters
        BY <2>1, <3>1, AcceptedDelta
      <4> QED
        BY <4>1 DEF Counters
    <3>2. CASE phase' # "done"
      <4>1. result' = result
        BY <2>1, <3>2 DEF Summarize
      <4> QED
        BY <4>1 DEF CoverInv, TypeOK
    <3> QED
      BY <3>1, <3>2
  <2>2. ASSUME ~Summarize
        PROVE  result' = result
    <3>1. ASSUME NEW w \in Workers,
                 Begin(w) \/ SendResponse(w) \/ AddDuration(w) \/ AddCount(w)
          PROVE  result' = result
      BY <3>1 DEF Begin, SendResponse, AddDuration, AddCount, toolVars
    <3>2. CASE StartCapture \/ Collect \/ WriteSnapshot \/ CaptureFails \/ Ended \/ UNCHANGED vars
      BY <3>2 DEF StartCapture, Collect, WriteSnapshot, CaptureFails, CaptureEnds, Ended, vars,
                  toolVars
    <3>3. CASE Restart
      <4>1. CASE sample # 0
        BY <3>3, <4>1 DEF Restart, CaptureEnds
      <4>2. CASE sample = 0
        BY <3>3, <4>2 DEF Restart, toolVars
      <4> QED
        BY <4>1, <4>2
    <3> QED
      BY <2>2, <3>1, <3>2, <3>3 DEF Next
  <2> QED
    BY <2>1, <2>2 DEF CoverInv, TypeOK
<1>5. /\ begun' \in 0 .. MaxRequests /\ restarts' \in 0 .. MaxRestarts
      /\ tries' \in 0 .. MaxTries /\ sample' \in 0 .. Samples + 1
      /\ phase' \in Phases /\ loaded' \in 0 .. begun' /\ restarted' \in BOOLEAN
      /\ valid' \in [Metrics -> Nat]
  BY ToolStep
<1> HIDE DEF EndOfPath
<1> QED
  BY <1>1, <1>2, <1>3, <1>4, <1>5 DEF TypeOK, EndOfPath, Phases

-----------------------------------------------------------------------------
(* The theorems of the scrape. *)

LEMMA CoverInit ==
  ASSUME Init
  PROVE  CoverInv
<1>1. \A w \in Workers : request[w] = NoRequest
  BY DEF Init
<1>2. /\ value \in Counters /\ snapshot \in Counters /\ before \in Counters /\ after \in Counters
      /\ value = Zero /\ snapshot = Zero /\ before = Zero /\ after = Zero
  BY ZeroCounters DEF Init
<1>3. NoRequest \in Requests
  BY DEF NoRequest, Requests
<1>4. TypeOK
  <2>1. \E p \in Paths \cup { << >> } : \E i \in 1 .. Len(p) + 1 :
          NoRequest.left = SubSeq(p, i, Len(p))
    <3>1. << >> = SubSeq(<< >>, 1, Len(<< >>)) /\ 1 \in 1 .. Len(<< >>) + 1
      OBVIOUS
    <3> QED
      BY <3>1 DEF NoRequest
  <2>2. /\ begun \in 0 .. MaxRequests /\ restarts \in 0 .. MaxRestarts
        /\ tries \in 0 .. MaxTries /\ sample \in 0 .. Samples + 1
        /\ loaded \in 0 .. begun
    BY VsrAssumption, StageNames DEF Init
  <2>4. restarted = FALSE /\ phase = "warmup" /\ result = NoResult
    BY DEF Init
  <2>3. valid \in [Metrics -> Nat]
    BY DEF Init, NoAnswers
  <2> QED
    BY <1>1, <1>2, <1>3, <2>1, <2>2, <2>3, <2>4 DEF TypeOK, Counters, Requests
<1>5. RequestsAreSuffixes
  <2>1. request \in [Workers -> Requests]
    BY <1>3 DEF Init
  <2> QED
    BY <1>1, <2>1 DEF RequestsAreSuffixes, Requests, NoRequest, Busy, OnPath
<1>6. \A s \in Stages : Sum(HalfObserved(s)) = 0
  <2>1. ASSUME NEW s \in Stages
        PROVE  HalfObserved(s) = [w \in Workers |-> 0]
    BY <1>1 DEF HalfObserved, NoRequest
  <2>2. [w \in Workers |-> 0] \in [Workers -> Nat]
    OBVIOUS
  <2> QED
    BY <2>1, <2>2, SumOfNumbers
<1>7. Least * 0 = 0 /\ Least * (0 + 0) = 0
  BY LeastTime
<1>8. DurationsCoverCounts
  BY <1>2, <1>6, <1>7, ZeroCounters DEF DurationsCoverCounts
<1>9. ScrapeCoversCounts
  BY <1>2, <1>7, ZeroCounters DEF ScrapeCoversCounts
<1>10. Covers(before) /\ Covers(after)
  BY <1>2, <1>7, ZeroCounters DEF Covers
<1> QED
  BY <1>2, <1>4, <1>5, <1>8, <1>9, <1>10 DEF CoverInv, Counters

\* The parts of the invariant together.
LEMMA CoverStep ==
  ASSUME CoverInv, [Next]_vars
  PROVE  CoverInv'
  BY TypesStep, RequestsStep, DurationsStep, ScrapeStep DEF CoverInv, Counters

\* The counters, the requests under way, the scrape and what was captured stay
\* in step: at each stage the durations cover the counts.
THEOREM CoverInvariance == Spec => []CoverInv
<1>1. Init => CoverInv
  BY CoverInit
<1>2. CoverInv /\ [Next]_vars => CoverInv'
  BY CoverStep
<1> QED
  BY <1>1, <1>2, PTL DEF Spec

\* Whatever the paths and however the requests, the scrapes and the restarts
\* fall, every variable keeps its type and every request the end of a path.
THEOREM VsrTypes == Spec => []TypeOK
<1>1. CoverInv => TypeOK
  BY DEF CoverInv
<1> QED
  BY <1>1, CoverInvariance, PTL

\* Collect loads the count of a stage before its duration and Observe adds the
\* duration before the count: no snapshot counts an event whose duration it
\* does not have, wherever the scrape falls.
THEOREM SnapshotCovers == Spec => []SnapshotCoversCounts
<1>1. CoverInv => SnapshotCoversCounts
  <2>1. ASSUME CoverInv
        PROVE  SnapshotCoversCounts
    BY <2>1, LeastTime DEF CoverInv, Covers, SnapshotCoversCounts
  <2> QED
    BY <2>1
<1> QED
  BY <1>1, CoverInvariance, PTL

-----------------------------------------------------------------------------
(* What is due: the counters and what the requests under way still add. *)

ShareOf(r, m) == IF m = "count" THEN 1 ELSE r.ns
Owed(r, s, m) ==
  IF OnPath(r.left, s) /\ ~ (m = "total_ns" /\ r.added /\ Head(r.left) = s)
    THEN ShareOf(r, m) ELSE 0
Open(r, m) == IF OnPath(r.left, "extproc_send") /\ ~r.sent THEN ShareOf(r, m) ELSE 0

LEMMA OwedTypes ==
  ASSUME NEW r \in Requests, NEW s, NEW m
  PROVE  Owed(r, s, m) \in Nat /\ Open(r, m) \in Nat
<1>1. r.ns \in Nat
  <2>1. r.ns \in Elapsed \cup { 0 }
    BY DEF Requests
  <2> QED
    <3>1. CASE r.ns = 0
      BY <3>1
    <3>2. CASE r.ns \in Elapsed
      BY <3>2, LeastTime
    <3> QED
      BY <2>1, <3>1, <3>2
<1> QED
  BY <1>1 DEF Owed, Open, ShareOf

\* The sums of what is owed, as long as the requests have their types.
LEMMA OwesType ==
  ASSUME CoverInv, NEW s, NEW m
  PROVE  /\ Owes(s, m) \in [Workers -> Nat] /\ Unanswered(m) \in [Workers -> Nat]
         /\ Owes(s, m) = [w \in Workers |-> Owed(request[w], s, m)]
         /\ Unanswered(m) = [w \in Workers |-> Open(request[w], m)]
         /\ Sum(Owes(s, m)) \in Nat /\ Sum(Unanswered(m)) \in Nat
<1>1. /\ Owes(s, m) = [w \in Workers |-> Owed(request[w], s, m)]
      /\ Unanswered(m) = [w \in Workers |-> Open(request[w], m)]
  BY DEF Owes, Unanswered, Owed, Open, Share, ShareOf
<1>2. /\ Owes(s, m) \in [Workers -> Nat] /\ Unanswered(m) \in [Workers -> Nat]
  BY <1>1, RequestTypes, OwedTypes
<1> HIDE DEF Owes, Unanswered
<1> QED
  BY <1>1, <1>2, SumOfNumbers

LEMMA ChangeOwes ==
  ASSUME CoverInv, NEW w \in Workers, NEW r, Becomes(w, r), NEW s, NEW m
  PROVE  /\ Sum(Owes(s, m))' \in Nat /\ Sum(Unanswered(m))' \in Nat
         /\ Sum(Owes(s, m))' = Sum(Owes(s, m)) - Owed(request[w], s, m) + Owed(r, s, m)
         /\ Sum(Unanswered(m))' = Sum(Unanswered(m)) - Open(request[w], m) + Open(r, m)
<1> DEFINE f == Owes(s, m)
           h == Owes(s, m)'
           g == Unanswered(m)
           k == Unanswered(m)'
<1>1. request \in [Workers -> Requests] /\ request' \in [Workers -> Requests]
  BY RequestTypes DEF Becomes
<1>2. /\ f = [v \in Workers |-> Owed(request[v], s, m)]
      /\ g = [v \in Workers |-> Open(request[v], m)]
  BY OwesType
<1>3. /\ h = [v \in Workers |-> Owed(request'[v], s, m)]
      /\ k = [v \in Workers |-> Open(request'[v], m)]
  BY DEF Owes, Unanswered, Owed, Open, Share, ShareOf
<1>4. Sum(Owes(s, m))' = Sum(h) /\ Sum(Unanswered(m))' = Sum(k)
  OBVIOUS
<1> HIDE DEF f, h, g, k
<1>5. /\ f \in [Workers -> Nat] /\ h \in [Workers -> Nat]
      /\ g \in [Workers -> Nat] /\ k \in [Workers -> Nat]
  BY <1>1, <1>2, <1>3, OwedTypes
<1>6. /\ f[w] = Owed(request[w], s, m) /\ h[w] = Owed(r, s, m)
      /\ g[w] = Open(request[w], m) /\ k[w] = Open(r, m)
      /\ \A v \in Workers \ {w} : h[v] = f[v] /\ k[v] = g[v]
  BY <1>2, <1>3 DEF Becomes
<1>7. /\ f \in [Workers -> Int] /\ h \in [Workers -> Int]
      /\ g \in [Workers -> Int] /\ k \in [Workers -> Int]
  BY <1>5
<1>8. Sum(h) = Sum(f) - f[w] + h[w]
  BY <1>6, <1>7, ChangeSum
<1>9. Sum(k) = Sum(g) - g[w] + k[w]
  BY <1>6, <1>7, ChangeSum
<1>10. Sum(h) \in Nat /\ Sum(k) \in Nat
  BY <1>5, SumOfNumbers
<1> QED
  BY <1>4, <1>6, <1>8, <1>9, <1>10 DEF f, g

\* No request owes anything, and none waits for an answer.
LEMMA NothingOwed ==
  ASSUME NEW s, NEW m
  PROVE  Owed(NoRequest, s, m) = 0 /\ Open(NoRequest, m) = 0
  BY DEF Owed, Open, NoRequest, OnPath

\* An idle VSR owes nothing, an answered one no answer, and nobody who is
\* answered still owes the first stage.
LEMMA QuietOwes ==
  ASSUME CoverInv, NEW m
  PROVE  /\ (\A w \in Workers : ~Busy(w)) => \A s : Sum(Owes(s, m)) = 0
         /\ (\A w \in Workers : Answered(w)) =>
              Sum(Unanswered(m)) = 0 /\ Sum(Owes(First, m)) = 0
<1> DEFINE z == [w \in Workers |-> 0]
<1>1. Sum(z) = 0
  <2>1. z \in [Workers -> Nat]
    OBVIOUS
  <2> QED
    BY <2>1, SumOfNumbers
<1>2. ASSUME NEW w \in Workers, ~Busy(w)
      PROVE  request[w] = NoRequest
  BY <1>2 DEF CoverInv, RequestsAreSuffixes
<1>3. ASSUME \A w \in Workers : ~Busy(w), NEW s
      PROVE  Sum(Owes(s, m)) = 0
  <2>1. Owes(s, m) = z
    BY <1>2, <1>3, OwesType, NothingOwed
  <2> QED
    BY <1>1, <2>1
<1>4. ASSUME \A w \in Workers : Answered(w)
      PROVE  Sum(Unanswered(m)) = 0 /\ Sum(Owes(First, m)) = 0
  <2>1. ASSUME NEW w \in Workers
        PROVE  Open(request[w], m) = 0 /\ Owed(request[w], First, m) = 0
    <3>1. CASE ~Busy(w)
      BY <1>2, <3>1, NothingOwed
    <3>2. CASE Busy(w)
      <4>1. request[w].sent
        BY <1>4, <3>2 DEF Answered
      <4>2. ~OnPath(request[w].left, First)
        BY <4>1 DEF CoverInv, RequestsAreSuffixes
      <4> QED
        BY <4>1, <4>2 DEF Open, Owed
    <3> QED
      BY <3>1, <3>2
  <2>2. Unanswered(m) = z /\ Owes(First, m) = z
    BY <2>1, OwesType
  <2> QED
    BY <1>1, <2>2
<1> QED
  BY <1>3, <1>4

\* What is due and what is answered, by name.
DueFacts ==
  /\ Due \in Counters
  /\ \A s \in Stages :
       /\ Due[s].count \in Nat /\ Due[s].total_ns \in Nat
       /\ value[s].count \in Nat /\ value[s].total_ns \in Nat
       /\ Due[s].count = value[s].count + Sum(Owes(s, "count"))
       /\ Due[s].total_ns = value[s].total_ns + Sum(Owes(s, "total_ns"))
  /\ Answers.count \in Nat /\ Answers.total_ns \in Nat
  /\ valid.count \in Nat /\ valid.total_ns \in Nat
  /\ Answers.count = valid.count + Sum(Unanswered("count"))
  /\ Answers.total_ns = valid.total_ns + Sum(Unanswered("total_ns"))

LEMMA DueAt == CoverInv => DueFacts
<1> SUFFICES ASSUME CoverInv
             PROVE  DueFacts
  OBVIOUS
<1>1. value \in Counters /\ valid \in [Metrics -> Nat]
  BY DEF CoverInv, TypeOK, Counters
<1>2. \A s, m : Sum(Owes(s, m)) \in Nat /\ Sum(Unanswered(m)) \in Nat
  BY OwesType
<1>3. \A s \in Stages, m \in Metrics : value[s][m] + Sum(Owes(s, m)) \in Nat
  BY <1>1, <1>2 DEF Counters
<1>4. \A m \in Metrics : valid[m] + Sum(Unanswered(m)) \in Nat
  BY <1>1, <1>2
<1>5. Due \in Counters
  BY <1>3 DEF Due, Counters
<1>6. "count" \in Metrics /\ "total_ns" \in Metrics
  BY StageNames
<1>7. \A s \in Stages :
         /\ Due[s].count = value[s].count + Sum(Owes(s, "count"))
         /\ Due[s].total_ns = value[s].total_ns + Sum(Owes(s, "total_ns"))
  BY <1>6 DEF Due
<1>8. /\ Answers.count = valid.count + Sum(Unanswered("count"))
      /\ Answers.total_ns = valid.total_ns + Sum(Unanswered("total_ns"))
  BY <1>6 DEF Answers
<1> HIDE DEF Due, Answers
<1>9. \A s \in Stages : value[s].count \in Nat /\ value[s].total_ns \in Nat
  BY <1>1, <1>6 DEF Counters
<1> QED
  BY <1>1, <1>3, <1>4, <1>5, <1>6, <1>7, <1>8, <1>9 DEF DueFacts

LEMMA DueNext ==
  ASSUME CoverInv, [Next]_vars
  PROVE  DueFacts /\ DueFacts'
<1>1. CoverInv'
  BY CoverStep
<1>2. (CoverInv => DueFacts)'
  BY DueAt, PTL
<1> QED
  BY <1>1, <1>2, DueAt

LEMMA SameCounters ==
  ASSUME NEW f \in Counters, NEW g \in Counters,
         \A s \in Stages : f[s].count = g[s].count /\ f[s].total_ns = g[s].total_ns
  PROVE  f = g
<1>1. \A s \in Stages, m \in Metrics : f[s][m] = g[s][m]
  BY StageNames
<1>2. \A s \in Stages : f[s] = g[s]
  BY <1>1 DEF Counters
<1> QED
  BY <1>2 DEF Counters

\* A request that begins adds a whole path to what is due, ...
Grows(v, u, p, e) ==
  \A s \in Stages : /\ u[s].count = v[s].count + (IF OnPath(p, s) THEN 1 ELSE 0)
                    /\ u[s].total_ns = v[s].total_ns + (IF OnPath(p, s) THEN e ELSE 0)

LEMMA DueBegins ==
  ASSUME CoverInv, NEW w \in Workers, Begin(w), NEW p \in Paths, NEW e \in Elapsed,
         Arrives(w, p, e)
  PROVE  /\ Grows(Due, Due', p, e)
         /\ Answers'.count = Answers.count + (IF OnPath(p, "extproc_send") THEN 1 ELSE 0)
         /\ Answers'.total_ns = Answers.total_ns + (IF OnPath(p, "extproc_send") THEN e ELSE 0)
<1> DEFINE r == [left |-> p, sent |-> FALSE, added |-> FALSE, ns |-> e]
<1>1. /\ r.left = p /\ ~r.sent /\ ~r.added /\ r.ns = e
  OBVIOUS
<1>2. Becomes(w, r) /\ request[w] = NoRequest
  BY DEF Arrives
<1>3. value' = value /\ valid' = valid
  BY DEF Begin
<1>4. DueFacts /\ DueFacts'
  BY DueNext DEF Next
<1> HIDE DEF r
<1>5. \A s, m : /\ Sum(Owes(s, m)) \in Nat /\ Sum(Unanswered(m)) \in Nat
                /\ Sum(Owes(s, m))' = Sum(Owes(s, m)) + Owed(r, s, m)
                /\ Sum(Unanswered(m))' = Sum(Unanswered(m)) + Open(r, m)
  <2> SUFFICES ASSUME NEW s, NEW m
               PROVE  /\ Sum(Owes(s, m)) \in Nat /\ Sum(Unanswered(m)) \in Nat
                      /\ Sum(Owes(s, m))' = Sum(Owes(s, m)) + Owed(r, s, m)
                      /\ Sum(Unanswered(m))' = Sum(Unanswered(m)) + Open(r, m)
    OBVIOUS
  <2>1. Sum(Owes(s, m)) \in Nat /\ Sum(Unanswered(m)) \in Nat
    BY OwesType
  <2>2. /\ Sum(Owes(s, m))' = Sum(Owes(s, m)) - Owed(request[w], s, m) + Owed(r, s, m)
        /\ Sum(Unanswered(m))' = Sum(Unanswered(m)) - Open(request[w], m) + Open(r, m)
    BY <1>2, ChangeOwes
  <2>3. Owed(request[w], s, m) = 0 /\ Open(request[w], m) = 0
    BY <1>2, NothingOwed
  <2> QED
    BY <2>1, <2>2, <2>3
<1>6. \A s : /\ Owed(r, s, "count") = IF OnPath(p, s) THEN 1 ELSE 0
             /\ Owed(r, s, "total_ns") = IF OnPath(p, s) THEN e ELSE 0
  BY <1>1 DEF Owed, ShareOf
<1>7. /\ Open(r, "count") = IF OnPath(p, "extproc_send") THEN 1 ELSE 0
      /\ Open(r, "total_ns") = IF OnPath(p, "extproc_send") THEN e ELSE 0
  BY <1>1 DEF Open, ShareOf
<1>8. e \in Nat
  BY VsrAssumption
<1>9. ASSUME NEW s \in Stages
      PROVE  /\ Due'[s].count = Due[s].count + (IF OnPath(p, s) THEN 1 ELSE 0)
             /\ Due'[s].total_ns = Due[s].total_ns + (IF OnPath(p, s) THEN e ELSE 0)
  <2>1. /\ Due[s].count = value[s].count + Sum(Owes(s, "count"))
        /\ Due[s].total_ns = value[s].total_ns + Sum(Owes(s, "total_ns"))
        /\ Due'[s].count = value'[s].count + Sum(Owes(s, "count"))'
        /\ Due'[s].total_ns = value'[s].total_ns + Sum(Owes(s, "total_ns"))'
        /\ value[s].count \in Nat /\ value[s].total_ns \in Nat
    BY <1>4 DEF DueFacts
  <2>2. /\ Sum(Owes(s, "count"))' = Sum(Owes(s, "count")) + (IF OnPath(p, s) THEN 1 ELSE 0)
        /\ Sum(Owes(s, "total_ns"))' = Sum(Owes(s, "total_ns")) + (IF OnPath(p, s) THEN e ELSE 0)
        /\ Sum(Owes(s, "count")) \in Nat /\ Sum(Owes(s, "total_ns")) \in Nat
    BY <1>5, <1>6
  <2> QED
    BY <1>3, <1>8, <2>1, <2>2
<1>10. /\ Answers'.count = Answers.count + (IF OnPath(p, "extproc_send") THEN 1 ELSE 0)
       /\ Answers'.total_ns = Answers.total_ns + (IF OnPath(p, "extproc_send") THEN e ELSE 0)
  <2>1. /\ Answers.count = valid.count + Sum(Unanswered("count"))
        /\ Answers.total_ns = valid.total_ns + Sum(Unanswered("total_ns"))
        /\ Answers'.count = valid'.count + Sum(Unanswered("count"))'
        /\ Answers'.total_ns = valid'.total_ns + Sum(Unanswered("total_ns"))'
        /\ valid.count \in Nat /\ valid.total_ns \in Nat
    BY <1>4 DEF DueFacts
  <2>2. /\ Sum(Unanswered("count"))' = Sum(Unanswered("count")) + Open(r, "count")
        /\ Sum(Unanswered("total_ns"))' = Sum(Unanswered("total_ns")) + Open(r, "total_ns")
        /\ Sum(Unanswered("count")) \in Nat /\ Sum(Unanswered("total_ns")) \in Nat
    BY <1>5
  <2> QED
    BY <1>3, <1>7, <1>8, <2>1, <2>2
<1> QED
  BY <1>9, <1>10 DEF Grows

\* ... and its answer and its observations take nothing of it away.
SameDue == /\ Due' = Due
           /\ Answers'.count = Answers.count /\ Answers'.total_ns = Answers.total_ns

LEMMA DueKept ==
  ASSUME CoverInv, [Next]_vars,
         \A s \in Stages :
           /\ value'[s].count + Sum(Owes(s, "count"))' = value[s].count + Sum(Owes(s, "count"))
           /\ value'[s].total_ns + Sum(Owes(s, "total_ns"))'
                = value[s].total_ns + Sum(Owes(s, "total_ns"))
  PROVE  Due' = Due
<1>1. DueFacts /\ DueFacts'
  BY DueNext
<1>2. Due \in Counters /\ Due' \in Counters
  BY <1>1 DEF DueFacts
<1>3. \A s \in Stages : Due'[s].count = Due[s].count /\ Due'[s].total_ns = Due[s].total_ns
  BY <1>1 DEF DueFacts
<1> HIDE DEF Due
<1> QED
  BY <1>2, <1>3, SameCounters

LEMMA DueAnswered ==
  ASSUME CoverInv, NEW w \in Workers, SendResponse(w)
  PROVE  /\ Due' = Due
         /\ phase = "load" =>
              Answers'.count = Answers.count /\ Answers'.total_ns = Answers.total_ns
<1> DEFINE q == request[w].left
           r == [left |-> q, sent |-> TRUE, added |-> request[w].added, ns |-> request[w].ns]
<1>1. /\ q \in Seq(Stages) /\ Head(q) = "extproc_send" /\ OnPath(q, Head(q))
      /\ ~request[w].sent /\ request[w].ns \in Nat
      /\ value' = value /\ Becomes(w, r)
  BY ResponseSent
<1>2. r.left = q /\ r.sent /\ r.added = request[w].added /\ r.ns = request[w].ns
  OBVIOUS
<1> HIDE DEF r
<1>3. \A s, m : Owed(r, s, m) = Owed(request[w], s, m)
  BY <1>2 DEF Owed, ShareOf
<1>4. \A s, m : Sum(Owes(s, m))' = Sum(Owes(s, m))
  <2> SUFFICES ASSUME NEW s, NEW m
               PROVE  Sum(Owes(s, m))' = Sum(Owes(s, m))
    OBVIOUS
  <2>1. Sum(Owes(s, m))' = Sum(Owes(s, m)) - Owed(request[w], s, m) + Owed(r, s, m)
    BY <1>1, ChangeOwes
  <2>2. Sum(Owes(s, m)) \in Nat /\ Owed(request[w], s, m) \in Nat
    BY OwesType, OwedTypes, RequestTypes
  <2> QED
    BY <1>3, <2>1, <2>2
<1>5. [Next]_vars
  BY DEF Next
<1>6. Due' = Due
  BY <1>1, <1>4, <1>5, DueKept
<1>7. ASSUME phase = "load"
      PROVE  Answers'.count = Answers.count /\ Answers'.total_ns = Answers.total_ns
  <2>1. valid'.count = valid.count + 1 /\ valid'.total_ns = valid.total_ns + request[w].ns
    BY <1>7 DEF SendResponse
  <2>2. Open(request[w], "count") = 1 /\ Open(request[w], "total_ns") = request[w].ns
    BY <1>1 DEF Open, ShareOf
  <2>3. Open(r, "count") = 0 /\ Open(r, "total_ns") = 0
    BY <1>2 DEF Open
  <2>4. \A m : /\ Sum(Unanswered(m)) \in Nat
               /\ Sum(Unanswered(m))' = Sum(Unanswered(m)) - Open(request[w], m) + Open(r, m)
    BY <1>1, ChangeOwes, OwesType
  <2>5. /\ Answers.count = valid.count + Sum(Unanswered("count"))
        /\ Answers.total_ns = valid.total_ns + Sum(Unanswered("total_ns"))
        /\ Answers'.count = valid'.count + Sum(Unanswered("count"))'
        /\ Answers'.total_ns = valid'.total_ns + Sum(Unanswered("total_ns"))'
        /\ valid.count \in Nat /\ valid.total_ns \in Nat
    BY <1>5, DueNext DEF DueFacts
  <2>6. /\ Sum(Unanswered("count"))' = Sum(Unanswered("count")) - 1
        /\ Sum(Unanswered("total_ns"))' = Sum(Unanswered("total_ns")) - request[w].ns
        /\ Sum(Unanswered("count")) \in Nat /\ Sum(Unanswered("total_ns")) \in Nat
    BY <1>1, <2>2, <2>3, <2>4
  <2>7. Answers'.count = Answers.count
    BY <2>1, <2>5, <2>6
  <2>8. Answers'.total_ns = Answers.total_ns
    BY <1>1, <2>1, <2>5, <2>6
  <2> QED
    BY <2>7, <2>8
<1> QED
  BY <1>6, <1>7

LEMMA DueHalfObserved ==
  ASSUME CoverInv, NEW w \in Workers, AddDuration(w)
  PROVE  SameDue
<1> DEFINE q == request[w].left
           r == [left |-> q, sent |-> request[w].sent, added |-> TRUE, ns |-> request[w].ns]
<1>1. PICK t \in Stages :
        /\ t = Head(q) /\ OnPath(q, t) /\ ~request[w].added
        /\ request[w].ns \in Nat
        /\ value'[t].total_ns = value[t].total_ns + request[w].ns
        /\ value'[t].count = value[t].count
        /\ \A s \in Stages : s # t => value'[s] = value[s]
        /\ Becomes(w, r)
  BY DurationAdded
<1>2. r.left = q /\ r.sent = request[w].sent /\ r.added /\ r.ns = request[w].ns
  OBVIOUS
<1> HIDE DEF r
<1>3. /\ \A s, m : s # t \/ m = "count" => Owed(r, s, m) = Owed(request[w], s, m)
      /\ Owed(request[w], t, "total_ns") = request[w].ns /\ Owed(r, t, "total_ns") = 0
      /\ \A m : Open(r, m) = Open(request[w], m)
  BY <1>1, <1>2 DEF Owed, Open, ShareOf
<1>4. \A s, m : /\ Sum(Owes(s, m)) \in Nat /\ Sum(Unanswered(m)) \in Nat
                /\ Owed(request[w], s, m) \in Nat /\ Open(request[w], m) \in Nat
                /\ Sum(Owes(s, m))' = Sum(Owes(s, m)) - Owed(request[w], s, m) + Owed(r, s, m)
                /\ Sum(Unanswered(m))' = Sum(Unanswered(m)) - Open(request[w], m) + Open(r, m)
  BY <1>1, ChangeOwes, OwesType, OwedTypes, RequestTypes
<1>5. [Next]_vars /\ valid' = valid
  BY DEF Next, AddDuration, history
<1>6. DueFacts /\ DueFacts'
  BY <1>5, DueNext
<1>7. ASSUME NEW s \in Stages
      PROVE  /\ value'[s].count + Sum(Owes(s, "count"))' = value[s].count + Sum(Owes(s, "count"))
             /\ value'[s].total_ns + Sum(Owes(s, "total_ns"))'
                  = value[s].total_ns + Sum(Owes(s, "total_ns"))
  <2>1. value[s].count \in Nat /\ value[s].total_ns \in Nat
    BY <1>6 DEF DueFacts
  <2>2. Sum(Owes(s, "count"))' = Sum(Owes(s, "count"))
    BY <1>3, <1>4
  <2>3. CASE s = t
    <3>1. Sum(Owes(s, "total_ns"))' = Sum(Owes(s, "total_ns")) - request[w].ns
          /\ Sum(Owes(s, "total_ns")) \in Nat
      BY <1>3, <1>4, <2>3
    <3> QED
      BY <1>1, <2>1, <2>2, <2>3, <3>1
  <2>4. CASE s # t
    <3>1. Sum(Owes(s, "total_ns"))' = Sum(Owes(s, "total_ns"))
      BY <1>3, <1>4, <2>4
    <3> QED
      BY <1>1, <2>1, <2>2, <2>4, <3>1
  <2> QED
    BY <2>3, <2>4
<1>8. Due' = Due
  BY <1>5, <1>7, DueKept
<1>9. \A m : Sum(Unanswered(m))' = Sum(Unanswered(m))
  <2> SUFFICES ASSUME NEW m
               PROVE  Sum(Unanswered(m))' = Sum(Unanswered(m))
    OBVIOUS
  <2>1. /\ Sum(Owes(t, m)) \in Nat /\ Sum(Unanswered(m)) \in Nat
        /\ Open(request[w], m) \in Nat
        /\ Sum(Unanswered(m))' = Sum(Unanswered(m)) - Open(request[w], m) + Open(r, m)
    BY <1>4
  <2> QED
    BY <1>3, <2>1
<1> QED
  BY <1>5, <1>6, <1>8, <1>9 DEF SameDue, DueFacts

LEMMA DueObserved ==
  ASSUME CoverInv, NEW w \in Workers, AddCount(w)
  PROVE  SameDue
<1> DEFINE q == request[w].left
           r == IF Tail(q) = << >> THEN NoRequest
                ELSE [left |-> Tail(q), sent |-> request[w].sent, added |-> FALSE,
                      ns |-> request[w].ns]
<1>1. PICK t \in Stages :
        /\ t = Head(q) /\ OnPath(q, t) /\ request[w].added
        /\ q \in Seq(Stages) /\ q # << >>
        /\ (t = "extproc_send" => request[w].sent)
        /\ value'[t].count = value[t].count + 1
        /\ value'[t].total_ns = value[t].total_ns
        /\ \A s \in Stages : s # t => value'[s] = value[s]
  BY CountAdded
<1>2. Becomes(w, r)
  BY NextStage
<1>3. \A s : OnPath(r.left, s) <=> OnPath(q, s) /\ s # t
  <2>1. \A i, j \in DOMAIN q : q[i] = q[j] => i = j
    BY DEF CoverInv, RequestsAreSuffixes
  <2>2. \A s : OnPath(Tail(q), s) <=> OnPath(q, s) /\ s # t
    BY <1>1, <2>1, RestOfPath
  <2>3. r.left = Tail(q)
    BY DEF NoRequest
  <2> QED
    BY <2>2, <2>3
<1>4. ~r.added
  BY DEF NoRequest
<1>5. ASSUME NEW s, OnPath(r.left, s)
      PROVE  r.sent = request[w].sent /\ r.ns = request[w].ns
  <2>1. CASE Tail(q) = << >>
    BY <1>5, <2>1 DEF NoRequest, OnPath
  <2>2. CASE Tail(q) # << >>
    BY <2>2
  <2> QED
    BY <2>1, <2>2
<1> HIDE DEF r
<1>6. /\ \A s, m : s # t \/ m = "total_ns" => Owed(r, s, m) = Owed(request[w], s, m)
      /\ Owed(request[w], t, "count") = 1 /\ Owed(r, t, "count") = 0
      /\ \A m : Open(r, m) = Open(request[w], m)
  <2>1. \A s, m : s # t => Owed(r, s, m) = Owed(request[w], s, m)
    BY <1>1, <1>3, <1>4, <1>5 DEF Owed, ShareOf
  <2>2. /\ Owed(request[w], t, "count") = 1 /\ Owed(r, t, "count") = 0
        /\ Owed(request[w], t, "total_ns") = 0 /\ Owed(r, t, "total_ns") = 0
    BY <1>1, <1>3 DEF Owed, ShareOf
  <2>3. \A m : Open(r, m) = Open(request[w], m)
    BY <1>1, <1>3, <1>5 DEF Open, ShareOf
  <2> QED
    BY <2>1, <2>2, <2>3
<1>7. \A s, m : /\ Sum(Owes(s, m)) \in Nat /\ Sum(Unanswered(m)) \in Nat
                /\ Owed(request[w], s, m) \in Nat /\ Open(request[w], m) \in Nat
                /\ Sum(Owes(s, m))' = Sum(Owes(s, m)) - Owed(request[w], s, m) + Owed(r, s, m)
                /\ Sum(Unanswered(m))' = Sum(Unanswered(m)) - Open(request[w], m) + Open(r, m)
  BY <1>2, ChangeOwes, OwesType, OwedTypes, RequestTypes
<1>8. [Next]_vars /\ valid' = valid
  BY DEF Next, AddCount, history
<1>9. DueFacts /\ DueFacts'
  BY <1>8, DueNext
<1>10. ASSUME NEW s \in Stages
       PROVE  /\ value'[s].count + Sum(Owes(s, "count"))' = value[s].count + Sum(Owes(s, "count"))
              /\ value'[s].total_ns + Sum(Owes(s, "total_ns"))'
                   = value[s].total_ns + Sum(Owes(s, "total_ns"))
  <2>1. value[s].count \in Nat /\ value[s].total_ns \in Nat
    BY <1>9 DEF DueFacts
  <2>2. Sum(Owes(s, "total_ns"))' = Sum(Owes(s, "total_ns"))
    BY <1>6, <1>7
  <2>3. CASE s = t
    <3>1. Sum(Owes(s, "count"))' = Sum(Owes(s, "count")) - 1 /\ Sum(Owes(s, "count")) \in Nat
      BY <1>6, <1>7, <2>3
    <3> QED
      BY <1>1, <2>1, <2>2, <2>3, <3>1
  <2>4. CASE s # t
    <3>1. Sum(Owes(s, "count"))' = Sum(Owes(s, "count"))
      BY <1>6, <1>7, <2>4
    <3> QED
      BY <1>1, <2>1, <2>2, <2>4, <3>1
  <2> QED
    BY <2>3, <2>4
<1>11. Due' = Due
  BY <1>8, <1>10, DueKept
<1>12. \A m : Sum(Unanswered(m))' = Sum(Unanswered(m))
  <2> SUFFICES ASSUME NEW m
               PROVE  Sum(Unanswered(m))' = Sum(Unanswered(m))
    OBVIOUS
  <2>1. /\ Sum(Owes(t, m)) \in Nat /\ Sum(Unanswered(m)) \in Nat
        /\ Open(request[w], m) \in Nat
        /\ Sum(Unanswered(m))' = Sum(Unanswered(m)) - Open(request[w], m) + Open(r, m)
    BY <1>7
  <2> QED
    BY <1>6, <2>1
<1> QED
  BY <1>8, <1>9, <1>11, <1>12 DEF SameDue, DueFacts

\* A restart forgets everything that is due.
LEMMA DueRestarts ==
  ASSUME CoverInv, Restart
  PROVE  /\ Due' = Zero /\ valid' = valid
         /\ Answers'.count = valid.count /\ Answers'.total_ns = valid.total_ns
<1>1. value' = Zero /\ request' = [w \in Workers |-> NoRequest] /\ valid' = valid
  BY DEF Restart
<1>2. [Next]_vars
  BY DEF Next
<1>3. CoverInv' /\ DueFacts'
  BY <1>2, CoverStep, DueNext
<1>4. \A w \in Workers : ~Busy(w)'
  BY <1>1 DEF Busy, NoRequest
<1>5. \A s, m : Sum(Owes(s, m))' = 0 /\ Sum(Unanswered(m))' = 0
  <2> SUFFICES ASSUME NEW s, NEW m
               PROVE  Sum(Owes(s, m))' = 0 /\ Sum(Unanswered(m))' = 0
    OBVIOUS
  <2>1. Owes(s, m)' = [w \in Workers |-> 0] /\ Unanswered(m)' = [w \in Workers |-> 0]
    BY <1>1 DEF Owes, Unanswered, OnPath, NoRequest
  <2>2. [w \in Workers |-> 0] \in [Workers -> Nat]
    OBVIOUS
  <2>3. Sum([w \in Workers |-> 0]) = 0
    BY <2>2, SumOfNumbers
  <2> QED
    BY <2>1, <2>3
<1>6. \A s \in Stages : Due'[s].count = 0 /\ Due'[s].total_ns = 0
  BY <1>1, <1>3, <1>5, ZeroCounters DEF DueFacts
<1>7. Due' = Zero
  <2>1. Due' \in Counters
    BY <1>3 DEF DueFacts
  <2> HIDE DEF Due
  <2> QED
    BY <1>6, <2>1, ZeroCounters, SameCounters
<1>8. Answers'.count = valid.count /\ Answers'.total_ns = valid.total_ns
  BY <1>1, <1>3, <1>5 DEF DueFacts
<1> QED
  BY <1>1, <1>7, <1>8

-----------------------------------------------------------------------------
(* Who is under way in which phase. *)

\* Nothing is due more or less but for a request that begins, and a restart.
LEMMA DueSteps ==
  ASSUME CoverInv, [Next]_vars, ~Restart, \A w \in Workers : ~Begin(w)
  PROVE  /\ Due' = Due
         /\ phase = "load" \/ (\A w \in Workers : Answered(w)) =>
              Answers'.count = Answers.count /\ Answers'.total_ns = Answers.total_ns
<1> DEFINE Goal == /\ Due' = Due
                   /\ phase = "load" \/ (\A w \in Workers : Answered(w)) =>
                        Answers'.count = Answers.count /\ Answers'.total_ns = Answers.total_ns
<1> SUFFICES Goal
  OBVIOUS
<1>1. ASSUME NEW w \in Workers, SendResponse(w)
      PROVE  Goal
  <2>1. ~Answered(w)
    BY <1>1 DEF SendResponse, Answered
  <2> QED
    BY <1>1, <2>1, DueAnswered
<1>2. ASSUME NEW w \in Workers, AddDuration(w)
      PROVE  Goal
  BY <1>2, DueHalfObserved DEF SameDue
<1>3. ASSUME NEW w \in Workers, AddCount(w)
      PROVE  Goal
  BY <1>3, DueObserved DEF SameDue
<1>4. CASE UNCHANGED << value, request, valid >>
  <2>1. Due' = Due
    BY <1>4 DEF Due, Owes, Share
  <2>2. Answers' = Answers
    BY <1>4 DEF Answers, Unanswered, Share
  <2> QED
    BY <2>1, <2>2
<1>5. StartCapture \/ Collect \/ WriteSnapshot \/ CaptureFails \/ Summarize \/ Ended
        \/ UNCHANGED vars => UNCHANGED << value, request, valid >>
  BY DEF StartCapture, Collect, WriteSnapshot, CaptureFails, Summarize, Ended, vars, vsrVars,
         history
<1> QED
  BY <1>1, <1>2, <1>3, <1>4, <1>5 DEF Next

\* What a request under way does to who is busy and who is answered.
LEMMA ObservedAnswers ==
  ASSUME CoverInv, NEW w \in Workers, AddDuration(w) \/ AddCount(w)
  PROVE  /\ Busy(w)
         /\ \A v \in Workers : Answered(v) => Answered(v)'
<1>1. CASE AddDuration(w)
  <2> DEFINE r == [left |-> request[w].left, sent |-> request[w].sent, added |-> TRUE,
                   ns |-> request[w].ns]
  <2>1. Becomes(w, r)
    BY <1>1, DurationAdded
  <2>2. r.left = request[w].left /\ r.sent = request[w].sent
    OBVIOUS
  <2> HIDE DEF r
  <2> QED
    BY <1>1, <2>1, <2>2 DEF AddDuration, CanObserve, Becomes, Answered, Busy
<1>2. CASE AddCount(w)
  <2> DEFINE q == request[w].left
             r == IF Tail(q) = << >> THEN NoRequest
                  ELSE [left |-> Tail(q), sent |-> request[w].sent, added |-> FALSE,
                        ns |-> request[w].ns]
  <2>1. Becomes(w, r)
    BY <1>2, NextStage
  <2>2. r.left = << >> \/ r.sent = request[w].sent
    BY DEF NoRequest
  <2> HIDE DEF r
  <2> QED
    BY <1>2, <2>1, <2>2 DEF AddCount, CanObserve, Becomes, Answered, Busy
<1> QED
  BY <1>1, <1>2

\* The captures wait for the requests, and no request begins during one; the
\* first capture is of a VSR at rest.
LEMMA QuietStep ==
  ASSUME "before" \in Settled, CoverInv, PhasesAreQuiet, [Next]_vars
  PROVE  PhasesAreQuiet'
<1>1. /\ sample # 0 <=> phase \in { "before", "after" }
      /\ phase = "before" => \A w \in Workers : ~Busy(w)
      /\ phase \in { "after", "captured" } => \A w \in Workers : Answered(w)
      /\ phase \in { "warmup", "before" } =>
           load = Zero /\ loaded = 0 /\ valid = NoAnswers /\ ~restarted
      /\ result # NoResult => phase = "done"
      /\ sample \in Nat
  BY StageNames DEF PhasesAreQuiet, CoverInv, TypeOK
<1>2. ASSUME NEW w \in Workers, Begin(w)
      PROVE  PhasesAreQuiet'
  <2>1. /\ phase \in { "warmup", "load" }
        /\ UNCHANGED << sample, phase, result, valid, restarted >>
        /\ phase = "warmup" => UNCHANGED << load, loaded >>
    BY <1>2 DEF Begin, scrapeVars, toolVars
  <2> QED
    BY <1>1, <2>1 DEF PhasesAreQuiet
<1>3. ASSUME NEW w \in Workers, SendResponse(w)
      PROVE  PhasesAreQuiet'
  <2>1. /\ Busy(w) /\ ~Answered(w)
        /\ UNCHANGED << sample, phase, result, load, loaded, restarted >>
        /\ phase # "load" => valid' = valid
    BY <1>3 DEF SendResponse, Answered, scrapeVars, toolVars
  <2>2. phase \notin { "before", "after", "captured" }
    BY <1>1, <2>1
  <2> QED
    BY <1>1, <2>1, <2>2 DEF PhasesAreQuiet
<1>4. ASSUME NEW w \in Workers, AddDuration(w) \/ AddCount(w)
      PROVE  PhasesAreQuiet'
  <2>1. UNCHANGED << sample, phase, result, valid, load, loaded, restarted >>
    BY <1>4 DEF AddDuration, AddCount, scrapeVars, toolVars, history
  <2>2. Busy(w) /\ \A v \in Workers : Answered(v) => Answered(v)'
    BY <1>4, ObservedAnswers
  <2>3. phase # "before"
    BY <1>1, <2>2
  <2> QED
    BY <1>1, <2>1, <2>2, <2>3 DEF PhasesAreQuiet
<1>5. CASE StartCapture
  <2>1. /\ phase \in { "warmup", "load" }
        /\ phase' = IF phase = "warmup" THEN "before" ELSE "after"
        /\ sample' = 1
        /\ UNCHANGED << request, result, valid, load, loaded, restarted >>
    BY <1>5 DEF StartCapture, vsrVars, history
  <2>2. /\ phase' = "before" => \A w \in Workers : ~Busy(w)
        /\ \A w \in Workers : Answered(w)
    BY <1>5 DEF StartCapture, CanCapture, Answered
  <2>3. \A w \in Workers : (Busy(w)' <=> Busy(w)) /\ (Answered(w)' <=> Answered(w))
    BY <2>1 DEF Busy, Answered
  <2> QED
    BY <1>1, <2>1, <2>2, <2>3 DEF PhasesAreQuiet
<1>6. CASE Collect
  <2>1. /\ sample # 0 /\ sample' # 0
        /\ UNCHANGED << request, phase, result, valid, load, loaded, restarted >>
    BY <1>6, StageNames DEF Collect, vsrVars, toolVars, history
  <2>2. \A w \in Workers : (Busy(w)' <=> Busy(w)) /\ (Answered(w)' <=> Answered(w))
    BY <2>1 DEF Busy, Answered
  <2> QED
    BY <1>1, <2>1, <2>2 DEF PhasesAreQuiet
<1>7. CASE WriteSnapshot
  <2>1. /\ sample # 0 /\ sample' = 0
        /\ phase' = IF phase = "before" THEN "load" ELSE "captured"
        /\ UNCHANGED << request, result, valid, load, loaded, restarted >>
    BY <1>1, <1>7, StageNames DEF WriteSnapshot, vsrVars, history
  <2>2. \A w \in Workers : (Busy(w)' <=> Busy(w)) /\ (Answered(w)' <=> Answered(w))
    BY <2>1 DEF Busy, Answered
  <2> QED
    BY <1>1, <2>1, <2>2 DEF PhasesAreQuiet
<1>8. ASSUME CaptureEnds, sample # 0
      PROVE  /\ sample' = 0 /\ result' = result /\ result = NoResult
             /\ phase' \in { "aborted", "warmup", "load" }
             /\ phase' = "warmup" => phase = "before"
             /\ phase \in { "before", "after" }
  BY <1>1, <1>8 DEF CaptureEnds
<1>9. CASE CaptureFails
  <2>1. CaptureEnds /\ sample # 0 /\ UNCHANGED << valid, load, loaded, restarted >>
    BY <1>9 DEF CaptureFails, history
  <2> QED
    BY <1>1, <1>8, <2>1 DEF PhasesAreQuiet
<1>10. CASE Restart
  <2>1. /\ phase \notin { "captured", "done" } /\ UNCHANGED << valid, load, loaded >>
        /\ phase \in { "warmup", "before" } => ~restarted'
    BY <1>10 DEF Restart
  <2>2. \A w \in Workers : ~Busy(w)' /\ Answered(w)'
    BY <1>10 DEF Restart, Busy, Answered, NoRequest
  <2>3. CASE sample # 0
    <3>1. CaptureEnds
      BY <1>10, <2>3 DEF Restart
    <3> QED
      BY <1>1, <1>8, <2>1, <2>2, <2>3, <3>1 DEF PhasesAreQuiet
  <2>4. CASE sample = 0
    <3>1. UNCHANGED << sample, phase, result >>
      BY <1>10, <2>4 DEF Restart, scrapeVars, toolVars
    <3> QED
      BY <1>1, <2>1, <2>2, <2>4, <3>1 DEF PhasesAreQuiet
  <2> QED
    BY <2>3, <2>4
<1>11. CASE Summarize
  <2>1. /\ phase = "captured" /\ UNCHANGED << sample >>
        /\ phase' = "done" \/ (phase' = "refused" /\ result' = result)
    BY <1>11 DEF Summarize, scrapeVars
  <2> QED
    BY <1>1, <2>1 DEF PhasesAreQuiet
<1>12. CASE Ended \/ UNCHANGED vars
  <2>1. UNCHANGED << sample, request, phase, result, valid, load, loaded, restarted >>
    BY <1>12 DEF Ended, vars, vsrVars, scrapeVars, toolVars, history
  <2>2. \A w \in Workers : (Busy(w)' <=> Busy(w)) /\ (Answered(w)' <=> Answered(w))
    BY <2>1 DEF Busy, Answered
  <2> QED
    BY <1>1, <2>1, <2>2 DEF PhasesAreQuiet
<1> QED
  BY <1>2, <1>3, <1>4, <1>5, <1>6, <1>7, <1>9, <1>10, <1>11, <1>12 DEF Next

-----------------------------------------------------------------------------
(* The load, the scrape and what is due. *)

\* No counter is ahead of what is due, and one whose count is not behind has the
\* whole duration.
LEMMA ValueIsBehind ==
  ASSUME CoverInv, NEW s \in Stages
  PROVE  /\ value[s].count \in Nat /\ value[s].total_ns \in Nat
         /\ Due[s].count \in Nat /\ Due[s].total_ns \in Nat
         /\ value[s].count <= Due[s].count
         /\ value[s].count = Due[s].count => value[s].total_ns = Due[s].total_ns
         /\ (\A w \in Workers : ~Busy(w)) => value[s].count = Due[s].count
         /\ (\A w \in Workers : Answered(w)) => value[First].count = Due[First].count
<1>1. /\ value[s].count \in Nat /\ value[s].total_ns \in Nat
      /\ Due[s].count \in Nat /\ Due[s].total_ns \in Nat
      /\ Due[s].count = value[s].count + Sum(Owes(s, "count"))
      /\ Due[s].total_ns = value[s].total_ns + Sum(Owes(s, "total_ns"))
      /\ Due[First].count = value[First].count + Sum(Owes(First, "count"))
      /\ value[First].count \in Nat
  BY DueAt, StageNames DEF DueFacts
<1>2. /\ Sum(Owes(s, "count")) \in Nat /\ Sum(Owes(s, "total_ns")) \in Nat
      /\ Owes(s, "count") \in [Workers -> Nat]
      /\ Owes(s, "count") = [w \in Workers |-> Owed(request[w], s, "count")]
      /\ Owes(s, "total_ns") = [w \in Workers |-> Owed(request[w], s, "total_ns")]
  BY OwesType
<1>3. ASSUME value[s].count = Due[s].count
      PROVE  value[s].total_ns = Due[s].total_ns
  <2>1. Sum(Owes(s, "count")) = 0
    BY <1>1, <1>2, <1>3
  <2>2. ASSUME NEW w \in Workers
        PROVE  Owed(request[w], s, "total_ns") = 0
    <3> DEFINE f == Owes(s, "count")
    <3>1. f \in [Workers -> Nat] /\ Sum(f) = 0 /\ f[w] = Owed(request[w], s, "count")
      BY <1>2, <2>1
    <3> HIDE DEF f
    <3>2. f[w] \in Nat /\ f[w] <= Sum(f)
      BY <3>1, SumOfNumbers
    <3>3. Owed(request[w], s, "count") = 0
      BY <3>1, <3>2
    <3>4. ~OnPath(request[w].left, s)
      BY <3>3 DEF Owed, ShareOf
    <3> QED
      BY <3>4 DEF Owed
  <2>3. Owes(s, "total_ns") = [w \in Workers |-> 0]
    BY <1>2, <2>2
  <2>4. [w \in Workers |-> 0] \in [Workers -> Nat]
    OBVIOUS
  <2>5. Sum(Owes(s, "total_ns")) = 0
    BY <2>3, <2>4, SumOfNumbers
  <2> QED
    BY <1>1, <2>5
<1>4. ASSUME \A w \in Workers : ~Busy(w)
      PROVE  value[s].count = Due[s].count
  BY <1>1, <1>4, QuietOwes
<1>5. ASSUME \A w \in Workers : Answered(w)
      PROVE  value[First].count = Due[First].count
  BY <1>1, <1>5, QuietOwes
<1>6. value[s].count <= Due[s].count
  BY <1>1, <1>2
<1> QED
  BY <1>1, <1>3, <1>4, <1>5, <1>6

\* What a request that begins adds to the load.
LEMMA LoadBegins ==
  ASSUME NEW w, NEW p, NEW e \in Elapsed, Arrives(w, p, e), phase # "warmup",
         load \in Counters
  PROVE  /\ load' \in Counters /\ Grows(load, load', p, e) /\ loaded' = loaded + 1
<1>1. e \in Nat
  BY LeastTime
<1>2. /\ loaded' = loaded + 1
      /\ load' = [s \in Stages |->
           IF OnPath(p, s)
             THEN [count |-> load[s].count + 1, total_ns |-> load[s].total_ns + e]
             ELSE load[s]]
  BY DEF Arrives
<1>3. \A s \in Stages : load[s] \in [Metrics -> Nat]
                        /\ load[s].count \in Nat /\ load[s].total_ns \in Nat
  BY StageNames DEF Counters
<1>4. \A s \in Stages :
        [count |-> load[s].count + 1, total_ns |-> load[s].total_ns + e] \in [Metrics -> Nat]
  BY <1>1, <1>3, StageNames
<1>5. load' \in Counters
  BY <1>2, <1>3, <1>4 DEF Counters
<1>6. Grows(load, load', p, e)
  BY <1>2, <1>3 DEF Grows
<1> QED
  BY <1>2, <1>5, <1>6

\* A scrape that is over.
LEMMA ScrapeIsOver ==
  ASSUME CoverInv, PhasesAreQuiet, ScrapeIsExact, sample > Samples, NEW s \in Stages
  PROVE  /\ snapshot \in Counters /\ snapshot[s].count \in Nat /\ snapshot[s].total_ns \in Nat
         /\ snapshot[s].count <= Due[s].count /\ Exact(snapshot, s)
         /\ phase = "before" \/ s = First => snapshot[s].count = Due[s].count
<1>1. sample \in Nat /\ sample # 0 /\ sample \notin 1 .. Samples /\ Samples \in Nat
  <2>1. Samples = 14
    BY StageNames
  <2>2. sample \in 0 .. Samples + 1
    BY DEF CoverInv, TypeOK
  <2> QED
    BY <2>1, <2>2
<1>2. snapshot \in Counters
  BY DEF CoverInv, TypeOK, Counters
<1>3. snapshot[s].count \in Nat /\ snapshot[s].total_ns \in Nat
  BY <1>2, StageNames DEF Counters
<1>4. snapshot[s].count <= value[s].count
  BY <1>1 DEF CoverInv, ScrapeCoversCounts
<1>5. ~Loading(s)
  BY <1>1 DEF Loading
<1>6. Taken(s)
  <2>1. PICK n \in 1 .. Samples : Sample(n) = << s, "count" >>
    BY SampleOrder
  <2>2. n < sample
    BY <1>1
  <2> QED
    BY <2>1, <2>2 DEF Taken
<1>7. /\ Exact(snapshot, s)
      /\ phase = "before" \/ s = First => snapshot[s].count = Due[s].count
  BY <1>1, <1>5, <1>6 DEF ScrapeIsExact
<1>8. snapshot[s].count <= Due[s].count
  BY <1>3, <1>4, ValueIsBehind
<1> QED
  BY <1>2, <1>3, <1>7, <1>8

\* ... and that was the first one.
LEMMA FirstCapture ==
  ASSUME CoverInv, PhasesAreQuiet, ScrapeIsExact, sample > Samples, phase = "before"
  PROVE  snapshot = Due
<1>1. \A s \in Stages : /\ snapshot[s].count = Due[s].count
                        /\ snapshot[s].total_ns = Due[s].total_ns
  BY ScrapeIsOver DEF Exact
<1>2. snapshot \in Counters /\ Due \in Counters
  BY DueAt DEF CoverInv, TypeOK, Counters, DueFacts
<1> HIDE DEF Due
<1> QED
  BY <1>1, <1>2, SameCounters

\* As long as no request begins, a scrape comes closer to what is due: with the
\* count of a stage it takes no more than what is due, and with the duration
\* all of it that belongs to the count.
LEMMA ExactStep ==
  ASSUME CoverInv, PhasesAreQuiet, SameTimes, ScrapeIsExact, [Next]_vars
  PROVE  ScrapeIsExact'
<1>1. ASSUME sample' # 0
      PROVE  /\ \A w \in Workers : ~Begin(w)
             /\ ~Restart
  <2>1. ASSUME NEW w \in Workers, Begin(w)
        PROVE  FALSE
    <3>1. sample' = sample /\ phase \in { "warmup", "load" }
      BY <2>1 DEF Begin, scrapeVars
    <3> QED
      BY <1>1, <3>1 DEF PhasesAreQuiet
  <2>2. ASSUME Restart
        PROVE  FALSE
    <3>1. sample' = 0
      BY <2>2 DEF Restart, CaptureEnds, scrapeVars
    <3> QED
      BY <1>1, <3>1
  <2> QED
    BY <2>1, <2>2
<1>2. ASSUME sample' # 0
      PROVE  Due' = Due
  BY <1>1, <1>2, DueSteps
<1>3. CASE sample' = 0
  BY <1>3 DEF ScrapeIsExact
<1>4. CASE sample' # 0 /\ UNCHANGED << sample, snapshot, phase >>
  <2>1. Due' = Due
    BY <1>2, <1>4
  <2>2. \A s \in Stages : /\ Loading(s)' <=> Loading(s)
                          /\ Taken(s)' <=> Taken(s)
                          /\ Exact(snapshot, s)' <=> Exact(snapshot, s)
    BY <1>4, <2>1 DEF Loading, Taken, Exact
  <2>3. ASSUME NEW s \in Stages
        PROVE  /\ Loading(s)' \/ Exact(snapshot, s)'
               /\ Taken(s)' /\ (phase' = "before" \/ s = First) =>
                    snapshot'[s].count = Due'[s].count
    BY <1>4, <2>1, <2>2 DEF ScrapeIsExact
  <2> QED
    BY <2>3 DEF ScrapeIsExact
<1>5. CASE StartCapture
  <2>1. sample' = 1 /\ snapshot' = Zero /\ Due' = Due
    BY <1>2, <1>5 DEF StartCapture
  <2>2. ASSUME NEW s \in Stages
        PROVE  Exact(snapshot, s)' /\ ~Taken(s)'
    <3>1. Due[s].count = 0 => Due[s].total_ns = 0
      BY DEF SameTimes
    <3>2. Exact(snapshot, s)'
      BY <2>1, <3>1, ZeroCounters DEF Exact
    <3>3. ~Taken(s)'
      BY <2>1, StageNames DEF Taken
    <3> QED
      BY <3>2, <3>3
  <2> QED
    BY <2>2 DEF ScrapeIsExact
<1>6. CASE Collect
  <2>1. PICK s \in Stages, m \in { "count", "total_ns" } :
        /\ sample \in 1 .. Samples /\ sample' = sample + 1
        /\ Sample(sample) = << s, m >>
        /\ snapshot' \in Counters
        /\ \A t \in Stages : t # s => snapshot'[t] = snapshot[t]
        /\ m = "count" =>
             /\ snapshot'[s].count = value[s].count
             /\ snapshot'[s].total_ns = snapshot[s].total_ns
        /\ m = "total_ns" =>
             /\ snapshot'[s].count = snapshot[s].count
             /\ snapshot'[s].total_ns = value[s].total_ns
        /\ UNCHANGED << value, request, before, after, phase, tries >>
    BY <1>6, LoadOne
  <2>2. /\ m = "count" => Sample(sample + 1) = << s, "total_ns" >> /\ sample + 1 \in 1 .. Samples
        /\ Sample(sample') = Sample(sample + 1)
    BY <2>1, SampleOrder
  <2>3. sample \in Nat /\ sample # 0 /\ sample' # 0
    BY <2>1, StageNames
  <2>4. Due' = Due
    BY <1>2, <2>3
  <2>5. \A t \in Stages : /\ Loading(t) \/ Exact(snapshot, t)
                          /\ Taken(t) /\ (phase = "before" \/ t = First) =>
                               snapshot[t].count = Due[t].count
    BY <2>3 DEF ScrapeIsExact
  <2>6. \A t \in Stages : Taken(t)' => Taken(t) \/ (t = s /\ m = "count")
    <3>1. SUFFICES ASSUME NEW t \in Stages, Taken(t)'
                   PROVE  Taken(t) \/ (t = s /\ m = "count")
      OBVIOUS
    <3>2. PICK n \in 1 .. Samples : n < sample' /\ Sample(n) = << t, "count" >>
      BY <3>1 DEF Taken
    <3>3. n < sample \/ n = sample
      BY <2>1, <2>3, <3>2
    <3> QED
      BY <2>1, <3>2, <3>3 DEF Taken
  <2>7. ASSUME NEW t \in Stages, t # s
        PROVE  /\ Exact(snapshot, t)'
               /\ Taken(t)' /\ (phase' = "before" \/ t = First) =>
                    snapshot'[t].count = Due'[t].count
    <3>1. ~Loading(t)
      BY <2>1, <2>7 DEF Loading
    <3>2. Exact(snapshot, t)
      BY <2>5, <3>1
    <3>3. Exact(snapshot, t)'
      BY <2>1, <2>4, <2>7, <3>2 DEF Exact
    <3>4. Taken(t)' => Taken(t)
      BY <2>6, <2>7
    <3> QED
      BY <2>1, <2>4, <2>5, <2>7, <3>3, <3>4
  <2>8. CASE m = "count"
    <3>1. Loading(s)'
      <4>1. sample' \in 1 .. Samples /\ Sample(sample') = << s, "total_ns" >>
        BY <2>1, <2>2, <2>8
      <4> QED
        BY <4>1 DEF Loading
    <3>2. phase \in { "before", "after" }
      BY <2>3 DEF PhasesAreQuiet
    <3>3. phase = "before" => value[s].count = Due[s].count
      BY ValueIsBehind DEF PhasesAreQuiet
    <3>4. s = First => value[s].count = Due[s].count
      <4>1. \A w \in Workers : Answered(w)
        BY <3>2 DEF PhasesAreQuiet, Answered
      <4> QED
        BY <4>1, ValueIsBehind
    <3>5. phase' = "before" \/ s = First => snapshot'[s].count = Due'[s].count
      BY <2>1, <2>4, <2>8, <3>3, <3>4
    <3> QED
      BY <2>7, <3>1, <3>5 DEF ScrapeIsExact
  <2>9. CASE m = "total_ns"
    <3>1. snapshot'[s].count <= value[s].count /\ snapshot'[s].count \in Nat
      <4>1. snapshot[s].count <= value[s].count
        BY <2>3 DEF CoverInv, ScrapeCoversCounts
      <4>2. snapshot'[s].count \in Nat
        BY <2>1, StageNames DEF Counters
      <4> QED
        BY <2>1, <2>9, <4>1, <4>2
    <3>2. snapshot'[s].count = Due[s].count => value[s].total_ns = Due[s].total_ns
      <4>1. /\ value[s].count \in Nat /\ Due[s].count \in Nat /\ value[s].count <= Due[s].count
            /\ value[s].count = Due[s].count => value[s].total_ns = Due[s].total_ns
        BY ValueIsBehind
      <4> QED
        BY <3>1, <4>1
    <3>3. Exact(snapshot, s)'
      BY <2>1, <2>4, <2>9, <3>2 DEF Exact
    <3>4. Taken(s)' => Taken(s)
      BY <2>6, <2>9
    <3>5. Taken(s)' /\ (phase' = "before" \/ s = First) => snapshot'[s].count = Due'[s].count
      BY <2>1, <2>4, <2>5, <2>9, <3>4
    <3> QED
      BY <2>7, <3>3, <3>5 DEF ScrapeIsExact
  <2> QED
    BY <2>8, <2>9
<1>7. ASSUME NEW w \in Workers, SendResponse(w) \/ AddDuration(w) \/ AddCount(w) \/ Begin(w)
      PROVE  UNCHANGED << sample, snapshot, phase >>
  BY <1>7 DEF SendResponse, AddDuration, AddCount, Begin, scrapeVars, toolVars
<1>8. WriteSnapshot \/ CaptureFails => sample' = 0
  BY DEF WriteSnapshot, CaptureFails, CaptureEnds
<1>9. Ended \/ UNCHANGED vars => UNCHANGED << sample, snapshot, phase >>
  BY DEF Ended, vars, scrapeVars, toolVars
<1>10. CASE Summarize
  <2>1. phase = "captured" /\ sample' = sample
    BY <1>10 DEF Summarize, scrapeVars
  <2>2. sample' = 0
    BY <2>1 DEF PhasesAreQuiet
  <2> QED
    BY <1>3, <2>2
<1> QED
  BY <1>1, <1>3, <1>4, <1>5, <1>6, <1>7, <1>8, <1>9, <1>10 DEF Next

\* Where the load, the first capture and the answers change.
LEMMA WhereItChanges ==
  ASSUME [Next]_vars
  PROVE  /\ (\A w \in Workers : ~Begin(w)) => UNCHANGED << load, loaded >>
         /\ ~WriteSnapshot => UNCHANGED << before, after >>
         /\ (\A w \in Workers : ~SendResponse(w)) => UNCHANGED valid
         /\ ~Restart => UNCHANGED restarted
         /\ ~Summarize => UNCHANGED result
<1>1. ASSUME NEW w \in Workers, Begin(w)
      PROVE  UNCHANGED << before, after, valid, restarted, result >>
  BY <1>1 DEF Begin, toolVars
<1>2. ASSUME NEW w \in Workers, SendResponse(w)
      PROVE  UNCHANGED << before, after, load, loaded, restarted, result >>
  BY <1>2 DEF SendResponse, toolVars
<1>3. ASSUME NEW w \in Workers, AddDuration(w) \/ AddCount(w)
      PROVE  UNCHANGED << before, after, load, loaded, restarted, result, valid >>
  BY <1>3 DEF AddDuration, AddCount, toolVars, history
<1>4. StartCapture \/ Collect \/ CaptureFails \/ Ended \/ UNCHANGED vars
        => UNCHANGED << before, after, load, loaded, restarted, result, valid >>
  BY DEF StartCapture, Collect, CaptureFails, CaptureEnds, Ended, vars, toolVars, history
<1>5. WriteSnapshot => UNCHANGED << load, loaded, restarted, result, valid >>
  BY DEF WriteSnapshot, history
<1>6. Summarize => UNCHANGED << before, after, load, loaded, restarted, valid >>
  BY DEF Summarize, history
<1>7. ASSUME Restart
      PROVE  UNCHANGED << before, after, load, loaded, result, valid >>
  <2>1. CASE sample # 0
    BY <1>7, <2>1 DEF Restart, CaptureEnds
  <2>2. CASE sample = 0
    BY <1>7, <2>2 DEF Restart, toolVars
  <2> QED
    BY <2>1, <2>2
<1> QED
  BY <1>1, <1>2, <1>3, <1>4, <1>5, <1>6, <1>7 DEF Next

\* A request that begins, with everything that it changes.
LEMMA BeginChanges ==
  ASSUME CoverInv, SameTimes, NEW w \in Workers, Begin(w)
  PROVE  /\ phase \in { "warmup", "load" }
         /\ UNCHANGED << phase, sample, before, after, valid, restarted, result >>
         /\ \E p \in Paths, e \in Elapsed :
              /\ OnPath(p, First) /\ e \in Nat
              /\ Grows(Due, Due', p, e)
              /\ Answers'.count = Answers.count + (IF OnPath(p, "extproc_send") THEN 1 ELSE 0)
              /\ Answers'.total_ns = Answers.total_ns + (IF OnPath(p, "extproc_send") THEN e ELSE 0)
              /\ phase = "warmup" => UNCHANGED << load, loaded >>
              /\ phase = "load" =>
                   load' \in Counters /\ Grows(load, load', p, e) /\ loaded' = loaded + 1
<1>1. /\ phase \in { "warmup", "load" }
      /\ UNCHANGED << phase, sample, before, after, valid, restarted, result >>
  BY DEF Begin, toolVars, scrapeVars
<1>2. PICK p \in Paths, e \in Elapsed : Arrives(w, p, e)
  BY BeginRequest
<1>3. OnPath(p, First) /\ e \in Nat
  BY <1>2, LeastTime DEF Arrives, OnPath
<1>4. /\ Grows(Due, Due', p, e)
      /\ Answers'.count = Answers.count + (IF OnPath(p, "extproc_send") THEN 1 ELSE 0)
      /\ Answers'.total_ns = Answers.total_ns + (IF OnPath(p, "extproc_send") THEN e ELSE 0)
  BY <1>2, DueBegins
<1>5. phase = "warmup" => UNCHANGED << load, loaded >>
  BY <1>2 DEF Arrives
<1>6. phase = "load" => load' \in Counters /\ Grows(load, load', p, e) /\ loaded' = loaded + 1
  BY <1>2, LoadBegins DEF SameTimes, Counters
<1> QED
  BY <1>1, <1>3, <1>4, <1>5, <1>6

\* The first stage counts every request, and who came through every stage took
\* as long in each.
LEMMA TimesStep ==
  ASSUME CoverInv, PhasesAreQuiet, ScrapeIsExact, SameTimes, [Next]_vars
  PROVE  SameTimes'
<1>1. DueFacts /\ DueFacts'
  BY DueNext
<1>2. /\ load \in Counters /\ loaded \in Nat /\ load[First].count = loaded
      /\ \A s \in Stages : /\ load[s].count \in Nat /\ load[s].total_ns \in Nat
                           /\ load[s].count <= loaded
                           /\ load[s].count = loaded => load[s].total_ns = load[First].total_ns
  <2>1. /\ load \in Counters /\ load[First].count = loaded
        /\ \A s \in Stages : /\ load[s].count <= loaded
                             /\ load[s].count = loaded => load[s].total_ns = load[First].total_ns
    BY DEF SameTimes, Counters
  <2>2. \A s \in Stages : load[s].count \in Nat /\ load[s].total_ns \in Nat
    BY <2>1, StageNames DEF Counters
  <2>3. loaded \in Nat
    BY <2>1, <2>2, StageNames
  <2> QED
    BY <2>1, <2>2, <2>3
<1>3. /\ load' \in Counters /\ load'[First].count = loaded'
      /\ \A s \in Stages : /\ load'[s].count <= loaded'
                           /\ load'[s].count = loaded' => load'[s].total_ns = load'[First].total_ns
  <2>1. CASE UNCHANGED << load, loaded >>
    BY <1>2, <2>1
  <2>2. ASSUME NEW w \in Workers, Begin(w), phase = "load"
        PROVE  /\ load' \in Counters /\ load'[First].count = loaded'
               /\ \A s \in Stages :
                    /\ load'[s].count <= loaded'
                    /\ load'[s].count = loaded' => load'[s].total_ns = load'[First].total_ns
    <3>1. PICK p \in Paths, e \in Elapsed :
            /\ OnPath(p, First) /\ e \in Nat
            /\ load' \in Counters /\ Grows(load, load', p, e) /\ loaded' = loaded + 1
      BY <2>2, BeginChanges
    <3>2. /\ load'[First].count = load[First].count + 1
          /\ load'[First].total_ns = load[First].total_ns + e
      BY <3>1, StageNames DEF Grows
    <3>3. ASSUME NEW s \in Stages
          PROVE  /\ load'[s].count <= loaded'
                 /\ load'[s].count = loaded' => load'[s].total_ns = load'[First].total_ns
      <4>1. /\ load[s].count \in Nat /\ load[s].total_ns \in Nat
            /\ load[s].count <= loaded
            /\ load[s].count = loaded => load[s].total_ns = load[First].total_ns
        BY <1>2
      <4>2. CASE OnPath(p, s)
        <5>1. /\ load'[s].count = load[s].count + 1
              /\ load'[s].total_ns = load[s].total_ns + e
          BY <3>1, <4>2 DEF Grows
        <5> QED
          BY <1>2, <3>1, <3>2, <4>1, <5>1
      <4>3. CASE ~OnPath(p, s)
        <5>1. load'[s].count = load[s].count
          BY <3>1, <4>1, <4>3 DEF Grows
        <5> QED
          BY <1>2, <3>1, <4>1, <5>1
      <4> QED
        BY <4>2, <4>3
    <3> QED
      BY <1>2, <3>1, <3>2, <3>3
  <2> QED
    BY <2>1, <2>2, BeginChanges, WhereItChanges
<1>4. \A s \in Stages : Due'[s].count = 0 => Due'[s].total_ns = 0
  <2>0. \A s \in Stages : /\ Due[s].count \in Nat /\ Due[s].total_ns \in Nat
                          /\ Due[s].count = 0 => Due[s].total_ns = 0
    BY <1>1 DEF DueFacts, SameTimes
  <2>1. CASE Due' = Due
    BY <2>0, <2>1
  <2>2. CASE Restart
    BY <2>2, DueRestarts, ZeroCounters
  <2>3. ASSUME NEW w \in Workers, Begin(w), NEW s \in Stages, Due'[s].count = 0
        PROVE  Due'[s].total_ns = 0
    <3>1. PICK p \in Paths, e \in Elapsed : e \in Nat /\ Grows(Due, Due', p, e)
      BY <2>3, BeginChanges
    <3>2. CASE OnPath(p, s)
      <4>1. Due'[s].count = Due[s].count + 1
        BY <3>1, <3>2 DEF Grows
      <4> QED
        BY <2>0, <2>3, <4>1
    <3>3. CASE ~OnPath(p, s)
      <4>1. Due'[s].count = Due[s].count + 0 /\ Due'[s].total_ns = Due[s].total_ns + 0
        BY <3>1, <3>3 DEF Grows
      <4> QED
        BY <2>0, <2>3, <4>1
    <3> QED
      BY <3>2, <3>3
  <2> QED
    BY <2>1, <2>2, <2>3, DueSteps
<1>5. \A s \in Stages : before'[s].count = 0 => before'[s].total_ns = 0
  <2>0. \A s \in Stages : /\ before[s].count = 0 => before[s].total_ns = 0
                          /\ Due[s].count = 0 => Due[s].total_ns = 0
    BY DEF SameTimes
  <2>1. CASE before' = before
    BY <2>0, <2>1
  <2>2. ASSUME WriteSnapshot, before' # before
        PROVE  before' = Due
    <3>1. phase = "before" /\ sample > Samples /\ before' = snapshot
      BY <2>2 DEF WriteSnapshot
    <3> QED
      BY <3>1, FirstCapture
  <2> QED
    BY <2>0, <2>1, <2>2, WhereItChanges
<1>6. valid'.count = 0 => valid'.total_ns = 0
  <2>1. CASE valid' = valid
    BY <2>1 DEF SameTimes
  <2>2. ASSUME NEW w \in Workers, SendResponse(w), valid' # valid
        PROVE  valid'.count # 0
    <3>1. valid'.count = valid.count + 1 /\ valid.count \in Nat
      BY <1>1, <2>2 DEF SendResponse, DueFacts
    <3> QED
      BY <3>1
  <2> QED
    BY <2>1, <2>2, WhereItChanges
<1> QED
  BY <1>3, <1>4, <1>5, <1>6 DEF SameTimes, Counters

\* What is due is what there was at the first capture and the load since then,
\* and the answers are not behind.
LEMMA LoadStep ==
  ASSUME CoverInv, PhasesAreQuiet, ScrapeIsExact, SameTimes, LoadIsDue, [Next]_vars
  PROVE  LoadIsDue'
<1> DEFINE Sent == "extproc_send"
<1>1. /\ DueFacts /\ DueFacts' /\ Sent \in Stages
      /\ before \in Counters /\ load \in Counters
      /\ \A s \in Stages : before[s].count \in Nat /\ before[s].total_ns \in Nat
      /\ \A s \in Stages : load[s].count \in Nat /\ load[s].total_ns \in Nat
  <2>1. before \in Counters /\ load \in Counters
    BY DEF CoverInv, SameTimes, Counters
  <2>2. \A s \in Stages : before[s].count \in Nat /\ before[s].total_ns \in Nat
    BY <2>1, StageNames DEF Counters
  <2>3. \A s \in Stages : load[s].count \in Nat /\ load[s].total_ns \in Nat
    BY <2>1, StageNames DEF Counters
  <2> QED
    BY <2>1, <2>2, <2>3, DueNext, StageNames
<1>2. \A s \in Stages : /\ Due[s].count \in Nat /\ Due[s].total_ns \in Nat
  BY <1>1 DEF DueFacts
<1>3. Base("count") \in Nat /\ Base("total_ns") \in Nat
  BY <1>1 DEF Base
<1>4. CASE phase' \notin { "load", "after", "captured" }
  BY <1>4 DEF LoadIsDue
<1>5. ASSUME phase' \in { "load", "after", "captured" }, Restart
      PROVE  LoadIsDue'
  <2>1. phase \in { "load", "after" }
    <3>1. CASE sample # 0
      <4>1. CaptureEnds
        BY <1>5, <3>1 DEF Restart
      <4>2. phase \in { "before", "after" }
        BY <3>1 DEF PhasesAreQuiet
      <4>3. phase # "before"
        BY <1>5, <4>1 DEF CaptureEnds
      <4> QED
        BY <4>2, <4>3
    <3>2. CASE sample = 0
      <4>1. phase' = phase
        BY <1>5, <3>2 DEF Restart, toolVars
      <4> QED
        BY <1>5, <4>1 DEF Restart
    <3> QED
      BY <3>1, <3>2
  <2>2. restarted'
    BY <1>5, <2>1 DEF Restart
  <2>3. /\ Due' = Zero /\ Answers'.count = valid.count /\ Answers'.total_ns = valid.total_ns
    BY <1>5, DueRestarts
  <2>4. Base("count")' = 0 /\ Base("total_ns")' = 0
    BY <2>2 DEF Base
  <2>5. \A s \in Stages : Due'[s].count = 0 /\ Due'[s].total_ns = 0
    BY <2>3, ZeroCounters
  <2>6. valid.count \in Nat /\ (valid.count = 0 => valid.total_ns = 0)
    BY <1>1 DEF DueFacts, SameTimes
  <2>7. \A s, t \in Stages : Due'[s] = Due'[t]
    BY <2>3 DEF Zero
  <2>8. /\ Due'[Sent].count - Base("count")' <= Answers'.count
        /\ Due'[Sent].count - Base("count")' = Answers'.count =>
             Due'[Sent].total_ns - Base("total_ns")' = Answers'.total_ns
    BY <1>1, <2>3, <2>4, <2>5, <2>6
  <2> QED
    BY <2>2, <2>7, <2>8 DEF LoadIsDue
<1>6. ASSUME WriteSnapshot, phase = "before"
      PROVE  LoadIsDue'
  <2>1. /\ sample > Samples /\ before' = snapshot
        /\ UNCHANGED << load, restarted, valid >> /\ ~Restart
        /\ \A w \in Workers : ~Begin(w)
    <3>1. sample > Samples /\ before' = snapshot /\ UNCHANGED << load, restarted, valid, restarts >>
          /\ phase' = "load"
      BY <1>6 DEF WriteSnapshot, history, vsrVars
    <3>2. ~Restart
      <4>1. restarts \in Nat
        BY VsrAssumption DEF CoverInv, TypeOK
      <4> QED
        BY <3>1, <4>1 DEF Restart
    <3>3. \A w \in Workers : ~Begin(w)
      BY <1>6 DEF Begin
    <3> QED
      BY <3>1, <3>2, <3>3
  <2>2. before' = Due /\ Due' = Due
    BY <1>6, <2>1, FirstCapture, DueSteps
  <2>3. /\ load = Zero /\ valid = NoAnswers /\ ~restarted /\ \A w \in Workers : ~Busy(w)
    BY <1>6 DEF PhasesAreQuiet
  <2>4. Answers'.count = 0 /\ Answers'.total_ns = 0
    <3>1. \A w \in Workers : Answered(w)
      BY <2>3 DEF Answered
    <3>2. Answers'.count = Answers.count /\ Answers'.total_ns = Answers.total_ns
      BY <2>1, <3>1, DueSteps
    <3>3. Sum(Unanswered("count")) = 0 /\ Sum(Unanswered("total_ns")) = 0
      BY <3>1, QuietOwes
    <3>4. valid.count = 0 /\ valid.total_ns = 0
      BY <2>3, StageNames DEF NoAnswers
    <3> QED
      BY <1>1, <3>2, <3>3, <3>4 DEF DueFacts
  <2>5. Base("count")' = Due[Sent].count /\ Base("total_ns")' = Due[Sent].total_ns
    BY <2>1, <2>2, <2>3 DEF Base
  <2>6. \A s \in Stages, m \in Metrics : Due'[s][m] = before'[s][m] + load'[s][m]
    <3>1. Due \in Counters
      BY <1>1 DEF DueFacts
    <3>2. \A s \in Stages, m \in Metrics : load'[s][m] = 0 /\ Due[s][m] \in Nat
      BY <2>1, <2>3, <3>1 DEF Zero, Counters
    <3> QED
      BY <2>2, <3>2
  <2>7. /\ Due'[Sent].count - Base("count")' <= Answers'.count
        /\ Due'[Sent].total_ns - Base("total_ns")' = Answers'.total_ns
    BY <1>1, <1>2, <2>2, <2>4, <2>5
  <2>8. ~restarted'
    BY <2>1, <2>3
  <2> QED
    BY <2>6, <2>7, <2>8 DEF LoadIsDue
<1>7. ASSUME NEW w \in Workers, Begin(w), phase' \in { "load", "after", "captured" }
      PROVE  LoadIsDue'
  <2>1. /\ phase = "load" /\ UNCHANGED << before, restarted >>
    BY <1>7, BeginChanges
  <2>2. PICK p \in Paths, e \in Elapsed :
          /\ OnPath(p, First) /\ e \in Nat
          /\ Grows(Due, Due', p, e)
          /\ Answers'.count = Answers.count + (IF OnPath(p, Sent) THEN 1 ELSE 0)
          /\ Answers'.total_ns = Answers.total_ns + (IF OnPath(p, Sent) THEN e ELSE 0)
          /\ load' \in Counters /\ Grows(load, load', p, e) /\ loaded' = loaded + 1
    BY <1>7, <2>1, BeginChanges
  <2>3. /\ ~restarted => \A s \in Stages, m \in Metrics : Due[s][m] = before[s][m] + load[s][m]
        /\ restarted /\ SameCounts(load) => \A s, t \in Stages : Due[s] = Due[t]
        /\ Due[Sent].count - Base("count") <= Answers.count
        /\ Due[Sent].count - Base("count") = Answers.count =>
             Due[Sent].total_ns - Base("total_ns") = Answers.total_ns
    BY <2>1 DEF LoadIsDue
  <2>4. ASSUME ~restarted, NEW s \in Stages, NEW m \in Metrics
        PROVE  Due'[s][m] = before'[s][m] + load'[s][m]
    <3>1. /\ Due[s].count = before[s].count + load[s].count
          /\ Due[s].total_ns = before[s].total_ns + load[s].total_ns
      BY <2>3, <2>4, StageNames
    <3>2. /\ Due'[s].count = Due[s].count + (IF OnPath(p, s) THEN 1 ELSE 0)
          /\ load'[s].count = load[s].count + (IF OnPath(p, s) THEN 1 ELSE 0)
          /\ Due'[s].total_ns = Due[s].total_ns + (IF OnPath(p, s) THEN e ELSE 0)
          /\ load'[s].total_ns = load[s].total_ns + (IF OnPath(p, s) THEN e ELSE 0)
      BY <2>2 DEF Grows
    <3>3. /\ before[s].count \in Nat /\ before[s].total_ns \in Nat
          /\ load[s].count \in Nat /\ load[s].total_ns \in Nat
      BY <1>1
    <3>4. Due'[s].count = before'[s].count + load'[s].count
      BY <2>1, <3>1, <3>2, <3>3
    <3>5. Due'[s].total_ns = before'[s].total_ns + load'[s].total_ns
      BY <2>1, <2>2, <3>1, <3>2, <3>3
    <3> QED
      BY <3>4, <3>5, StageNames
  <2>5. ASSUME restarted, SameCounts(load)', NEW s \in Stages, NEW t \in Stages
        PROVE  Due'[s] = Due'[t]
    <3>1. \A u \in Stages : OnPath(p, u) /\ load[u].count = loaded
      <4> SUFFICES ASSUME NEW u \in Stages
                   PROVE  OnPath(p, u) /\ load[u].count = loaded
        OBVIOUS
      <4>1. load'[u].count = load'[First].count
        BY <2>5, StageNames DEF SameCounts
      <4>2. load'[First].count = loaded + 1 /\ load[u].count <= loaded /\ loaded \in Nat
        BY <1>1, <2>2, StageNames DEF Grows, SameTimes
      <4>3. load'[u].count = load[u].count + (IF OnPath(p, u) THEN 1 ELSE 0)
        BY <2>2 DEF Grows
      <4>4. load[u].count \in Nat
        BY <1>1
      <4> QED
        BY <4>1, <4>2, <4>3, <4>4
    <3>2. SameCounts(load)
      BY <3>1 DEF SameCounts
    <3>3. \A u, v \in Stages : Due[u] = Due[v]
      BY <2>3, <2>5, <3>2
    <3>4. \A u \in Stages : /\ Due'[u].count = Due[u].count + 1
                            /\ Due'[u].total_ns = Due[u].total_ns + e
      BY <2>2, <3>1 DEF Grows
    <3>5. Due'[s].count = Due'[t].count /\ Due'[s].total_ns = Due'[t].total_ns
      BY <3>3, <3>4
    <3>6. Due'[s] \in [Metrics -> Nat] /\ Due'[t] \in [Metrics -> Nat]
      BY <1>1 DEF DueFacts, Counters
    <3> HIDE DEF Due
    <3> QED
      BY <3>5, <3>6, StageNames
  <2>6. Base("count")' = Base("count") /\ Base("total_ns")' = Base("total_ns")
    BY <2>1 DEF Base
  <2>7. /\ Due'[Sent].count = Due[Sent].count + (IF OnPath(p, Sent) THEN 1 ELSE 0)
        /\ Due'[Sent].total_ns = Due[Sent].total_ns + (IF OnPath(p, Sent) THEN e ELSE 0)
    BY <1>1, <2>2 DEF Grows
  <2>8. Answers.count \in Nat /\ Answers.total_ns \in Nat
    BY <1>1 DEF DueFacts
  <2>9. /\ Due'[Sent].count - Base("count")' <= Answers'.count
        /\ Due'[Sent].count - Base("count")' = Answers'.count =>
             Due'[Sent].total_ns - Base("total_ns")' = Answers'.total_ns
    BY <1>1, <1>2, <1>3, <2>2, <2>3, <2>6, <2>7, <2>8
  <2>10. restarted' = restarted
    BY <2>1
  <2> QED
    BY <2>4, <2>5, <2>9, <2>10 DEF LoadIsDue
<1>8. ASSUME ~Restart, \A w \in Workers : ~Begin(w), ~ (WriteSnapshot /\ phase = "before"),
             phase' \in { "load", "after", "captured" }
      PROVE  LoadIsDue'
  <2>1. phase \in { "load", "after", "captured" }
    <3>1. ASSUME NEW w \in Workers, SendResponse(w) \/ AddDuration(w) \/ AddCount(w)
          PROVE  phase' = phase
      BY <3>1 DEF SendResponse, AddDuration, AddCount, toolVars
    <3>2. StartCapture => phase = "load"
      BY <1>8 DEF StartCapture
    <3>3. Collect \/ Ended \/ UNCHANGED vars => phase' = phase
      BY DEF Collect, Ended, vars, toolVars
    <3>4. WriteSnapshot => phase = "after"
      <4>1. ASSUME WriteSnapshot
            PROVE  phase = "after"
        <5>1. sample # 0
          BY <4>1, StageNames DEF WriteSnapshot
        <5> QED
          BY <1>8, <4>1, <5>1 DEF PhasesAreQuiet
      <4> QED
        BY <4>1
    <3>5. CaptureFails => phase = "after"
      <4>1. ASSUME CaptureFails
            PROVE  phase = "after"
        <5>1. sample # 0 /\ phase # "before"
          BY <1>8, <4>1 DEF CaptureFails, CaptureEnds
        <5> QED
          BY <5>1 DEF PhasesAreQuiet
      <4> QED
        BY <4>1
    <3>6. ~Summarize
      BY <1>8 DEF Summarize
    <3> QED
      BY <1>8, <3>1, <3>2, <3>3, <3>4, <3>5, <3>6 DEF Next
  <2>2. phase = "load" \/ \A w \in Workers : Answered(w)
    BY <2>1 DEF PhasesAreQuiet
  <2>3. /\ Due' = Due
        /\ Answers'.count = Answers.count /\ Answers'.total_ns = Answers.total_ns
    BY <1>8, <2>2, DueSteps
  <2>4. before' = before
    <3>1. WriteSnapshot => before' = before
      BY <1>8 DEF WriteSnapshot
    <3> QED
      BY <3>1, WhereItChanges
  <2>5. UNCHANGED << load, restarted >>
    BY <1>8, WhereItChanges
  <2>6. \A m : Base(m)' = Base(m)
    BY <2>4, <2>5 DEF Base
  <2>7. SameCounts(load)' <=> SameCounts(load)
    BY <2>5 DEF SameCounts
  <2> HIDE DEF Due, Answers
  <2> QED
    BY <2>1, <2>3, <2>4, <2>5, <2>6, <2>7 DEF LoadIsDue
<1> QED
  BY <1>4, <1>5, <1>6, <1>7, <1>8

\* What the second capture wrote is behind what is due by whole requests only,
\* and not at all in the first stage.
LEMMA CaptureStep ==
  ASSUME CoverInv, PhasesAreQuiet, ScrapeIsExact, CaptureIsExact, [Next]_vars
  PROVE  CaptureIsExact'
<1>1. CASE phase' # "captured"
  BY <1>1 DEF CaptureIsExact
<1>2. ASSUME phase' = "captured"
      PROVE  ~Restart /\ \A w \in Workers : ~Begin(w)
  <2>1. ASSUME Restart
        PROVE  FALSE
    <3>1. CASE sample # 0
      BY <1>2, <2>1, <3>1 DEF Restart, CaptureEnds
    <3>2. CASE sample = 0
      BY <1>2, <2>1, <3>2 DEF Restart, toolVars
    <3> QED
      BY <3>1, <3>2
  <2>2. ASSUME NEW w \in Workers, Begin(w)
        PROVE  FALSE
    BY <1>2, <2>2 DEF Begin, toolVars
  <2> QED
    BY <2>1, <2>2
<1>3. ASSUME phase' = "captured"
      PROVE  Due' = Due
  BY <1>2, <1>3, DueSteps
<1>4. CASE WriteSnapshot
  <2>1. CASE phase = "before"
    BY <1>1, <1>4, <2>1 DEF WriteSnapshot
  <2>2. CASE phase # "before"
    <3>1. phase' = "captured" /\ after' = snapshot /\ sample > Samples
      BY <1>4, <2>2 DEF WriteSnapshot
    <3>2. Due' = Due
      BY <1>3, <3>1
    <3>3. \A s \in Stages : /\ snapshot[s].count <= Due[s].count /\ Exact(snapshot, s)
                            /\ s = First => snapshot[s].count = Due[s].count
      BY <3>1, ScrapeIsOver
    <3>4. \A s \in Stages : Exact(after, s)'
      BY <3>1, <3>2, <3>3 DEF Exact
    <3> QED
      BY <3>1, <3>2, <3>3, <3>4, StageNames DEF CaptureIsExact
  <2> QED
    BY <2>1, <2>2
<1>5. ASSUME ~WriteSnapshot, phase' = "captured"
      PROVE  CaptureIsExact'
  <2>1. phase = "captured"
    <3>1. ASSUME NEW w \in Workers,
                 Begin(w) \/ SendResponse(w) \/ AddDuration(w) \/ AddCount(w)
          PROVE  phase' = phase
      BY <3>1 DEF Begin, SendResponse, AddDuration, AddCount, toolVars
    <3>2. ~StartCapture /\ ~CaptureFails /\ ~Summarize
      BY <1>5 DEF StartCapture, CaptureFails, CaptureEnds, Summarize
    <3>3. Collect \/ Ended \/ UNCHANGED vars => phase' = phase
      BY DEF Collect, Ended, vars, toolVars
    <3> QED
      BY <1>2, <1>5, <3>1, <3>2, <3>3 DEF Next
  <2>2. Due' = Due /\ after' = after
    BY <1>3, <1>5, WhereItChanges
  <2>3. \A s \in Stages : Exact(after, s)' <=> Exact(after, s)
    BY <2>2 DEF Exact
  <2> QED
    BY <2>1, <2>2, <2>3 DEF CaptureIsExact
<1> QED
  BY <1>1, <1>4, <1>5

-----------------------------------------------------------------------------
(* What summarize accepts. *)

\* The difference of the captures, when it is accepted.
LEMMA DeltaAt ==
  ASSUME CoverInv, NEW s \in Stages
  PROVE  /\ after[s].count \in Nat /\ after[s].total_ns \in Nat
         /\ before[s].count \in Nat /\ before[s].total_ns \in Nat
         /\ Delta[s].count = after[s].count - before[s].count
         /\ Delta[s].total_ns = after[s].total_ns - before[s].total_ns
<1>1. before \in Counters /\ after \in Counters
  BY DEF CoverInv, Counters
<1>2. /\ after[s].count \in Nat /\ after[s].total_ns \in Nat
      /\ before[s].count \in Nat /\ before[s].total_ns \in Nat
  BY <1>1, StageNames DEF Counters
<1>3. /\ Delta[s].count = after[s].count - before[s].count
      /\ Delta[s].total_ns = after[s].total_ns - before[s].total_ns
  BY StageNames DEF Delta
<1> QED
  BY <1>2, <1>3

\* Without a restart, equal counts are those of the first stage, which has
\* counted every request: no stage has anything left out.
LEMMA AcceptedIsLoad ==
  ASSUME CoverInv, PhasesAreQuiet, SameTimes, LoadIsDue, CaptureIsExact,
         phase = "captured", ~restarted, CountsAgree, Delta \in Counters
  PROVE  /\ Delta = load /\ \A s \in Stages : load[s].count = loaded
<1>1. /\ load \in Counters /\ load[First].count = loaded
      /\ \A s \in Stages : load[s].count <= loaded
  BY DEF SameTimes, Counters
<1>2. \A s \in Stages : load[s].count \in Nat /\ load[s].total_ns \in Nat
  BY <1>1, StageNames DEF Counters
<1>3. \A s \in Stages : /\ Due[s].count = before[s].count + load[s].count
                        /\ Due[s].total_ns = before[s].total_ns + load[s].total_ns
  BY StageNames DEF LoadIsDue
<1>4. /\ \A s \in Stages : after[s].count <= Due[s].count /\ Exact(after, s)
      /\ after[First].count = Due[First].count
  BY DEF CaptureIsExact
<1>5. Delta[First].count = loaded /\ loaded \in Nat
  <2>1. /\ after[First].count \in Nat /\ before[First].count \in Nat
        /\ Delta[First].count = after[First].count - before[First].count
    BY DeltaAt, StageNames
  <2>2. Due[First].count = before[First].count + load[First].count /\ load[First].count \in Nat
    BY <1>2, <1>3, StageNames
  <2> QED
    BY <1>1, <1>4, <2>1, <2>2
<1>6. ASSUME NEW s \in Stages
      PROVE  /\ load[s].count = loaded
             /\ Delta[s].count = load[s].count /\ Delta[s].total_ns = load[s].total_ns
  <2>1. Delta[s].count = loaded
    BY <1>5, StageNames DEF CountsAgree
  <2>2. /\ after[s].count \in Nat /\ after[s].total_ns \in Nat
        /\ before[s].count \in Nat /\ before[s].total_ns \in Nat
        /\ Delta[s].count = after[s].count - before[s].count
        /\ Delta[s].total_ns = after[s].total_ns - before[s].total_ns
    BY DeltaAt
  <2>3. /\ Due[s].count = before[s].count + load[s].count
        /\ Due[s].total_ns = before[s].total_ns + load[s].total_ns
        /\ after[s].count <= Due[s].count /\ load[s].count <= loaded
        /\ load[s].count \in Nat /\ load[s].total_ns \in Nat
    BY <1>1, <1>2, <1>3, <1>4
  <2>4. load[s].count = loaded /\ after[s].count = Due[s].count
    <3>1. /\ after[s].count \in Nat /\ before[s].count \in Nat
          /\ load[s].count \in Nat /\ loaded \in Nat
          /\ after[s].count - before[s].count = loaded
      BY <1>5, <2>1, <2>2, <2>3
    <3>2. after[s].count <= before[s].count + load[s].count /\ load[s].count <= loaded
      BY <2>3
    <3>3. load[s].count = loaded
      BY <3>1, <3>2
    <3>4. after[s].count = before[s].count + load[s].count
      BY <3>1, <3>3
    <3> QED
      BY <2>3, <3>3, <3>4
  <2>5. after[s].total_ns = Due[s].total_ns
    BY <1>4, <2>4 DEF Exact
  <2> QED
    BY <2>1, <2>2, <2>3, <2>4, <2>5
<1> HIDE DEF Delta
<1> QED
  BY <1>1, <1>6, SameCounters

\* The answers when the second capture is done: nobody waits for one.
LEMMA CapturedAnswers ==
  ASSUME CoverInv, PhasesAreQuiet, LoadIsDue, phase = "captured"
  PROVE  /\ valid.count \in Nat /\ valid.total_ns \in Nat
         /\ Due["extproc_send"].count - Base("count") <= valid.count
         /\ Due["extproc_send"].count - Base("count") = valid.count =>
              Due["extproc_send"].total_ns - Base("total_ns") = valid.total_ns
<1>1. \A w \in Workers : Answered(w)
  BY DEF PhasesAreQuiet
<1>2. Sum(Unanswered("count")) = 0 /\ Sum(Unanswered("total_ns")) = 0
  BY <1>1, QuietOwes
<1>3. /\ valid.count \in Nat /\ valid.total_ns \in Nat
      /\ Answers.count = valid.count + Sum(Unanswered("count"))
      /\ Answers.total_ns = valid.total_ns + Sum(Unanswered("total_ns"))
  BY DueAt DEF DueFacts
<1>4. Answers.count = valid.count /\ Answers.total_ns = valid.total_ns
  BY <1>2, <1>3
<1> QED
  BY <1>3, <1>4 DEF LoadIsDue

\* With the number of valid answers given, the difference is that of the
\* answers, also after a restart when every request of the load has come through
\* every stage: then the first capture was of a VSR that had counted nothing.
LEMMA ExpectedIsValid ==
  ASSUME CoverInv, PhasesAreQuiet, SameTimes, LoadIsDue, CaptureIsExact,
         phase = "captured", CountsAgree, Delta \in Counters,
         Delta["request_body_total"].count > 0,
         MatchesExpected(Delta["request_body_total"].count),
         restarted => SameCounts(load), NEW s \in Stages
  PROVE  Delta[s] = valid
<1> DEFINE Sent == "extproc_send"
<1>1. Sent \in Stages /\ "request_body_total" \in Stages
  BY StageNames
<1>2. Delta[s].count = valid.count /\ Delta[Sent].count = valid.count /\ valid.count > 0
  BY <1>1 DEF MatchesExpected, CountsAgree
<1>3. /\ valid.count \in Nat /\ valid.total_ns \in Nat
      /\ Due[Sent].count - Base("count") <= valid.count
      /\ Due[Sent].count - Base("count") = valid.count =>
           Due[Sent].total_ns - Base("total_ns") = valid.total_ns
  BY CapturedAnswers
<1>4. \A t \in Stages :
        /\ Due[t].count \in Nat /\ Due[t].total_ns \in Nat
        /\ after[t].count <= Due[t].count
        /\ after[t].count = Due[t].count => after[t].total_ns = Due[t].total_ns
        /\ before[t].count = 0 => before[t].total_ns = 0
  BY ValueIsBehind DEF CaptureIsExact, Exact, SameTimes
<1>5. Delta[s].total_ns = valid.total_ns
  <2>1. CASE ~restarted
    <3>1. Delta = load /\ \A t \in Stages : load[t].count = loaded
      BY <2>1, AcceptedIsLoad
    <3>2. /\ load[s].total_ns = load[First].total_ns
          /\ load[Sent].total_ns = load[First].total_ns
      BY <1>1, <3>1 DEF SameTimes
    <3>3. /\ Due[Sent].count = before[Sent].count + load[Sent].count
          /\ Due[Sent].total_ns = before[Sent].total_ns + load[Sent].total_ns
      BY <1>1, <2>1, StageNames DEF LoadIsDue
    <3>4. Base("count") = before[Sent].count /\ Base("total_ns") = before[Sent].total_ns
      BY <2>1 DEF Base
    <3>5. /\ before[Sent].count \in Nat /\ before[Sent].total_ns \in Nat
      BY <1>1, DeltaAt
    <3>6. load[Sent].count = valid.count
      BY <1>2, <3>1
    <3>7. load[Sent].total_ns \in Nat
      BY <1>1, StageNames DEF SameTimes
    <3>8. load[Sent].total_ns = valid.total_ns
      BY <1>3, <3>3, <3>4, <3>5, <3>6, <3>7
    <3> QED
      BY <3>1, <3>2, <3>8
  <2>2. CASE restarted
    <3>1. Due[s] = Due[Sent]
      BY <1>1, <2>2 DEF LoadIsDue
    <3>2. Base("count") = 0 /\ Base("total_ns") = 0
      BY <2>2 DEF Base
    <3>3. /\ after[s].count \in Nat /\ after[s].total_ns \in Nat
          /\ before[s].count \in Nat /\ before[s].total_ns \in Nat
          /\ Delta[s].count = after[s].count - before[s].count
          /\ Delta[s].total_ns = after[s].total_ns - before[s].total_ns
      BY DeltaAt
    <3>4. Due[s].count <= valid.count /\ Due[s].count \in Nat /\ after[s].count <= Due[s].count
      BY <1>1, <1>3, <1>4, <3>1, <3>2
    <3>5. before[s].count = 0 /\ after[s].count = Due[s].count /\ Due[s].count = valid.count
      BY <1>2, <1>3, <3>3, <3>4
    <3>6. before[s].total_ns = 0 /\ after[s].total_ns = Due[s].total_ns
      BY <1>4, <3>5
    <3>7. Due[s].total_ns = valid.total_ns
      <4>1. Due[Sent].count = valid.count
        BY <3>1, <3>5
      <4>2. Due[Sent].total_ns = valid.total_ns
        BY <1>1, <1>3, <1>4, <3>2, <4>1
      <4> QED
        BY <3>1, <4>2
    <3> QED
      BY <3>3, <3>6, <3>7
  <2> QED
    BY <2>1, <2>2
<1>6. Delta[s] \in [Metrics -> Nat] /\ valid \in [Metrics -> Nat]
  BY DEF CoverInv, TypeOK, Counters
<1> HIDE DEF Delta
<1> QED
  BY <1>2, <1>5, <1>6, StageNames

\* What the result says of the load does not change any more.
LEMMA DoneIsStill ==
  ASSUME CoverInv, PhasesAreQuiet, [Next]_vars, ~Summarize, result' # NoResult
  PROVE  UNCHANGED << result, load, loaded, valid, restarted >>
<1>1. result' = result /\ phase = "done"
  BY WhereItChanges DEF PhasesAreQuiet
<1>2. ~Restart /\ \A w \in Workers : ~Begin(w)
  BY <1>1 DEF Restart, Begin
<1>3. UNCHANGED valid
  BY <1>1, WhereItChanges DEF SendResponse
<1> QED
  BY <1>1, <1>2, <1>3, WhereItChanges

\* The three properties of the summary.
LEMMA SummaryStep ==
  ASSUME SummaryInv, [Next]_vars
  PROVE  SummaryIsExact' /\ ExpectedIsExact' /\ AcceptedMeansAllStages'
<1> DEFINE Goal == SummaryIsExact /\ ExpectedIsExact /\ AcceptedMeansAllStages
<1> SUFFICES Goal'
  OBVIOUS
<1>0. /\ CoverInv /\ PhasesAreQuiet /\ SameTimes /\ LoadIsDue /\ CaptureIsExact
      /\ SummaryIsExact /\ ExpectedIsExact /\ AcceptedMeansAllStages
  BY DEF SummaryInv
<1>1. CASE result' = NoResult
  BY <1>1 DEF SummaryIsExact, ExpectedIsExact, AcceptedMeansAllStages
<1>2. ASSUME result' # NoResult, ~Summarize
      PROVE  Goal'
  <2>1. UNCHANGED << result, load, loaded, valid, restarted >>
    BY <1>0, <1>2, DoneIsStill
  <2> QED
    BY <1>0, <2>1 DEF SummaryIsExact, ExpectedIsExact, AcceptedMeansAllStages
<1>3. ASSUME result' # NoResult, Summarize
      PROVE  Goal'
  <2>1. phase = "captured" /\ result = NoResult
    BY <1>0, <1>3 DEF Summarize, PhasesAreQuiet
  <2>2. phase' = "done"
    BY <1>3, <2>1 DEF Summarize
  <2>3. /\ result'.stages = Delta /\ Delta \in Counters
        /\ result'.request_parsing = Parsing(Delta)
        /\ result'.completed_requests = Delta["request_body_total"].count
        /\ CountsAgree /\ Delta["request_body_total"].count > 0
        /\ result'.expected => MatchesExpected(Delta["request_body_total"].count)
    BY <1>0, <1>3, <2>2, AcceptedDelta
  <2>4. UNCHANGED << load, loaded, valid, restarted >>
    BY <1>3 DEF Summarize, history
  <2>5. ~restarted => Delta = load /\ \A s \in Stages : load[s].count = loaded
    BY <1>0, <2>1, <2>3, AcceptedIsLoad
  <2>6. SummaryIsExact'
    BY <2>3, <2>4, <2>5 DEF SummaryIsExact
  <2>7. ASSUME result'.expected,
               restarted' => \A s, t \in Stages : load'[s].count = load'[t].count,
               NEW s \in Stages
        PROVE  result'.stages[s] = valid'
    <3>1. restarted => SameCounts(load)
      BY <2>4, <2>7 DEF SameCounts
    <3> QED
      BY <1>0, <2>1, <2>3, <2>4, <2>7, <3>1, ExpectedIsValid
  <2>8. ExpectedIsExact'
    BY <2>7 DEF ExpectedIsExact
  <2>9. AcceptedMeansAllStages'
    BY <2>3, <2>4, <2>5, StageNames DEF AcceptedMeansAllStages
  <2> QED
    BY <2>6, <2>8, <2>9
<1> QED
  BY <1>1, <1>2, <1>3

LEMMA SummaryInit ==
  ASSUME Init
  PROVE  SummaryInv
<1>1. CoverInv
  BY CoverInit
<1>2. /\ sample = 0 /\ phase = "warmup" /\ result = NoResult /\ restarted = FALSE /\ loaded = 0
      /\ value = Zero /\ before = Zero /\ load = Zero /\ valid = NoAnswers
      /\ request = [w \in Workers |-> NoRequest]
  BY DEF Init
<1>3. PhasesAreQuiet
  BY <1>2 DEF PhasesAreQuiet
<1>4. \A s \in Stages : Due[s].count = 0 /\ Due[s].total_ns = 0
  <2>1. \A w \in Workers : ~Busy(w)
    BY <1>2 DEF Busy, NoRequest
  <2>2. \A s : Sum(Owes(s, "count")) = 0 /\ Sum(Owes(s, "total_ns")) = 0
    BY <1>1, <2>1, QuietOwes
  <2> QED
    BY <1>1, <1>2, <2>2, DueAt, ZeroCounters DEF DueFacts
<1>5. valid.count = 0 /\ valid.total_ns = 0
  BY <1>2, StageNames DEF NoAnswers
<1>6. SameTimes
  BY <1>2, <1>4, <1>5, ZeroCounters, StageNames DEF SameTimes, Counters
<1>7. LoadIsDue /\ ScrapeIsExact /\ CaptureIsExact
  BY <1>2 DEF LoadIsDue, ScrapeIsExact, CaptureIsExact
<1>8. SummaryIsExact /\ ExpectedIsExact /\ AcceptedMeansAllStages
  BY <1>2 DEF SummaryIsExact, ExpectedIsExact, AcceptedMeansAllStages
<1> QED
  BY <1>1, <1>3, <1>6, <1>7, <1>8 DEF SummaryInv

\* A first capture that waits for the last observation leaves the counters, the
\* requests under way and the load of the measurement in step until the end.
THEOREM SummaryInvariance ==
  ASSUME "before" \in Settled
  PROVE  Spec => []SummaryInv
<1>1. Init => SummaryInv
  BY SummaryInit
<1>2. SummaryInv /\ [Next]_vars => SummaryInv'
  <2>1. SUFFICES ASSUME SummaryInv, [Next]_vars
                 PROVE  SummaryInv'
    OBVIOUS
  <2>2. CoverInv /\ PhasesAreQuiet /\ SameTimes /\ LoadIsDue /\ ScrapeIsExact /\ CaptureIsExact
    BY <2>1 DEF SummaryInv
  <2>3. CoverInv' /\ PhasesAreQuiet' /\ SameTimes'
    BY <2>1, <2>2, CoverStep, QuietStep, TimesStep
  <2>4. LoadIsDue' /\ ScrapeIsExact' /\ CaptureIsExact'
    BY <2>1, <2>2, LoadStep, ExactStep, CaptureStep
  <2>5. SummaryIsExact' /\ ExpectedIsExact' /\ AcceptedMeansAllStages'
    BY <2>1, SummaryStep
  <2> QED
    BY <2>3, <2>4, <2>5 DEF SummaryInv
<1> QED
  BY <1>1, <1>2, PTL DEF Spec

\* What summarize_snapshots accepts is, stage by stage, what the requests between
\* the captures have observed, however many they are, however they overlap and
\* wherever the second capture falls, as long as the VSR was not restarted.
THEOREM SummaryExact ==
  ASSUME "before" \in Settled
  PROVE  Spec => []SummaryIsExact
<1>1. SummaryInv => SummaryIsExact
  BY DEF SummaryInv
<1> QED
  BY <1>1, SummaryInvariance, PTL

\* With --expected-completed every stage of the summary is that of the valid
\* answers, also when the VSR was restarted in between, unless a request of the
\* load has failed as well.
THEOREM ExpectedExact ==
  ASSUME "before" \in Settled
  PROVE  Spec => []ExpectedIsExact
<1>1. SummaryInv => ExpectedIsExact
  BY DEF SummaryInv
<1> QED
  BY <1>1, SummaryInvariance, PTL

\* The check that the counts of the stages are equal refuses every measurement
\* in which a request failed or was answered early.
THEOREM AllStagesAccepted ==
  ASSUME "before" \in Settled
  PROVE  Spec => []AcceptedMeansAllStages
<1>1. SummaryInv => AcceptedMeansAllStages
  BY DEF SummaryInv
<1> QED
  BY <1>1, SummaryInvariance, PTL
=============================================================================
