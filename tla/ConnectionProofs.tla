-------------------------- MODULE ConnectionProofs --------------------------
(***************************************************************************)
(* Proofs about Connection, for every number of backends, every length of  *)
(* requests and responses and every number of requests.                    *)
(***************************************************************************)
EXTENDS Connection, Totals

-----------------------------------------------------------------------------
(* Arithmetic and sums over the backends. *)

\* A connection has a backend, and requests and responses are not empty.
LEMMA ConnectionConstants ==
  /\ NumBackends \in Nat /\ NumBackends >= 1 /\ MaxRequests \in Nat
  /\ RequestLen \in Nat /\ RequestLen >= 1 /\ ResponseLen \in Nat /\ ResponseLen >= 1
  /\ MaxRequests * RequestLen \in Nat /\ MaxRequests * ResponseLen \in Nat
  /\ IsFiniteSet(Backends) /\ Cardinality(Backends) = NumBackends
  /\ NoDecision \notin Backends
<1>1. /\ NumBackends \in Nat /\ NumBackends >= 1 /\ MaxRequests \in Nat
      /\ RequestLen \in Nat /\ RequestLen >= 1 /\ ResponseLen \in Nat /\ ResponseLen >= 1
  BY ConnectionAssumption
<1>2. IsFiniteSet(Backends) /\ Cardinality(Backends) = NumBackends
  BY <1>1, FS_Interval DEF Backends
<1> QED
  BY <1>1, <1>2 DEF Backends, NoDecision

\* Requests and responses are counted in multiples of their lengths.
LEMMA Multiples ==
  ASSUME NEW k \in Nat, NEW n \in Nat, NEW len \in Nat, len >= 1
  PROVE  /\ k * len \in Nat /\ (k + 1) * len = k * len + len
         /\ k <= n <=> k * len <= n * len
<1>1. k * len \in Nat /\ n * len \in Nat /\ (k + 1) * len = k * len + len
  OBVIOUS
<1>2. ASSUME NEW i \in Nat, NEW j \in Nat, i <= j
      PROVE  i * len <= j * len
  <2> DEFINE d == j - i
  <2>1. d \in Nat /\ j = i + d
    BY <1>2
  <2> HIDE DEF d
  <2>2. (i + d) * len = i * len + d * len /\ d * len \in Nat /\ i * len \in Nat
    BY <2>1
  <2> QED
    BY <2>1, <2>2
<1>3. ASSUME k > n
      PROVE  n * len < k * len
  <2>1. (n + 1) * len <= k * len
    BY <1>2, <1>3
  <2>2. (n + 1) * len = n * len + len
    OBVIOUS
  <2> QED
    BY <1>1, <2>1, <2>2
<1> QED
  BY <1>1, <1>2, <1>3

\* The sum over the backends is a sum in the sense of Totals.
LEMMA SumIsTotal ==
  ASSUME NEW f
  PROVE  Sum(f) = Total(f, Backends)
  BY DEF Sum, Total

\* One backend changed.
LEMMA SumChange ==
  ASSUME NEW f \in [Backends -> Int], NEW h \in [Backends -> Int], NEW b \in Backends,
         \A c \in Backends \ {b} : h[c] = f[c]
  PROVE  /\ Sum(f) \in Int /\ Sum(h) \in Int
         /\ Sum(h) = Sum(f) - f[b] + h[b]
  BY ConnectionConstants, SumIsTotal, TotalUpdate, TotalType

-----------------------------------------------------------------------------
(* What the actions leave alone. *)

\* The thread only reads what the client, the programs and the backends do.
LEMMA ThreadFrame ==
  ASSUME Thread
  PROVE  UNCHANGED << clientVars, read, taken, decision, lifecycleVars, backendVars,
                      backlog, inflight >>
<1>1. CASE InstallSlot \/ Peek
  BY <1>1 DEF InstallSlot, Peek, SetupFrame, clientVars, lifecycleVars, backendVars, sendVars
<1>2. CASE Poll
  BY <1>2 DEF Poll, PollClient, PollInfo, PollLifecycle, PollShutdown, PollBackends,
     PollReceived, PollFrame, clientVars, parserVars, lifecycleVars, backendVars
<1> QED
  BY <1>1, <1>2 DEF Thread

\* The others leave the thread where it is, and stop when the connection is
\* reaped.
LEMMA OthersFrame ==
  ASSUME Client \/ Programs \/ Kernel \/ Servers
  PROVE  Alive /\ UNCHANGED << pc, setVars, pollVars >>
<1>1. CASE Client
  BY <1>1 DEF Client, Send, CloseWrite, Vanish, Ack, ClientFrame
<1>2. CASE Programs
  BY <1>2 DEF Programs, Parse, Verdict, RedirectResponse
<1>3. CASE Kernel
  BY <1>3 DEF Kernel, BacklogToClient, BacklogToBackend, BackendFrame
<1>4. CASE Servers
  BY <1>4 DEF Servers, Reply, BackendCloses, BackendFrame
<1> QED
  BY <1>1, <1>2, <1>3, <1>4

\* The conditions that a connection meets with stay the same.
LEMMA ConditionsStay ==
  ASSUME [Next]_vars
  PROVE  conditions' = conditions
<1>1. CASE Thread
  BY <1>1 DEF Thread, InstallSlot, Peek, SetupFrame, Poll, PollClient, PollInfo, PollLifecycle,
     PollShutdown, PollBackends, PollReceived, PollFrame
<1>2. CASE Client \/ Programs \/ Kernel \/ Servers
  BY <1>2, OthersFrame DEF setVars
<1> QED
  BY <1>1, <1>2 DEF Next, Reaped, vars, setVars

-----------------------------------------------------------------------------
(* The parts of the invariant, one lemma each. *)

\* The slots are counted up to the client's and the backends'.
LEMMA SlotsInOrderStep ==
  ASSUME ResponseInv, [Next]_vars
  PROVE  SlotsInOrder' /\ installed' \in 0 .. NumBackends + 1
<1> USE ConnectionConstants DEF ResponseInv, TypeOK, SlotsInOrder
<1>1. CASE InstallSlot \/ Peek
  BY <1>1 DEF InstallSlot, Peek
<1>2. CASE Poll
  BY <1>2 DEF Poll, PollClient, PollInfo, PollLifecycle, PollShutdown, PollBackends,
     PollReceived, PollFrame, ReapBecause, EndOfPoll
<1>3. CASE Client \/ Programs \/ Kernel \/ Servers
  BY <1>3, OthersFrame DEF setVars
<1>4. CASE Reaped \/ UNCHANGED vars
  BY <1>4 DEF Reaped, vars, setVars
<1> QED
  BY <1>1, <1>2, <1>3, <1>4 DEF Next, Thread

\* The parser decides only on requests that are there completely, and the
\* client adds to what was sent, so the verdict never gets ahead of it.
LEMMA ParserIsBehindStep ==
  ASSUME ResponseInv, [Next]_vars
  PROVE  /\ ParserIsBehind'
         /\ { sent, early, read, taken, request_bytes_processed }' \subseteq Units
         /\ decision' \in Backends \cup {NoDecision} /\ ready' \in BOOLEAN
<1>0. /\ sent \in Nat /\ early \in Nat /\ read \in Nat /\ taken \in Nat
      /\ request_bytes_processed \in Nat /\ sent <= MaxRequests * RequestLen
      /\ { sent, early, read, taken, request_bytes_processed } \subseteq Units
      /\ decision \in Backends \cup {NoDecision} /\ ready \in BOOLEAN
      /\ RequestLen \in Nat /\ RequestLen >= 1 /\ MaxRequests * RequestLen \in Nat
      /\ NoDecision \notin Backends /\ ParserIsBehind
  BY ConnectionConstants DEF ResponseInv, TypeOK, Units
<1> USE DEF ParserIsBehind, Units
<1>1. CASE Thread
  <2>1. ready' \in BOOLEAN
    BY <1>0, <1>1 DEF Thread, InstallSlot, Peek, Poll, PollClient, PollInfo, PollLifecycle,
       PollShutdown, PollBackends, PollReceived, PollFrame, parserVars
  <2> QED
    BY <1>0, <1>1, <2>1, ThreadFrame DEF clientVars, lifecycleVars
<1>2. CASE Send
  BY <1>0, <1>2 DEF Send, ClientFrame, lifecycleVars
<1>3. CASE Parse
  <2>1. ready' \in BOOLEAN /\ UNCHANGED << sent, early, taken >> /\ read' = sent
    BY <1>3 DEF Parse, clientVars
  <2>2. CASE sent - taken < RequestLen
    <3>1. request_bytes_processed' = sent - taken /\ decision' = decision
      BY <1>3, <2>2 DEF Parse
    <3> QED
      BY <1>0, <2>1, <2>2, <3>1
  <2>3. CASE ~ (sent - taken < RequestLen)
    <3>1. decision' \in Backends /\ UNCHANGED request_bytes_processed
      BY <1>3, <2>3 DEF Parse
    <3> QED
      BY <1>0, <2>1, <2>3, <3>1
  <2> QED
    BY <2>2, <2>3
<1>4. CASE Verdict
  BY <1>0, <1>4 DEF Verdict, clientVars
<1>5. CASE UNCHANGED << sent, early, parserVars, lifecycleVars >>
  BY <1>0, <1>5 DEF parserVars, lifecycleVars
<1>6. CASE UNCHANGED << sent, early, parserVars, request_bytes_processed >>
  BY <1>0, <1>6 DEF parserVars
<1>7. ASSUME \/ CloseWrite \/ Vanish \/ Ack \/ Kernel \/ Servers \/ Reaped \/ UNCHANGED vars
             \/ \E b \in Backends : RedirectResponse(b)
      PROVE  UNCHANGED << sent, early, parserVars, request_bytes_processed >>
  BY <1>7 DEF CloseWrite, Vanish, Ack, ClientFrame, Kernel, BacklogToClient, BacklogToBackend,
     BackendFrame, Servers, Reply, BackendCloses, Reaped, RedirectResponse, vars, clientVars,
     parserVars, lifecycleVars
<1> QED
  BY <1>1, <1>2, <1>3, <1>4, <1>5, <1>6, <1>7 DEF Next, Client, Programs

\* A backend that has ended writes no more, and resets only where it may.
LEMMA EndedIsSilentStep ==
  ASSUME ResponseInv, [Next]_vars
  PROVE  EndedIsSilent'
<1> SUFFICES ASSUME NEW b \in Backends
             PROVE  /\ backend_end'[b] # "open" => owed'[b] = 0
                    /\ backend_end'[b] = "reset" => ResetsAllowed
  BY ConditionsStay DEF EndedIsSilent, ResetsAllowed
<1>0. /\ owed \in [Backends -> Nat]
      /\ backend_end \in [Backends -> { "open", "fin", "reset" }]
      /\ backend_end[b] # "open" => owed[b] = 0
      /\ backend_end[b] = "reset" => ResetsAllowed
  BY ConnectionConstants DEF ResponseInv, TypeOK, EndedIsSilent, ResponseUnits
<1>1. ASSUME NEW c \in Backends, BacklogToBackend(c) \/ Reply(c) \/ BackendCloses(c)
      PROVE  /\ backend_end'[b] # "open" => owed'[b] = 0
             /\ backend_end'[b] = "reset" => ResetsAllowed
  <2>1. CASE BacklogToBackend(c)
    BY <1>0, <2>1 DEF BacklogToBackend
  <2>2. CASE Reply(c)
    BY <1>0, <2>2 DEF Reply
  <2>3. CASE BackendCloses(c)
    BY <1>0, <2>3 DEF BackendCloses
  <2> QED
    BY <1>1, <2>1, <2>2, <2>3
<1>2. ASSUME Thread \/ Client \/ Programs \/ BacklogToClient \/ Reaped \/ UNCHANGED vars
      PROVE  UNCHANGED << owed, backend_end >>
  BY <1>2, ThreadFrame DEF Client, Send, CloseWrite, Vanish, Ack, ClientFrame, Programs, Parse,
     Verdict, RedirectResponse, BacklogToClient, Reaped, vars, backendVars
<1>3. CASE UNCHANGED << owed, backend_end >>
  BY <1>0, <1>3
<1> QED
  BY <1>1, <1>2, <1>3 DEF Next, Kernel, Servers

-----------------------------------------------------------------------------
(* The units on their way. *)

\* The queues and counters without their bounds, which follow from the sums.
Numbers ==
  /\ outbox \in [Backends -> Nat] /\ owed \in [Backends -> Nat]
  /\ unread \in [Backends -> Nat] /\ bytes_received \in [Backends -> Nat]
  /\ backend_end \in [Backends -> { "open", "fin", "reset" }]
  /\ acked \in Nat /\ response_bytes_forwarded \in Nat /\ backlog \in Nat /\ inflight \in Nat

\* The bounded types are numbers.
LEMMA TypesAreNumbers ==
  ASSUME TypeOK
  PROVE  Numbers
<1>1. ResponseUnits \subseteq Nat /\ 0 .. MaxRequests \subseteq Nat
      /\ 0 .. MaxRequests * ResponseLen + 1 \subseteq Nat
  BY ConnectionConstants DEF ResponseUnits
<1> QED
  BY <1>1 DEF TypeOK, Numbers

\* Queues and counters stay natural numbers: what is taken was there.
LEMMA NumbersStep ==
  ASSUME TypeOK, [Next]_vars
  PROVE  Numbers'
<1>0. Numbers /\ ResponseLen \in Nat
  BY TypesAreNumbers, ConnectionConstants
<1> USE DEF Numbers
<1>1. ASSUME NEW b \in Backends, RedirectResponse(b) \/ BacklogToBackend(b)
      PROVE  Numbers'
  <2>1. outbox[b] \in Nat /\ owed[b] \in Nat /\ unread[b] \in Nat
    BY <1>0
  <2>2. CASE RedirectResponse(b)
    BY <1>0, <2>1, <2>2 DEF RedirectResponse, backendVars, clientVars
  <2>3. CASE BacklogToBackend(b)
    BY <1>0, <2>1, <2>3 DEF BacklogToBackend, BackendFrame, clientVars, lifecycleVars, sendVars
  <2> QED
    BY <1>1, <2>2, <2>3
<1>2. ASSUME NEW b \in Backends, Reply(b) \/ BackendCloses(b)
      PROVE  Numbers'
  <2>1. owed[b] \in Nat /\ unread[b] \in Nat /\ bytes_received[b] \in Nat
    BY <1>0
  <2>2. CASE Reply(b)
    BY <1>0, <2>1, <2>2 DEF Reply, BackendFrame, clientVars, lifecycleVars, sendVars
  <2>3. CASE BackendCloses(b)
    BY <1>0, <2>1, <2>3 DEF BackendCloses, BackendFrame, clientVars, lifecycleVars, sendVars
  <2> QED
    BY <1>2, <2>2, <2>3
<1>3. CASE Verdict
  <2>1. \A b \in Backends : outbox[b] \in Nat
    BY <1>0
  <2> QED
    BY <1>0, <1>3, <2>1 DEF Verdict, clientVars, sendVars
<1>4. CASE Vanish \/ Ack \/ BacklogToClient
  BY <1>0, <1>4 DEF Vanish, Ack, BacklogToClient, backendVars, lifecycleVars, clientVars
<1>5. CASE UNCHANGED << backendVars, acked, response_bytes_forwarded, backlog, inflight >>
  BY <1>0, <1>5 DEF backendVars
<1>6. ASSUME Thread \/ Send \/ CloseWrite \/ Parse \/ Reaped \/ UNCHANGED vars
      PROVE  UNCHANGED << backendVars, acked, response_bytes_forwarded, backlog, inflight >>
  BY <1>6, ThreadFrame DEF Send, CloseWrite, ClientFrame, Parse, Reaped, vars, clientVars,
     lifecycleVars, sendVars
<1> QED
  BY <1>1, <1>2, <1>3, <1>4, <1>5, <1>6 DEF Next, Client, Programs, Kernel, Servers

\* What a backend got to send and what went on is a number of units.
LEMMA SummandTypes ==
  ASSUME Numbers, \A b \in Backends : unread[b] + FinByte(b) <= bytes_received[b]
  PROVE  Redirected \in [Backends -> Nat] /\ Asked \in [Backends -> Nat]
<1>1. ASSUME NEW b \in Backends
      PROVE  /\ bytes_received[b] - unread[b] - FinByte(b) \in Nat
             /\ outbox[b] * ResponseLen + owed[b] + bytes_received[b] - FinByte(b) \in Nat
  <2>1. /\ bytes_received[b] \in Nat /\ unread[b] \in Nat /\ outbox[b] \in Nat /\ owed[b] \in Nat
        /\ unread[b] + FinByte(b) <= bytes_received[b] /\ FinByte(b) \in {0, 1}
    BY DEF Numbers, FinByte
  <2>2. outbox[b] * ResponseLen \in Nat
    BY <2>1, ConnectionConstants
  <2> QED
    BY <2>1, <2>2
<1> QED
  BY <1>1 DEF Redirected, Asked

\* A step of one backend leaves the summands of the others alone.
LEMMA OneBackend ==
  ASSUME ResponseInv, [Next]_vars, NEW b \in Backends,
         \/ RedirectResponse(b) \/ BacklogToBackend(b) \/ Reply(b) \/ BackendCloses(b)
         \/ Verdict /\ decision = b
  PROVE  /\ \A c \in Backends \ {b} :
              /\ outbox'[c] = outbox[c] /\ unread'[c] = unread[c]
              /\ bytes_received'[c] = bytes_received[c] /\ FinByte(c)' = FinByte(c)
              /\ Redirected'[c] = Redirected[c] /\ Asked'[c] = Asked[c]
         /\ Redirected'[b] = bytes_received'[b] - unread'[b] - FinByte(b)'
         /\ Redirected[b] = bytes_received[b] - unread[b] - FinByte(b)
         /\ Asked'[b] = outbox'[b] * ResponseLen + owed'[b] + bytes_received'[b] - FinByte(b)'
         /\ Asked[b] = outbox[b] * ResponseLen + owed[b] + bytes_received[b] - FinByte(b)
<1>1. Numbers
  BY TypesAreNumbers DEF ResponseInv
<1>2. \A c \in Backends \ {b} :
        /\ outbox'[c] = outbox[c] /\ owed'[c] = owed[c] /\ unread'[c] = unread[c]
        /\ bytes_received'[c] = bytes_received[c] /\ backend_end'[c] = backend_end[c]
  <2>1. CASE RedirectResponse(b)
    BY <1>1, <2>1 DEF RedirectResponse, Numbers
  <2>2. CASE BacklogToBackend(b)
    BY <1>1, <2>2 DEF BacklogToBackend, Numbers
  <2>3. CASE Reply(b)
    BY <1>1, <2>3 DEF Reply, Numbers
  <2>4. CASE BackendCloses(b)
    BY <1>1, <2>4 DEF BackendCloses, Numbers
  <2>5. CASE Verdict /\ decision = b
    BY <1>1, <2>5 DEF Verdict, Numbers
  <2> QED
    BY <2>1, <2>2, <2>3, <2>4, <2>5
<1>3. \A c \in Backends \ {b} : FinByte(c)' = FinByte(c)
  BY <1>2 DEF FinByte
<1> QED
  BY <1>2, <1>3 DEF Redirected, Asked

\* The steps that do not change a sum leave what it is made of alone.
LEMMA SumsFrame ==
  ASSUME Thread \/ Client \/ Parse \/ BacklogToClient \/ Reaped \/ UNCHANGED vars
  PROVE  UNCHANGED << backendVars, taken, response_bytes_forwarded >>
<1>1. CASE Thread
  BY <1>1, ThreadFrame DEF lifecycleVars
<1>2. CASE Client \/ Parse \/ BacklogToClient
  BY <1>2 DEF Client, Send, CloseWrite, Vanish, Ack, ClientFrame, Parse, BacklogToClient,
     lifecycleVars, parserVars
<1>3. CASE Reaped \/ UNCHANGED vars
  BY <1>3 DEF Reaped, vars, parserVars, lifecycleVars
<1> QED
  BY <1>1, <1>2, <1>3

\* A receive queue holds part of the bytes that were received.
LEMMA QueuesStep ==
  ASSUME ResponseInv, [Next]_vars
  PROVE  \A b \in Backends : unread'[b] + FinByte(b)' <= bytes_received'[b]
<1> SUFFICES ASSUME NEW b \in Backends
             PROVE  unread'[b] + FinByte(b)' <= bytes_received'[b]
  OBVIOUS
<1>0. /\ Numbers /\ unread[b] \in Nat /\ bytes_received[b] \in Nat
      /\ unread[b] + FinByte(b) <= bytes_received[b]
  BY TypesAreNumbers DEF ResponseInv, ForwardedIsCounted, Numbers
<1>1. ASSUME NEW c \in Backends,
             RedirectResponse(c) \/ BacklogToBackend(c) \/ Reply(c) \/ BackendCloses(c)
      PROVE  unread'[b] + FinByte(b)' <= bytes_received'[b]
  <2>1. CASE RedirectResponse(c)
    BY <1>0, <2>1 DEF RedirectResponse, Numbers, FinByte
  <2>2. CASE BacklogToBackend(c)
    BY <1>0, <2>2 DEF BacklogToBackend, Numbers, FinByte
  <2>3. CASE Reply(c)
    BY <1>0, <2>3 DEF Reply, Numbers, FinByte
  <2>4. CASE BackendCloses(c)
    BY <1>0, <2>4 DEF BackendCloses, Numbers, FinByte
  <2> QED
    BY <1>1, <2>1, <2>2, <2>3, <2>4
<1>2. CASE UNCHANGED << unread, bytes_received, backend_end >>
  BY <1>0, <1>2 DEF FinByte
<1>3. ASSUME Verdict \/ UNCHANGED backendVars
      PROVE  UNCHANGED << unread, bytes_received, backend_end >>
  BY <1>3 DEF Verdict, backendVars
<1> QED
  BY <1>1, <1>2, <1>3, SumsFrame DEF Next, Programs, Kernel, Servers

\* The units redirected so far are those that the verdict has counted: a reply
\* and a FIN leave the difference alone, a redirect adds to both.
LEMMA RedirectedStep ==
  ASSUME ResponseInv, [Next]_vars
  PROVE  Sum(Redirected)' = response_bytes_forwarded'
<1>0. /\ Numbers /\ Numbers' /\ Redirected \in [Backends -> Int]
      /\ Sum(Redirected) = response_bytes_forwarded
  BY TypesAreNumbers, NumbersStep, SummandTypes DEF ResponseInv, ForwardedIsCounted
<1>1. Redirected' \in [Backends -> Int]
  <2>1. \A b \in Backends : bytes_received'[b] - unread'[b] - FinByte(b)' \in Int
    BY <1>0 DEF Numbers, FinByte
  <2> QED
    BY <2>1 DEF Redirected
<1>2. ASSUME NEW b \in Backends,
             RedirectResponse(b) \/ BacklogToBackend(b) \/ Reply(b) \/ BackendCloses(b)
      PROVE  Sum(Redirected') = response_bytes_forwarded'
  <2>1. Sum(Redirected') = Sum(Redirected) - Redirected[b] + Redirected'[b]
    BY <1>0, <1>1, <1>2, OneBackend, SumChange
  <2>2. /\ Redirected'[b] = bytes_received'[b] - unread'[b] - FinByte(b)'
        /\ Redirected[b] = bytes_received[b] - unread[b] - FinByte(b)
    BY <1>2, OneBackend
  <2>3. unread[b] \in Nat /\ bytes_received[b] \in Nat /\ response_bytes_forwarded \in Nat
    BY <1>0 DEF Numbers
  <2>4. CASE RedirectResponse(b)
    <3>1. /\ unread'[b] = 0 /\ bytes_received'[b] = bytes_received[b]
          /\ FinByte(b)' = FinByte(b)
          /\ response_bytes_forwarded' = response_bytes_forwarded + unread[b]
      BY <1>0, <2>4 DEF RedirectResponse, Numbers, FinByte
    <3>2. FinByte(b) \in Int
      BY DEF FinByte
    <3> QED
      BY <1>0, <2>1, <2>2, <2>3, <3>1, <3>2
  <2>5. CASE BacklogToBackend(b)
    <3>1. /\ unread'[b] = unread[b] /\ bytes_received'[b] = bytes_received[b]
          /\ FinByte(b)' = FinByte(b) /\ FinByte(b) \in Int
          /\ response_bytes_forwarded' = response_bytes_forwarded
      BY <1>0, <2>5 DEF BacklogToBackend, BackendFrame, lifecycleVars, Numbers, FinByte
    <3> QED
      BY <1>0, <2>1, <2>2, <2>3, <3>1
  <2>6. CASE Reply(b)
    <3>1. /\ unread'[b] = unread[b] + 1 /\ bytes_received'[b] = bytes_received[b] + 1
          /\ FinByte(b)' = FinByte(b) /\ FinByte(b) \in Int
          /\ response_bytes_forwarded' = response_bytes_forwarded
      BY <1>0, <2>6 DEF Reply, BackendFrame, lifecycleVars, Numbers, FinByte
    <3> QED
      BY <1>0, <2>1, <2>2, <2>3, <3>1
  <2>7. CASE BackendCloses(b)
    <3>1. /\ unread'[b] = unread[b]
          /\ bytes_received'[b] - FinByte(b)' = bytes_received[b] - FinByte(b)
          /\ FinByte(b) \in Int /\ FinByte(b)' \in Int /\ bytes_received'[b] \in Int
          /\ response_bytes_forwarded' = response_bytes_forwarded
      BY <1>0, <2>7 DEF BackendCloses, BackendFrame, lifecycleVars, Numbers, FinByte
    <3> QED
      BY <1>0, <2>1, <2>2, <2>3, <3>1
  <2> QED
    BY <1>2, <2>4, <2>5, <2>6, <2>7
<1>3. CASE UNCHANGED << unread, bytes_received, backend_end, response_bytes_forwarded >>
  BY <1>0, <1>3 DEF Redirected, FinByte
<1>4. ASSUME Verdict \/ UNCHANGED << backendVars, response_bytes_forwarded >>
      PROVE  UNCHANGED << unread, bytes_received, backend_end, response_bytes_forwarded >>
  BY <1>4 DEF Verdict, backendVars
<1>5. Sum(Redirected') = response_bytes_forwarded'
  BY <1>2, <1>3, <1>4, SumsFrame DEF Next, Programs, Kernel, Servers
<1> QED
  BY <1>5

\* A unit that was forwarded is on the backlog, then in flight, then
\* acknowledged, unless the client goes away.
LEMMA ForwardedIsCountedStep ==
  ASSUME ResponseInv, [Next]_vars
  PROVE  ForwardedIsCounted'
<1>0. /\ acked \in Nat /\ response_bytes_forwarded \in Nat /\ backlog \in Nat
      /\ inflight \in Nat /\ acked + inflight + backlog <= response_bytes_forwarded
      /\ client_end # "gone" => acked + inflight + backlog = response_bytes_forwarded
  BY TypesAreNumbers DEF ResponseInv, ForwardedIsCounted, Numbers
<1> DEFINE Goal == /\ acked + inflight + backlog <= response_bytes_forwarded
                   /\ client_end # "gone" =>
                        acked + inflight + backlog = response_bytes_forwarded
<1> SUFFICES Goal'
  BY QueuesStep, RedirectedStep DEF ForwardedIsCounted
<1>1. CASE Vanish \/ Ack
  BY <1>0, <1>1 DEF Vanish, Ack, lifecycleVars
<1>2. CASE CloseWrite
  BY <1>0, <1>2 DEF CloseWrite, ClientFrame, lifecycleVars, sendVars
<1>3. CASE BacklogToClient
  BY <1>0, <1>3 DEF BacklogToClient, clientVars, lifecycleVars
<1>4. ASSUME NEW b \in Backends, RedirectResponse(b)
      PROVE  Goal'
  <2>1. unread[b] \in Nat
    BY TypesAreNumbers DEF ResponseInv, Numbers
  <2> QED
    BY <1>0, <1>4, <2>1 DEF RedirectResponse, clientVars
<1>5. CASE UNCHANGED << acked, inflight, backlog, response_bytes_forwarded, client_end >>
  BY <1>0, <1>5
<1>6. ASSUME Thread \/ Send \/ Parse \/ Verdict \/ Servers \/ Reaped \/ UNCHANGED vars
             \/ \E b \in Backends : BacklogToBackend(b)
      PROVE  UNCHANGED << acked, inflight, backlog, response_bytes_forwarded, client_end >>
  BY <1>6, ThreadFrame DEF Send, ClientFrame, Parse, Verdict, Servers, Reply, BackendCloses,
     BackendFrame, Reaped, BacklogToBackend, vars, clientVars, lifecycleVars, sendVars
<1> QED
  BY <1>1, <1>2, <1>3, <1>4, <1>5, <1>6 DEF Next, Client, Programs, Kernel

\* A request adds one response to what the backends are asked for, and its
\* way to the backend, the reply and the end of a backend add nothing.
LEMMA AskedStep ==
  ASSUME ResponseInv, [Next]_vars
  PROVE  AskedOncePerRequest'
<1>0. /\ Numbers /\ Numbers' /\ Asked \in [Backends -> Int] /\ outbox \in [Backends -> Int]
      /\ outbox' \in [Backends -> Int]
      /\ ResponseLen \in Nat /\ ResponseLen >= 1 /\ RequestLen \in Nat /\ RequestLen >= 1
      /\ MaxRequests \in Nat
  BY TypesAreNumbers, NumbersStep, SummandTypes, ConnectionConstants
     DEF ResponseInv, ForwardedIsCounted, Numbers
<1>1. Asked' \in [Backends -> Int]
  <2>1. \A b \in Backends :
          outbox'[b] * ResponseLen + owed'[b] + bytes_received'[b] - FinByte(b)' \in Int
    BY <1>0 DEF Numbers, FinByte
  <2> QED
    BY <2>1 DEF Asked
<1>2. PICK k \in 0 .. MaxRequests :
        taken = k * RequestLen /\ Sum(outbox) <= k /\ Sum(Asked) <= k * ResponseLen
  BY DEF ResponseInv, AskedOncePerRequest
<1>3. k \in Nat /\ k * ResponseLen \in Nat
  BY <1>0, <1>2
\* What a step of backend b does to the two sums.
<1>4. ASSUME NEW b \in Backends,
             \/ RedirectResponse(b) \/ BacklogToBackend(b) \/ Reply(b) \/ BackendCloses(b)
             \/ Verdict /\ decision = b
      PROVE  /\ Sum(Asked) \in Int /\ Sum(outbox) \in Int
             /\ Sum(Asked') = Sum(Asked) - Asked[b] + Asked'[b]
             /\ Sum(outbox') = Sum(outbox) - outbox[b] + outbox'[b]
             /\ Asked'[b] = outbox'[b] * ResponseLen + owed'[b]
                              + bytes_received'[b] - FinByte(b)'
             /\ Asked[b] = outbox[b] * ResponseLen + owed[b] + bytes_received[b] - FinByte(b)
             /\ outbox[b] \in Nat /\ owed[b] \in Nat /\ bytes_received[b] \in Nat
             /\ outbox[b] * ResponseLen \in Nat
             /\ (outbox[b] + 1) * ResponseLen = outbox[b] * ResponseLen + ResponseLen
             /\ FinByte(b) \in {0, 1}
  <2>1. Sum(Asked) \in Int /\ Sum(Asked') = Sum(Asked) - Asked[b] + Asked'[b]
    BY <1>0, <1>1, <1>4, OneBackend, SumChange
  <2>2. Sum(outbox) \in Int /\ Sum(outbox') = Sum(outbox) - outbox[b] + outbox'[b]
    BY <1>0, <1>1, <1>4, OneBackend, SumChange
  <2>3. outbox[b] \in Nat /\ owed[b] \in Nat /\ bytes_received[b] \in Nat /\ FinByte(b) \in {0, 1}
    BY <1>0 DEF Numbers, FinByte
  <2> QED
    BY <1>0, <1>4, <2>1, <2>2, <2>3, OneBackend, Multiples
<1>5. ASSUME NEW b \in Backends, Verdict, decision = b
      PROVE  AskedOncePerRequest'
  <2>1. taken' = taken + RequestLen
    BY <1>5 DEF Verdict
  <2>2. /\ k + 1 \in 0 .. MaxRequests /\ taken' = (k + 1) * RequestLen
        /\ (k + 1) * ResponseLen = k * ResponseLen + ResponseLen
    <3> DEFINE p == k * RequestLen
               q == (k + 1) * RequestLen
               r == MaxRequests * RequestLen
    <3>1. q = p + RequestLen /\ p \in Nat /\ r \in Nat
      BY <1>0, <1>3, ConnectionConstants, Multiples
    <3>2. taken + RequestLen <= sent /\ sent \in Nat /\ sent <= r
      BY <1>5, ConnectionConstants DEF Verdict, ResponseInv, ParserIsBehind, TypeOK, Units
    <3>3. q <= r
      <4> HIDE DEF p, q, r
      <4>1. taken = p
        BY <1>2 DEF p
      <4> QED
        BY <1>0, <3>1, <3>2, <4>1
    <3>4. k + 1 \in Nat /\ k + 1 <= MaxRequests
      BY <1>0, <1>3, <3>3, Multiples
    <3>5. (k + 1) * ResponseLen = k * ResponseLen + ResponseLen
      BY <1>0, <1>3, Multiples
    <3> QED
      BY <1>0, <1>2, <2>1, <3>1, <3>4, <3>5
  <2>3. Sum(Asked') <= k * ResponseLen + ResponseLen /\ Sum(outbox') <= k + 1
    <3>1. owed'[b] = owed[b] /\ bytes_received'[b] = bytes_received[b] /\ FinByte(b)' = FinByte(b)
      BY <1>5 DEF Verdict, FinByte
    <3>2. outbox'[b] = outbox[b] + 1 \/ outbox'[b] = outbox[b]
      BY <1>0, <1>5 DEF Verdict, Numbers
    <3>3. /\ Asked'[b] <= Asked[b] + ResponseLen
          /\ Asked'[b] \in Int /\ Asked[b] \in Int
      BY <1>0, <1>4, <1>5, <3>1, <3>2
    <3>4. Sum(outbox') = Sum(outbox) - outbox[b] + outbox'[b] /\ Sum(outbox) \in Int
          /\ Sum(Asked') = Sum(Asked) - Asked[b] + Asked'[b] /\ Sum(Asked) \in Int
          /\ outbox[b] \in Nat
      BY <1>4, <1>5
    <3>5. Sum(outbox') <= k + 1
      BY <1>2, <1>3, <3>2, <3>4
    <3> QED
      BY <1>0, <1>2, <1>3, <3>3, <3>4, <3>5
  <2> QED
    BY <2>2, <2>3 DEF AskedOncePerRequest
<1>6. ASSUME NEW b \in Backends,
             RedirectResponse(b) \/ BacklogToBackend(b) \/ Reply(b) \/ BackendCloses(b)
      PROVE  AskedOncePerRequest'
  <2>1. /\ taken' = taken /\ outbox'[b] <= outbox[b] /\ outbox'[b] \in Int
        /\ Asked'[b] <= Asked[b] /\ Asked'[b] \in Int /\ Asked[b] \in Int
    <3>1. CASE RedirectResponse(b)
      <4>1. UNCHANGED << taken, outbox, owed, bytes_received, backend_end >>
        BY <3>1 DEF RedirectResponse, parserVars
      <4>2. FinByte(b)' = FinByte(b)
        BY <4>1 DEF FinByte
      <4> QED
        BY <1>0, <1>4, <3>1, <4>1, <4>2
    <3>2. CASE BacklogToBackend(b)
      <4>1. /\ outbox'[b] = outbox[b] - 1 /\ outbox'[b] \in Nat
            /\ owed'[b] = owed[b] \/ owed'[b] = owed[b] + ResponseLen
            /\ bytes_received'[b] = bytes_received[b] /\ FinByte(b)' = FinByte(b)
            /\ taken' = taken
        BY <1>0, <3>2 DEF BacklogToBackend, BackendFrame, parserVars, Numbers, FinByte
      <4>2. outbox[b] * ResponseLen = outbox'[b] * ResponseLen + ResponseLen
            /\ outbox'[b] * ResponseLen \in Nat
        <5>1. outbox[b] = outbox'[b] + 1
          BY <1>4, <3>2, <4>1
        <5> QED
          BY <1>0, <4>1, <5>1, Multiples
      <4> QED
        BY <1>0, <1>4, <3>2, <4>1, <4>2
    <3>3. CASE Reply(b)
      <4>1. /\ taken' = taken /\ outbox' = outbox /\ owed'[b] = owed[b] - 1
            /\ bytes_received'[b] = bytes_received[b] + 1 /\ FinByte(b)' = FinByte(b)
        BY <1>0, <3>3 DEF Reply, BackendFrame, parserVars, Numbers, FinByte
      <4> QED
        BY <1>0, <1>4, <3>3, <4>1
    <3>4. CASE BackendCloses(b)
      <4>1. /\ taken' = taken /\ outbox' = outbox /\ owed'[b] = 0
            /\ bytes_received'[b] - FinByte(b)' = bytes_received[b] - FinByte(b)
            /\ bytes_received'[b] \in Nat /\ FinByte(b)' \in {0, 1}
        BY <1>0, <3>4 DEF BackendCloses, BackendFrame, parserVars, Numbers, FinByte
      <4> QED
        BY <1>0, <1>4, <3>4, <4>1
    <3> QED
      BY <1>6, <3>1, <3>2, <3>3, <3>4
  <2>2. Sum(Asked') <= k * ResponseLen /\ Sum(outbox') <= k
    BY <1>2, <1>3, <1>4, <1>6, <2>1
  <2> QED
    BY <1>2, <2>1, <2>2 DEF AskedOncePerRequest
<1>7. CASE UNCHANGED << backendVars, taken >>
  <2>1. Asked' = Asked /\ outbox' = outbox
    BY <1>7 DEF Asked, FinByte, backendVars
  <2> QED
    BY <1>2, <1>7, <2>1 DEF AskedOncePerRequest
<1>8. Verdict => decision \in Backends
  BY DEF Verdict, ResponseInv, TypeOK
<1> QED
  BY <1>5, <1>6, <1>7, <1>8, SumsFrame DEF Next, Programs, Kernel, Servers

-----------------------------------------------------------------------------
(* The bounds of the queues and counters. *)

\* No queue and no counter holds more than all the requests are answered with.
LEMMA SumsBoundQueues ==
  Numbers /\ AskedOncePerRequest /\ ForwardedIsCounted =>
    /\ outbox \in [Backends -> 0 .. MaxRequests]
    /\ owed \in [Backends -> ResponseUnits] /\ unread \in [Backends -> ResponseUnits]
    /\ bytes_received \in [Backends -> 0 .. MaxRequests * ResponseLen + 1]
    /\ { acked, response_bytes_forwarded, backlog, inflight } \subseteq ResponseUnits
<1> SUFFICES ASSUME Numbers, AskedOncePerRequest, ForwardedIsCounted
             PROVE  /\ outbox \in [Backends -> 0 .. MaxRequests]
                    /\ owed \in [Backends -> ResponseUnits]
                    /\ unread \in [Backends -> ResponseUnits]
                    /\ bytes_received \in [Backends -> 0 .. MaxRequests * ResponseLen + 1]
                    /\ { acked, response_bytes_forwarded, backlog, inflight }
                         \subseteq ResponseUnits
  OBVIOUS
<1> DEFINE all == MaxRequests * ResponseLen
<1>1. PICK k \in 0 .. MaxRequests : Sum(outbox) <= k /\ Sum(Asked) <= k * ResponseLen
  BY DEF AskedOncePerRequest
<1>2. /\ k \in Nat /\ k * ResponseLen \in Nat /\ k * ResponseLen <= all /\ all \in Nat
      /\ MaxRequests \in Nat /\ k <= MaxRequests
  BY <1>1, ConnectionConstants, Multiples
<1>3. /\ outbox \in [Backends -> Nat] /\ outbox \in [Backends -> Int]
      /\ Redirected \in [Backends -> Nat] /\ Asked \in [Backends -> Nat]
      /\ Redirected \in [Backends -> Int] /\ Asked \in [Backends -> Int]
  BY SummandTypes DEF Numbers, ForwardedIsCounted
<1>4. /\ \A b \in Backends : outbox[b] <= Sum(outbox) /\ Asked[b] <= Sum(Asked)
      /\ Sum(outbox) \in Nat /\ Sum(Asked) \in Nat
  BY <1>3, ConnectionConstants, SumIsTotal, TotalBounds
<1>5. ASSUME NEW b \in Backends
      PROVE  /\ outbox[b] \in 0 .. MaxRequests /\ owed[b] \in 0 .. all /\ unread[b] \in 0 .. all
             /\ bytes_received[b] \in 0 .. all + 1 /\ Redirected[b] <= Asked[b]
  <2>1. /\ outbox[b] \in Nat /\ owed[b] \in Nat /\ unread[b] \in Nat
        /\ bytes_received[b] \in Nat /\ FinByte(b) \in {0, 1}
        /\ unread[b] + FinByte(b) <= bytes_received[b]
    BY DEF Numbers, ForwardedIsCounted, FinByte
  <2>2. outbox[b] * ResponseLen \in Nat
    BY <2>1, ConnectionConstants
  <2>3. /\ Asked[b] = outbox[b] * ResponseLen + owed[b] + bytes_received[b] - FinByte(b)
        /\ Redirected[b] = bytes_received[b] - unread[b] - FinByte(b)
    BY DEF Asked, Redirected
  <2>4. Asked[b] <= Sum(Asked) /\ Sum(Asked) <= k * ResponseLen /\ outbox[b] <= Sum(outbox)
        /\ Asked[b] \in Nat /\ Sum(outbox) <= k
    BY <1>1, <1>3, <1>4
  <2>5. Asked[b] <= all /\ outbox[b] <= MaxRequests
    <3> HIDE DEF all
    <3> QED
      BY <1>2, <1>4, <2>1, <2>4
  <2> HIDE DEF all
  <2> QED
    BY <1>2, <2>1, <2>2, <2>3, <2>5
<1>6. response_bytes_forwarded \in 0 .. all
  <2>1. Sum(Redirected) <= Sum(Asked)
    BY <1>3, <1>5, ConnectionConstants, SumIsTotal, TotalMonotone
  <2>2. Sum(Redirected) = response_bytes_forwarded /\ response_bytes_forwarded \in Nat
    BY DEF ForwardedIsCounted, Numbers
  <2> HIDE DEF all
  <2> QED
    BY <1>1, <1>2, <1>4, <2>1, <2>2
<1>7. acked \in 0 .. all /\ backlog \in 0 .. all /\ inflight \in 0 .. all
  BY <1>2, <1>6 DEF ForwardedIsCounted, Numbers
<1> QED
  BY <1>5, <1>6, <1>7 DEF Numbers, ResponseUnits

\* ... after a step as well.
LEMMA QueuesStayBounded ==
  ASSUME ResponseInv, [Next]_vars
  PROVE  /\ outbox' \in [Backends -> 0 .. MaxRequests]
         /\ owed' \in [Backends -> ResponseUnits] /\ unread' \in [Backends -> ResponseUnits]
         /\ bytes_received' \in [Backends -> 0 .. MaxRequests * ResponseLen + 1]
         /\ { acked, response_bytes_forwarded, backlog, inflight }' \subseteq ResponseUnits
<1>1. Numbers' /\ AskedOncePerRequest' /\ ForwardedIsCounted'
  BY NumbersStep, AskedStep, ForwardedIsCountedStep DEF ResponseInv
<1>2. (Numbers /\ AskedOncePerRequest /\ ForwardedIsCounted =>
        /\ outbox \in [Backends -> 0 .. MaxRequests]
        /\ owed \in [Backends -> ResponseUnits] /\ unread \in [Backends -> ResponseUnits]
        /\ bytes_received \in [Backends -> 0 .. MaxRequests * ResponseLen + 1]
        /\ { acked, response_bytes_forwarded, backlog, inflight } \subseteq ResponseUnits)'
  BY SumsBoundQueues, PTL
<1>3. ResponseUnits' = ResponseUnits /\ Backends' = Backends
  BY DEF ResponseUnits, Backends
<1> QED
  BY <1>1, <1>2, <1>3

-----------------------------------------------------------------------------
(* What the timer reads. *)

\* The types of the thread's variables, of the client's and of the flags.
LEMMA ThreadTypesStep ==
  ASSUME ResponseInv, [Next]_vars
  PROVE  /\ pc' \in { "connect", "slots", "peek", "loop", "reaped" } \cup PollSteps
         /\ { peer_write_closed, backend_writes_shutdown, drain_confirmed }' \subseteq BOOLEAN
         /\ why' \in Reasons /\ client_end' \in { "open", "half", "gone" }
         /\ flags' \subseteq Flags /\ old' \in BOOLEAN
<1>0. /\ pc \in { "connect", "slots", "peek", "loop", "reaped" } \cup PollSteps
      /\ peer_write_closed \in BOOLEAN /\ backend_writes_shutdown \in BOOLEAN
      /\ drain_confirmed \in BOOLEAN
      /\ why \in Reasons /\ client_end \in { "open", "half", "gone" }
      /\ flags \subseteq Flags /\ old \in BOOLEAN
  BY DEF ResponseInv, TypeOK
<1>1. pc' \in { "connect", "slots", "peek", "loop", "reaped" } \cup PollSteps
  <2>1. CASE Thread
    BY <1>0, <2>1 DEF Thread, InstallSlot, Peek, Poll, PollClient, PollInfo, PollLifecycle,
       PollShutdown, PollBackends, PollReceived, ReapBecause, EndOfPoll, PollSteps
  <2>2. CASE ~Thread
    BY <1>0, <2>2, OthersFrame DEF Next, Reaped, vars
  <2> QED
    BY <2>1, <2>2
<1>2. peer_write_closed' \in BOOLEAN /\ why' \in Reasons
  <2>1. CASE Thread
    <3>1. CASE PollClient
      BY <1>0, <3>1 DEF PollClient, ReapBecause, Reasons
    <3>2. CASE Thread /\ ~PollClient
      BY <1>0, <3>2 DEF Thread, InstallSlot, Peek, SetupFrame, Poll, PollInfo, PollLifecycle,
         PollShutdown, PollBackends, PollReceived, ReapBecause, EndOfPoll, PollClientFrame, Reasons
    <3> QED
      BY <2>1, <3>1, <3>2
  <2>2. CASE ~Thread
    BY <1>0, <2>2, OthersFrame DEF Next, Reaped, vars, setVars
  <2> QED
    BY <2>1, <2>2
<1>3. backend_writes_shutdown' \in BOOLEAN /\ drain_confirmed' \in BOOLEAN
  <2>1. CASE Thread
    BY <1>0, <2>1 DEF Thread, InstallSlot, Peek, SetupFrame, Poll, PollClient, PollInfo,
       PollLifecycle, PollShutdown, PollBackends, PollReceived, PollClientFrame
  <2>2. CASE ~Thread
    BY <1>0, <2>2, OthersFrame DEF Next, Reaped, vars, setVars
  <2> QED
    BY <2>1, <2>2
<1>4. client_end' \in { "open", "half", "gone" } /\ flags' \subseteq Flags
  <2>1. CASE Client \/ Programs
    BY <1>0, <2>1 DEF Client, Send, CloseWrite, Vanish, Ack, ClientFrame, Programs, Parse, Verdict,
       RedirectResponse, clientVars, lifecycleVars, Flags
  <2>2. CASE ~ (Client \/ Programs)
    BY <1>0, <2>2, ThreadFrame DEF Next, Kernel, BacklogToClient, BacklogToBackend, BackendFrame,
       Servers, Reply, BackendCloses, Reaped, vars, clientVars, lifecycleVars
  <2> QED
    BY <2>1, <2>2
<1>5. old' \in BOOLEAN
  <2>1. CASE EndOfPoll \/ BacklogToClient
    <3>1. backlog \in Nat
      BY TypesAreNumbers DEF ResponseInv, Numbers
    <3>2. (backlog > 0) \in BOOLEAN
      BY <3>1
    <3> QED
      BY <2>1, <3>2, Zenon DEF EndOfPoll, BacklogToClient
  <2>2. CASE UNCHANGED old
    BY <1>0, <2>2
  <2>3. EndOfPoll \/ BacklogToClient \/ UNCHANGED old
    BY DEF Next, Thread, InstallSlot, Peek, SetupFrame, sendVars, Poll, PollClient, PollInfo,
       PollLifecycle, PollShutdown, PollBackends, PollReceived, ReapBecause, EndOfPoll, PollFrame,
       Client, Send, CloseWrite, Vanish, Ack, ClientFrame, Programs, Parse, Verdict,
       RedirectResponse, Kernel, BacklogToBackend, BackendFrame, Servers, Reply, BackendCloses,
       Reaped, vars
  <2> QED
    BY <2>1, <2>2, <2>3
<1> QED
  BY <1>1, <1>2, <1>3, <1>4, <1>5

\* The types of what the timer reads.
LEMMA ReadingTypesStep ==
  ASSUME ResponseInv, [Next]_vars
  PROVE  /\ info'.bytes \in 0 .. MaxRequests * RequestLen + 1 /\ info'.pending \in BOOLEAN
         /\ snapshot' \in ResponseUnits /\ backend_complete' \in BOOLEAN
         /\ backend_fin_count' \in 0 .. NumBackends
<1>0. /\ snapshot \in ResponseUnits /\ response_bytes_forwarded \in ResponseUnits
      /\ backend_complete \in BOOLEAN /\ backend_fin_count \in 0 .. NumBackends
      /\ info.bytes \in 0 .. MaxRequests * RequestLen + 1 /\ info.pending \in BOOLEAN
      /\ sent \in 0 .. MaxRequests * RequestLen /\ inflight \in Nat
  BY TypesAreNumbers DEF ResponseInv, TypeOK, Numbers, Units
<1>1. ASSUME NEW n \in 0 .. MaxRequests * RequestLen
      PROVE  n + 1 \in 0 .. MaxRequests * RequestLen + 1
  <2> DEFINE m == MaxRequests * RequestLen
  <2>1. m \in Nat /\ n \in 0 .. m
    BY ConnectionConstants
  <2> HIDE DEF m
  <2>2. n + 1 \in 0 .. m + 1
    BY <2>1
  <2> QED
    BY <2>2 DEF m
<1>2. info'.bytes \in 0 .. MaxRequests * RequestLen + 1 /\ info'.pending \in BOOLEAN
  <2>1. CASE info' = [bytes |-> sent + 1, pending |-> inflight > 0]
    <3>1. info'.bytes = sent + 1 /\ info'.pending = (inflight > 0)
      BY <2>1
    <3>2. sent + 1 \in 0 .. MaxRequests * RequestLen + 1 /\ (inflight > 0) \in BOOLEAN
      BY <1>0, <1>1
    <3> QED
      BY <3>1, <3>2, Zenon
  <2>2. info' = [bytes |-> sent + 1, pending |-> inflight > 0] \/ info' = info
    <3>1. CASE Thread
      BY <3>1 DEF Thread, InstallSlot, Peek, SetupFrame, pollVars, Poll, PollClient, PollInfo,
         PollLifecycle, PollShutdown, PollBackends, PollReceived
    <3>2. CASE ~Thread
      BY <3>2, OthersFrame DEF Next, Reaped, vars, pollVars
    <3> QED
      BY <3>1, <3>2
  <2> QED
    BY <1>0, <2>1, <2>2, Zenon
<1>3. snapshot' \in ResponseUnits
  <2>1. snapshot' = response_bytes_forwarded \/ snapshot' = snapshot
    <3>1. CASE Thread
      BY <3>1 DEF Thread, InstallSlot, Peek, SetupFrame, pollVars, Poll, PollClient, PollClientFrame,
         PollInfo, PollLifecycle, PollShutdown, PollBackends, PollReceived
    <3>2. CASE ~Thread
      BY <3>2, OthersFrame DEF Next, Reaped, vars, pollVars
    <3> QED
      BY <3>1, <3>2
  <2> QED
    BY <1>0, <2>1
<1>4. backend_complete' \in BOOLEAN /\ backend_fin_count' \in 0 .. NumBackends
  <2>1. CASE PollBackends
    <3> DEFINE ended == { b \in Backends : backend_end[b] # "open" }
    <3>1. backend_complete' = (\A b \in Backends : backend_end[b] # "open")
          /\ backend_fin_count' = Cardinality(ended)
      BY <2>1 DEF PollBackends
    <3>2. Cardinality(ended) \in Nat /\ Cardinality(ended) <= NumBackends
      <4>1. ended \subseteq Backends
        OBVIOUS
      <4> QED
        BY <4>1, ConnectionConstants, FS_Subset, FS_CardinalityType
    <3>3. backend_complete' \in BOOLEAN
      BY <3>1, Zenon
    <3> HIDE DEF ended
    <3>4. backend_fin_count' \in 0 .. NumBackends
      BY <3>1, <3>2, ConnectionConstants
    <3> QED
      BY <3>3, <3>4
  <2>2. CASE UNCHANGED << backend_complete, backend_fin_count >>
    BY <1>0, <2>2
  <2>3. PollBackends \/ UNCHANGED << backend_complete, backend_fin_count >>
    <3>1. CASE Thread
      BY <3>1 DEF Thread, InstallSlot, Peek, SetupFrame, pollVars, Poll, PollClient, PollClientFrame,
         PollInfo, PollLifecycle, PollShutdown, PollReceived
    <3>2. CASE ~Thread
      BY <3>2, OthersFrame DEF Next, Reaped, vars, pollVars
    <3> QED
      BY <3>1, <3>2
  <2> QED
    BY <2>1, <2>2, <2>3
<1> QED
  BY <1>2, <1>3, <1>4

\* The client does not come back, and sends nothing after its end.
LEMMA ClientHasEnded ==
  ASSUME [Next]_vars, client_end # "open"
  PROVE  client_end' # "open" /\ sent' = sent
<1>1. Client => client_end' # "open" /\ sent' = sent
  BY DEF Client, Send, CloseWrite, Vanish, Ack
<1>2. Programs \/ Kernel \/ Servers \/ Reaped \/ UNCHANGED vars => UNCHANGED clientVars
  BY DEF Programs, Parse, Verdict, RedirectResponse, Kernel, BacklogToClient, BacklogToBackend,
     BackendFrame, Servers, Reply, BackendCloses, Reaped, vars
<1> QED
  BY <1>1, <1>2, ThreadFrame DEF Next, clientVars

\* A backend that has ended stays so.
LEMMA BackendHasEnded ==
  ASSUME ResponseInv, [Next]_vars, NEW b \in Backends, backend_end[b] # "open"
  PROVE  backend_end'[b] = backend_end[b]
<1>1. ASSUME NEW c \in Backends, BackendCloses(c)
      PROVE  backend_end'[b] = backend_end[b]
  BY <1>1, TypesAreNumbers DEF BackendCloses, Numbers, ResponseInv
<1>2. Verdict \/ Kernel \/ (\E c \in Backends : RedirectResponse(c) \/ Reply(c))
        => UNCHANGED backend_end
  BY DEF Verdict, Kernel, BacklogToClient, BacklogToBackend, RedirectResponse, Reply, backendVars
<1> QED
  BY <1>1, <1>2, SumsFrame DEF Next, Programs, Servers, backendVars

\* The count of forwarded units does not shrink.
LEMMA ForwardedGrows ==
  ASSUME ResponseInv, [Next]_vars
  PROVE  response_bytes_forwarded \in Nat /\ response_bytes_forwarded' \in Nat
         /\ response_bytes_forwarded <= response_bytes_forwarded'
<1>0. Numbers /\ Numbers'
  BY TypesAreNumbers, NumbersStep DEF ResponseInv
<1>1. ASSUME NEW b \in Backends, RedirectResponse(b)
      PROVE  response_bytes_forwarded <= response_bytes_forwarded'
  BY <1>0, <1>1 DEF RedirectResponse, Numbers
<1>2. Verdict \/ Kernel \/ Servers => UNCHANGED response_bytes_forwarded
  BY DEF Verdict, Kernel, BacklogToClient, BacklogToBackend, BackendFrame, Servers, Reply,
     BackendCloses, lifecycleVars
<1> QED
  BY <1>0, <1>1, <1>2, SumsFrame DEF Next, Programs, Numbers

\* What the timer has read still holds when it uses it.
LEMMA ReadingsHoldStep ==
  ASSUME ResponseInv, [Next]_vars
  PROVE  ReadingsHold'
<1>0. ReadingsHold /\ snapshot \in Nat
  BY ConnectionConstants DEF ResponseInv, TypeOK, ResponseUnits
\* The client has ended: the poll begins with that.
<1>1. pc' \in PollSteps => client_end' # "open"
  <2>1. CASE Thread
    <3>1. client_end' = client_end
      BY <2>1, ThreadFrame DEF clientVars
    <3>2. pc' \in PollSteps => client_end # "open"
      BY <1>0, <2>1 DEF Thread, InstallSlot, Peek, Poll, PollClient, PollInfo, PollLifecycle,
         PollShutdown, PollBackends, PollReceived, ReapBecause, EndOfPoll, PollSteps, ReadingsHold
    <3> QED
      BY <3>1, <3>2
  <2>2. CASE ~Thread
    BY <1>0, <2>2, OthersFrame, ClientHasEnded DEF Next, Reaped, vars, ReadingsHold
  <2> QED
    BY <2>1, <2>2
<1>2. pc' = "poll_lifecycle" => info'.bytes = sent' + 1
  <2>1. CASE PollInfo
    <3>1. pc' = "poll_lifecycle" => info' = [bytes |-> sent + 1, pending |-> inflight > 0]
      BY <2>1 DEF PollInfo, ReapBecause
    <3>2. pc' = "poll_lifecycle" => info'.bytes = sent + 1
      BY <3>1
    <3>3. sent' = sent
      BY <2>1 DEF PollInfo, PollFrame, clientVars
    <3> QED
      BY <3>2, <3>3
  <2>2. CASE Thread /\ ~PollInfo
    BY <2>2 DEF Thread, InstallSlot, Peek, Poll, PollClient, PollLifecycle, PollShutdown,
       PollBackends, PollReceived, ReapBecause, EndOfPoll
  <2>3. CASE ~Thread
    <3>1. pc' = pc /\ info' = info
      BY <2>3, OthersFrame DEF Next, Reaped, vars, pollVars
    <3>2. pc = "poll_lifecycle" => sent' = sent
      BY <1>0, ClientHasEnded DEF ReadingsHold, PollSteps
    <3> QED
      BY <1>0, <3>1, <3>2 DEF ReadingsHold
  <2> QED
    BY <2>1, <2>2, <2>3
<1>3. snapshot' <= response_bytes_forwarded'
  <2>1. snapshot' = snapshot \/ snapshot' = response_bytes_forwarded
    <3>1. CASE Thread
      BY <3>1 DEF Thread, InstallSlot, Peek, SetupFrame, pollVars, Poll, PollClient, PollClientFrame,
         PollInfo, PollLifecycle, PollShutdown, PollBackends, PollReceived
    <3>2. CASE ~Thread
      BY <3>2, OthersFrame DEF Next, Reaped, vars, pollVars
    <3> QED
      BY <3>1, <3>2
  <2> QED
    BY <1>0, <2>1, ForwardedGrows DEF ReadingsHold
\* All the backends have ended: they are counted, and they stay so.
<1>4. pc' = "poll_received" /\ backend_complete' =>
        backend_fin_count' = NumBackends /\ \A b \in Backends : backend_end'[b] # "open"
  <2>1. CASE PollBackends
    <3> DEFINE ended == { b \in Backends : backend_end[b] # "open" }
    <3>1. backend_complete' = (\A b \in Backends : backend_end[b] # "open")
          /\ backend_fin_count' = Cardinality(ended) /\ backend_end' = backend_end
      BY <2>1 DEF PollBackends, PollFrame, backendVars
    <3>2. (\A b \in Backends : backend_end[b] # "open") => ended = Backends
      OBVIOUS
    <3> HIDE DEF ended
    <3> QED
      BY <3>1, <3>2, ConnectionConstants, Zenon
  <2>2. CASE Thread /\ ~PollBackends
    BY <2>2 DEF Thread, InstallSlot, Peek, Poll, PollClient, PollInfo, PollLifecycle, PollShutdown,
       PollReceived, ReapBecause, EndOfPoll
  <2>3. CASE ~Thread
    <3>1. pc' = pc /\ backend_complete' = backend_complete
          /\ backend_fin_count' = backend_fin_count
      BY <2>3, OthersFrame DEF Next, Reaped, vars, pollVars
    <3> QED
      BY <1>0, <3>1, BackendHasEnded DEF ReadingsHold
  <2> QED
    BY <2>1, <2>2, <2>3
<1> QED
  BY <1>1, <1>2, <1>3, <1>4 DEF ReadingsHold, Backends, PollSteps

\* A reason is given when the connection is reaped, and nothing happens after.
LEMMA ReasonStep ==
  ASSUME ResponseInv, [Next]_vars
  PROVE  /\ ReapedForAReason'
         /\ \/ UNCHANGED why
            \/ why = "" /\ (PollClient \/ PollInfo \/ PollLifecycle \/ PollReceived)
         /\ why # "" => UNCHANGED << sent, unread, backend_end, response_bytes_forwarded, acked,
                                     client_end >>
<1>0. why = "" <=> Alive
  BY DEF ResponseInv, ReapedForAReason
<1>1. CASE Thread
  <2>1. Alive
    BY <1>1 DEF Thread, InstallSlot, Peek, Poll, PollClient, PollInfo, PollLifecycle, PollShutdown,
       PollBackends, PollReceived, Alive
  <2>2. CASE UNCHANGED why
    <3>1. Alive'
      BY <1>0, <1>1, <2>1, <2>2 DEF Thread, InstallSlot, Peek, SetupFrame, Poll, PollClient, PollInfo,
         PollLifecycle, PollShutdown, PollBackends, PollReceived, ReapBecause, EndOfPoll, Alive
    <3> QED
      BY <1>0, <2>1, <2>2, <3>1 DEF ReapedForAReason
  <2>3. CASE ~UNCHANGED why
    <3>1. PollClient \/ PollInfo \/ PollLifecycle \/ PollReceived
      BY <1>1, <2>3 DEF Thread, InstallSlot, Peek, SetupFrame, Poll, PollShutdown, PollBackends
    <3>2. pc' = "reaped" /\ why' # ""
      BY <2>3, <3>1 DEF PollClient, PollInfo, PollLifecycle, PollReceived, ReapBecause, EndOfPoll
    <3> QED
      BY <1>0, <2>1, <3>1, <3>2 DEF ReapedForAReason, Alive
  <2> QED
    BY <2>2, <2>3
<1>2. CASE Client \/ Programs \/ Kernel \/ Servers
  BY <1>0, <1>2, OthersFrame DEF ReapedForAReason, Alive, setVars
<1>3. CASE Reaped \/ UNCHANGED vars
  BY <1>0, <1>3 DEF Reaped, vars, setVars, clientVars, backendVars, lifecycleVars,
     ReapedForAReason, Alive
<1> QED
  BY <1>1, <1>2, <1>3 DEF Next

\* A connection is reaped as incomplete when the parser has seen all that its
\* client ever sent, and that is less than a request.
LEMMA IncompleteStep ==
  ASSUME ResponseInv, [Next]_vars
  PROVE  IncompleteIsIncomplete'
<1> SUFFICES ASSUME why' = "incomplete"
             PROVE  sent' < RequestLen
  BY DEF IncompleteIsIncomplete
<1>1. CASE why = "incomplete"
  BY <1>1, ReasonStep DEF ResponseInv, IncompleteIsIncomplete
<1>2. CASE why # "incomplete"
  <2>1. PollLifecycle /\ pc = "poll_lifecycle" /\ Incomplete
    BY <1>2, ReasonStep DEF PollClient, PollInfo, PollLifecycle, PollReceived, ReapBecause, EndOfPoll
  <2>2. info.bytes = sent + 1 /\ request_bytes_processed >= info.bytes - 1
    BY <2>1 DEF ResponseInv, ReadingsHold, Incomplete
  <2>3. request_bytes_processed \in Nat /\ request_bytes_processed < RequestLen /\ sent \in Nat
    BY ConnectionConstants DEF ResponseInv, ParserIsBehind, TypeOK, Units
  <2>4. sent' = sent
    BY <2>1 DEF PollLifecycle, PollFrame, clientVars
  <2> QED
    BY <2>2, <2>3, <2>4, ConnectionConstants
<1> QED
  BY <1>1, <1>2

\* The bytes received from backends that ended with a FIN are the units that
\* were redirected, those still in the receive queues, and one for each FIN.
LEMMA ReceivedIsRedirectedAndUnread ==
  ASSUME ResponseInv, \A b \in Backends : backend_end[b] = "fin"
  PROVE  /\ Received \in Int /\ Sum(unread) \in Nat
         /\ Received = response_bytes_forwarded + Sum(unread) + NumBackends
         /\ Sum(unread) = 0 => \A b \in Backends : unread[b] = 0
<1> DEFINE ones == [b \in Backends |-> 1]
           both == [b \in Backends |-> Redirected[b] + unread[b]]
<1>1. /\ Redirected \in [Backends -> Nat] /\ unread \in [Backends -> Nat]
      /\ bytes_received \in [Backends -> Nat]
      /\ Redirected \in [Backends -> Int] /\ unread \in [Backends -> Int]
  BY TypesAreNumbers, SummandTypes DEF ResponseInv, ForwardedIsCounted, Numbers
<1>2. ones \in [Backends -> Int] /\ both \in [Backends -> Int]
  BY <1>1
<1>3. ASSUME NEW b \in Backends
      PROVE  bytes_received[b] = Redirected[b] + unread[b] + 1
  <2>1. FinByte(b) = 1
    BY DEF FinByte
  <2> QED
    BY <1>1, <2>1 DEF Redirected
<1>4. bytes_received = [b \in Backends |-> both[b] + ones[b]]
  BY <1>1, <1>3
<1>5. Total(ones, Backends) = NumBackends
  BY ConnectionConstants, TotalOnes
<1>6. Total(both, Backends) = Sum(Redirected) + Sum(unread)
  BY <1>1, ConnectionConstants, SumIsTotal, TotalOfSum
<1> HIDE DEF ones, both
<1>7. Total(bytes_received, Backends) = Total(both, Backends) + Total(ones, Backends)
  BY <1>2, <1>4, ConnectionConstants, TotalOfSum
<1>8. Received = Total(bytes_received, Backends)
  BY DEF Received, Total
<1>9. Sum(unread) \in Nat /\ \A b \in Backends : unread[b] <= Sum(unread) /\ unread[b] \in Nat
  BY <1>1, ConnectionConstants, SumIsTotal, TotalBounds
<1>10. Sum(Redirected) = response_bytes_forwarded /\ response_bytes_forwarded \in Nat
  BY TypesAreNumbers DEF ResponseInv, ForwardedIsCounted, Numbers
<1> QED
  BY <1>5, <1>6, <1>7, <1>8, <1>9, <1>10, ConnectionConstants

\* What a drained poll shows: the count that was read before the bytes covers
\* all the bytes, so no unit can be left in between.
LEMMA DrainedIsForwarded ==
  ASSUME ResponseInv, pc = "poll_received", Drained,
         \A b \in Backends : backend_end[b] # "reset"
  PROVE  /\ \A b \in Backends : backend_end[b] = "fin" /\ unread[b] = 0
         /\ ~info.pending
<1>1. \A b \in Backends : backend_end[b] = "fin"
  BY DEF ResponseInv, TypeOK, ReadingsHold, Drained
<1>2. /\ backend_fin_count = NumBackends /\ snapshot >= Received - backend_fin_count
      /\ snapshot <= response_bytes_forwarded /\ snapshot \in Nat
      /\ response_bytes_forwarded \in Nat /\ ~info.pending
  BY ConnectionConstants DEF ResponseInv, ReadingsHold, TypeOK, Drained, ResponseUnits
<1>3. Sum(unread) = 0
  BY <1>1, <1>2, ReceivedIsRedirectedAndUnread, ConnectionConstants
<1> QED
  BY <1>1, <1>2, <1>3, ReceivedIsRedirectedAndUnread

\* A connection that is reaped as drained has just passed that poll.
LEMMA DrainedForwardedStep ==
  ASSUME ResponseInv, [Next]_vars
  PROVE  DrainedMeansForwarded'
<1> SUFFICES ASSUME why' = "drained", \A b \in Backends : backend_end'[b] # "reset",
                    NEW b \in Backends
             PROVE  unread'[b] = 0
  BY DEF DrainedMeansForwarded, Backends
<1>1. CASE why = "drained"
  BY <1>1, ReasonStep DEF ResponseInv, DrainedMeansForwarded
<1>2. CASE why # "drained"
  <2>1. PollReceived /\ pc = "poll_received" /\ Drained
    BY <1>2, ReasonStep DEF PollClient, PollInfo, PollLifecycle, PollReceived, ReapBecause, EndOfPoll
  <2>2. UNCHANGED << backend_end, unread >>
    BY <2>1 DEF PollReceived, PollFrame, backendVars
  <2> QED
    BY <2>1, <2>2, DrainedIsForwarded
<1> QED
  BY <1>1, <1>2

-----------------------------------------------------------------------------
(* The invariant. *)

\* It holds when the setup begins to install the slots.
LEMMA InitResponseInv ==
  ASSUME Init
  PROVE  ResponseInv
<1> DEFINE zero == [b \in Backends |-> 0]
<1>0. /\ MaxRequests \in Nat /\ RequestLen \in Nat /\ RequestLen >= 1 /\ ResponseLen \in Nat
      /\ NumBackends \in Nat /\ NumBackends >= 1
  BY ConnectionConstants
<1>1. TypeOK
  <2>1. /\ 0 \in Units /\ 0 \in ResponseUnits /\ 0 \in 0 .. MaxRequests * RequestLen + 1
        /\ 0 \in 0 .. NumBackends /\ 0 \in 0 .. MaxRequests /\ 0 \in 0 .. NumBackends + 1
        /\ 0 \in 0 .. MaxRequests * ResponseLen + 1
    BY ConnectionConstants DEF Units, ResponseUnits
  <2> QED
    BY <2>1 DEF Init, TypeOK, Reasons, NoDecision
<1>2. SlotsInOrder /\ ParserIsBehind
  <2>1. /\ pc = "connect" /\ installed = 0 /\ taken = 0 /\ sent = 0 /\ early = 0
        /\ decision = NoDecision /\ request_bytes_processed = 0
    BY DEF Init
  <2> QED
    BY <1>0, <2>1 DEF SlotsInOrder, ParserIsBehind
<1>3. EndedIsSilent /\ ReapedForAReason
  BY DEF Init, EndedIsSilent, ReapedForAReason, Alive
<1>4. Sum(zero) = 0
  BY ConnectionConstants, SumIsTotal, TotalZero
<1>5. /\ outbox = zero /\ \A b \in Backends : /\ outbox[b] = 0 /\ owed[b] = 0 /\ unread[b] = 0
                                              /\ bytes_received[b] = 0 /\ FinByte(b) = 0
      /\ 0 * ResponseLen = 0 /\ 0 * RequestLen = 0
  <2>1. 0 * ResponseLen = 0 /\ 0 * RequestLen = 0
    BY <1>0
  <2>2. /\ outbox = zero /\ owed = zero /\ unread = zero /\ bytes_received = zero
        /\ backend_end = [b \in Backends |-> "open"]
    BY DEF Init
  <2> QED
    BY <2>1, <2>2 DEF FinByte
<1>6. Redirected = zero
  BY <1>5 DEF Redirected
<1>7. Asked = zero
  <2>1. \A b \in Backends :
          outbox[b] * ResponseLen + owed[b] + bytes_received[b] - FinByte(b) = 0
    BY <1>5
  <2> QED
    BY <2>1 DEF Asked
<1>8. taken = 0 /\ acked = 0 /\ inflight = 0 /\ backlog = 0 /\ response_bytes_forwarded = 0
  BY DEF Init
<1> HIDE DEF zero
<1>9. AskedOncePerRequest
  <2>1. taken = 0 * RequestLen /\ Sum(outbox) <= 0 /\ Sum(Asked) <= 0 * ResponseLen
    BY <1>4, <1>5, <1>7, <1>8
  <2> QED
    BY <1>0, <2>1 DEF AskedOncePerRequest
<1>10. ForwardedIsCounted
  BY <1>4, <1>5, <1>6, <1>8 DEF ForwardedIsCounted
<1>11. ReadingsHold /\ IncompleteIsIncomplete /\ DrainedMeansForwarded
  <2>1. pc = "connect" /\ why = ""
    BY DEF Init
  <2>2. pc \notin PollSteps /\ pc # "poll_lifecycle" /\ pc # "poll_received"
    BY <2>1 DEF PollSteps
  <2>3. why # "incomplete" /\ why # "drained"
    BY <2>1
  <2>4. snapshot = 0 /\ response_bytes_forwarded = 0
    BY DEF Init
  <2>5. snapshot <= response_bytes_forwarded
    BY <2>4
  <2> QED
    BY <2>2, <2>3, <2>5, Zenon DEF ReadingsHold, IncompleteIsIncomplete, DrainedMeansForwarded
<1> QED
  BY <1>1, <1>2, <1>3, <1>9, <1>10, <1>11 DEF ResponseInv

\* Every step keeps it.
LEMMA NextResponseInv ==
  ASSUME ResponseInv, [Next]_vars
  PROVE  ResponseInv'
<1>1. TypeOK'
  <2>1. backend_end' \in [Backends -> { "open", "fin", "reset" }]
    BY NumbersStep DEF ResponseInv, Numbers
  <2>2. conditions' \in Conditions
    BY ConditionsStay DEF ResponseInv, TypeOK
  <2> QED
    BY <2>1, <2>2, SlotsInOrderStep, ParserIsBehindStep, ThreadTypesStep, ReadingTypesStep,
       QueuesStayBounded DEF TypeOK, Units, ResponseUnits, Backends, PollSteps, Reasons, Flags,
       NoDecision
<1> QED
  BY <1>1, SlotsInOrderStep, ParserIsBehindStep, AskedStep, ForwardedIsCountedStep,
     EndedIsSilentStep, ReadingsHoldStep, ReasonStep, IncompleteStep, DrainedForwardedStep
     DEF ResponseInv

\* ResponseInv holds in every state: each unit of a response that a backend's
\* socket received is in its receive queue or counted as forwarded, those counted
\* are on the backlog, in flight or acknowledged until the client is gone, and
\* the backends are asked for at most one response per request.
THEOREM ResponseInvariance == Spec => []ResponseInv
<1>1. Init => ResponseInv
  BY InitResponseInv
<1>2. ResponseInv /\ [Next]_vars => ResponseInv'
  BY NextResponseInv
<1> QED
  BY <1>1, <1>2, PTL DEF Spec

\* The variables keep their types; no queue and no counter exceeds what the
\* requests of the client can be answered with.
THEOREM ConnectionTypes == Spec => []TypeOK
<1>1. ResponseInv => TypeOK
  BY DEF ResponseInv
<1> QED
  BY <1>1, ResponseInvariance, PTL

\* "frontend half-close with incomplete request" is said of clients that never
\* completed their request only.
THEOREM IncompleteRequests == Spec => []IncompleteIsIncomplete
<1>1. ResponseInv => IncompleteIsIncomplete
  BY DEF ResponseInv
<1> QED
  BY <1>1, ResponseInvariance, PTL

\* When the timer counts a connection as drained, and no backend has reset, every
\* unit of a response its backends' sockets received has been forwarded. A request
\* that the verdict dropped never had one.
THEOREM DrainForwarded == Spec => []DrainedMeansForwarded
<1>1. ResponseInv => DrainedMeansForwarded
  BY DEF ResponseInv
<1> QED
  BY <1>1, ResponseInvariance, PTL

-----------------------------------------------------------------------------
(* With a prompt backlog worker and no resets. *)

\* After the first drained poll the backends write nothing more and nothing is
\* left to redirect; only the worker and the client still move what is there.
LEMMA DrainedStaysDrained ==
  ASSUME DrainInv, [Next]_vars, PromptBacklog, ~ResetsAllowed, drain_confirmed
  PROVE  /\ \A b \in Backends : backend_end'[b] # "open" /\ unread'[b] = 0
         /\ BacklogToClient \/ backlog' = backlog
         /\ \/ BacklogToClient \/ (Ack /\ inflight > 0) \/ inflight' = 0
            \/ inflight' = inflight
<1>0. /\ ResponseInv /\ Numbers /\ \A b \in Backends : backend_end[b] # "open" /\ unread[b] = 0
      /\ \A b \in Backends : owed[b] = 0
  BY TypesAreNumbers DEF DrainInv, ConfirmedIsQuiet, ResponseInv, EndedIsSilent
<1>1. ASSUME NEW b \in Backends
      PROVE  ~RedirectResponse(b) /\ ~Reply(b) /\ ~BackendCloses(b)
  BY <1>0 DEF RedirectResponse, Reply, BackendCloses
<1>2. UNCHANGED unread /\ UNCHANGED backend_end
  BY <1>1, SumsFrame DEF Next, Programs, Verdict, Kernel, BacklogToBackend, Servers, backendVars
<1>3. BacklogToClient \/ backlog' = backlog
  <2>1. CASE Client
    BY <2>1 DEF Client, Send, CloseWrite, Vanish, Ack, ClientFrame, sendVars
  <2> QED
    BY <1>1, <2>1, ThreadFrame DEF Next, Programs, Parse, Verdict, Kernel, BacklogToBackend,
       BackendFrame, Servers, Reaped, vars, sendVars
<1>4. BacklogToClient \/ (Ack /\ inflight > 0) \/ inflight' = 0 \/ inflight' = inflight
  <2>1. CASE Client
    BY <2>1 DEF Client, Send, CloseWrite, Vanish, Ack, ClientFrame, sendVars
  <2> QED
    BY <1>1, <2>1, ThreadFrame DEF Next, Programs, Parse, Verdict, Kernel, BacklogToBackend,
       BackendFrame, Servers, Reaped, vars, sendVars
<1> QED
  BY <1>0, <1>2, <1>3, <1>4

\* The two polls in a row see the backlog go by: the first leaves it old, and
\* the second does not look at the client before what is old is sent.
LEMMA ConfirmedIsQuietStep ==
  ASSUME DrainInv, [Next]_vars
  PROVE  ConfirmedIsQuiet'
<1> SUFFICES ASSUME PromptBacklog, ~ResetsAllowed, drain_confirmed'
             PROVE  /\ \A b \in Backends : backend_end'[b] # "open" /\ unread'[b] = 0
                    /\ pc' # "reaped" /\ backlog' > 0 => old'
                    /\ pc' \in PollSteps \ { "poll_info" } /\ ~info'.pending =>
                         backlog' = 0 /\ inflight' = 0
  BY ConditionsStay DEF ConfirmedIsQuiet, Backends, PollSteps, PromptBacklog, ResetsAllowed
<1>0. /\ ResponseInv /\ backlog \in Nat /\ inflight \in Nat
      /\ \A b \in Backends : backend_end[b] # "reset"
  BY TypesAreNumbers DEF DrainInv, ResponseInv, Numbers, EndedIsSilent
<1>1. CASE ~drain_confirmed
  <2>1. PollReceived /\ pc = "poll_received" /\ Drained /\ EndOfPoll
    <3>1. CASE Thread
      BY <1>1, <3>1 DEF Thread, InstallSlot, Peek, SetupFrame, Poll, PollClient, PollInfo,
         PollLifecycle, PollShutdown, PollBackends, PollReceived, PollClientFrame, Confirmed
    <3>2. CASE ~Thread
      BY <1>1, <3>2, OthersFrame DEF Next, Reaped, vars, setVars
    <3> QED
      BY <3>1, <3>2
  <2>2. /\ pc' = "loop" /\ old' = (backlog > 0) /\ backlog' = backlog
        /\ unread' = unread /\ backend_end' = backend_end
    BY <2>1 DEF EndOfPoll, PollReceived, PollFrame, backendVars
  <2>3. \A b \in Backends : backend_end'[b] # "open" /\ unread'[b] = 0
    <3>1. \A b \in Backends : backend_end[b] = "fin" /\ unread[b] = 0
      BY <1>0, <2>1, DrainedIsForwarded
    <3> QED
      BY <2>2, <3>1
  <2>4. pc' \notin PollSteps
    BY <2>2 DEF PollSteps
  <2>5. backlog' > 0 => old'
    BY <2>2, Zenon
  <2> QED
    BY <2>3, <2>4, <2>5
<1>2. CASE drain_confirmed
  <2>0. /\ pc # "reaped" /\ backlog > 0 => old
        /\ pc \in PollSteps \ { "poll_info" } /\ ~info.pending => backlog = 0 /\ inflight = 0
    BY <1>2 DEF DrainInv, ConfirmedIsQuiet
  <2>1. /\ \A b \in Backends : backend_end'[b] # "open" /\ unread'[b] = 0
        /\ BacklogToClient \/ backlog' = backlog
        /\ \/ BacklogToClient \/ (Ack /\ inflight > 0) \/ inflight' = 0
           \/ inflight' = inflight
    BY <1>2, DrainedStaysDrained
  <2>2. pc' # "reaped" /\ backlog' > 0 => old'
    <3>1. CASE BacklogToClient
      BY <3>1 DEF BacklogToClient
    <3>2. CASE EndOfPoll /\ backlog' = backlog
      BY <3>2, Zenon DEF EndOfPoll
    <3>3. CASE UNCHANGED old /\ backlog' = backlog
      <4>1. pc' # "reaped" => pc # "reaped"
        BY OthersFrame DEF Next, Thread, InstallSlot, Peek, Poll, PollClient, PollInfo,
           PollLifecycle, PollShutdown, PollBackends, PollReceived, Alive, Reaped, vars
      <4> QED
        BY <2>0, <3>3, <4>1
    <3>4. EndOfPoll \/ BacklogToClient \/ UNCHANGED old
      BY DEF Next, Thread, InstallSlot, Peek, SetupFrame, sendVars, Poll, PollClient, PollInfo,
         PollLifecycle, PollShutdown, PollBackends, PollReceived, ReapBecause, EndOfPoll, PollFrame,
         Client, Send, CloseWrite, Vanish, Ack, ClientFrame, Programs, Parse, Verdict,
         RedirectResponse, Kernel, BacklogToBackend, BackendFrame, Servers, Reply, BackendCloses,
         Reaped, vars
    <3> QED
      BY <2>1, <3>1, <3>2, <3>3, <3>4
  <2>3. pc' \in PollSteps \ { "poll_info" } /\ ~info'.pending => backlog' = 0 /\ inflight' = 0
    <3>1. CASE PollInfo
      <4>1. CASE info' = [bytes |-> sent + 1, pending |-> inflight > 0]
        <5>1. info'.pending = (inflight > 0)
          BY <4>1
        <5>2. CASE inflight > 0
          <6>1. info'.pending
            BY <5>1, <5>2, Zenon
          <6> QED
            BY <6>1
        <5>3. CASE ~ (inflight > 0)
          <6>1. ~old /\ pc # "reaped" /\ backlog' = backlog /\ inflight' = inflight
            BY <3>1, <5>3 DEF PollInfo, PollFrame
          <6> QED
            BY <1>0, <2>0, <5>3, <6>1
        <5> QED
          BY <5>2, <5>3
      <4>2. CASE pc' = "reaped"
        BY <4>2 DEF PollSteps
      <4> QED
        BY <3>1, <4>1, <4>2 DEF PollInfo, ReapBecause
    <3>2. CASE pc \in PollSteps \ { "poll_info" } /\ info' = info
      <4>1. SUFFICES ASSUME ~info.pending
                     PROVE  backlog' = 0 /\ inflight' = 0
        BY <3>2
      <4>2. backlog = 0 /\ inflight = 0
        BY <2>0, <3>2, <4>1
      <4>3. backlog' = 0
        BY <2>1, <4>2 DEF BacklogToClient
      <4>4. ~BacklogToClient /\ ~ (inflight > 0)
        BY <4>2 DEF BacklogToClient
      <4> QED
        BY <2>1, <4>2, <4>3, <4>4
    <3>3. PollInfo \/ pc' \notin PollSteps \ { "poll_info" }
            \/ (pc \in PollSteps \ { "poll_info" } /\ info' = info)
      <4>1. CASE Thread
        BY <4>1 DEF Thread, InstallSlot, Peek, Poll, PollClient, PollLifecycle, PollShutdown,
           PollBackends, PollReceived, ReapBecause, EndOfPoll, PollSteps, pollVars
      <4>2. CASE ~Thread
        BY <4>2, OthersFrame DEF Next, Reaped, vars, pollVars
      <4> QED
        BY <4>1, <4>2
    <3> QED
      BY <3>1, <3>2, <3>3
  <2> QED
    BY <2>1, <2>2, <2>3
<1> QED
  BY <1>1, <1>2

\* When the second drained poll reaps the connection, nothing is under way.
LEMMA DeliveredStep ==
  ASSUME DrainInv, [Next]_vars
  PROVE  DrainedMeansDelivered'
<1> SUFFICES ASSUME PromptBacklog, ~ResetsAllowed, why' = "drained"
             PROVE  client_end' = "gone" \/ acked' = response_bytes_forwarded'
  BY ConditionsStay DEF DrainedMeansDelivered, PromptBacklog, ResetsAllowed
<1>0. ResponseInv
  BY DEF DrainInv
<1>1. CASE why = "drained"
  BY <1>0, <1>1, ReasonStep DEF DrainInv, DrainedMeansDelivered
<1>2. CASE why # "drained"
  <2>1. PollReceived /\ pc = "poll_received" /\ Drained /\ Confirmed
    BY <1>0, <1>2, ReasonStep
       DEF PollClient, PollInfo, PollLifecycle, PollReceived, ReapBecause, EndOfPoll
  <2>2. backlog = 0 /\ inflight = 0
    BY <2>1 DEF Drained, Confirmed, DrainInv, ConfirmedIsQuiet, PollSteps
  <2>3. client_end = "gone" \/ acked = response_bytes_forwarded
    BY <1>0, <2>2, TypesAreNumbers DEF ResponseInv, ForwardedIsCounted, Numbers
  <2>4. UNCHANGED << client_end, acked, response_bytes_forwarded >>
    BY <2>1 DEF PollReceived, PollFrame, clientVars, lifecycleVars
  <2> QED
    BY <2>3, <2>4
<1> QED
  BY <1>1, <1>2

\* Where the backlog worker is faster than the timer and no backend resets its
\* connection, a client that is still there has every unit of its responses
\* when its connection is reaped as drained.
THEOREM DrainDelivered == Spec => []DrainedMeansDelivered
<1>1. Init => DrainInv
  <2>1. Init => ResponseInv /\ ~drain_confirmed /\ why = ""
    BY InitResponseInv DEF Init
  <2> QED
    BY <2>1 DEF DrainInv, ConfirmedIsQuiet, DrainedMeansDelivered
<1>2. DrainInv /\ [Next]_vars => DrainInv'
  BY NextResponseInv, ConfirmedIsQuietStep, DeliveredStep DEF DrainInv
<1>3. DrainInv => DrainedMeansDelivered
  BY DEF DrainInv
<1> QED
  BY <1>1, <1>2, <1>3, PTL DEF Spec
=============================================================================
