----------------------------- MODULE Connection -----------------------------
(***************************************************************************)
(* The life of one connection of the router: the end of its setup          *)
(* (src/sk_router.c, add_connection_set), the requests its client sends    *)
(* through the BPF parser and verdict (bpf/programs/sk_router.bpf.c), the  *)
(* responses, and the lifecycle timer that drains and reaps it after the   *)
(* client's half-close (poll_connection_lifecycle).                        *)
(*                                                                         *)
(* Data is counted in units: the last of the RequestLen units of a request *)
(* completes it, a response has ResponseLen units. A redirect only queues  *)
(* data on the target's backlog; a kernel worker sends it later. The       *)
(* userspace thread takes one system call per step, and what it read is    *)
(* used after the rest of the system has moved on.                         *)
(*                                                                         *)
(* The client does not pipeline: it starts a request after the response to *)
(* the previous one. No backend speaks before it is asked, so              *)
(* initial_backend_bytes_received is 0. A reap takes the sockets away at   *)
(* once; its steps and failures are those of ConnectionManager.            *)
(***************************************************************************)
EXTENDS Integers, FiniteSets, FiniteSetsExt

CONSTANTS
  NumBackends,      (* backends of a connection                            *)
  MaxRequests,      (* bound: requests the client sends                    *)
  RequestLen,       (* units of a request                                  *)
  ResponseLen,      (* units of a response                                 *)
  Conditions        (* what a connection may meet with, see below          *)

ASSUME ConnectionAssumption ==
  /\ NumBackends \in Nat \ {0} /\ MaxRequests \in Nat
  /\ RequestLen \in Nat \ {0} /\ ResponseLen \in Nat \ {0}
  /\ Conditions \subseteq [prompt : BOOLEAN, resets : BOOLEAN, failures : BOOLEAN]

Backends == 1 .. NumBackends
NoDecision == 0

VARIABLES
  \* the userspace thread and struct connection_set
  pc,
  installed,        \* SOCKMAP slots installed: the members below this number
  peer_write_closed, backend_writes_shutdown, drain_confirmed,
  why,              \* the reason of the reap
  \* the locals of poll_connection_lifecycle
  info,             \* TCP_INFO of the client: bytes received, data pending
  snapshot,         \* lifecycle.response_bytes_forwarded as looked up
  backend_complete, backend_fin_count,
  \* the client and the receive side of its socket
  sent, client_end, acked,
  early,            \* history: units sent before the first slot was installed
  read,             \* units the stream parser has read
  taken,            \* units of the requests that went through the verdict
  ready,            \* a data_ready callback is pending
  decision,         \* sk_route_decisions: backend of the parsed request
  \* struct sk_lifecycle_state
  flags, request_bytes_processed, response_bytes_forwarded,
  \* the backends and their sockets
  outbox,           \* requests on the backlog of the socket to the backend
  owed,             \* units of response the backend has yet to write
  unread,           \* units in the socket's receive queue
  bytes_received,   \* tcpi_bytes_received: the units and the FIN
  backend_end,
  \* the send side of the client's socket
  backlog, old, inflight,
  \* what the connection meets with, always the same
  conditions

setVars == << installed, peer_write_closed, backend_writes_shutdown,
              drain_confirmed, why, conditions >>
pollVars == << info, snapshot, backend_complete, backend_fin_count >>
clientVars == << sent, client_end, acked, early >>
parserVars == << read, taken, ready, decision >>
lifecycleVars == << flags, request_bytes_processed, response_bytes_forwarded >>
backendVars == << outbox, owed, unread, bytes_received, backend_end >>
sendVars == << backlog, old, inflight >>
vars == << pc, setVars, pollVars, clientVars, parserVars, lifecycleVars,
           backendVars, sendVars >>

\* What a poll leaves in the client's backlog is sent before the TCP_INFO of
\* the next one, or the send queue is stuck and not empty.
PromptBacklog == conditions.prompt

\* A backend may answer with a reset.
ResetsAllowed == conditions.resets

\* TCP_INFO and map lookups of the timer may fail.
CallsMayFail == conditions.failures

Flags == { "REQUEST_FORWARDED", "REQUEST_INCOMPLETE", "REDIRECT_FAILED" }
PollSteps == { "poll_info", "poll_lifecycle", "poll_shutdown", "poll_backends", "poll_received" }
Reasons == { "", "failed", "tcp_state", "no_request", "lifecycle_state",
             "redirect_failed", "incomplete", "drained" }

Alive == pc # "reaped"

Init ==
  /\ pc = "connect" /\ installed = 0 /\ why = ""
  /\ peer_write_closed = FALSE /\ backend_writes_shutdown = FALSE
  /\ drain_confirmed = FALSE
  /\ info = [bytes |-> 0, pending |-> FALSE] /\ snapshot = 0
  /\ backend_complete = FALSE /\ backend_fin_count = 0
  /\ sent = 0 /\ client_end = "open" /\ acked = 0 /\ early = 0
  /\ read = 0 /\ taken = 0 /\ ready = FALSE /\ decision = NoDecision
  /\ flags = {} /\ request_bytes_processed = 0 /\ response_bytes_forwarded = 0
  /\ outbox = [b \in Backends |-> 0] /\ owed = [b \in Backends |-> 0]
  /\ unread = [b \in Backends |-> 0] /\ bytes_received = [b \in Backends |-> 0]
  /\ backend_end = [b \in Backends |-> "open"]
  /\ backlog = 0 /\ old = FALSE /\ inflight = 0
  /\ conditions \in Conditions

-----------------------------------------------------------------------------
(* The end of add_connection_set. *)

SetupFrame == UNCHANGED << peer_write_closed, backend_writes_shutdown,
  drain_confirmed, why, pollVars, clientVars, read, taken, decision,
  lifecycleVars, backendVars, sendVars, conditions >>

\* The backend sockets are connected, the lifecycle state and the routes are
\* in the maps. The slots follow, the client's first.
InstallSlot ==
  /\ pc \in { "connect", "slots" }
  /\ installed' = installed + 1
  /\ pc' = IF installed < NumBackends THEN "slots" ELSE "peek"
  /\ UNCHANGED ready /\ SetupFrame

Peek_Omitted ==
  /\ pc = "peek" /\ pc' = "loop"
  /\ UNCHANGED << installed, ready >> /\ SetupFrame

\* recv(client_fd, MSG_PEEK) makes the kernel look at queued data again.
Peek ==
  /\ pc = "peek" /\ pc' = "loop"
  /\ ready' = (ready \/ sent > read)
  /\ UNCHANGED installed /\ SetupFrame

-----------------------------------------------------------------------------
(* The client. *)

ClientFrame == UNCHANGED << pc, setVars, pollVars, read, taken, decision,
                            lifecycleVars, backendVars, sendVars >>

\* A segment arrives; the parser hears of it once the slot is installed.
Send ==
  /\ Alive /\ client_end = "open" /\ sent < MaxRequests * RequestLen
  /\ acked >= (sent \div RequestLen) * ResponseLen
  /\ sent' = sent + 1
  /\ early' = IF installed = 0 THEN early + 1 ELSE early
  /\ ready' = (ready \/ installed > 0)
  /\ UNCHANGED << client_end, acked >> /\ ClientFrame

\* The client's FIN, or its end: POLLRDHUP, or POLLHUP and POLLERR.
CloseWrite ==
  /\ Alive /\ client_end = "open" /\ client_end' = "half"
  /\ UNCHANGED << sent, acked, early, ready >> /\ ClientFrame

Vanish ==
  /\ Alive /\ client_end # "gone" /\ client_end' = "gone" /\ inflight' = 0
  /\ UNCHANGED << pc, setVars, pollVars, sent, acked, early, parserVars,
                  lifecycleVars, backendVars, backlog, old >>

Ack ==
  /\ Alive /\ client_end # "gone" /\ inflight > 0
  /\ acked' = acked + inflight /\ inflight' = 0
  /\ UNCHANGED << pc, setVars, pollVars, sent, client_end, early, parserVars,
                  lifecycleVars, backendVars, backlog, old >>

-----------------------------------------------------------------------------
(* The BPF programs on the client's socket. The programs of one socket run  *)
(* one after the other, under its lock.                                     *)

\* sk_router_parser: sees all the data since the last complete request.
Parse ==
  /\ Alive /\ ready /\ read < sent /\ decision = NoDecision
  /\ ready' = FALSE /\ read' = sent
  /\ IF sent - taken < RequestLen
       THEN /\ flags' = flags \cup { "REQUEST_INCOMPLETE" }
            /\ request_bytes_processed' = sent - taken
            /\ UNCHANGED decision
       ELSE /\ flags' = flags \ { "REQUEST_INCOMPLETE" }
            /\ decision' \in Backends
            /\ UNCHANGED request_bytes_processed
  /\ UNCHANGED << pc, setVars, pollVars, clientVars, taken,
                  response_bytes_forwarded, backendVars, sendVars >>

\* sk_router_verdict on a request: the redirect finds the target's slot empty
\* if it is not installed yet, and the request is dropped.
Verdict ==
  /\ Alive /\ decision # NoDecision
  /\ decision' = NoDecision /\ taken' = taken + RequestLen
  /\ IF decision < installed
       THEN /\ flags' = flags \cup { "REQUEST_FORWARDED" }
            /\ outbox' = [outbox EXCEPT ![decision] = @ + 1]
       ELSE /\ flags' = flags \cup { "REDIRECT_FAILED" }
            /\ UNCHANGED outbox
  /\ UNCHANGED << pc, setVars, pollVars, clientVars, read, ready,
                  request_bytes_processed, response_bytes_forwarded,
                  owed, unread, bytes_received, backend_end, sendVars >>

RedirectResponse_CountsTwice(b) ==
  /\ Alive /\ unread[b] > 0 /\ b < installed
  /\ unread' = [unread EXCEPT ![b] = 0]
  /\ response_bytes_forwarded' = response_bytes_forwarded + 2 * unread[b]
  /\ backlog' = backlog + unread[b]
  /\ UNCHANGED << pc, setVars, pollVars, clientVars, parserVars, flags,
                  request_bytes_processed, outbox, owed, bytes_received,
                  backend_end, old, inflight >>

\* The parser takes a backend's data as it is; the verdict redirects it to
\* the client's slot and counts it.
RedirectResponse(b) ==
  /\ Alive /\ unread[b] > 0 /\ b < installed
  /\ unread' = [unread EXCEPT ![b] = 0]
  /\ response_bytes_forwarded' = response_bytes_forwarded + unread[b]
  /\ backlog' = backlog + unread[b]
  /\ UNCHANGED << pc, setVars, pollVars, clientVars, parserVars, flags,
                  request_bytes_processed, outbox, owed, bytes_received,
                  backend_end, old, inflight >>

-----------------------------------------------------------------------------
(* The backlog workers of the kernel, and the backends. *)

BackendFrame == UNCHANGED << pc, setVars, pollVars, clientVars, parserVars,
                             lifecycleVars, sendVars >>

\* A request whose socket is shut for writing by now is lost.
BacklogToBackend(b) ==
  /\ Alive /\ outbox[b] > 0
  /\ outbox' = [outbox EXCEPT ![b] = @ - 1]
  /\ owed' = IF backend_writes_shutdown \/ backend_end[b] # "open"
               THEN owed ELSE [owed EXCEPT ![b] = @ + ResponseLen]
  /\ UNCHANGED << unread, bytes_received, backend_end >> /\ BackendFrame

\* ... and so is a response whose client is gone.
BacklogToClient ==
  /\ Alive /\ backlog > 0
  /\ inflight' = IF client_end = "gone" THEN 0 ELSE inflight + backlog
  /\ backlog' = 0 /\ old' = FALSE
  /\ UNCHANGED << pc, setVars, pollVars, clientVars, parserVars,
                  lifecycleVars, backendVars >>

Reply(b) ==
  /\ Alive /\ owed[b] > 0
  /\ owed' = [owed EXCEPT ![b] = @ - 1]
  /\ unread' = [unread EXCEPT ![b] = @ + 1]
  /\ bytes_received' = [bytes_received EXCEPT ![b] = @ + 1]
  /\ UNCHANGED << outbox, backend_end >> /\ BackendFrame

\* A backend closes, answered or not. The FIN counts as a received byte, a
\* reset does not; both end the receive side.
BackendCloses(b) ==
  /\ Alive /\ backend_end[b] = "open" /\ installed > NumBackends
  /\ \/ /\ backend_end' = [backend_end EXCEPT ![b] = "fin"]
        /\ bytes_received' = [bytes_received EXCEPT ![b] = @ + 1]
     \/ /\ ResetsAllowed
        /\ backend_end' = [backend_end EXCEPT ![b] = "reset"]
        /\ UNCHANGED bytes_received
  /\ owed' = [owed EXCEPT ![b] = 0]
  /\ UNCHANGED << outbox, unread >> /\ BackendFrame

-----------------------------------------------------------------------------
(* poll_connection_lifecycle on this connection, one call per step. *)

ReapBecause(reason) == pc' = "reaped" /\ why' = reason /\ UNCHANGED old
EndOfPoll == pc' = "loop" /\ old' = (backlog > 0) /\ UNCHANGED why

PollFrame == UNCHANGED << installed, clientVars, parserVars, lifecycleVars,
                          backendVars, backlog, inflight, conditions >>

PollClientFrame == UNCHANGED << backend_writes_shutdown, drain_confirmed,
                                snapshot, backend_complete, backend_fin_count >>

\* poll() on the client.
PollClient ==
  /\ pc = "loop" /\ client_end # "open"
  /\ IF client_end = "gone"
       THEN ReapBecause("failed") /\ UNCHANGED peer_write_closed
       ELSE /\ peer_write_closed' = TRUE
            /\ pc' = "poll_info" /\ UNCHANGED << why, old >>
  /\ UNCHANGED info /\ PollClientFrame /\ PollFrame

\* TCP_INFO of the client. The received bytes include its FIN. A client that
\* was reset meanwhile has nothing pending.
PollInfo ==
  /\ pc = "poll_info"
  /\ PromptBacklog => ~old \/ inflight > 0
  /\ \/ /\ sent > 0
        /\ info' = [bytes |-> sent + 1, pending |-> inflight > 0]
        /\ pc' = "poll_lifecycle" /\ UNCHANGED << why, old >>
     \/ sent = 0 /\ ReapBecause("no_request") /\ UNCHANGED info
     \/ CallsMayFail /\ ReapBecause("tcp_state") /\ UNCHANGED info
  /\ UNCHANGED peer_write_closed /\ PollClientFrame /\ PollFrame

Incomplete_AnyTime == "REQUEST_INCOMPLETE" \in flags

\* The parser has seen all the client ever sent, and it was no request.
Incomplete ==
  /\ "REQUEST_INCOMPLETE" \in flags
  /\ request_bytes_processed >= info.bytes - 1

PollLifecycle ==
  /\ pc = "poll_lifecycle"
  /\ \/ CallsMayFail /\ ReapBecause("lifecycle_state") /\ UNCHANGED snapshot
     \/ /\ "REQUEST_FORWARDED" \in flags
        /\ snapshot' = response_bytes_forwarded
        /\ pc' = "poll_shutdown" /\ UNCHANGED << why, old >>
     \/ /\ "REQUEST_FORWARDED" \notin flags
        /\ IF "REDIRECT_FAILED" \in flags THEN ReapBecause("redirect_failed")
           ELSE IF Incomplete THEN ReapBecause("incomplete")
           ELSE EndOfPoll
        /\ UNCHANGED snapshot
  /\ UNCHANGED << peer_write_closed, backend_writes_shutdown, drain_confirmed,
                  info, backend_complete, backend_fin_count >>
  /\ PollFrame

\* shutdown_backend_writes, the first time.
PollShutdown ==
  /\ pc = "poll_shutdown" /\ pc' = "poll_backends"
  /\ backend_writes_shutdown' = TRUE
  /\ UNCHANGED << peer_write_closed, drain_confirmed, why, pollVars, old >>
  /\ PollFrame

\* backend_responses_complete: one poll() on all the backends. POLLRDHUP is
\* reported after a FIN and after a reset.
PollBackends ==
  /\ pc = "poll_backends" /\ pc' = "poll_received"
  /\ backend_complete' = (\A b \in Backends : backend_end[b] # "open")
  /\ backend_fin_count' = Cardinality({ b \in Backends : backend_end[b] # "open" })
  /\ UNCHANGED << peer_write_closed, backend_writes_shutdown, drain_confirmed,
                  why, info, snapshot, old >>
  /\ PollFrame

\* backend_bytes_received: the sum over the backends. It counts only when all
\* of them have ended, so that one step reads what their calls read in turn.
Received == MapThenSumSet(LAMBDA b : bytes_received[b], Backends)

Drained_NoForwardCheck == backend_complete /\ ~info.pending
Drained_FinsCounted ==
  /\ backend_complete /\ snapshot >= Received /\ ~info.pending

\* Every backend has ended, what they sent was redirected, and the client had
\* acknowledged all that was sent to it when the poll began.
Drained ==
  /\ backend_complete
  /\ Received >= backend_fin_count
  /\ snapshot >= Received - backend_fin_count
  /\ ~info.pending

Confirmed_AtOnce == TRUE

\* Drained in the previous poll too.
Confirmed == drain_confirmed

PollReceived ==
  /\ pc = "poll_received"
  /\ \/ /\ Drained /\ Confirmed
        /\ ReapBecause("drained") /\ UNCHANGED drain_confirmed
     \/ /\ Drained /\ ~Confirmed
        /\ drain_confirmed' = TRUE /\ EndOfPoll
     \/ /\ ~Drained \/ CallsMayFail
        /\ drain_confirmed' = FALSE /\ EndOfPoll
  /\ UNCHANGED << peer_write_closed, backend_writes_shutdown, pollVars >>
  /\ PollFrame

-----------------------------------------------------------------------------
Poll == PollClient \/ PollInfo \/ PollLifecycle \/ PollShutdown
          \/ PollBackends \/ PollReceived
Thread == InstallSlot \/ Peek \/ Poll
Client == Send \/ CloseWrite \/ Vanish \/ Ack
Programs == Parse \/ Verdict \/ \E b \in Backends : RedirectResponse(b)
Kernel == BacklogToClient \/ \E b \in Backends : BacklogToBackend(b)
Servers == \E b \in Backends : Reply(b) \/ BackendCloses(b)

Reaped == ~Alive /\ UNCHANGED vars

Next == Thread \/ Client \/ Programs \/ Kernel \/ Servers \/ Reaped

Spec == Init /\ [][Next]_vars

\* The thread keeps serving its timer, the kernel runs what it has queued, a
\* client that is there reads, a backend answers and closes a connection that
\* was shut (benchmarks/mock_backend.c). The client sends or ends as it likes.
FairSpec ==
  /\ Spec
  /\ WF_vars(Thread) /\ WF_vars(Parse) /\ WF_vars(Verdict)
  /\ WF_vars(BacklogToClient) /\ WF_vars(Ack)
  /\ \A b \in Backends :
       /\ WF_vars(RedirectResponse(b)) /\ WF_vars(BacklogToBackend(b))
       /\ WF_vars(Reply(b))
       /\ WF_vars(backend_writes_shutdown /\ owed[b] = 0 /\ BackendCloses(b))

-----------------------------------------------------------------------------
(* Properties *)

Units == 0 .. MaxRequests * RequestLen
ResponseUnits == 0 .. MaxRequests * ResponseLen

\* The type invariant: the connection set, the timer's locals, the lifecycle
\* state, the sockets and their queues.
TypeOK ==
  /\ pc \in { "connect", "slots", "peek", "loop", "reaped" } \cup PollSteps
  /\ installed \in 0 .. NumBackends + 1
  /\ { peer_write_closed, backend_writes_shutdown, drain_confirmed } \subseteq BOOLEAN
  /\ why \in Reasons
  /\ info.bytes \in 0 .. MaxRequests * RequestLen + 1 /\ info.pending \in BOOLEAN
  /\ snapshot \in ResponseUnits /\ backend_complete \in BOOLEAN
  /\ backend_fin_count \in 0 .. NumBackends
  /\ { sent, early, read, taken, request_bytes_processed } \subseteq Units
  /\ { acked, response_bytes_forwarded, backlog, inflight } \subseteq ResponseUnits
  /\ client_end \in { "open", "half", "gone" }
  /\ ready \in BOOLEAN /\ decision \in Backends \cup {NoDecision}
  /\ flags \subseteq Flags /\ old \in BOOLEAN
  /\ outbox \in [Backends -> 0 .. MaxRequests]
  /\ owed \in [Backends -> ResponseUnits] /\ unread \in [Backends -> ResponseUnits]
  /\ bytes_received \in [Backends -> 0 .. MaxRequests * ResponseLen + 1]
  /\ backend_end \in [Backends -> { "open", "fin", "reset" }]
  /\ conditions \in Conditions

\* A half-closed connection that is reaped as drained has nothing of a response
\* left in a receive queue of its backends: the verdict has redirected it all,
\* however late the programs run. A reset is counted as a FIN (FinsWereCounted)
\* and voids this.
DrainedMeansForwarded ==
  why = "drained" /\ (\A b \in Backends : backend_end[b] # "reset") =>
    \A b \in Backends : unread[b] = 0

\* ... and, when no backend resets and the backlog worker is faster than the
\* timer, a client that is still there has acknowledged every unit that was
\* redirected to it: the two polls in a row see the backlog go by.
DrainedMeansDelivered ==
  PromptBacklog /\ ~ResetsAllowed /\ why = "drained" =>
    client_end = "gone" \/ acked = response_bytes_forwarded

\* "frontend half-close with incomplete request" is said of clients that never
\* completed their request, also when the parser is still behind the client.
IncompleteIsIncomplete == why = "incomplete" => sent < RequestLen

\* A complete request is taken through the verdict, also one that was queued
\* before the programs were attached.
CompleteRequestIsHandled ==
  \A k \in 1 .. MaxRequests : sent >= k * RequestLen ~> (taken >= k * RequestLen \/ ~Alive)

\* A half-closed connection does not keep its block for ever, where no backend
\* resets and the calls of the timer succeed.
HalfClosedIsReaped ==
  client_end = "half" /\ ~ResetsAllowed /\ ~CallsMayFail ~> ~Alive

\* "A client can send its first request while the backend connections are
\* being established" (src/sk_router.c:690): such a request is not dropped.
EarlyRequestSurvives == early > 0 => "REDIRECT_FAILED" \notin flags

\* "Linux includes each received FIN's sequence byte in tcpi_bytes_received":
\* what the timer takes for FINs was counted as bytes.
FinsWereCounted ==
  pc = "poll_received" =>
    backend_fin_count <= Cardinality({ b \in Backends : backend_end[b] = "fin" })

-----------------------------------------------------------------------------
(* The inductive invariant. It follows every unit of a response from the    *)
(* receive queue of its backend's socket to the client that acknowledges    *)
(* it. Requests it only bounds from above: a redirect may drop one.         *)

Sum(f) == MapThenSumSet(LAMBDA b : f[b], Backends)

\* What TCP_INFO counts for the end of a backend, the units that went on to
\* the client's socket, and all that a backend has been or will be asked for.
FinByte(b) == IF backend_end[b] = "fin" THEN 1 ELSE 0
Redirected == [b \in Backends |-> bytes_received[b] - unread[b] - FinByte(b)]
Asked == [b \in Backends |->
            outbox[b] * ResponseLen + owed[b] + bytes_received[b] - FinByte(b)]

\* A setup installs the slots one by one.
SlotsInOrder ==
  /\ pc = "connect" => installed = 0
  /\ pc = "slots" => installed \in 1 .. NumBackends

\* The verdict takes only requests that were sent completely.
ParserIsBehind ==
  /\ taken <= sent /\ early <= sent
  /\ decision # NoDecision => taken + RequestLen <= sent
  /\ request_bytes_processed < RequestLen

\* The backends are asked for one response per request at most.
AskedOncePerRequest ==
  \E k \in 0 .. MaxRequests :
    /\ taken = k * RequestLen
    /\ Sum(outbox) <= k /\ Sum(Asked) <= k * ResponseLen

\* Every unit that left a receive queue is counted as forwarded, and is on
\* the backlog, in flight or acknowledged as long as the client is there.
ForwardedIsCounted ==
  /\ \A b \in Backends : unread[b] + FinByte(b) <= bytes_received[b]
  /\ Sum(Redirected) = response_bytes_forwarded
  /\ acked + inflight + backlog <= response_bytes_forwarded
  /\ client_end # "gone" => acked + inflight + backlog = response_bytes_forwarded

\* A backend that has ended writes no more.
EndedIsSilent ==
  \A b \in Backends : /\ backend_end[b] # "open" => owed[b] = 0
                      /\ backend_end[b] = "reset" => ResetsAllowed

\* What the timer has read and what became of it since: the client sends no
\* more, the counter only grows, and a backend that has ended stays so.
ReadingsHold ==
  /\ pc \in PollSteps => client_end # "open"
  /\ pc = "poll_lifecycle" => info.bytes = sent + 1
  /\ snapshot <= response_bytes_forwarded
  /\ pc = "poll_received" /\ backend_complete =>
       /\ backend_fin_count = NumBackends
       /\ \A b \in Backends : backend_end[b] # "open"

\* A connection has a reason for its end when it has ended.
ReapedForAReason == why = "" <=> Alive

ResponseInv ==
  /\ TypeOK /\ SlotsInOrder /\ ParserIsBehind /\ AskedOncePerRequest
  /\ ForwardedIsCounted /\ EndedIsSilent /\ ReadingsHold /\ ReapedForAReason
  /\ IncompleteIsIncomplete /\ DrainedMeansForwarded

\* With a prompt backlog worker and no resets: after the first drained poll
\* nothing can be redirected any more, and a backlog that is left has been
\* there since the end of that poll; after the TCP_INFO of the next one that
\* shows nothing pending, nothing is under way.
ConfirmedIsQuiet ==
  PromptBacklog /\ ~ResetsAllowed /\ drain_confirmed =>
    /\ \A b \in Backends : backend_end[b] # "open" /\ unread[b] = 0
    /\ pc # "reaped" /\ backlog > 0 => old
    /\ pc \in PollSteps \ { "poll_info" } /\ ~info.pending => backlog = 0 /\ inflight = 0

DrainInv == ResponseInv /\ ConfirmedIsQuiet /\ DrainedMeansDelivered
=============================================================================
