-------------------------- MODULE ConnectionManager --------------------------
(***************************************************************************)
(* The connection manager of the router (src/sk_router.c) together with    *)
(* the runs of the BPF stream parser and verdict (bpf/programs/            *)
(* sk_router.bpf.c) that share the BPF maps with it.                       *)
(*                                                                         *)
(* One userspace thread serves the listener and the lifecycle timer: it    *)
(* sets a connection up (add_connection_set) and takes it down             *)
(* (reap_connection_set), one system call per step, and every call may     *)
(* fail. Between two calls the kernel may run the BPF programs on any      *)
(* socket that is in the SOCKMAP. What the programs do with the bytes of a *)
(* request is abstracted to the keys they insert in and delete from the    *)
(* maps and to the SOCKMAP slot they redirect to.                          *)
(*                                                                         *)
(* A socket is a pair <<c, m>>, member m of the connection of the c-th     *)
(* accepted client. The pair is also its SO_COOKIE, which the kernel never *)
(* gives to a second socket.                                               *)
(***************************************************************************)
EXTENDS Integers, FiniteSets

CONSTANTS
  MAX_CONNECTION_SETS,   (* blocks in the pool                             *)
  SOCKS_PER_CONNECTION,  (* the client and its backends                    *)
  MaxAccepts,            (* bound: clients the listener accepts            *)
  FallibleCalls          (* the steps whose system call may fail           *)

ASSUME PoolAssumption ==
  /\ MAX_CONNECTION_SETS \in Nat \ {0}
  /\ SOCKS_PER_CONNECTION \in Nat \ {0, 1}
  /\ MaxAccepts \in Nat

CLIENT == 0
Sets == 0 .. MAX_CONNECTION_SETS - 1
Members == 0 .. SOCKS_PER_CONNECTION - 1
Backends == Members \ {CLIENT}
Conns == 1 .. MaxAccepts
NoConn == 0
Sockets == Conns \X Members
NoSocket == << NoConn, CLIENT >>
NoSet == -1

\* sets[i].slots[member]: each set owns a block of consecutive slots.
Slot(i, m) == i * SOCKS_PER_CONNECTION + m
Slots == 0 .. MAX_CONNECTION_SETS * SOCKS_PER_CONNECTION - 1

VARIABLES
  \* struct connection_set; a flag is the set of the sets that have it, a
  \* flag per member the set of the pairs <<set, member>> that have it
  allocated, active,
  client,              \* [Sets -> connection whose sockets the set holds]
  fds,                 \* <<set, member>> whose file descriptor is open
  has_cookie,          \* sets with cookies[CONNECTION_CLIENT] # 0
  lifecycle_installed, sockmap_installed, route_installed,
  \* struct connection_manager
  free_sets, free_count, active_count, quarantined_count,
  sockmap_entry_count, accepted_total, reaped_total,
  \* the userspace thread: where it is, and the locals of what it runs
  pc, cur, member, was_active, cleanup_failed, scan, running, arrived,
  \* the BPF maps
  sock_map,            \* [Slots -> socket]
  routes,              \* [Sockets -> set whose slots the entry names]
  lifecycle,           \* connections that have a key
  http_flows, route_decisions,              \* sockets that have a key
  \* the runs of the BPF programs, at most one per socket
  phase,               \* [Sockets -> where the run on that socket is]
  entry                \* [Sockets -> the route entry the run looked up]

setVars == << allocated, active, client, fds, has_cookie,
              lifecycle_installed, sockmap_installed, route_installed >>
poolVars == << free_sets, free_count, quarantined_count >>
countVars == << active_count, sockmap_entry_count, accepted_total, reaped_total >>
threadVars == << pc, cur, member, was_active, cleanup_failed, scan >>
mapVars == << sock_map, routes, lifecycle, http_flows, route_decisions >>
runVars == << phase, entry >>
vars == << setVars, poolVars, countVars, threadVars, running, arrived,
           mapVars, runVars >>

ReapSteps == { "reap_slots", "reap_routes", "reap_flow", "reap_lifecycle",
               "reap_decision", "reap_close", "retry_slot", "retry_route",
               "retry_flow", "retry_decision", "retry_lifecycle", "reap_finish" }
SetupSteps == { "connect", "cookies", "lifecycle", "routes", "slots", "activate" }
Steps == { "loop", "destroy", "done" } \cup SetupSteps \cup ReapSteps
Phases == { "idle", "parse", "decide", "verdict", "forget", "redirect" }

-----------------------------------------------------------------------------
Init ==
  /\ allocated = {} /\ active = {}
  /\ client = [i \in Sets |-> NoConn]
  /\ fds = {} /\ has_cookie = {}
  /\ lifecycle_installed = {} /\ sockmap_installed = {} /\ route_installed = {}
  /\ free_sets = [i \in Sets |-> MAX_CONNECTION_SETS - i - 1]
  /\ free_count = MAX_CONNECTION_SETS
  /\ active_count = 0 /\ quarantined_count = 0 /\ sockmap_entry_count = 0
  /\ accepted_total = 0 /\ reaped_total = 0
  /\ pc = "loop" /\ cur = NoSet /\ member = 0 /\ scan = NoSet
  /\ was_active = FALSE /\ cleanup_failed = FALSE
  /\ running = TRUE /\ arrived = 0
  /\ sock_map = [s \in Slots |-> NoSocket]
  /\ routes = [s \in Sockets |-> NoSet]
  /\ lifecycle = {} /\ http_flows = {} /\ route_decisions = {}
  /\ phase = [s \in Sockets |-> "idle"]
  /\ entry = [s \in Sockets |-> NoSet]

-----------------------------------------------------------------------------
(* The thread's control. *)

Goto(step) ==
  /\ pc' = step
  /\ UNCHANGED << cur, member, was_active, cleanup_failed, scan >>

\* The for loops over the members: next member, or out of the loop.
NextMember(step) ==
  IF member < SOCKS_PER_CONNECTION - 1
    THEN member' = member + 1 /\ UNCHANGED pc
    ELSE member' = 0 /\ pc' = step

\* A call of reap_connection_set(i): sets that are not allocated are left
\* alone by its callers here, an active one stops being so at once.
CallReap(i) ==
  /\ pc' = "reap_slots" /\ cur' = i /\ member' = 0
  /\ was_active' = (i \in active) /\ cleanup_failed' = FALSE
  /\ active' = active \ {i}
  /\ active_count' = IF i \in active THEN active_count - 1 ELSE active_count

SetupFails_Leaks ==
  /\ pc \in FallibleCalls
  /\ Goto("loop")
  /\ UNCHANGED << allocated, active, client, fds, lifecycle_installed,
                  sockmap_installed, route_installed, poolVars, countVars, mapVars >>

\* "goto fail" in add_connection_set.
SetupFails ==
  /\ pc \in FallibleCalls
  /\ CallReap(cur)
  /\ UNCHANGED << allocated, client, fds, lifecycle_installed,
                  sockmap_installed, route_installed, poolVars, scan,
                  sockmap_entry_count, accepted_total, reaped_total, mapVars >>

Sock(m) == << client[cur], m >>
ClientSock == Sock(CLIENT)

-----------------------------------------------------------------------------
(* add_connection_set *)

PoolExhausted_KeepsOne == free_count <= 1
PoolExhausted == free_count = 0

Accept ==
  /\ pc = "loop" /\ arrived < MaxAccepts
  /\ arrived' = arrived + 1
  /\ IF PoolExhausted
       THEN UNCHANGED << setVars, poolVars, threadVars >>
       ELSE LET i == free_sets[free_count - 1] IN
            /\ free_count' = free_count - 1
            /\ allocated' = allocated \cup {i}
            /\ client' = [client EXCEPT ![i] = arrived + 1]
            /\ fds' = fds \cup { << i, CLIENT >> }
            /\ pc' = "connect" /\ cur' = i /\ member' = 1
            /\ UNCHANGED << active, has_cookie, lifecycle_installed,
                            sockmap_installed, route_installed, free_sets,
                            quarantined_count, was_active, cleanup_failed, scan >>
  /\ UNCHANGED << countVars, running, mapVars, runVars >>

ConnectBackend ==
  /\ pc = "connect"
  /\ \/ /\ fds' = fds \cup { << cur, member >> }
        /\ NextMember("cookies")
        /\ UNCHANGED << allocated, active, client, has_cookie,
                        lifecycle_installed, sockmap_installed, route_installed,
                        poolVars, countVars, mapVars, cur, was_active,
                        cleanup_failed, scan >>
     \/ SetupFails /\ UNCHANGED has_cookie
  /\ UNCHANGED << running, arrived, runVars >>

\* getsockopt(SO_COOKIE) on every member and the first TCP_INFO of the
\* backends. The client's cookie is read first, so a failure may come before
\* or after it is stored.
GetCookies ==
  /\ pc = "cookies"
  /\ \/ /\ Goto("lifecycle")
        /\ has_cookie' = has_cookie \cup {cur}
        /\ UNCHANGED << allocated, active, client, fds, lifecycle_installed,
                        sockmap_installed, route_installed, poolVars,
                        countVars, mapVars >>
     \/ /\ SetupFails
        /\ has_cookie' \in { has_cookie, has_cookie \cup {cur} }
  /\ UNCHANGED << running, arrived, runVars >>

InstallLifecycle ==
  /\ pc = "lifecycle"
  /\ \/ /\ client[cur] \notin lifecycle
        /\ lifecycle' = lifecycle \cup { client[cur] }
        /\ lifecycle_installed' = lifecycle_installed \cup {cur}
        /\ Goto("routes")
        /\ UNCHANGED << allocated, active, client, fds, has_cookie,
                        sockmap_installed, route_installed, poolVars, countVars,
                        sock_map, routes, http_flows, route_decisions >>
     \/ SetupFails /\ UNCHANGED has_cookie
  /\ UNCHANGED << running, arrived, runVars >>

InstallRoute ==
  /\ pc = "routes"
  /\ \/ /\ routes' = [routes EXCEPT ![Sock(member)] = cur]
        /\ route_installed' = route_installed \cup { << cur, member >> }
        /\ NextMember("slots")
        /\ UNCHANGED << allocated, active, client, fds, has_cookie,
                        lifecycle_installed, sockmap_installed, poolVars,
                        countVars, cur, was_active, cleanup_failed, scan,
                        sock_map, lifecycle, http_flows, route_decisions >>
     \/ SetupFails /\ UNCHANGED has_cookie
  /\ UNCHANGED << running, arrived, runVars >>

InstallSlot ==
  /\ pc = "slots"
  /\ \/ /\ sock_map' = [sock_map EXCEPT ![Slot(cur, member)] = Sock(member)]
        /\ sockmap_installed' = sockmap_installed \cup { << cur, member >> }
        /\ sockmap_entry_count' = sockmap_entry_count + 1
        /\ NextMember("activate")
        /\ UNCHANGED << allocated, active, client, fds, has_cookie,
                        lifecycle_installed, route_installed, poolVars,
                        active_count, accepted_total, reaped_total,
                        cur, was_active, cleanup_failed, scan,
                        routes, lifecycle, http_flows, route_decisions >>
     \/ SetupFails /\ UNCHANGED has_cookie
  /\ UNCHANGED << running, arrived, runVars >>

Activate ==
  /\ pc = "activate"
  /\ active' = active \cup {cur}
  /\ active_count' = active_count + 1
  /\ accepted_total' = accepted_total + 1
  /\ Goto("loop")
  /\ UNCHANGED << allocated, client, fds, has_cookie, lifecycle_installed,
                  sockmap_installed, route_installed, poolVars,
                  sockmap_entry_count, reaped_total, running, arrived,
                  mapVars, runVars >>

-----------------------------------------------------------------------------
(* reap_connection_set *)

Here == << cur, member >>
Return == IF scan = NoSet THEN "loop" ELSE "destroy"

\* A deletion failed: the reap goes on and remembers it.
CallFails == pc \in FallibleCalls /\ cleanup_failed' = TRUE

DeleteSlot_Uncounted ==
  /\ sock_map' = [sock_map EXCEPT ![Slot(cur, member)] = NoSocket]
  /\ sockmap_installed' = sockmap_installed \ {Here}
  /\ sockmap_entry_count' = sockmap_entry_count - 1
  /\ UNCHANGED cleanup_failed

\* bpf_map_delete_elem on a SOCKMAP slot, then the flag of the member. An
\* empty slot counts as deleted (delete_sockmap_slot accepts EINVAL).
DeleteSlot ==
  IF Here \notin sockmap_installed
    THEN UNCHANGED << sock_map, sockmap_installed, sockmap_entry_count, cleanup_failed >>
    ELSE \/ /\ sock_map' = [sock_map EXCEPT ![Slot(cur, member)] = NoSocket]
            /\ sockmap_installed' = sockmap_installed \ {Here}
            /\ sockmap_entry_count' = sockmap_entry_count - 1
            /\ UNCHANGED cleanup_failed
         \/ /\ CallFails
            /\ UNCHANGED << sock_map, sockmap_installed, sockmap_entry_count >>

DeleteRoute ==
  IF Here \notin route_installed
    THEN UNCHANGED << routes, route_installed, cleanup_failed >>
    ELSE \/ /\ routes' = [routes EXCEPT ![Sock(member)] = NoSet]
            /\ route_installed' = route_installed \ {Here}
            /\ UNCHANGED cleanup_failed
         \/ /\ CallFails
            /\ UNCHANGED << routes, route_installed >>

\* The client-cookie keys. A missing key counts as deleted (delete_map_key
\* accepts ENOENT).
DeleteFlow ==
  \/ http_flows' = http_flows \ { ClientSock } /\ UNCHANGED cleanup_failed
  \/ UNCHANGED http_flows /\ CallFails

DeleteDecision ==
  \/ route_decisions' = route_decisions \ { ClientSock } /\ UNCHANGED cleanup_failed
  \/ UNCHANGED route_decisions /\ CallFails

DeleteLifecycle_Unchecked ==
  /\ lifecycle' \in { lifecycle, lifecycle \ { client[cur] } }
  /\ lifecycle_installed' = lifecycle_installed \ {cur}
  /\ UNCHANGED cleanup_failed

DeleteLifecycle ==
  \/ /\ lifecycle' = IF cur \in lifecycle_installed
                        THEN lifecycle \ { client[cur] } ELSE lifecycle
     /\ lifecycle_installed' = lifecycle_installed \ {cur}
     /\ UNCHANGED cleanup_failed
  \/ /\ cur \in lifecycle_installed
     /\ CallFails
     /\ UNCHANGED << lifecycle, lifecycle_installed >>

\* What no step between the call and the return of a reap touches.
ReapFrame ==
  UNCHANGED << allocated, active, client, has_cookie, poolVars, active_count,
               accepted_total, reaped_total, cur, was_active, scan,
               running, arrived, runVars >>

ReapSlot ==
  /\ pc = "reap_slots"
  /\ DeleteSlot /\ NextMember("reap_routes")
  /\ ReapFrame
  /\ UNCHANGED << fds, lifecycle_installed, route_installed,
                  routes, lifecycle, http_flows, route_decisions >>

ReapRoute ==
  /\ pc = "reap_routes"
  /\ DeleteRoute
  /\ NextMember(IF cur \in has_cookie THEN "reap_flow" ELSE "reap_close")
  /\ ReapFrame
  /\ UNCHANGED << fds, lifecycle_installed, sockmap_installed, sockmap_entry_count,
                  sock_map, lifecycle, http_flows, route_decisions >>

ReapFlow ==
  /\ pc = "reap_flow" /\ pc' = "reap_lifecycle"
  /\ DeleteFlow
  /\ ReapFrame
  /\ UNCHANGED << member, fds, lifecycle_installed, sockmap_installed,
                  route_installed, sockmap_entry_count, sock_map, routes,
                  lifecycle, route_decisions >>

ReapLifecycle ==
  /\ pc = "reap_lifecycle" /\ pc' = "reap_decision"
  /\ DeleteLifecycle
  /\ ReapFrame
  /\ UNCHANGED << member, fds, sockmap_installed, route_installed,
                  sockmap_entry_count, sock_map, routes, http_flows,
                  route_decisions >>

ReapDecision_SkipsClose ==
  /\ pc = "reap_decision" /\ pc' = "reap_finish"
  /\ DeleteDecision
  /\ ReapFrame
  /\ UNCHANGED << member, fds, lifecycle_installed, sockmap_installed,
                  route_installed, sockmap_entry_count, sock_map, routes,
                  lifecycle, http_flows >>

ReapDecision ==
  /\ pc = "reap_decision" /\ pc' = "reap_close"
  /\ DeleteDecision
  /\ ReapFrame
  /\ UNCHANGED << member, fds, lifecycle_installed, sockmap_installed,
                  route_installed, sockmap_entry_count, sock_map, routes,
                  lifecycle, http_flows >>

AfterClose_NoRetry == "reap_finish"

\* The retry runs only when a deletion failed.
AfterClose == IF cleanup_failed THEN "retry_slot" ELSE "reap_finish"

\* close() takes the socket lock, so it waits for the run on that socket,
\* and the kernel unlinks the socket from the SOCKMAP.
ReapClose ==
  /\ pc = "reap_close"
  /\ IF Here \notin fds
       THEN UNCHANGED << fds, sock_map >>
       ELSE /\ phase[Sock(member)] = "idle"
            /\ fds' = fds \ {Here}
            /\ sock_map' = [s \in Slots |->
                              IF sock_map[s] = Sock(member) THEN NoSocket ELSE sock_map[s]]
  /\ NextMember(AfterClose)
  /\ IF member = SOCKS_PER_CONNECTION - 1
       THEN cleanup_failed' = FALSE ELSE UNCHANGED cleanup_failed
  /\ ReapFrame
  /\ UNCHANGED << lifecycle_installed, sockmap_installed, route_installed,
                  sockmap_entry_count, routes, lifecycle, http_flows,
                  route_decisions >>

\* The retry after close: per member its slot and then its route, ...
RetrySlot ==
  /\ pc = "retry_slot" /\ pc' = "retry_route"
  /\ DeleteSlot
  /\ ReapFrame
  /\ UNCHANGED << member, fds, lifecycle_installed, route_installed,
                  routes, lifecycle, http_flows, route_decisions >>

RetryRoute ==
  /\ pc = "retry_route"
  /\ DeleteRoute
  /\ IF member < SOCKS_PER_CONNECTION - 1
       THEN member' = member + 1 /\ pc' = "retry_slot"
       ELSE /\ member' = 0
            /\ pc' = IF cur \in has_cookie THEN "retry_flow" ELSE "retry_lifecycle"
  /\ ReapFrame
  /\ UNCHANGED << fds, lifecycle_installed, sockmap_installed, sockmap_entry_count,
                  sock_map, lifecycle, http_flows, route_decisions >>

\* ... the flow and, only if that went well (short-circuit ||), the decision, ...
RetryFlow ==
  /\ pc = "retry_flow"
  /\ \/ /\ http_flows' = http_flows \ { ClientSock } /\ pc' = "retry_decision"
        /\ UNCHANGED cleanup_failed
     \/ /\ UNCHANGED http_flows /\ pc' = "retry_lifecycle"
        /\ CallFails
  /\ ReapFrame
  /\ UNCHANGED << member, fds, lifecycle_installed, sockmap_installed,
                  route_installed, sockmap_entry_count, sock_map, routes,
                  lifecycle, route_decisions >>

RetryDecision ==
  /\ pc = "retry_decision" /\ pc' = "retry_lifecycle"
  /\ DeleteDecision
  /\ ReapFrame
  /\ UNCHANGED << member, fds, lifecycle_installed, sockmap_installed,
                  route_installed, sockmap_entry_count, sock_map, routes,
                  lifecycle, http_flows >>

\* ... and the lifecycle state.
RetryLifecycle ==
  /\ pc = "retry_lifecycle" /\ pc' = "reap_finish"
  /\ DeleteLifecycle
  /\ ReapFrame
  /\ UNCHANGED << member, fds, sockmap_installed, route_installed,
                  sockmap_entry_count, sock_map, routes, http_flows,
                  route_decisions >>

\* reset_connection_set
ResetSet(i) ==
  /\ client' = [client EXCEPT ![i] = NoConn]
  /\ has_cookie' = has_cookie \ {i}
  /\ lifecycle_installed' = lifecycle_installed \ {i}
  /\ sockmap_installed' = sockmap_installed \ ({i} \X Members)
  /\ route_installed' = route_installed \ ({i} \X Members)
  /\ fds' = fds \ ({i} \X Members)

Quarantine_FallsThrough ==
  /\ pc = "reap_finish" /\ cleanup_failed
  /\ quarantined_count' = quarantined_count + 1
  /\ allocated' = allocated \ {cur}
  /\ free_sets' = [free_sets EXCEPT ![free_count] = cur]
  /\ free_count' = free_count + 1
  /\ ResetSet(cur)
  /\ Goto(Return)
  /\ UNCHANGED << active, countVars, running, arrived, mapVars, runVars >>

Quarantine ==
  /\ pc = "reap_finish" /\ cleanup_failed
  /\ quarantined_count' = quarantined_count + 1
  /\ allocated' = allocated \ {cur}
  /\ Goto(Return)
  /\ UNCHANGED << active, client, fds, has_cookie, lifecycle_installed,
                  sockmap_installed, route_installed, free_sets, free_count,
                  countVars, running, arrived, mapVars, runVars >>

Recycle_CountsAll ==
  /\ pc = "reap_finish" /\ ~cleanup_failed
  /\ ResetSet(cur)
  /\ allocated' = allocated \ {cur}
  /\ free_sets' = [free_sets EXCEPT ![free_count] = cur]
  /\ free_count' = free_count + 1
  /\ reaped_total' = reaped_total + 1
  /\ Goto(Return)
  /\ UNCHANGED << active, quarantined_count, active_count, sockmap_entry_count,
                  accepted_total, running, arrived, mapVars, runVars >>

Recycle ==
  /\ pc = "reap_finish" /\ ~cleanup_failed
  /\ ResetSet(cur)
  /\ allocated' = allocated \ {cur}
  /\ free_sets' = [free_sets EXCEPT ![free_count] = cur]
  /\ free_count' = free_count + 1
  /\ reaped_total' = IF was_active THEN reaped_total + 1 ELSE reaped_total
  /\ Goto(Return)
  /\ UNCHANGED << active, quarantined_count, active_count, sockmap_entry_count,
                  accepted_total, running, arrived, mapVars, runVars >>

-----------------------------------------------------------------------------
(* The callers of reap_connection_set, and the end of the program. *)

CallFrame ==
  UNCHANGED << allocated, client, fds, has_cookie, lifecycle_installed,
               sockmap_installed, route_installed, poolVars,
               sockmap_entry_count, accepted_total, reaped_total,
               running, arrived, mapVars, runVars >>

\* poll_connection_lifecycle gives up an active set. Which one and why is
\* the subject of Connection.
LifecycleReap(i) ==
  /\ pc = "loop" /\ i \in active
  /\ CallReap(i)
  /\ UNCHANGED scan
  /\ CallFrame

\* handle_signal: at any moment.
Signal ==
  /\ running /\ running' = FALSE
  /\ UNCHANGED << setVars, poolVars, countVars, threadVars, arrived, mapVars, runVars >>

LeaveLoop ==
  /\ pc = "loop" /\ ~running
  /\ pc' = "destroy" /\ scan' = 0
  /\ UNCHANGED << setVars, poolVars, countVars, cur, member, was_active,
                  cleanup_failed, running, arrived, mapVars, runVars >>

SetsLeft_OneShort == scan < MAX_CONNECTION_SETS - 1
SetsLeft == scan < MAX_CONNECTION_SETS

DestroyReap_ByCookie ==
  /\ pc = "destroy" /\ SetsLeft /\ scan \in has_cookie \cup allocated
  /\ CallReap(scan)
  /\ scan' = scan + 1
  /\ CallFrame

DestroyReap ==
  /\ pc = "destroy" /\ SetsLeft /\ scan \in allocated
  /\ CallReap(scan)
  /\ scan' = scan + 1
  /\ CallFrame

DestroySkip ==
  /\ pc = "destroy"
  /\ \/ SetsLeft /\ scan \notin allocated /\ scan' = scan + 1 /\ UNCHANGED pc
     \/ ~SetsLeft /\ pc' = "done" /\ UNCHANGED scan
  /\ UNCHANGED << setVars, poolVars, countVars, cur, member, was_active,
                  cleanup_failed, running, arrived, mapVars, runVars >>

-----------------------------------------------------------------------------
(* The runs of the BPF programs. A run starts on a socket the SOCKMAP holds *)
(* and, once started, goes on even when the slot is deleted meanwhile: the  *)
(* stream parser's work item holds the socket lock, not the map.            *)

IsClient(s) == s[2] = CLIENT

RunFrame == UNCHANGED << setVars, poolVars, countVars, threadVars, running, arrived >>

StartRun(s) ==
  /\ phase[s] = "idle"
  /\ \E i \in Sets, m \in Members : sock_map[Slot(i, m)] = s
  /\ phase' = [phase EXCEPT ![s] = "parse"]
  /\ UNCHANGED << entry, mapVars >>
  /\ RunFrame

\* A backend's data needs no parsing, but only its route tells the parser so:
\* once that is deleted, the data is parsed as if it were a request.
PassedBy(s) == ~IsClient(s) /\ routes[s] # NoSet

\* sk_router_parser up to its early return: the flow's state is created on
\* the first callback, under the cookie of the run's socket, and kept for the
\* next one if the request is incomplete.
Parse(s) ==
  /\ phase[s] = "parse"
  /\ \/ PassedBy(s) /\ UNCHANGED http_flows /\ phase' = [phase EXCEPT ![s] = "verdict"]
     \/ /\ ~PassedBy(s)
        /\ \/ http_flows' = http_flows \cup { s } /\ phase' = [phase EXCEPT ![s] = "decide"]
           \/ /\ http_flows' \in { http_flows, http_flows \cup { s } }
              /\ phase' = [phase EXCEPT ![s] = "idle"]
  /\ UNCHANGED << entry, sock_map, routes, lifecycle, route_decisions >>
  /\ RunFrame

Decide(s) ==
  /\ phase[s] = "decide"
  /\ route_decisions' = route_decisions \cup { s }
  /\ phase' = [phase EXCEPT ![s] = "verdict"]
  /\ UNCHANGED << entry, sock_map, routes, lifecycle, http_flows >>
  /\ RunFrame

\* sk_router_verdict drops the data, and cleans nothing up, when it finds no
\* route for the socket.
LookupRoute(s) ==
  /\ phase[s] = "verdict"
  /\ IF routes[s] = NoSet
       THEN phase' = [phase EXCEPT ![s] = "idle"] /\ UNCHANGED entry
       ELSE /\ phase' = [phase EXCEPT ![s] = IF IsClient(s) THEN "forget" ELSE "redirect"]
            /\ entry' = [entry EXCEPT ![s] = routes[s]]
  /\ UNCHANGED mapVars
  /\ RunFrame

\* The two deletions of the keys of a classified request.
Forget(s) ==
  /\ phase[s] = "forget"
  /\ route_decisions' = route_decisions \ { s }
  /\ http_flows' = http_flows \ { s }
  /\ phase' = [phase EXCEPT ![s] = "redirect"]
  /\ UNCHANGED << entry, sock_map, routes, lifecycle >>
  /\ RunFrame

\* The members a run may redirect to, and the sockets its bytes may reach.
TargetMembers(s) == IF IsClient(s) THEN Backends ELSE {CLIENT}
Receivers(s) == { sock_map[Slot(entry[s], m)] : m \in TargetMembers(s) } \ {NoSocket}

Redirect(s) ==
  /\ phase[s] = "redirect"
  /\ phase' = [phase EXCEPT ![s] = "idle"]
  /\ entry' = [entry EXCEPT ![s] = NoSet]
  /\ UNCHANGED mapVars
  /\ RunFrame

-----------------------------------------------------------------------------
Setup == Accept \/ ConnectBackend \/ GetCookies \/ InstallLifecycle
           \/ InstallRoute \/ InstallSlot \/ Activate
Reap == ReapSlot \/ ReapRoute \/ ReapFlow \/ ReapLifecycle \/ ReapDecision
          \/ ReapClose \/ RetrySlot \/ RetryRoute \/ RetryFlow
          \/ RetryDecision \/ RetryLifecycle \/ Quarantine \/ Recycle
Shutdown == LeaveLoop \/ DestroyReap \/ DestroySkip
RunStep(s) == Parse(s) \/ Decide(s) \/ LookupRoute(s) \/ Forget(s) \/ Redirect(s)

Done == pc = "done" /\ UNCHANGED vars

Next ==
  \/ Setup
  \/ Reap
  \/ \E i \in Sets : LifecycleReap(i)
  \/ Signal
  \/ Shutdown
  \/ \E s \in Sockets : StartRun(s) \/ RunStep(s)
  \/ Done

Spec == Init /\ [][Next]_vars

\* Once started, a handler runs to its end and a signalled loop is left: the
\* thread is never blocked for ever. Its close() gets a contended socket lock
\* (strong fairness: the lock queues its waiters), and a BPF run is finite. No
\* client has to connect, send or hang up.
Handler == (Setup /\ pc # "loop") \/ Reap \/ Shutdown
FairSpec ==
  /\ Spec
  /\ WF_vars(Handler) /\ SF_vars(ReapClose)
  /\ \A s \in Sockets : WF_vars(RunStep(s))

-----------------------------------------------------------------------------
(* Properties *)

\* The type invariant: every field of the manager, the maps and the runs.
TypeOK ==
  /\ allocated \subseteq Sets /\ active \subseteq Sets
  /\ client \in [Sets -> Conns \cup {NoConn}]
  /\ fds \subseteq Sets \X Members /\ has_cookie \subseteq Sets
  /\ lifecycle_installed \subseteq Sets
  /\ sockmap_installed \subseteq Sets \X Members
  /\ route_installed \subseteq Sets \X Members
  /\ free_sets \in [Sets -> Sets] /\ free_count \in 0 .. MAX_CONNECTION_SETS
  /\ active_count \in Nat /\ quarantined_count \in Nat
  /\ sockmap_entry_count \in Nat /\ accepted_total \in Nat /\ reaped_total \in Nat
  /\ pc \in Steps /\ cur \in Sets \cup {NoSet} /\ member \in Members
  /\ was_active \in BOOLEAN /\ cleanup_failed \in BOOLEAN
  /\ scan \in Sets \cup {NoSet, MAX_CONNECTION_SETS}
  /\ running \in BOOLEAN /\ arrived \in 0 .. MaxAccepts
  /\ sock_map \in [Slots -> Sockets \cup {NoSocket}]
  /\ routes \in [Sockets -> Sets \cup {NoSet}]
  /\ lifecycle \subseteq Conns
  /\ http_flows \subseteq Sockets /\ route_decisions \subseteq Sockets
  /\ phase \in [Sockets -> Phases] /\ entry \in [Sockets -> Sets \cup {NoSet}]

\* The sets the free list offers, and the sets that are out of service.
FreeSets == { free_sets[k] : k \in 0 .. free_count - 1 }
Quarantined == Sets \ (allocated \cup FreeSets)

\* No block is handed out twice and none is lost: the free list has no
\* duplicate and no allocated set, and together with the allocated sets and
\* the counted quarantined ones it accounts for the whole pool, across every
\* failed setup, retry and quarantine.
PoolPartition ==
  /\ \A j, k \in 0 .. free_count - 1 : free_sets[j] = free_sets[k] => j = k
  /\ allocated \cap FreeSets = {}
  /\ Cardinality(Quarantined) = quarantined_count

\* Bytes never cross connections: whatever slot a run of the BPF programs is
\* about to redirect to, it is empty or holds a socket of the run's own
\* connection, although blocks are recycled while runs hold route entries
\* they looked up earlier.
NoCrossTalk ==
  \A s \in Sockets : phase[s] = "redirect" => \A r \in Receivers(s) : r[1] = s[1]

\* "Never recycle the six-slot block unless every old key is confirmed gone":
\* a set on the free list owns no slot, no route entry, no flag and no file
\* descriptor, and no run still holds a route entry that names it.
FreeSetsAreClean ==
  \A i \in FreeSets :
    /\ \A m \in Members : sock_map[Slot(i, m)] = NoSocket /\ << i, m >> \notin
                             fds \cup sockmap_installed \cup route_installed
    /\ i \notin lifecycle_installed
    /\ \A s \in Sockets : routes[s] # i /\ entry[s] # i

\* A connection's lifecycle and route keys live only as long as a set that
\* can delete them: in use, or quarantined because a deletion failed.
KeysAreOwned ==
  /\ \A c \in lifecycle : \E i \in Sets \ FreeSets :
        client[i] = c /\ i \in lifecycle_installed
  /\ \A s \in Sockets : routes[s] # NoSet =>
        /\ routes[s] \notin FreeSets /\ client[routes[s]] = s[1]
        /\ << routes[s], s[2] >> \in route_installed

\* The counters that the status socket reports. Between two events every
\* accepted connection is active, reaped or quarantined.
CountersAgree ==
  /\ active_count = Cardinality(active)
  /\ sockmap_entry_count = Cardinality(sockmap_installed)
  /\ reaped_total + active_count <= accepted_total
  /\ pc = "loop" => accepted_total <= reaped_total + active_count + quarantined_count

\* Between two events no set is half set up: an allocated set is active, has
\* its sockets in its slots, their routes and its lifecycle state, and these
\* are all the sockets the SOCKMAP holds.
LoopIsSettled ==
  pc = "loop" =>
    /\ allocated = active
    /\ \A i \in allocated :
         /\ client[i] \in lifecycle
         /\ \A m \in Members : /\ sock_map[Slot(i, m)] = << client[i], m >>
                               /\ routes[<< client[i], m >>] = i
    /\ \A i \in Sets \ allocated : \A m \in Members : sock_map[Slot(i, m)] = NoSocket

\* A quarantined block stays out of service until the process ends.
QuarantineIsForever == [][Quarantined \subseteq Quarantined']_vars

\* The blocks as the abstract pool sees them.
Owner == [i \in Sets |-> IF i \in allocated THEN client[i]
                         ELSE IF i \in FreeSets THEN 0 ELSE -1]
Pool == INSTANCE SlotPool WITH Blocks <- Sets, Clients <- Conns,
          Free <- 0, Retired <- -1, owner <- Owner, seen <- 1 .. arrived

\* The connection manager implements the pool: every client gets at most one
\* block, and none is turned away while a block is free.
ImplementsPool == Pool!Spec

\* After SIGINT or SIGTERM the router comes to its end with every descriptor
\* closed, whatever system calls fail on the way.
ShutdownCompletes == ~running ~> (pc = "done" /\ allocated = {} /\ fds = {})

\* What the comment in reap_connection_set (src/sk_router.c:540) and the
\* quiescence check of the benchmarks rely on: once a connection's set is
\* back on the free list, the connection has no key in the HTTP flow and
\* route decision maps.
RecycledMeansGone ==
  \A s \in http_flows \cup route_decisions : \E i \in Sets \ FreeSets : client[i] = s[1]

-----------------------------------------------------------------------------
(* The inductive invariant. It follows the thread through a reap: how many *)
(* of the members of cur have been dealt with when control is where it is. *)

\* The thread works on cur, which is allocated and not active; active sets
\* are allocated; between two loops the member is the first one.
CurIsHeld ==
  /\ pc \in SetupSteps \cup ReapSteps => cur \in allocated \ active
  /\ active \subseteq allocated
  /\ pc \in { "reap_flow", "reap_lifecycle", "reap_decision" } => member = 0

RetryTail == { "retry_flow", "retry_decision", "retry_lifecycle", "reap_finish" }
ReapTail == { "reap_flow", "reap_lifecycle", "reap_decision", "reap_close" } \cup RetryTail

\* Members of cur whose slot, route and descriptor are already dealt with.
SlotsDone ==
  IF pc \in { "reap_slots", "retry_slot" } THEN member
  ELSE IF pc = "retry_route" THEN member + 1
  ELSE IF pc \in { "reap_routes" } \cup ReapTail THEN SOCKS_PER_CONNECTION ELSE 0
RoutesDone ==
  IF pc \in { "reap_routes", "retry_slot", "retry_route" } THEN member
  ELSE IF pc \in ReapTail THEN SOCKS_PER_CONNECTION ELSE 0
ClosesDone ==
  IF pc = "reap_close" THEN member
  ELSE IF pc \in { "retry_slot", "retry_route" } \cup RetryTail
    THEN SOCKS_PER_CONNECTION ELSE 0

\* As long as no deletion failed, what is dealt with has lost its flag; a
\* closed descriptor is closed in any case. A setup opens all the sockets,
\* then installs the slots in order.
CurProgress ==
  \A m \in Members :
    /\ pc = "connect" /\ m < member => << cur, m >> \in fds
    /\ pc \in SetupSteps \ {"connect"} => << cur, m >> \in fds
    /\ ~cleanup_failed /\ m < SlotsDone => << cur, m >> \notin sockmap_installed
    /\ ~cleanup_failed /\ m < RoutesDone => << cur, m >> \notin route_installed
    /\ m < ClosesDone => << cur, m >> \notin fds
    /\ pc \in { "connect", "cookies", "lifecycle", "routes" } =>
         << cur, m >> \notin sockmap_installed
    /\ pc = "slots" /\ m >= member => << cur, m >> \notin sockmap_installed

\* Slots of the SOCKMAP hold open sockets of the set that owns the slot.
SlotsAreOwned ==
  \A i \in Sets, m \in Members : sock_map[Slot(i, m)] # NoSocket =>
    sock_map[Slot(i, m)] = << client[i], m >> /\ << i, m >> \in fds

RoutesAreOwned ==
  \A s \in Sockets : routes[s] # NoSet =>
    client[routes[s]] = s[1] /\ << routes[s], s[2] >> \in route_installed

\* A run goes on only on an open socket, and a route entry it looked up names
\* the set that holds its own connection.
RunsAreOwned ==
  \A s \in Sockets :
    /\ phase[s] # "idle" => \E i \in Sets : client[i] = s[1] /\ << i, s[2] >> \in fds
    /\ entry[s] # NoSet <=> phase[s] \in { "forget", "redirect" }
    /\ entry[s] # NoSet => client[entry[s]] = s[1]

\* Every connection is held by one set, and a set on the free list is empty.
ClientsAreHeld ==
  /\ \A i, j \in Sets : client[i] = client[j] /\ client[i] # NoConn => i = j
  /\ \A i \in Sets : client[i] <= arrived
  /\ \A i \in allocated : client[i] # NoConn
  /\ \A i \in FreeSets : /\ client[i] = NoConn
                        /\ \A m \in Members : << i, m >> \notin
                             fds \cup sockmap_installed \cup route_installed

CountersCount ==
  /\ active_count = Cardinality(active)
  /\ sockmap_entry_count = Cardinality(sockmap_installed)

IInv ==
  /\ TypeOK /\ PoolPartition /\ CurIsHeld /\ CurProgress /\ SlotsAreOwned
  /\ RoutesAreOwned /\ RunsAreOwned /\ ClientsAreHeld /\ CountersCount
-----------------------------------------------------------------------------
(* What holds on top of IInv: whose the lifecycle keys are, what an active  *)
(* set has in the maps, and where every accepted connection is counted.     *)

\* A lifecycle key belongs to the set that has the flag for it. Only a set
\* whose cookie was read gets the flag, and unless a deletion failed the reap
\* has cleared it when it closes the sockets.
LifecycleIsOwned ==
  /\ \A c \in lifecycle : \E i \in Sets : client[i] = c /\ i \in lifecycle_installed
  /\ lifecycle_installed \subseteq has_cookie
  /\ lifecycle_installed \cap FreeSets = {}
  /\ pc = "lifecycle" => cur \in has_cookie
  /\ ~cleanup_failed /\ pc \in { "reap_decision", "reap_close", "reap_finish" } =>
       cur \notin lifecycle_installed

\* Only allocated sets have open sockets: a quarantined one closed its own.
FdsAreAllocated == \A i \in Sets, m \in Members : << i, m >> \in fds => i \in allocated

\* The thread holds at most one set that is not active: the one it sets up or
\* reaps.
AllocatedIsActive ==
  allocated = IF pc \in SetupSteps \cup ReapSteps THEN active \cup {cur} ELSE active

\* An active set has its lifecycle state, its routes and its sockets' slots.
ActiveIsServed ==
  \A i \in active :
    /\ client[i] \in lifecycle
    /\ \A m \in Members : /\ sock_map[Slot(i, m)] = << client[i], m >>
                          /\ routes[<< client[i], m >>] = i

\* The set being set up has the keys of the steps it is past.
RoutesSet ==
  IF pc = "routes" THEN member
  ELSE IF pc \in { "slots", "activate" } THEN SOCKS_PER_CONNECTION ELSE 0
SlotsSet ==
  IF pc = "slots" THEN member ELSE IF pc = "activate" THEN SOCKS_PER_CONNECTION ELSE 0
SetupProgress ==
  /\ pc \in { "cookies", "lifecycle" } => member = 0
  /\ pc \in { "routes", "slots", "activate" } => client[cur] \in lifecycle
  /\ \A m \in Members :
       /\ m < RoutesSet => routes[Sock(m)] = cur
       /\ m < SlotsSet => sock_map[Slot(cur, m)] = Sock(m)

\* An accepted connection is active, being reaped, reaped or quarantined.
Pending == IF pc \in ReapSteps /\ was_active THEN 1 ELSE 0
AcceptedAreAccounted ==
  /\ reaped_total + active_count + Pending <= accepted_total
  /\ accepted_total <= reaped_total + active_count + Pending + quarantined_count

KeysInv ==
  /\ LifecycleIsOwned /\ FdsAreAllocated /\ AllocatedIsActive
  /\ ActiveIsServed /\ SetupProgress /\ AcceptedAreAccounted
=============================================================================
