----------------------- MODULE ConnectionManagerProofs -----------------------
(***************************************************************************)
(* Proofs about ConnectionManager, for every pool size, every number of    *)
(* sockets per connection, every number of clients and every set of calls  *)
(* that may fail.                                                          *)
(***************************************************************************)
EXTENDS ConnectionManager, FiniteSetTheorems, TLAPS

-----------------------------------------------------------------------------
(* Arithmetic of the blocks. *)

\* The blocks and their members are numbered from 0, and a map has at least
\* one slot.
LEMMA ConstantFacts ==
  /\ MAX_CONNECTION_SETS \in Nat /\ MAX_CONNECTION_SETS >= 1
  /\ SOCKS_PER_CONNECTION \in Nat /\ SOCKS_PER_CONNECTION >= 2
  /\ MaxAccepts \in Nat
  /\ NoSet \notin Sets /\ NoConn \notin Conns
  /\ 0 \in Members /\ CLIENT \in Members
  BY PoolAssumption DEF NoSet, Sets, NoConn, Conns, Members, CLIENT

\* A lower block ends before a higher one begins.
LEMMA BlocksAreOrdered ==
  ASSUME NEW i \in Sets, NEW j \in Sets, i < j
  PROVE  i * SOCKS_PER_CONNECTION + SOCKS_PER_CONNECTION <= j * SOCKS_PER_CONNECTION
<1> DEFINE S == SOCKS_PER_CONNECTION
<1>1. S \in Nat /\ i \in Int /\ j \in Int
  BY ConstantFacts DEF Sets
<1> DEFINE k == j - i - 1
<1>2. k \in Nat /\ j = i + 1 + k
  BY <1>1
<1>3. j * S = (i + 1 + k) * S
  BY <1>2
<1> HIDE DEF k, S
<1>4. (i + 1 + k) * S = i * S + S + k * S
  BY <1>1, <1>2
<1>5. k * S >= 0
  BY <1>1, <1>2
<1>6. i * S \in Int /\ k * S \in Int
  BY <1>1, <1>2
<1>7. i * S + S <= j * S
  BY <1>1, <1>3, <1>4, <1>5, <1>6
<1> QED
  BY <1>7 DEF S

\* Two sets never share a slot, nor do two members of a set.
LEMMA SlotInjective ==
  ASSUME NEW i \in Sets, NEW j \in Sets, NEW m \in Members, NEW n \in Members
  PROVE  Slot(i, m) = Slot(j, n) <=> i = j /\ m = n
<1>1. /\ SOCKS_PER_CONNECTION \in Nat /\ i \in Int /\ j \in Int
      /\ m \in 0 .. SOCKS_PER_CONNECTION - 1 /\ n \in 0 .. SOCKS_PER_CONNECTION - 1
      /\ i * SOCKS_PER_CONNECTION \in Int /\ j * SOCKS_PER_CONNECTION \in Int
  BY ConstantFacts DEF Sets, Members
<1>2. CASE i = j
  BY <1>1, <1>2 DEF Slot
<1>3. CASE i < j
  BY <1>1, <1>3, BlocksAreOrdered DEF Slot
<1>4. CASE j < i
  BY <1>1, <1>4, BlocksAreOrdered DEF Slot
<1> QED
  BY <1>1, <1>2, <1>3, <1>4

\* Every slot of a block is a key of the SOCKMAP.
LEMMA SlotInRange ==
  ASSUME NEW i \in Sets, NEW m \in Members
  PROVE  Slot(i, m) \in Slots
<1> DEFINE S == SOCKS_PER_CONNECTION
           last == MAX_CONNECTION_SETS - 1
<1>1. /\ S \in Nat /\ i \in Nat /\ m \in 0 .. S - 1
      /\ last \in Sets /\ i <= last /\ i * S \in Nat /\ last * S \in Int
  BY ConstantFacts DEF Sets, Members
<1>2. i * S <= last * S
  <2>1. CASE i = last
    BY <1>1, <2>1
  <2>2. CASE i < last
    <3>1. i * S + S <= last * S
      BY <1>1, <2>2, BlocksAreOrdered
    <3> QED
      BY <1>1, <3>1
  <2> HIDE DEF S, last
  <2> QED
    BY <1>1, <2>1, <2>2
<1>3. last * S = MAX_CONNECTION_SETS * S - S
  BY ConstantFacts
<1>4. MAX_CONNECTION_SETS * S \in Int
  BY ConstantFacts
<1> HIDE DEF S, last
<1>5. i * S + m \in 0 .. MAX_CONNECTION_SETS * S - 1
  BY <1>1, <1>2, <1>3, <1>4
<1> QED
  BY <1>5 DEF S, Slot, Slots

-----------------------------------------------------------------------------
(* Finite sets. *)

\* The sets and slots of the manager can be counted.
LEMMA SetsFinite ==
  /\ IsFiniteSet(Sets) /\ Cardinality(Sets) = MAX_CONNECTION_SETS
  /\ IsFiniteSet(Sets \X Members)
<1>1. IsFiniteSet(Sets) /\ Cardinality(Sets) = MAX_CONNECTION_SETS
  BY ConstantFacts, FS_Interval DEF Sets
<1>2. IsFiniteSet(Members)
  BY ConstantFacts, FS_Interval DEF Members
<1> QED
  BY <1>1, <1>2, FS_Product

\* A subset of a finite set after one element came or went.
LEMMA AddOne ==
  ASSUME NEW U, IsFiniteSet(U), NEW S \in SUBSET U, NEW x, x \notin S
  PROVE  Cardinality(S) \in Nat /\ Cardinality(S \cup {x}) = Cardinality(S) + 1
  BY FS_Subset, FS_AddElement, FS_CardinalityType

\* A set that leaves a finite set of sets takes one from its size.
LEMMA RemoveOne ==
  ASSUME NEW U, IsFiniteSet(U), NEW S \in SUBSET U, NEW x \in S
  PROVE  /\ Cardinality(S) \in Nat /\ Cardinality(S \ {x}) \in Nat
         /\ Cardinality(S \ {x}) = Cardinality(S) - 1
  BY FS_Subset, FS_RemoveElement, FS_CardinalityType

-----------------------------------------------------------------------------
(* The free list. *)

\* A list without duplicates that misses a set has room for it.
LEMMA FreeListHasRoom ==
  ASSUME TypeOK, PoolPartition, NEW i \in Sets, i \notin FreeSets
  PROVE  free_count < MAX_CONNECTION_SETS
<1> DEFINE I == 0 .. free_count - 1
           f == [k \in I |-> free_sets[k]]
<1>1. free_count \in Nat /\ MAX_CONNECTION_SETS \in Nat /\ free_sets \in [Sets -> Sets]
      /\ free_count <= MAX_CONNECTION_SETS
  BY ConstantFacts DEF TypeOK
<1>2. IsFiniteSet(I) /\ Cardinality(I) = free_count
  <2>1. IsFiniteSet(I) /\ Cardinality(I) = IF 0 > free_count - 1 THEN 0 ELSE free_count - 1 - 0 + 1
    BY <1>1, FS_Interval
  <2> QED
    BY <1>1, <2>1
<1>3. IsFiniteSet(Sets \ {i}) /\ Cardinality(Sets \ {i}) = MAX_CONNECTION_SETS - 1
  BY SetsFinite, FS_RemoveElement
<1>4. \A k \in I : k \in Sets
  BY <1>1 DEF Sets
<1>5. f \in [I -> Sets \ {i}]
  BY <1>1, <1>4 DEF FreeSets
<1>6. ~ \E j, k \in I : j # k /\ f[j] = f[k]
  BY DEF PoolPartition
<1>7. ~ (Cardinality(Sets \ {i}) < Cardinality(I))
  <2> HIDE DEF I, f
  <2> QED
    BY <1>2, <1>3, <1>5, <1>6, FS_PigeonHole
<1> QED
  BY <1>1, <1>2, <1>3, <1>7

\* Taking the last set of the list.
LEMMA PopFreeSet ==
  ASSUME TypeOK, PoolPartition, free_count # 0,
         free_count' = free_count - 1, free_sets' = free_sets
  PROVE  /\ free_sets[free_count - 1] \in FreeSets
         /\ free_sets[free_count - 1] \in Sets \ allocated
         /\ FreeSets' = FreeSets \ { free_sets[free_count - 1] }
         /\ \A j, k \in 0 .. free_count' - 1 : free_sets'[j] = free_sets'[k] => j = k
<1>1. free_count \in Nat /\ free_count <= MAX_CONNECTION_SETS
      /\ free_sets \in [Sets -> Sets] /\ MAX_CONNECTION_SETS \in Nat
  BY ConstantFacts DEF TypeOK
<1>2. free_count - 1 \in 0 .. free_count - 1 /\ free_count - 1 \in Sets
  BY <1>1 DEF Sets
<1>3. free_sets[free_count - 1] \in FreeSets /\ free_sets[free_count - 1] \in Sets
  BY <1>1, <1>2 DEF FreeSets
<1>4. \A j, k \in 0 .. free_count - 1 : free_sets[j] = free_sets[k] => j = k
  BY DEF PoolPartition
<1>5. FreeSets' = { free_sets[k] : k \in 0 .. free_count - 2 }
  BY <1>1 DEF FreeSets
<1>6. 0 .. free_count - 1 = (0 .. free_count - 2) \cup { free_count - 1 }
  BY <1>1
<1>7. FreeSets' = FreeSets \ { free_sets[free_count - 1] }
  BY <1>1, <1>4, <1>5, <1>6 DEF FreeSets
<1> QED
  BY <1>1, <1>3, <1>4, <1>7 DEF PoolPartition

\* Pushing a set that is not on the list.
LEMMA PushFreeSet ==
  ASSUME TypeOK, PoolPartition, NEW i \in Sets, i \notin FreeSets,
         free_count' = free_count + 1,
         free_sets' = [free_sets EXCEPT ![free_count] = i]
  PROVE  /\ FreeSets' = FreeSets \cup {i}
         /\ free_count' \in 0 .. MAX_CONNECTION_SETS /\ free_sets' \in [Sets -> Sets]
         /\ \A j, k \in 0 .. free_count' - 1 : free_sets'[j] = free_sets'[k] => j = k
<1>1. free_count \in Nat /\ free_count < MAX_CONNECTION_SETS
      /\ free_sets \in [Sets -> Sets] /\ MAX_CONNECTION_SETS \in Nat
  BY ConstantFacts, FreeListHasRoom DEF TypeOK
<1>2. \A j, k \in 0 .. free_count - 1 : free_sets[j] = free_sets[k] => j = k
  BY DEF PoolPartition
<1>3. 0 .. free_count' - 1 = (0 .. free_count - 1) \cup { free_count }
  BY <1>1
<1>4. free_count \in Sets /\ \A k \in 0 .. free_count - 1 : k \in Sets /\ k # free_count
  BY <1>1 DEF Sets
<1>5. /\ free_sets'[free_count] = i
      /\ \A k \in 0 .. free_count - 1 : free_sets'[k] = free_sets[k]
  BY <1>1, <1>4
<1>6. FreeSets' = FreeSets \cup {i}
  BY <1>3, <1>5 DEF FreeSets
<1>7. \A k \in 0 .. free_count - 1 : free_sets[k] # i
  BY DEF FreeSets
<1>8. \A j, k \in 0 .. free_count' - 1 : free_sets'[j] = free_sets'[k] => j = k
  BY <1>2, <1>3, <1>5, <1>7
<1> QED
  BY <1>1, <1>4, <1>6, <1>8

-----------------------------------------------------------------------------
(* What the actions leave alone. *)

\* Only an accept and the end of a reap move a set between the free list, the
\* allocated sets and quarantine, or change the client of a set.
LEMMA PoolFrame ==
  ASSUME [Next]_vars, ~Accept, ~Quarantine, ~Recycle
  PROVE  UNCHANGED << allocated, free_sets, free_count, quarantined_count, client, arrived >>
<1>1. CASE Setup
  BY <1>1 DEF Setup, ConnectBackend, GetCookies, InstallLifecycle, InstallRoute,
     InstallSlot, Activate, SetupFails, poolVars
<1>2. CASE Reap
  BY <1>2 DEF Reap, ReapSlot, ReapRoute, ReapFlow, ReapLifecycle, ReapDecision,
     ReapClose, RetrySlot, RetryRoute, RetryFlow, RetryDecision, RetryLifecycle,
     ReapFrame, poolVars
<1>3. CASE (\E i \in Sets : LifecycleReap(i)) \/ Signal \/ Shutdown
  BY <1>3 DEF LifecycleReap, Signal, Shutdown, LeaveLoop, DestroyReap, DestroySkip,
     CallFrame, setVars, poolVars
<1>4. CASE \E s \in Sockets : StartRun(s) \/ RunStep(s)
  BY <1>4 DEF StartRun, RunStep, Parse, Decide, LookupRoute, Forget, Redirect,
     RunFrame, setVars, poolVars
<1>5. CASE Done \/ UNCHANGED vars
  BY <1>5 DEF Done, vars, setVars, poolVars
<1> QED
  BY <1>1, <1>2, <1>3, <1>4, <1>5 DEF Next

-----------------------------------------------------------------------------
(* The parts of the inductive invariant, one lemma each. *)

\* The free list, quarantine and the allocated sets stay a partition of the
\* blocks: every action, and the calls of a reap, keep PoolPartition.
LEMMA PoolStep ==
  ASSUME IInv, [Next]_vars
  PROVE  PoolPartition'
<1> USE DEF IInv
<1>1. CASE Accept
  <2>1. CASE PoolExhausted
    BY <1>1, <2>1 DEF Accept, setVars, poolVars, PoolPartition, FreeSets, Quarantined
  <2>2. CASE ~PoolExhausted
    <3> DEFINE i == free_sets[free_count - 1]
    <3>1. /\ free_count # 0 /\ free_count' = free_count - 1 /\ free_sets' = free_sets
          /\ allocated' = allocated \cup {i} /\ quarantined_count' = quarantined_count
      BY <1>1, <2>2 DEF Accept, PoolExhausted
    <3>2. /\ i \in FreeSets /\ i \in Sets \ allocated
          /\ FreeSets' = FreeSets \ {i}
          /\ \A j, k \in 0 .. free_count' - 1 : free_sets'[j] = free_sets'[k] => j = k
      BY <3>1, PopFreeSet
    <3> HIDE DEF i
    <3>3. Quarantined' = Quarantined /\ allocated' \cap FreeSets' = {}
      BY <3>1, <3>2 DEF Quarantined, PoolPartition
    <3> QED
      BY <3>1, <3>2, <3>3 DEF PoolPartition
  <2> QED
    BY <2>1, <2>2
<1>2. CASE Quarantine
  <2>1. /\ cur \in allocated /\ allocated \subseteq Sets /\ allocated' = allocated \ {cur}
        /\ FreeSets' = FreeSets /\ quarantined_count' = quarantined_count + 1
        /\ UNCHANGED << free_sets, free_count >>
    BY <1>2 DEF Quarantine, CurIsHeld, TypeOK, ReapSteps, FreeSets
  <2>2. cur \notin FreeSets /\ cur \notin Quarantined /\ Quarantined \in SUBSET Sets
    BY <2>1 DEF PoolPartition, Quarantined
  <2>3. Quarantined' = Quarantined \cup {cur}
    BY <2>1, <2>2 DEF Quarantined
  <2>4. Cardinality(Quarantined') = quarantined_count'
    BY <2>1, <2>2, <2>3, AddOne, SetsFinite DEF PoolPartition
  <2> QED
    BY <2>1, <2>4 DEF PoolPartition
<1>3. CASE Recycle
  <2>1. /\ cur \in allocated /\ allocated \subseteq Sets /\ allocated' = allocated \ {cur}
        /\ free_count' = free_count + 1
        /\ free_sets' = [free_sets EXCEPT ![free_count] = cur]
        /\ quarantined_count' = quarantined_count
    BY <1>3 DEF Recycle, CurIsHeld, TypeOK, ReapSteps
  <2>2. cur \notin FreeSets
    BY <2>1 DEF PoolPartition
  <2>3. /\ FreeSets' = FreeSets \cup {cur}
        /\ \A j, k \in 0 .. free_count' - 1 : free_sets'[j] = free_sets'[k] => j = k
    BY <2>1, <2>2, PushFreeSet
  <2>4. Quarantined' = Quarantined /\ allocated' \cap FreeSets' = {}
    BY <2>1, <2>3 DEF Quarantined, PoolPartition
  <2> QED
    BY <2>1, <2>3, <2>4 DEF PoolPartition
<1>4. CASE UNCHANGED << allocated, free_sets, free_count, quarantined_count >>
  BY <1>4 DEF PoolPartition, FreeSets, Quarantined
<1> QED
  BY <1>1, <1>2, <1>3, <1>4, PoolFrame

\* How a call of reap_connection_set changes the active sets and their count.
LEMMA ReapCallCounts ==
  ASSUME TypeOK, CountersCount, NEW i, CallReap(i)
  PROVE  active_count' = Cardinality(active') /\ active' \subseteq active
<1>1. CASE i \in active
  <2>1. Cardinality(active \ {i}) = Cardinality(active) - 1
    BY <1>1, RemoveOne, SetsFinite DEF TypeOK
  <2> QED
    BY <1>1, <2>1 DEF CallReap, CountersCount
<1>2. CASE i \notin active
  BY <1>2 DEF CallReap, CountersCount
<1> QED
  BY <1>1, <1>2

\* active_count and sockmap_entry_count follow the flags of the sets: the
\* calls that set or clear a flag count it.
LEMMA CountersStep ==
  ASSUME IInv, [Next]_vars
  PROVE  CountersCount'
<1> USE DEF IInv
<1>1. CASE Activate
  <2>1. cur \notin active /\ active \in SUBSET Sets
    BY <1>1 DEF Activate, CurIsHeld, SetupSteps, TypeOK
  <2>2. Cardinality(active \cup {cur}) = Cardinality(active) + 1
    BY <2>1, AddOne, SetsFinite
  <2> QED
    BY <1>1, <2>2 DEF Activate, CountersCount
<1>2. CASE \/ (\E i \in Sets : LifecycleReap(i)) \/ DestroyReap
           \/ SetupFails /\ UNCHANGED << sockmap_installed, sockmap_entry_count >>
  BY <1>2, ReapCallCounts DEF LifecycleReap, DestroyReap, SetupFails, CallFrame, CountersCount
<1>3. CASE InstallSlot /\ ~SetupFails
  <2>1. << cur, member >> \notin sockmap_installed
        /\ sockmap_installed \in SUBSET (Sets \X Members)
    BY <1>3 DEF InstallSlot, CurProgress, TypeOK, Members
  <2>2. Cardinality(sockmap_installed \cup { << cur, member >> })
          = Cardinality(sockmap_installed) + 1
    BY <2>1, AddOne, SetsFinite
  <2> QED
    BY <1>3, <2>2 DEF InstallSlot, CountersCount
<1>4. CASE DeleteSlot /\ UNCHANGED << active, active_count >>
  <2>1. CASE Here \in sockmap_installed
    <3>1. Cardinality(sockmap_installed \ {Here}) = Cardinality(sockmap_installed) - 1
      BY <2>1, RemoveOne, SetsFinite DEF TypeOK
    <3> QED
      BY <1>4, <2>1, <3>1 DEF DeleteSlot, CountersCount
  <2>2. CASE Here \notin sockmap_installed
    BY <1>4, <2>2 DEF DeleteSlot, CountersCount
  <2> QED
    BY <2>1, <2>2
<1>5. CASE Recycle
  <2>1. \A m \in Members : << cur, m >> \notin sockmap_installed
    BY <1>5, ConstantFacts DEF Recycle, CurProgress, SlotsDone, ReapTail, RetryTail, Members
  <2>2. sockmap_installed' = sockmap_installed
    BY <1>5, <2>1 DEF Recycle, ResetSet
  <2> QED
    BY <1>5, <2>2 DEF Recycle, CountersCount
<1>6. CASE UNCHANGED << active, active_count, sockmap_installed, sockmap_entry_count >>
  BY <1>6 DEF CountersCount
<1>7. ASSUME Setup
      PROVE  \/ Activate \/ (InstallSlot /\ ~SetupFails)
             \/ SetupFails /\ UNCHANGED << sockmap_installed, sockmap_entry_count >>
             \/ UNCHANGED << active, active_count, sockmap_installed, sockmap_entry_count >>
  BY <1>7 DEF Setup, Accept, ConnectBackend, GetCookies, InstallLifecycle, InstallRoute,
     InstallSlot, SetupFails, setVars, countVars
<1>8. ASSUME Reap
      PROVE  \/ DeleteSlot /\ UNCHANGED << active, active_count >>
             \/ Recycle
             \/ UNCHANGED << active, active_count, sockmap_installed, sockmap_entry_count >>
  BY <1>8 DEF Reap, ReapSlot, ReapRoute, ReapFlow, ReapLifecycle, ReapDecision,
     ReapClose, RetrySlot, RetryRoute, RetryFlow, RetryDecision, RetryLifecycle,
     Quarantine, ReapFrame, countVars
<1>9. ASSUME \/ Signal \/ LeaveLoop \/ DestroySkip \/ Done \/ UNCHANGED vars
             \/ \E s \in Sockets : StartRun(s) \/ RunStep(s)
      PROVE  UNCHANGED << active, active_count, sockmap_installed, sockmap_entry_count >>
  BY <1>9 DEF Signal, LeaveLoop, DestroySkip, Done, StartRun, RunStep, Parse, Decide,
     LookupRoute, Forget, Redirect, RunFrame, vars, setVars, countVars
<1> QED
  BY <1>1, <1>2, <1>3, <1>4, <1>5, <1>6, <1>7, <1>8, <1>9 DEF Next, Shutdown

\* The set that a setup or a reap works on is allocated all along, and what it
\* is there for is told by the step.
LEMMA CurIsHeldStep ==
  ASSUME IInv, [Next]_vars
  PROVE  CurIsHeld'
<1> USE DEF IInv, CurIsHeld, SetupSteps, ReapSteps
<1>1. CASE Accept
  <2>1. free_count # 0 => free_sets[free_count - 1] \notin allocated
    BY DEF PoolPartition, FreeSets, TypeOK
  <2> QED
    BY <1>1, <2>1 DEF Accept, PoolExhausted, setVars, threadVars
<1>2. CASE Setup /\ ~Accept
  BY <1>2 DEF Setup, ConnectBackend, GetCookies, InstallLifecycle, InstallRoute,
     InstallSlot, Activate, SetupFails, CallReap, Goto, NextMember
<1>3. CASE Reap
  BY <1>3 DEF Reap, ReapSlot, ReapRoute, ReapFlow, ReapLifecycle, ReapDecision,
     ReapClose, RetrySlot, RetryRoute, RetryFlow, RetryDecision, RetryLifecycle,
     Quarantine, Recycle, ReapFrame, Goto, Return, NextMember, AfterClose
<1>4. CASE (\E i \in Sets : LifecycleReap(i)) \/ Signal \/ Shutdown
  BY <1>4 DEF LifecycleReap, Signal, Shutdown, LeaveLoop, DestroyReap, DestroySkip,
     CallReap, CallFrame, setVars, threadVars
<1>5. CASE (\E s \in Sockets : StartRun(s) \/ RunStep(s)) \/ Done \/ UNCHANGED vars
  BY <1>5 DEF StartRun, RunStep, Parse, Decide, LookupRoute, Forget, Redirect,
     RunFrame, Done, vars, setVars, threadVars
<1> QED
  BY <1>1, <1>2, <1>3, <1>4, <1>5 DEF Next

\* The set an accept takes from the free list is empty and not in use.
LEMMA AcceptTakesEmptySet ==
  ASSUME IInv, Accept, ~PoolExhausted, NEW i, i = free_sets[free_count - 1]
  PROVE  /\ i \in Sets /\ i \in FreeSets /\ i \notin allocated /\ client[i] = NoConn
         /\ \A m \in Members : << i, m >> \notin
                               fds \cup sockmap_installed \cup route_installed
         /\ FreeSets' = FreeSets \ {i}
         /\ allocated' = allocated \cup {i}
         /\ client' = [client EXCEPT ![i] = arrived + 1]
         /\ fds' = fds \cup { << i, CLIENT >> }
         /\ arrived' = arrived + 1 /\ pc' = "connect" /\ cur' = i /\ member' = 1
         /\ UNCHANGED << sockmap_installed, route_installed, mapVars, runVars >>
<1>1. /\ free_count # 0 /\ free_count' = free_count - 1 /\ free_sets' = free_sets
      /\ allocated' = allocated \cup {i}
      /\ client' = [client EXCEPT ![i] = arrived + 1]
      /\ fds' = fds \cup { << i, CLIENT >> }
      /\ arrived' = arrived + 1 /\ pc' = "connect" /\ cur' = i /\ member' = 1
      /\ UNCHANGED << sockmap_installed, route_installed, mapVars, runVars >>
  BY DEF Accept, PoolExhausted
<1>2. i \in FreeSets /\ i \in Sets \ allocated /\ FreeSets' = FreeSets \ {i}
  BY <1>1, PopFreeSet DEF IInv
<1> QED
  BY <1>1, <1>2 DEF IInv, ClientsAreHeld

\* What the steps of a setup or a reap have done so far can be read off the
\* set: members before the loop's have been dealt with, later ones not yet.
LEMMA CurProgressStep ==
  ASSUME IInv, [Next]_vars
  PROVE  CurProgress'
<1> SUFFICES ASSUME NEW m \in Members
             PROVE  /\ pc' = "connect" /\ m < member' => << cur', m >> \in fds'
                    /\ pc' \in SetupSteps \ {"connect"} => << cur', m >> \in fds'
                    /\ ~cleanup_failed' /\ m < SlotsDone' => << cur', m >> \notin sockmap_installed'
                    /\ ~cleanup_failed' /\ m < RoutesDone' => << cur', m >> \notin route_installed'
                    /\ m < ClosesDone' => << cur', m >> \notin fds'
                    /\ pc' \in { "connect", "cookies", "lifecycle", "routes" } =>
                         << cur', m >> \notin sockmap_installed'
                    /\ pc' = "slots" /\ m >= member' => << cur', m >> \notin sockmap_installed'
  BY DEF CurProgress
<1> USE DEF IInv, CurProgress, SlotsDone, RoutesDone, ClosesDone, ReapTail, RetryTail, SetupSteps
<1>0. /\ SOCKS_PER_CONNECTION \in Nat /\ SOCKS_PER_CONNECTION >= 2
      /\ member \in 0 .. SOCKS_PER_CONNECTION - 1 /\ m \in 0 .. SOCKS_PER_CONNECTION - 1
      /\ member \in Members
  BY ConstantFacts DEF TypeOK, Members
<1>1. CASE Accept
  <2>1. CASE PoolExhausted
    BY <1>1, <2>1 DEF Accept, setVars, threadVars
  <2>2. CASE ~PoolExhausted
    BY <1>0, <1>1, <2>2, AcceptTakesEmptySet DEF CLIENT
  <2> QED
    BY <2>1, <2>2
<1>2. CASE SetupFails \/ (\E i \in Sets : LifecycleReap(i)) \/ DestroyReap
  BY <1>0, <1>2 DEF SetupFails, LifecycleReap, DestroyReap, CallReap
<1>3. CASE ConnectBackend /\ ~SetupFails
  BY <1>0, <1>3 DEF ConnectBackend, NextMember
<1>4. CASE (GetCookies \/ InstallLifecycle \/ InstallRoute) /\ ~SetupFails
  BY <1>0, <1>4 DEF GetCookies, InstallLifecycle, InstallRoute, NextMember, Goto
<1>5. CASE InstallSlot /\ ~SetupFails
  BY <1>0, <1>5 DEF InstallSlot, NextMember
<1>6. CASE Activate \/ Quarantine \/ Recycle
  BY <1>0, <1>6 DEF Activate, Quarantine, Recycle, Goto, Return
<1>7. CASE ReapSlot
  BY <1>0, <1>7 DEF ReapSlot, DeleteSlot, CallFails, NextMember, ReapFrame, Here
<1>8. CASE ReapRoute
  BY <1>0, <1>8 DEF ReapRoute, DeleteRoute, CallFails, NextMember, ReapFrame, Here
<1>9. CASE ReapFlow \/ ReapLifecycle \/ ReapDecision
  <2>1. /\ pc \in { "reap_flow", "reap_lifecycle", "reap_decision" }
        /\ pc' \in { "reap_lifecycle", "reap_decision", "reap_close" }
        /\ UNCHANGED << cur, member, fds, sockmap_installed, route_installed >>
    BY <1>9 DEF ReapFlow, ReapLifecycle, ReapDecision, ReapFrame
  <2>2. cleanup_failed => cleanup_failed'
    BY <1>9 DEF ReapFlow, ReapLifecycle, ReapDecision, DeleteFlow, DeleteLifecycle,
       DeleteDecision, CallFails
  <2>3. member = 0
    BY <2>1 DEF CurIsHeld
  <2> QED
    BY <1>0, <2>1, <2>2, <2>3
<1>10. CASE ReapClose
  BY <1>0, <1>10 DEF ReapClose, AfterClose, NextMember, ReapFrame, Here
<1>11. CASE RetrySlot
  BY <1>0, <1>11 DEF RetrySlot, DeleteSlot, CallFails, ReapFrame, Here
<1>12. CASE RetryRoute
  BY <1>0, <1>12 DEF RetryRoute, DeleteRoute, CallFails, ReapFrame, Here
<1>13. CASE RetryFlow \/ RetryDecision \/ RetryLifecycle
  BY <1>0, <1>13 DEF RetryFlow, RetryDecision, RetryLifecycle, DeleteLifecycle,
     DeleteDecision, CallFails, ReapFrame
<1>14. CASE Signal \/ LeaveLoop \/ DestroySkip \/ Done \/ UNCHANGED vars
            \/ \E s \in Sockets : StartRun(s) \/ RunStep(s)
  BY <1>14 DEF Signal, LeaveLoop, DestroySkip, Done, StartRun, RunStep, Parse, Decide,
     LookupRoute, Forget, Redirect, RunFrame, vars, setVars, threadVars
<1> QED
  BY <1>1, <1>2, <1>3, <1>4, <1>5, <1>6, <1>7, <1>8, <1>9, <1>10, <1>11, <1>12,
     <1>13, <1>14
     DEF Next, Setup, Reap, Shutdown

\* A setup fills only slots of its own open sockets, and a close empties the
\* slot of the socket, so a block changes hands only when its slots are empty.
LEMMA SlotsAreOwnedStep ==
  ASSUME IInv, [Next]_vars
  PROVE  SlotsAreOwned'
<1> SUFFICES ASSUME NEW i \in Sets, NEW m \in Members, sock_map'[Slot(i, m)] # NoSocket
             PROVE  sock_map'[Slot(i, m)] = << client'[i], m >> /\ << i, m >> \in fds'
  BY DEF SlotsAreOwned, Slot
<1> USE DEF IInv
<1>0. /\ sock_map \in [Slots -> Sockets \cup {NoSocket}] /\ Slot(i, m) \in Slots
      /\ client \in [Sets -> Conns \cup {NoConn}] /\ member \in Members
      /\ sock_map[Slot(i, m)] # NoSocket =>
           sock_map[Slot(i, m)] = << client[i], m >> /\ << i, m >> \in fds
  BY SlotInRange DEF SlotsAreOwned, TypeOK
<1>1. CASE Accept
  <2>1. CASE PoolExhausted
    BY <1>0, <1>1, <2>1 DEF Accept, setVars, mapVars
  <2>2. CASE ~PoolExhausted
    <3> DEFINE n == free_sets[free_count - 1]
    <3>1. /\ n \in Sets /\ << n, m >> \notin fds /\ sock_map' = sock_map
          /\ client' = [client EXCEPT ![n] = arrived + 1] /\ fds \subseteq fds'
      BY <1>1, <2>2, AcceptTakesEmptySet DEF mapVars
    <3> QED
      BY <1>0, <3>1
  <2> QED
    BY <2>1, <2>2
<1>2. CASE InstallSlot /\ ~SetupFails
  <2>1. /\ cur \in Sets /\ << cur, member >> \in fds
        /\ sock_map' = [sock_map EXCEPT ![Slot(cur, member)] = << client[cur], member >>]
        /\ client' = client /\ fds' = fds
    BY <1>2 DEF InstallSlot, CurIsHeld, CurProgress, SetupSteps, TypeOK, Sock
  <2>2. Slot(i, m) = Slot(cur, member) <=> i = cur /\ m = member
    BY <1>0, <2>1, SlotInjective
  <2> QED
    BY <1>0, <2>1, <2>2
<1>3. CASE DeleteSlot /\ UNCHANGED << client, fds >>
  <2>1. sock_map'[Slot(i, m)] = sock_map[Slot(i, m)]
    BY <1>0, <1>3 DEF DeleteSlot
  <2> QED
    BY <1>0, <1>3, <2>1
<1>4. CASE ReapClose
  <2>1. CASE Here \notin fds
    BY <1>0, <1>4, <2>1 DEF ReapClose, ReapFrame
  <2>2. CASE Here \in fds
    <3>1. /\ client' = client /\ fds' = fds \ { << cur, member >> }
          /\ sock_map' = [s \in Slots |-> IF sock_map[s] = << client[cur], member >>
                                            THEN NoSocket ELSE sock_map[s]]
      BY <1>4, <2>2 DEF ReapClose, ReapFrame, Here, Sock
    <3>2. /\ sock_map'[Slot(i, m)] = sock_map[Slot(i, m)]
          /\ sock_map[Slot(i, m)] # << client[cur], member >>
      BY <1>0, <3>1
    <3> QED
      BY <1>0, <3>1, <3>2
  <2> QED
    BY <2>1, <2>2
<1>5. CASE Recycle
  <2>1. << cur, m >> \notin fds
    BY <1>5, ConstantFacts DEF Recycle, CurProgress, ClosesDone, RetryTail, Members
  <2>2. /\ sock_map' = sock_map /\ client' = [client EXCEPT ![cur] = NoConn]
        /\ fds' = fds \ ({cur} \X Members)
    BY <1>5 DEF Recycle, ResetSet, mapVars
  <2> QED
    BY <1>0, <2>1, <2>2
<1>6. CASE UNCHANGED << sock_map, client >> /\ fds \subseteq fds'
  BY <1>0, <1>6
<1>7. ASSUME Setup
      PROVE  \/ Accept \/ (InstallSlot /\ ~SetupFails)
             \/ UNCHANGED << sock_map, client >> /\ fds \subseteq fds'
  BY <1>7 DEF Setup, ConnectBackend, GetCookies, InstallLifecycle, InstallRoute,
     InstallSlot, Activate, SetupFails, mapVars
<1>8. ASSUME Reap
      PROVE  \/ DeleteSlot /\ UNCHANGED << client, fds >>
             \/ ReapClose \/ Recycle
             \/ UNCHANGED << sock_map, client, fds >>
  BY <1>8 DEF Reap, ReapSlot, ReapRoute, ReapFlow, ReapLifecycle, ReapDecision,
     RetrySlot, RetryRoute, RetryFlow, RetryDecision, RetryLifecycle,
     Quarantine, ReapFrame, mapVars
<1>9. ASSUME \/ (\E j \in Sets : LifecycleReap(j)) \/ Signal \/ Shutdown
             \/ (\E s \in Sockets : StartRun(s) \/ RunStep(s)) \/ Done \/ UNCHANGED vars
      PROVE  UNCHANGED << sock_map, client, fds >>
  BY <1>9 DEF LifecycleReap, Signal, Shutdown, LeaveLoop, DestroyReap, DestroySkip,
     CallFrame, Done, StartRun, RunStep, Parse, Decide, LookupRoute, Forget, Redirect,
     RunFrame, vars, setVars, mapVars
<1> QED
  BY <1>1, <1>2, <1>3, <1>4, <1>5, <1>6, <1>7, <1>8, <1>9 DEF Next

\* A route entry names the set of its own connection, which remembers it: the
\* flag falls only with the entry, and the set is recycled without flags.
LEMMA RoutesAreOwnedStep ==
  ASSUME IInv, [Next]_vars
  PROVE  RoutesAreOwned'
<1> SUFFICES ASSUME NEW s \in Sockets, routes'[s] # NoSet
             PROVE  client'[routes'[s]] = s[1] /\ << routes'[s], s[2] >> \in route_installed'
  BY DEF RoutesAreOwned
<1> USE DEF IInv
<1>0. /\ routes \in [Sockets -> Sets \cup {NoSet}] /\ member \in Members
      /\ client \in [Sets -> Conns \cup {NoConn}]
      /\ s[1] \in Conns /\ s[1] # NoConn /\ s[2] \in Members /\ s = << s[1], s[2] >>
      /\ routes[s] # NoSet => /\ routes[s] \in Sets /\ client[routes[s]] = s[1]
                              /\ << routes[s], s[2] >> \in route_installed
  BY ConstantFacts DEF RoutesAreOwned, TypeOK, Sockets
<1>1. CASE Accept
  <2>1. CASE PoolExhausted
    BY <1>0, <1>1, <2>1 DEF Accept, setVars, mapVars
  <2>2. CASE ~PoolExhausted
    <3> DEFINE n == free_sets[free_count - 1]
    <3>1. /\ n \in Sets /\ client[n] = NoConn /\ UNCHANGED << routes, route_installed >>
          /\ client' = [client EXCEPT ![n] = arrived + 1]
      BY <1>1, <2>2, AcceptTakesEmptySet DEF mapVars
    <3> QED
      BY <1>0, <3>1
  <2> QED
    BY <2>1, <2>2
<1>2. CASE InstallRoute /\ ~SetupFails
  <2>1. /\ cur \in Sets /\ client' = client
        /\ routes' = [routes EXCEPT ![<< client[cur], member >>] = cur]
        /\ route_installed' = route_installed \cup { << cur, member >> }
    BY <1>2 DEF InstallRoute, CurIsHeld, SetupSteps, TypeOK, Sock
  <2>2. CASE s = << client[cur], member >>
    BY <1>0, <2>1, <2>2
  <2>3. CASE s # << client[cur], member >>
    BY <1>0, <2>1, <2>3
  <2> QED
    BY <2>2, <2>3
<1>3. CASE DeleteRoute /\ UNCHANGED client
  <2>1. CASE routes' = [routes EXCEPT ![<< client[cur], member >>] = NoSet]
             /\ route_installed' = route_installed \ { << cur, member >> }
    <3>1. s # << client[cur], member >> /\ routes'[s] = routes[s]
      BY <1>0, <2>1
    <3>2. << routes[s], s[2] >> # << cur, member >>
      BY <1>0, <3>1
    <3> QED
      BY <1>0, <1>3, <2>1, <3>1, <3>2
  <2>2. CASE UNCHANGED << routes, route_installed >>
    BY <1>0, <1>3, <2>2
  <2> QED
    BY <1>3, <2>1, <2>2 DEF DeleteRoute, Here, Sock
<1>4. CASE Recycle
  <2>1. << cur, s[2] >> \notin route_installed
    BY <1>0, <1>4, ConstantFacts DEF Recycle, CurProgress, RoutesDone, ReapTail, RetryTail, Members
  <2>2. /\ routes' = routes /\ client' = [client EXCEPT ![cur] = NoConn]
        /\ route_installed' = route_installed \ ({cur} \X Members)
    BY <1>4 DEF Recycle, ResetSet, mapVars
  <2> QED
    BY <1>0, <2>1, <2>2
<1>5. CASE UNCHANGED << routes, client, route_installed >>
  BY <1>0, <1>5
<1>6. ASSUME Setup
      PROVE  \/ Accept \/ (InstallRoute /\ ~SetupFails)
             \/ UNCHANGED << routes, client, route_installed >>
  BY <1>6 DEF Setup, ConnectBackend, GetCookies, InstallLifecycle, InstallRoute,
     InstallSlot, Activate, SetupFails, mapVars
<1>7. ASSUME Reap
      PROVE  \/ DeleteRoute /\ UNCHANGED client
             \/ Recycle
             \/ UNCHANGED << routes, client, route_installed >>
  BY <1>7 DEF Reap, ReapSlot, ReapRoute, ReapFlow, ReapLifecycle, ReapDecision,
     ReapClose, RetrySlot, RetryRoute, RetryFlow, RetryDecision, RetryLifecycle,
     Quarantine, ReapFrame, mapVars
<1>8. ASSUME \/ (\E j \in Sets : LifecycleReap(j)) \/ Signal \/ Shutdown
             \/ (\E t \in Sockets : StartRun(t) \/ RunStep(t)) \/ Done \/ UNCHANGED vars
      PROVE  UNCHANGED << routes, client, route_installed >>
  BY <1>8 DEF LifecycleReap, Signal, Shutdown, LeaveLoop, DestroyReap, DestroySkip,
     CallFrame, Done, StartRun, RunStep, Parse, Decide, LookupRoute, Forget, Redirect,
     RunFrame, vars, setVars, mapVars
<1> QED
  BY <1>1, <1>2, <1>3, <1>4, <1>5, <1>6, <1>7, <1>8 DEF Next

\* Connections are numbered in the order they arrive, so no two sets hold the
\* same one; what goes back on the free list is empty.
LEMMA ClientsAreHeldStep ==
  ASSUME IInv, [Next]_vars
  PROVE  ClientsAreHeld'
<1> USE DEF IInv
<1> DEFINE flags == fds \cup sockmap_installed \cup route_installed
<1>0. /\ client \in [Sets -> Conns \cup {NoConn}] /\ arrived \in Nat
      /\ allocated \subseteq Sets /\ FreeSets \subseteq Sets
      /\ \A i \in Sets : client[i] \in Nat
  <2>1. /\ client \in [Sets -> Conns \cup {NoConn}] /\ arrived \in 0 .. MaxAccepts
        /\ allocated \subseteq Sets /\ free_sets \in [Sets -> Sets]
        /\ free_count \in 0 .. MAX_CONNECTION_SETS
    BY DEF TypeOK
  <2>2. \A k \in 0 .. free_count - 1 : k \in Sets
    BY <2>1, ConstantFacts DEF Sets
  <2>3. FreeSets \subseteq Sets
    BY <2>1, <2>2 DEF FreeSets
  <2>4. Conns \cup {NoConn} \subseteq Nat
    BY ConstantFacts DEF Conns, NoConn
  <2> QED
    BY <2>1, <2>3, <2>4, ConstantFacts
<1>1. CASE Accept
  <2>1. CASE PoolExhausted
    BY <1>0, <1>1, <2>1 DEF Accept, setVars, poolVars, ClientsAreHeld, FreeSets
  <2>2. CASE ~PoolExhausted
    <3> DEFINE n == free_sets[free_count - 1]
    <3>1. /\ n \in Sets /\ FreeSets' = FreeSets \ {n} /\ allocated' = allocated \cup {n}
          /\ client' = [client EXCEPT ![n] = arrived + 1] /\ arrived' = arrived + 1
          /\ fds' = fds \cup { << n, CLIENT >> }
          /\ UNCHANGED << sockmap_installed, route_installed >>
      BY <1>1, <2>2, AcceptTakesEmptySet
    <3> HIDE DEF n
    <3>2. \A i \in Sets : client'[i] = IF i = n THEN arrived + 1 ELSE client[i]
      BY <1>0, <3>1
    <3>3. \A i, j \in Sets : client'[i] = client'[j] /\ client'[i] # NoConn => i = j
      BY <1>0, <3>2 DEF ClientsAreHeld
    <3>4. \A i \in Sets : client'[i] <= arrived'
      BY <1>0, <3>1, <3>2 DEF ClientsAreHeld
    <3>5. \A i \in allocated' : client'[i] # NoConn
      BY <1>0, <3>1, <3>2 DEF ClientsAreHeld, NoConn
    <3>6. \A i \in FreeSets' : i # n /\ i \in FreeSets /\ i \in Sets
      BY <1>0, <3>1
    <3>7. \A i \in FreeSets' : client'[i] = NoConn
      BY <3>2, <3>6 DEF ClientsAreHeld
    <3>8. \A i \in FreeSets' : \A m \in Members : << i, m >> \notin flags'
      BY <3>1, <3>6 DEF ClientsAreHeld
    <3> QED
      BY <3>3, <3>4, <3>5, <3>7, <3>8 DEF ClientsAreHeld
  <2> QED
    BY <2>1, <2>2
<1>2. CASE Recycle
  <2>1. /\ cur \in allocated /\ cur \notin FreeSets /\ allocated' = allocated \ {cur}
        /\ free_count' = free_count + 1
        /\ free_sets' = [free_sets EXCEPT ![free_count] = cur]
        /\ client' = [client EXCEPT ![cur] = NoConn] /\ arrived' = arrived
        /\ flags' = flags \ ({cur} \X Members)
    BY <1>2 DEF Recycle, ResetSet, CurIsHeld, PoolPartition, ReapSteps
  <2>2. FreeSets' = FreeSets \cup {cur}
    BY <1>0, <2>1, PushFreeSet
  <2>3. \A i \in Sets : client'[i] = IF i = cur THEN NoConn ELSE client[i]
    BY <1>0, <2>1
  <2>4. \A i \in Sets : client'[i] <= arrived'
    BY <1>0, <2>1, <2>3 DEF ClientsAreHeld, NoConn
  <2>5. /\ \A i, j \in Sets : client'[i] = client'[j] /\ client'[i] # NoConn => i = j
        /\ \A i \in allocated' : client'[i] # NoConn
        /\ \A i \in FreeSets' : client'[i] = NoConn
    BY <1>0, <2>1, <2>2, <2>3 DEF ClientsAreHeld
  <2>6. \A i \in FreeSets' : \A m \in Members : << i, m >> \notin flags'
    BY <2>1, <2>2 DEF ClientsAreHeld
  <2> QED
    BY <2>4, <2>5, <2>6 DEF ClientsAreHeld
<1>3. CASE Quarantine
  BY <1>3 DEF Quarantine, ClientsAreHeld, FreeSets
<1>4. CASE /\ UNCHANGED << allocated, client, free_sets, free_count, arrived >>
           /\ flags' \subseteq flags \cup ({cur} \X Members)
           /\ flags' \subseteq flags \/ cur \in allocated
  <2>1. FreeSets' = FreeSets
    BY <1>4 DEF FreeSets
  <2>2. flags' \subseteq flags \/ cur \notin FreeSets
    BY <1>4 DEF PoolPartition
  <2>3. \A i \in FreeSets : \A m \in Members : << i, m >> \notin flags'
    BY <1>4, <2>2 DEF ClientsAreHeld
  <2> QED
    BY <1>4, <2>1, <2>3 DEF ClientsAreHeld
<1>5. ASSUME Setup, ~Accept
      PROVE  /\ UNCHANGED << client, arrived >>
             /\ flags' \subseteq flags \cup ({cur} \X Members)
             /\ cur \in allocated
  <2>1. cur \in allocated /\ member \in Members
    BY <1>5 DEF Setup, ConnectBackend, GetCookies, InstallLifecycle, InstallRoute,
       InstallSlot, Activate, CurIsHeld, SetupSteps, TypeOK
  <2> QED
    BY <1>5, <2>1 DEF Setup, ConnectBackend, GetCookies, InstallLifecycle, InstallRoute,
       InstallSlot, Activate, SetupFails
<1>6. ASSUME Reap, ~Quarantine, ~Recycle
      PROVE  UNCHANGED << client, arrived >> /\ flags' \subseteq flags
  BY <1>6 DEF Reap, ReapSlot, ReapRoute, ReapFlow, ReapLifecycle, ReapDecision,
     ReapClose, RetrySlot, RetryRoute, RetryFlow, RetryDecision, RetryLifecycle,
     DeleteSlot, DeleteRoute, ReapFrame
<1>7. ASSUME \/ (\E j \in Sets : LifecycleReap(j)) \/ Signal \/ Shutdown
             \/ (\E t \in Sockets : StartRun(t) \/ RunStep(t)) \/ Done \/ UNCHANGED vars
      PROVE  UNCHANGED << client, arrived, fds, sockmap_installed, route_installed >>
  BY <1>7 DEF LifecycleReap, Signal, Shutdown, LeaveLoop, DestroyReap, DestroySkip,
     CallFrame, Done, StartRun, RunStep, Parse, Decide, LookupRoute, Forget, Redirect,
     RunFrame, vars, setVars
<1> HIDE DEF flags
<1>8. CASE ~Accept /\ ~Quarantine /\ ~Recycle
  <2>1. UNCHANGED << allocated, free_sets, free_count >>
    BY <1>8, PoolFrame
  <2>2. UNCHANGED << client, arrived >> /\ flags' \subseteq flags \cup ({cur} \X Members)
        /\ (flags' \subseteq flags \/ cur \in allocated)
    BY <1>5, <1>6, <1>7, <1>8 DEF Next, flags
  <2> QED
    BY <1>4, <2>1, <2>2
<1> QED
  BY <1>1, <1>2, <1>3, <1>8

\* A run works on an open socket, so its connection's set is not recycled
\* under it: close() waits for the run before reap_connection_set recycles.
LEMMA RunsAreOwnedStep ==
  ASSUME IInv, [Next]_vars
  PROVE  RunsAreOwned'
<1> SUFFICES ASSUME NEW s \in Sockets
             PROVE  /\ phase'[s] # "idle" => \E i \in Sets : client'[i] = s[1]
                                                          /\ << i, s[2] >> \in fds'
                    /\ entry'[s] # NoSet <=> phase'[s] \in { "forget", "redirect" }
                    /\ entry'[s] # NoSet => client'[entry'[s]] = s[1]
  BY DEF RunsAreOwned
<1> USE DEF IInv
<1>0. /\ phase \in [Sockets -> Phases] /\ entry \in [Sockets -> Sets \cup {NoSet}]
      /\ client \in [Sets -> Conns \cup {NoConn}] /\ member \in Members
      /\ s[1] \in Conns /\ s[1] # NoConn /\ s[2] \in Members /\ s = << s[1], s[2] >>
  BY ConstantFacts DEF TypeOK, Sockets
<1>00. /\ phase[s] # "idle" => \E i \in Sets : client[i] = s[1] /\ << i, s[2] >> \in fds
       /\ entry[s] # NoSet <=> phase[s] \in { "forget", "redirect" }
       /\ entry[s] # NoSet => entry[s] \in Sets /\ client[entry[s]] = s[1]
  BY <1>0 DEF RunsAreOwned
<1>1. CASE Accept
  <2>1. CASE PoolExhausted
    BY <1>00, <1>1, <2>1 DEF Accept, setVars, runVars
  <2>2. CASE ~PoolExhausted
    <3> DEFINE n == free_sets[free_count - 1]
    <3>1. /\ n \in Sets /\ client[n] = NoConn /\ UNCHANGED << phase, entry >>
          /\ client' = [client EXCEPT ![n] = arrived + 1] /\ fds \subseteq fds'
      BY <1>1, <2>2, AcceptTakesEmptySet DEF runVars
    <3> HIDE DEF n
    <3>2. \A i \in Sets : client[i] = s[1] => client'[i] = s[1]
      BY <1>0, <3>1
    <3> QED
      BY <1>00, <3>1, <3>2
  <2> QED
    BY <2>1, <2>2
<1>2. CASE ReapClose /\ Here \in fds
  <2>1. /\ phase[<< client[cur], member >>] = "idle" /\ fds' = fds \ { << cur, member >> }
        /\ UNCHANGED << client, phase, entry >>
    BY <1>2 DEF ReapClose, ReapFrame, Here, Sock, runVars
  <2>2. ASSUME NEW i \in Sets, phase[s] # "idle", client[i] = s[1], << i, s[2] >> \in fds
        PROVE  << i, s[2] >> \in fds'
    BY <1>0, <2>1, <2>2
  <2> QED
    BY <1>00, <2>1, <2>2
<1>3. CASE Recycle
  <2>1. \A m \in Members : << cur, m >> \notin fds
    BY <1>3, ConstantFacts DEF Recycle, CurProgress, ClosesDone, RetryTail, Members
  <2>2. /\ client' = [client EXCEPT ![cur] = NoConn] /\ UNCHANGED << phase, entry >>
        /\ fds' = fds \ ({cur} \X Members)
    BY <1>3 DEF Recycle, ResetSet, runVars
  <2>3. ASSUME NEW i \in Sets, client[i] = s[1], << i, s[2] >> \in fds
        PROVE  i # cur /\ client'[i] = s[1] /\ << i, s[2] >> \in fds'
    BY <1>0, <2>1, <2>2, <2>3
  <2>4. entry[s] # NoSet => entry[s] # cur
    <3>1. SUFFICES ASSUME entry[s] # NoSet, entry[s] = cur
                   PROVE  FALSE
      OBVIOUS
    <3>2. PICK i \in Sets : client[i] = s[1] /\ << i, s[2] >> \in fds
      BY <1>00, <3>1
    <3>3. client[cur] = client[i] /\ client[i] # NoConn /\ cur \in Sets
      BY <1>0, <1>00, <3>1, <3>2
    <3>4. i = cur
      BY <3>3 DEF ClientsAreHeld
    <3> QED
      BY <1>0, <2>1, <3>2, <3>4
  <2> QED
    BY <1>0, <1>00, <2>2, <2>3, <2>4
<1>4. ASSUME NEW t \in Sockets, StartRun(t)
      PROVE  /\ phase'[s] # "idle" => \E i \in Sets : client[i] = s[1] /\ << i, s[2] >> \in fds
             /\ entry'[s] # NoSet <=> phase'[s] \in { "forget", "redirect" }
             /\ UNCHANGED << entry, client, fds >>
  <2>1. /\ phase[t] = "idle" /\ UNCHANGED << entry, client, fds >>
        /\ phase' = [phase EXCEPT ![t] = "parse"]
    BY <1>4 DEF StartRun, RunFrame, setVars
  <2>2. PICK i \in Sets, m \in Members : sock_map[Slot(i, m)] = t
    BY <1>4 DEF StartRun
  <2>3. t # NoSocket
    BY ConstantFacts DEF Sockets, NoSocket
  <2>4. t = << client[i], m >> /\ << i, m >> \in fds
    BY <2>2, <2>3 DEF SlotsAreOwned
  <2>5. CASE s = t
    BY <1>0, <1>00, <2>1, <2>4, <2>5
  <2>6. CASE s # t
    BY <1>0, <1>00, <2>1, <2>6
  <2> QED
    BY <2>5, <2>6
<1>5. ASSUME NEW t \in Sockets, RunStep(t)
      PROVE  /\ phase'[s] # "idle" => phase[s] # "idle"
             /\ entry'[s] # NoSet <=> phase'[s] \in { "forget", "redirect" }
             /\ entry'[s] # NoSet => client[entry'[s]] = s[1]
             /\ UNCHANGED << client, fds >>
  <2>1. UNCHANGED << client, fds >>
    BY <1>5 DEF RunStep, Parse, Decide, LookupRoute, Forget, Redirect, RunFrame, setVars
  <2>2. CASE Parse(t)
    BY <1>0, <1>00, <2>1, <2>2 DEF Parse
  <2>3. CASE Decide(t)
    BY <1>0, <1>00, <2>1, <2>3 DEF Decide
  <2>4. CASE LookupRoute(t)
    <3>1. CASE routes[t] = NoSet
      BY <1>0, <1>00, <2>1, <2>4, <3>1 DEF LookupRoute
    <3>2. CASE routes[t] # NoSet
      <4>1. client[routes[t]] = t[1] /\ routes[t] \in Sets
        BY <3>2 DEF RoutesAreOwned, TypeOK
      <4>2. /\ phase[t] = "verdict"
            /\ phase' = [phase EXCEPT ![t] = IF IsClient(t) THEN "forget" ELSE "redirect"]
            /\ entry' = [entry EXCEPT ![t] = routes[t]]
        BY <2>4, <3>2 DEF LookupRoute
      <4>3. CASE s = t
        BY <1>0, <2>1, <3>2, <4>1, <4>2, <4>3
      <4>4. CASE s # t
        BY <1>0, <1>00, <2>1, <4>2, <4>4
      <4> QED
        BY <4>3, <4>4
    <3> QED
      BY <3>1, <3>2
  <2>5. CASE Forget(t)
    BY <1>0, <1>00, <2>1, <2>5 DEF Forget
  <2>6. CASE Redirect(t)
    BY <1>0, <1>00, <2>1, <2>6 DEF Redirect
  <2> QED
    BY <1>5, <2>2, <2>3, <2>4, <2>5, <2>6 DEF RunStep
<1>6. CASE \E t \in Sockets : StartRun(t) \/ RunStep(t)
  BY <1>00, <1>4, <1>5, <1>6
<1>7. CASE UNCHANGED << phase, entry, client >> /\ fds \subseteq fds'
  BY <1>00, <1>7
<1>8. ASSUME Setup, ~Accept
      PROVE  UNCHANGED << phase, entry, client >> /\ fds \subseteq fds'
  BY <1>8 DEF Setup, ConnectBackend, GetCookies, InstallLifecycle, InstallRoute,
     InstallSlot, Activate, SetupFails, runVars
<1>9. ASSUME Reap
      PROVE  \/ ReapClose /\ Here \in fds
             \/ Recycle
             \/ UNCHANGED << phase, entry, client, fds >>
  BY <1>9 DEF Reap, ReapSlot, ReapRoute, ReapFlow, ReapLifecycle, ReapDecision,
     ReapClose, RetrySlot, RetryRoute, RetryFlow, RetryDecision, RetryLifecycle,
     Quarantine, ReapFrame, runVars
<1>10. ASSUME \/ (\E j \in Sets : LifecycleReap(j)) \/ Signal \/ Shutdown
              \/ Done \/ UNCHANGED vars
       PROVE  UNCHANGED << phase, entry, client, fds >>
  BY <1>10 DEF LifecycleReap, Signal, Shutdown, LeaveLoop, DestroyReap, DestroySkip,
     CallFrame, Done, vars, setVars, runVars
<1> QED
  BY <1>1, <1>2, <1>3, <1>6, <1>7, <1>8, <1>9, <1>10 DEF Next

-----------------------------------------------------------------------------
(* Type correctness. The counts that are cardinalities need the invariant, *)
(* and so does the room on the free list.                                  *)

\* The fields of the connection sets keep their types.
LEMMA SetFieldsStep ==
  ASSUME IInv, [Next]_vars
  PROVE  /\ allocated' \subseteq Sets /\ active' \subseteq Sets
         /\ client' \in [Sets -> Conns \cup {NoConn}]
         /\ fds' \subseteq Sets \X Members /\ has_cookie' \subseteq Sets
         /\ lifecycle_installed' \subseteq Sets
         /\ sockmap_installed' \subseteq Sets \X Members
         /\ route_installed' \subseteq Sets \X Members
<1>0. /\ allocated \subseteq Sets /\ active \subseteq Sets
      /\ client \in [Sets -> Conns \cup {NoConn}]
      /\ fds \subseteq Sets \X Members /\ has_cookie \subseteq Sets
      /\ lifecycle_installed \subseteq Sets
      /\ sockmap_installed \subseteq Sets \X Members
      /\ route_installed \subseteq Sets \X Members
      /\ pc \in SetupSteps \cup ReapSteps => cur \in Sets
      /\ member \in Members /\ arrived \in Nat /\ 0 \in Members
  BY ConstantFacts DEF IInv, TypeOK, CurIsHeld
<1>1. CASE Accept
  <2>1. CASE PoolExhausted
    BY <1>0, <1>1, <2>1 DEF Accept, setVars
  <2>2. CASE ~PoolExhausted
    <3> DEFINE n == free_sets[free_count - 1]
    <3>1. /\ n \in Sets /\ allocated' = allocated \cup {n}
          /\ client' = [client EXCEPT ![n] = arrived + 1]
          /\ fds' = fds \cup { << n, CLIENT >> }
      BY <1>1, <2>2, AcceptTakesEmptySet
    <3>2. arrived + 1 \in Conns /\ CLIENT \in Members
      BY <1>0, <1>1, ConstantFacts DEF Accept, Conns
    <3>3. UNCHANGED << active, has_cookie, lifecycle_installed, sockmap_installed, route_installed >>
      BY <1>1, <2>2 DEF Accept
    <3> HIDE DEF n
    <3> QED
      BY <1>0, <3>1, <3>2, <3>3
  <2> QED
    BY <2>1, <2>2
<1>2. CASE SetupFails /\ has_cookie' \in { has_cookie, has_cookie \cup {cur} } /\ pc \in SetupSteps
  BY <1>0, <1>2 DEF SetupFails, CallReap
<1>3. CASE Setup /\ ~Accept /\ ~SetupFails
  <2>1. pc \in SetupSteps
    BY <1>3 DEF Setup, ConnectBackend, GetCookies, InstallLifecycle, InstallRoute,
       InstallSlot, Activate, SetupSteps
  <2> QED
    BY <1>0, <1>3, <2>1 DEF Setup, ConnectBackend, GetCookies, InstallLifecycle,
       InstallRoute, InstallSlot, Activate
<1>4. CASE Reap
  <2>1. pc \in ReapSteps
    BY <1>4 DEF Reap, ReapSlot, ReapRoute, ReapFlow, ReapLifecycle, ReapDecision,
       ReapClose, RetrySlot, RetryRoute, RetryFlow, RetryDecision, RetryLifecycle,
       Quarantine, Recycle, ReapSteps
  <2>2. /\ allocated' \subseteq allocated /\ active' = active
        /\ client' \in { client, [client EXCEPT ![cur] = NoConn] }
        /\ fds' \subseteq fds /\ has_cookie' \subseteq has_cookie
        /\ lifecycle_installed' \subseteq lifecycle_installed
        /\ sockmap_installed' \subseteq sockmap_installed
        /\ route_installed' \subseteq route_installed
    BY <1>4 DEF Reap, ReapSlot, ReapRoute, ReapFlow, ReapLifecycle, ReapDecision,
       ReapClose, RetrySlot, RetryRoute, RetryFlow, RetryDecision, RetryLifecycle,
       Quarantine, Recycle, ResetSet, DeleteSlot, DeleteRoute, DeleteLifecycle, ReapFrame
  <2> QED
    BY <1>0, <2>1, <2>2
<1>5. ASSUME \/ (\E j \in Sets : LifecycleReap(j)) \/ Signal \/ Shutdown
             \/ (\E t \in Sockets : StartRun(t) \/ RunStep(t)) \/ Done \/ UNCHANGED vars
      PROVE  /\ active' \subseteq active
             /\ UNCHANGED << allocated, client, fds, has_cookie, lifecycle_installed,
                             sockmap_installed, route_installed >>
  BY <1>5 DEF LifecycleReap, Signal, Shutdown, LeaveLoop, DestroyReap, DestroySkip, CallReap,
     CallFrame, Done, StartRun, RunStep, Parse, Decide, LookupRoute, Forget, Redirect,
     RunFrame, vars, setVars
<1>6. ASSUME Setup, ~Accept
      PROVE  has_cookie' \in { has_cookie, has_cookie \cup {cur} } /\ pc \in SetupSteps
  BY <1>6 DEF Setup, ConnectBackend, GetCookies, InstallLifecycle, InstallRoute,
     InstallSlot, Activate, SetupSteps
<1>7. CASE (\E j \in Sets : LifecycleReap(j)) \/ Signal \/ Shutdown
           \/ (\E t \in Sockets : StartRun(t) \/ RunStep(t)) \/ Done \/ UNCHANGED vars
  <2> HIDE DEF Setup
  <2> QED
    BY <1>0, <1>5, <1>7
<1> QED
  BY <1>1, <1>2, <1>3, <1>4, <1>6, <1>7 DEF Next

\* The thread's control and locals, the free list and the totals.
LEMMA ThreadFieldsStep ==
  ASSUME IInv, [Next]_vars
  PROVE  /\ free_sets' \in [Sets -> Sets] /\ free_count' \in 0 .. MAX_CONNECTION_SETS
         /\ accepted_total' \in Nat /\ reaped_total' \in Nat
         /\ pc' \in Steps /\ cur' \in Sets \cup {NoSet} /\ member' \in Members
         /\ was_active' \in BOOLEAN /\ cleanup_failed' \in BOOLEAN
         /\ scan' \in Sets \cup {NoSet, MAX_CONNECTION_SETS}
         /\ running' \in BOOLEAN /\ arrived' \in 0 .. MaxAccepts
<1>0. /\ free_sets \in [Sets -> Sets] /\ free_count \in 0 .. MAX_CONNECTION_SETS
      /\ accepted_total \in Nat /\ reaped_total \in Nat
      /\ pc \in Steps /\ cur \in Sets \cup {NoSet} /\ member \in Members
      /\ was_active \in BOOLEAN /\ cleanup_failed \in BOOLEAN
      /\ scan \in Sets \cup {NoSet, MAX_CONNECTION_SETS}
      /\ running \in BOOLEAN /\ arrived \in 0 .. MaxAccepts
  BY DEF IInv, TypeOK
<1>1. free_sets' \in [Sets -> Sets] /\ free_count' \in 0 .. MAX_CONNECTION_SETS
  <2>1. CASE Accept
    BY <1>0, <2>1, ConstantFacts DEF Accept, PoolExhausted, poolVars
  <2>2. CASE Recycle
    <3>1. cur \in allocated /\ cur \in Sets /\ cur \notin FreeSets
      BY <2>2 DEF Recycle, IInv, CurIsHeld, PoolPartition, ReapSteps, TypeOK
    <3> QED
      BY <2>2, <3>1, PushFreeSet DEF Recycle, IInv
  <2>3. CASE Quarantine
    BY <1>0, <2>3 DEF Quarantine
  <2>4. CASE ~Accept /\ ~Recycle /\ ~Quarantine
    BY <1>0, <2>4, PoolFrame
  <2> QED
    BY <2>1, <2>2, <2>3, <2>4
<1>2. accepted_total' \in Nat /\ reaped_total' \in Nat
  <2>1. CASE Activate
    BY <1>0, <2>1 DEF Activate
  <2>2. CASE Recycle
    BY <1>0, <2>2 DEF Recycle
  <2>3. CASE UNCHANGED << accepted_total, reaped_total >>
    BY <1>0, <2>3
  <2>4. ASSUME Setup \/ Reap, ~Activate, ~Recycle
        PROVE  UNCHANGED << accepted_total, reaped_total >>
    BY <2>4 DEF Setup, Accept, ConnectBackend, GetCookies, InstallLifecycle, InstallRoute,
       InstallSlot, SetupFails, Reap, ReapSlot, ReapRoute, ReapFlow, ReapLifecycle,
       ReapDecision, ReapClose, RetrySlot, RetryRoute, RetryFlow, RetryDecision,
       RetryLifecycle, Quarantine, ReapFrame, countVars
  <2>5. ASSUME \/ (\E j \in Sets : LifecycleReap(j)) \/ Signal \/ Shutdown
               \/ (\E t \in Sockets : StartRun(t) \/ RunStep(t)) \/ Done \/ UNCHANGED vars
        PROVE  UNCHANGED << accepted_total, reaped_total >>
    BY <2>5 DEF LifecycleReap, Signal, Shutdown, LeaveLoop, DestroyReap, DestroySkip,
       CallFrame, Done, StartRun, RunStep, Parse, Decide, LookupRoute, Forget, Redirect,
       RunFrame, vars, countVars
  <2> QED
    BY <2>1, <2>2, <2>3, <2>4, <2>5 DEF Next
<1>3. pc' \in Steps /\ cur' \in Sets \cup {NoSet} /\ member' \in Members
  <2> USE <1>0, ConstantFacts
  <2>0. member < SOCKS_PER_CONNECTION - 1 => member + 1 \in Members
    BY DEF Members
  <2>1. CASE Accept
    <3>1. CASE PoolExhausted
      BY <2>1, <3>1 DEF Accept, threadVars
    <3>2. CASE ~PoolExhausted
      <4>1. pc' = "connect" /\ cur' \in Sets /\ member' = 1
        BY <2>1, <3>2, AcceptTakesEmptySet
      <4> QED
        BY <4>1 DEF Steps, SetupSteps, Members
    <3> QED
      BY <3>1, <3>2
  <2>2. CASE SetupFails /\ pc \in SetupSteps
    BY <2>2 DEF SetupFails, CallReap, Steps, ReapSteps
  <2>3. CASE Setup /\ ~Accept /\ ~SetupFails
    BY <2>0, <2>3 DEF Setup, ConnectBackend, GetCookies, InstallLifecycle, InstallRoute,
       InstallSlot, Activate, Goto, NextMember, Steps, SetupSteps
  <2>4. CASE Reap
    BY <2>0, <2>4 DEF Reap, ReapSlot, ReapRoute, ReapFlow, ReapLifecycle, ReapDecision,
       ReapClose, RetrySlot, RetryRoute, RetryFlow, RetryDecision, RetryLifecycle,
       Quarantine, Recycle, ReapFrame, Goto, Return, NextMember, AfterClose, Steps, ReapSteps
  <2>5. CASE (\E i \in Sets : LifecycleReap(i)) \/ DestroyReap
    BY <2>5 DEF LifecycleReap, DestroyReap, CallReap, IInv, TypeOK, Steps, ReapSteps
  <2>6. CASE Signal \/ LeaveLoop \/ DestroySkip
    BY <2>6 DEF Signal, LeaveLoop, DestroySkip, Steps, threadVars
  <2>7. CASE (\E s \in Sockets : StartRun(s) \/ RunStep(s)) \/ Done \/ UNCHANGED vars
    BY <2>7 DEF StartRun, RunStep, Parse, Decide, LookupRoute, Forget, Redirect,
       RunFrame, Done, vars, threadVars
  <2>8. ASSUME Setup, ~Accept
        PROVE  pc \in SetupSteps
    BY <2>8 DEF Setup, ConnectBackend, GetCookies, InstallLifecycle, InstallRoute,
       InstallSlot, Activate, SetupSteps
  <2> QED
    BY <2>1, <2>2, <2>3, <2>4, <2>5, <2>6, <2>7, <2>8 DEF Next, Shutdown
<1>4. was_active' \in BOOLEAN /\ cleanup_failed' \in BOOLEAN
  <2>1. ASSUME NEW i, CallReap(i)
        PROVE  was_active' \in BOOLEAN /\ cleanup_failed' \in BOOLEAN
    <3>1. was_active' = (i \in active) /\ cleanup_failed' = FALSE
      BY <2>1 DEF CallReap
    <3>2. (i \in active) \in BOOLEAN
      OBVIOUS
    <3> QED
      BY <3>1, <3>2
  <2>2. CASE Setup
    BY <1>0, <2>1, <2>2, Zenon DEF Setup, Accept, ConnectBackend, GetCookies, InstallLifecycle,
       InstallRoute, InstallSlot, Activate, SetupFails, Goto, threadVars
  <2>3. CASE (\E i \in Sets : LifecycleReap(i)) \/ Signal \/ Shutdown
    BY <1>0, <2>1, <2>3, Zenon DEF LifecycleReap, Signal, Shutdown,
       LeaveLoop, DestroyReap, DestroySkip, threadVars
  <2>4. CASE Reap
    BY <1>0, <2>4 DEF Reap, ReapSlot, ReapRoute, ReapFlow, ReapLifecycle, ReapDecision,
       ReapClose, RetrySlot, RetryRoute, RetryFlow, RetryDecision, RetryLifecycle,
       Quarantine, Recycle, DeleteSlot, DeleteRoute, DeleteFlow, DeleteLifecycle,
       DeleteDecision, CallFails, Goto, ReapFrame
  <2>5. CASE (\E s \in Sockets : StartRun(s) \/ RunStep(s)) \/ Done \/ UNCHANGED vars
    BY <1>0, <2>5 DEF StartRun, RunStep, Parse, Decide, LookupRoute, Forget, Redirect,
       RunFrame, Done, vars, threadVars
  <2> QED
    BY <2>2, <2>3, <2>4, <2>5 DEF Next
<1>5. running' \in BOOLEAN /\ arrived' \in 0 .. MaxAccepts
  <2>1. CASE Accept
    BY <1>0, <2>1, ConstantFacts DEF Accept
  <2>2. CASE Signal
    BY <1>0, <2>2 DEF Signal
  <2>3. ASSUME Setup \/ Reap, ~Accept
        PROVE  UNCHANGED << running, arrived >>
    BY <2>3 DEF Setup, ConnectBackend, GetCookies, InstallLifecycle, InstallRoute,
       InstallSlot, Activate, Reap, ReapSlot, ReapRoute, ReapFlow, ReapLifecycle,
       ReapDecision, ReapClose, RetrySlot, RetryRoute, RetryFlow, RetryDecision,
       RetryLifecycle, Quarantine, Recycle, ReapFrame
  <2>4. ASSUME \/ (\E j \in Sets : LifecycleReap(j)) \/ Shutdown
               \/ (\E t \in Sockets : StartRun(t) \/ RunStep(t)) \/ Done \/ UNCHANGED vars
        PROVE  UNCHANGED << running, arrived >>
    BY <2>4 DEF LifecycleReap, Shutdown, LeaveLoop, DestroyReap, DestroySkip, CallFrame,
       Done, StartRun, RunStep, Parse, Decide, LookupRoute, Forget, Redirect, RunFrame, vars
  <2> QED
    BY <1>0, <2>1, <2>2, <2>3, <2>4 DEF Next
<1>6. scan' \in Sets \cup {NoSet, MAX_CONNECTION_SETS}
  <2>1. scan' = scan \/ scan' = 0 \/ (scan' = scan + 1 /\ scan < MAX_CONNECTION_SETS)
    <3>1. CASE Setup
      BY <3>1 DEF Setup, Accept, ConnectBackend, GetCookies, InstallLifecycle,
         InstallRoute, InstallSlot, Activate, SetupFails, Goto, threadVars
    <3>2. CASE Reap
      BY <3>2 DEF Reap, ReapSlot, ReapRoute, ReapFlow, ReapLifecycle, ReapDecision,
         ReapClose, RetrySlot, RetryRoute, RetryFlow, RetryDecision, RetryLifecycle,
         Quarantine, Recycle, Goto, ReapFrame
    <3>3. CASE (\E i \in Sets : LifecycleReap(i)) \/ Signal \/ Shutdown
      BY <3>3 DEF LifecycleReap, Signal, Shutdown, LeaveLoop, DestroyReap, DestroySkip,
         SetsLeft, threadVars
    <3>4. CASE (\E s \in Sockets : StartRun(s) \/ RunStep(s)) \/ Done \/ UNCHANGED vars
      BY <3>4 DEF StartRun, RunStep, Parse, Decide, LookupRoute, Forget, Redirect,
         RunFrame, Done, vars, threadVars
    <3> QED
      BY <3>1, <3>2, <3>3, <3>4 DEF Next
  <2> QED
    BY <1>0, <2>1, ConstantFacts DEF Sets, NoSet
<1> QED
  BY <1>1, <1>2, <1>3, <1>4, <1>5, <1>6

\* The maps and the runs of the BPF programs.
LEMMA MapFieldsStep ==
  ASSUME IInv, [Next]_vars
  PROVE  /\ sock_map' \in [Slots -> Sockets \cup {NoSocket}]
         /\ routes' \in [Sockets -> Sets \cup {NoSet}]
         /\ lifecycle' \subseteq Conns /\ http_flows' \subseteq Sockets
         /\ route_decisions' \subseteq Sockets
         /\ phase' \in [Sockets -> Phases] /\ entry' \in [Sockets -> Sets \cup {NoSet}]
<1>0. /\ sock_map \in [Slots -> Sockets \cup {NoSocket}]
      /\ routes \in [Sockets -> Sets \cup {NoSet}]
      /\ lifecycle \subseteq Conns /\ http_flows \subseteq Sockets
      /\ route_decisions \subseteq Sockets
      /\ phase \in [Sockets -> Phases] /\ entry \in [Sockets -> Sets \cup {NoSet}]
  BY DEF IInv, TypeOK
<1>1. CASE Setup
  <2>1. ASSUME pc \in SetupSteps
        PROVE  cur \in Sets /\ client[cur] \in Conns /\ Sock(member) \in Sockets
    BY <2>1 DEF IInv, TypeOK, CurIsHeld, ClientsAreHeld, Sock, Sockets
  <2>2. UNCHANGED runVars
    BY <1>1 DEF Setup, Accept, ConnectBackend, GetCookies, InstallLifecycle, InstallRoute,
       InstallSlot, Activate
  <2>3. CASE InstallLifecycle /\ ~SetupFails
    BY <1>0, <2>1, <2>2, <2>3 DEF InstallLifecycle, SetupSteps, runVars
  <2>4. CASE InstallRoute /\ ~SetupFails
    BY <1>0, <2>1, <2>2, <2>4 DEF InstallRoute, SetupSteps, runVars
  <2>5. CASE InstallSlot /\ ~SetupFails
    BY <1>0, <2>1, <2>2, <2>5 DEF InstallSlot, SetupSteps, runVars
  <2>6. CASE UNCHANGED mapVars
    BY <1>0, <2>2, <2>6 DEF mapVars, runVars
  <2> QED
    BY <1>1, <2>3, <2>4, <2>5, <2>6 DEF Setup, Accept, ConnectBackend, GetCookies,
       InstallLifecycle, InstallRoute, InstallSlot, Activate, SetupFails
<1>2. CASE Reap
  <2>1. /\ lifecycle' \subseteq lifecycle /\ http_flows' \subseteq http_flows
        /\ route_decisions' \subseteq route_decisions /\ UNCHANGED runVars
    BY <1>2 DEF Reap, ReapSlot, ReapRoute, ReapFlow, ReapLifecycle, ReapDecision,
       ReapClose, RetrySlot, RetryRoute, RetryFlow, RetryDecision, RetryLifecycle,
       Quarantine, Recycle, DeleteFlow, DeleteLifecycle, DeleteDecision, ReapFrame, mapVars
  <2>2. \/ UNCHANGED sock_map
        \/ sock_map' = [sock_map EXCEPT ![Slot(cur, member)] = NoSocket]
        \/ sock_map' = [s \in Slots |->
                           IF sock_map[s] = Sock(member) THEN NoSocket ELSE sock_map[s]]
    BY <1>2 DEF Reap, ReapSlot, ReapRoute, ReapFlow, ReapLifecycle, ReapDecision,
       ReapClose, RetrySlot, RetryRoute, RetryFlow, RetryDecision, RetryLifecycle,
       Quarantine, Recycle, DeleteSlot, mapVars
  <2>3. UNCHANGED routes \/ routes' = [routes EXCEPT ![Sock(member)] = NoSet]
    BY <1>2 DEF Reap, ReapSlot, ReapRoute, ReapFlow, ReapLifecycle, ReapDecision,
       ReapClose, RetrySlot, RetryRoute, RetryFlow, RetryDecision, RetryLifecycle,
       Quarantine, Recycle, DeleteRoute, mapVars
  <2>4. sock_map' \in [Slots -> Sockets \cup {NoSocket}]
    BY <1>0, <2>2
  <2>5. routes' \in [Sockets -> Sets \cup {NoSet}]
    BY <1>0, <2>3
  <2> QED
    BY <1>0, <2>1, <2>4, <2>5 DEF runVars
<1>3. CASE \E s \in Sockets : StartRun(s) \/ RunStep(s)
  <2>1. PICK s \in Sockets : StartRun(s) \/ RunStep(s)
    BY <1>3
  <2>2. s[1] \in Conns /\ routes[s] \in Sets \cup {NoSet}
    BY <1>0 DEF Sockets
  <2> QED
    BY <1>0, <2>1, <2>2 DEF StartRun, RunStep, Parse, Decide, LookupRoute, Forget, Redirect,
       Phases, mapVars
<1>4. CASE (\E i \in Sets : LifecycleReap(i)) \/ Signal \/ Shutdown \/ Done \/ UNCHANGED vars
  BY <1>0, <1>4 DEF LifecycleReap, Signal, Shutdown, LeaveLoop, DestroyReap, DestroySkip,
     CallFrame, Done, vars, mapVars, runVars
<1> QED
  BY <1>1, <1>2, <1>3, <1>4 DEF Next

\* The three groups of fields together.
LEMMA TypeStep ==
  ASSUME IInv, [Next]_vars
  PROVE  TypeOK'
<1>1. PoolPartition' /\ CountersCount'
  BY PoolStep, CountersStep
<1>2. /\ active' \subseteq Sets /\ sockmap_installed' \subseteq Sets \X Members
  BY SetFieldsStep
<1>3. IsFiniteSet(active') /\ IsFiniteSet(sockmap_installed') /\ IsFiniteSet(Quarantined')
  BY <1>2, SetsFinite, FS_Subset DEF Quarantined
<1>4. active_count' \in Nat /\ sockmap_entry_count' \in Nat /\ quarantined_count' \in Nat
  BY <1>1, <1>3, FS_CardinalityType DEF PoolPartition, CountersCount
<1> QED
  BY <1>4, SetFieldsStep, ThreadFieldsStep, MapFieldsStep DEF TypeOK

-----------------------------------------------------------------------------
(* The theorems. *)

\* An initialised manager: every block is on the free list and empty.
LEMMA InitIInv ==
  ASSUME Init
  PROVE  IInv
<1> USE ConstantFacts DEF Init
<1>1. 0 \in Members /\ MAX_CONNECTION_SETS \in 0 .. MAX_CONNECTION_SETS
  OBVIOUS
<1>2. TypeOK
  <2>1. free_sets \in [Sets -> Sets]
    BY DEF Sets
  <2>2. /\ client \in [Sets -> Conns \cup {NoConn}]
        /\ sock_map \in [Slots -> Sockets \cup {NoSocket}]
        /\ routes \in [Sockets -> Sets \cup {NoSet}]
        /\ phase \in [Sockets -> Phases] /\ entry \in [Sockets -> Sets \cup {NoSet}]
    BY DEF Phases
  <2>3. pc \in Steps /\ arrived \in 0 .. MaxAccepts
    BY DEF Steps
  <2> QED
    BY <1>1, <2>1, <2>2, <2>3 DEF TypeOK
<1>3. FreeSets = Sets
  <2>1. free_count = MAX_CONNECTION_SETS
        /\ \A k \in Sets : free_sets[k] = MAX_CONNECTION_SETS - k - 1
    OBVIOUS
  <2>2. \A i \in Sets : MAX_CONNECTION_SETS - i - 1 \in Sets
                        /\ i = MAX_CONNECTION_SETS - (MAX_CONNECTION_SETS - i - 1) - 1
    BY DEF Sets
  <2>3. \A i \in Sets : \E k \in Sets : free_sets[k] = i
    BY <2>1, <2>2
  <2>4. FreeSets = { free_sets[k] : k \in Sets }
    BY <2>1 DEF FreeSets, Sets
  <2>5. \A k \in Sets : free_sets[k] \in Sets
    BY <2>1, <2>2
  <2> HIDE DEF Init
  <2> QED
    BY <2>3, <2>4, <2>5
<1>4. PoolPartition
  <2>1. \A j, k \in 0 .. free_count - 1 : free_sets[j] = free_sets[k] => j = k
    BY DEF Sets
  <2>2. Quarantined = {}
    BY <1>3 DEF Quarantined
  <2> QED
    BY <2>1, <2>2, FS_EmptySet DEF PoolPartition
<1>5. CurIsHeld /\ CurProgress
  BY DEF CurIsHeld, CurProgress, SetupSteps, ReapSteps, SlotsDone, RoutesDone, ClosesDone,
     ReapTail, RetryTail, Members
<1>6. SlotsAreOwned
  BY SlotInRange DEF SlotsAreOwned
<1>7. RoutesAreOwned /\ RunsAreOwned
  BY DEF RoutesAreOwned, RunsAreOwned
<1>8. ClientsAreHeld
  BY <1>3 DEF ClientsAreHeld, NoConn
<1>9. CountersCount
  BY FS_EmptySet DEF CountersCount
<1> QED
  BY <1>2, <1>4, <1>5, <1>6, <1>7, <1>8, <1>9 DEF IInv

\* The inductive invariant holds in every state the manager, the maps and the
\* runs of the BPF programs reach.
THEOREM Invariance == Spec => []IInv
<1>1. IInv /\ [Next]_vars => IInv'
  BY TypeStep, PoolStep, CurIsHeldStep, CurProgressStep, SlotsAreOwnedStep,
     RoutesAreOwnedStep, RunsAreOwnedStep, ClientsAreHeldStep, CountersStep DEF IInv
<1> QED
  BY <1>1, InitIInv, PTL DEF Spec

\* Every field of the manager keeps its type: no counter goes below zero and
\* free_count never leaves the bounds of the array of recycled sets.
THEOREM TypeCorrect == Spec => []TypeOK
<1>1. IInv => TypeOK
  BY DEF IInv
<1> QED
  BY <1>1, Invariance, PTL

\* add_connection_set and reap_connection_set neither hand a block out twice
\* nor lose one, for a pool of any size and whatever system calls fail.
THEOREM PoolCorrect == Spec => []PoolPartition
<1>1. IInv => PoolPartition
  BY DEF IInv
<1> QED
  BY <1>1, Invariance, PTL

\* sk_router_verdict never redirects bytes to a socket of another connection.
THEOREM NoCrossTalkCorrect == Spec => []NoCrossTalk
<1>1. ASSUME IInv, NEW s \in Sockets, phase[s] = "redirect", NEW r \in Receivers(s)
      PROVE  r[1] = s[1]
  <2>1. entry[s] \in Sets /\ client[entry[s]] = s[1]
    BY <1>1 DEF IInv, RunsAreOwned, TypeOK
  <2>2. PICK m \in Members : r = sock_map[Slot(entry[s], m)] /\ r # NoSocket
    BY ConstantFacts DEF Receivers, TargetMembers, Backends
  <2>3. r = << client[entry[s]], m >>
    BY <1>1, <2>1, <2>2 DEF IInv, SlotsAreOwned
  <2> QED
    BY <2>1, <2>3
<1>2. IInv => NoCrossTalk
  BY <1>1 DEF NoCrossTalk
<1> QED
  BY <1>2, Invariance, PTL

\* What the end of a reap does to the free list and to quarantine: a recycled
\* set goes to the one, a set with a failed deletion to the other.
LEMMA ReapEnds ==
  ASSUME IInv, Quarantine \/ Recycle
  PROVE  /\ cur \in allocated /\ cur \in Sets /\ cur \notin FreeSets /\ client[cur] \in Conns
         /\ allocated' = allocated \ {cur} /\ arrived' = arrived
         /\ \A i \in Sets \ {cur} : client'[i] = client[i]
         /\ Quarantine => FreeSets' = FreeSets
         /\ Recycle => FreeSets' = FreeSets \cup {cur}
<1>1. /\ cur \in allocated /\ cur \in Sets /\ cur \notin FreeSets
      /\ client \in [Sets -> Conns \cup {NoConn}] /\ client[cur] # NoConn
  BY DEF Quarantine, Recycle, IInv, TypeOK, CurIsHeld, PoolPartition, ClientsAreHeld, ReapSteps
<1>2. CASE Quarantine
  <2>1. ~Recycle
    BY <1>2 DEF Quarantine, Recycle
  <2> QED
    BY <1>1, <1>2, <2>1 DEF Quarantine, FreeSets
<1>3. CASE Recycle
  <2>1. ~Quarantine
    BY <1>3 DEF Quarantine, Recycle
  <2>2. /\ free_count' = free_count + 1 /\ free_sets' = [free_sets EXCEPT ![free_count] = cur]
        /\ allocated' = allocated \ {cur} /\ arrived' = arrived
        /\ client' = [client EXCEPT ![cur] = NoConn]
    BY <1>3 DEF Recycle, ResetSet
  <2>3. FreeSets' = FreeSets \cup {cur}
    BY <1>1, <2>2, PushFreeSet DEF IInv
  <2> QED
    BY <1>1, <2>1, <2>2, <2>3
<1> QED
  BY <1>2, <1>3

\* A step leaves the quarantined sets where they are.
LEMMA QuarantineStep ==
  ASSUME IInv, [Next]_vars
  PROVE  Quarantined \subseteq Quarantined'
<1>1. CASE Accept
  <2>1. CASE PoolExhausted
    BY <1>1, <2>1 DEF Accept, setVars, poolVars, FreeSets, Quarantined
  <2>2. CASE ~PoolExhausted
    BY <1>1, <2>2, AcceptTakesEmptySet DEF Quarantined
  <2> QED
    BY <2>1, <2>2
<1>2. CASE Quarantine \/ Recycle
  BY <1>2, ReapEnds DEF Quarantined
<1>3. CASE ~Accept /\ ~Quarantine /\ ~Recycle
  BY <1>3, PoolFrame DEF Quarantined, FreeSets
<1> QED
  BY <1>1, <1>2, <1>3

\* reap_connection_set never puts a block back in service that kept an entry
\* of its old connection: a quarantined set stays quarantined.
THEOREM QuarantineCorrect == Spec => QuarantineIsForever
<1>1. IInv /\ [Next]_vars => [Quarantined \subseteq Quarantined']_vars
  BY QuarantineStep
<1> QED
  BY <1>1, Invariance, PTL DEF Spec, QuarantineIsForever

-----------------------------------------------------------------------------
(* The connection manager implements the abstract pool. *)

\* The initial states are those of the abstract pool.
LEMMA PoolInit ==
  ASSUME Init
  PROVE  Pool!Init
<1>1. IInv /\ FreeSets = Sets /\ allocated = {} /\ arrived = 0
  <2>1. IInv
    BY InitIInv
  <2>2. /\ free_count = MAX_CONNECTION_SETS /\ quarantined_count = 0
        /\ allocated = {} /\ arrived = 0
    BY DEF Init
  <2>3. FreeSets \subseteq Sets
    BY <2>1, <2>2 DEF IInv, TypeOK, FreeSets, Sets
  <2>4. IsFiniteSet(Quarantined)
    BY SetsFinite, FS_Subset DEF Quarantined
  <2>5. Quarantined = {}
    BY <2>1, <2>2, <2>4, FS_EmptySet DEF IInv, PoolPartition
  <2> QED
    BY <2>1, <2>2, <2>3, <2>5 DEF Quarantined
<1> QED
  BY <1>1 DEF Pool!Init, Owner

\* A step of the manager takes or releases a block of the abstract pool,
\* retires one, turns a client away, or leaves the pool as it is.
LEMMA PoolRefinement ==
  ASSUME IInv, IInv', [Next]_vars
  PROVE  [Pool!Next]_(Pool!vars)
<1> DEFINE c == arrived + 1
<1>0. /\ arrived \in Nat /\ client \in [Sets -> Conns \cup {NoConn}] /\ NoConn = 0
      /\ allocated \subseteq Sets
      /\ \A i \in allocated : client[i] \in Conns
      /\ 0 \notin Conns /\ -1 \notin Conns /\ allocated \cap FreeSets = {}
  BY ConstantFacts DEF IInv, TypeOK, ClientsAreHeld, NoConn, Conns, PoolPartition
<1>1. CASE Accept
  <2>1. c \in Conns /\ c \notin 1 .. arrived /\ 1 .. arrived' = (1 .. arrived) \cup {c}
    BY <1>0, <1>1, ConstantFacts DEF Accept, Conns
  <2>2. CASE PoolExhausted
    <3>1. FreeSets = {}
      BY <2>2 DEF PoolExhausted, FreeSets
    <3>2. Owner' = Owner
      BY <1>1, <2>2 DEF Accept, setVars, poolVars, Owner, FreeSets
    <3>3. \A b \in Sets : Owner[b] # 0
      BY <1>0, <3>1 DEF Owner
    <3>4. Pool!TurnAway(c)
      BY <2>1, <3>2, <3>3 DEF Pool!TurnAway
    <3> QED
      BY <2>1, <3>4 DEF Pool!Next
  <2>3. CASE ~PoolExhausted
    <3> DEFINE n == free_sets[free_count - 1]
    <3>1. /\ n \in Sets /\ n \in FreeSets /\ n \notin allocated
          /\ FreeSets' = FreeSets \ {n} /\ allocated' = allocated \cup {n}
          /\ client' = [client EXCEPT ![n] = c]
      BY <1>1, <2>3, AcceptTakesEmptySet
    <3> HIDE DEF n, c
    <3>2. Owner[n] = 0
      BY <3>1 DEF Owner
    <3>3. Owner' = [Owner EXCEPT ![n] = c]
      BY <1>0, <3>1 DEF Owner
    <3>4. Pool!Take(c, n)
      BY <2>1, <3>2, <3>3 DEF Pool!Take
    <3> QED
      BY <2>1, <3>1, <3>4 DEF Pool!Next
  <2> QED
    BY <2>2, <2>3
<1>2. CASE Quarantine \/ Recycle
  <2>1. /\ cur \in allocated /\ cur \in Sets /\ cur \notin FreeSets /\ client[cur] \in Conns
        /\ allocated' = allocated \ {cur} /\ arrived' = arrived
        /\ \A i \in Sets \ {cur} : client'[i] = client[i]
        /\ Quarantine => FreeSets' = FreeSets
        /\ Recycle => FreeSets' = FreeSets \cup {cur}
    BY <1>2, ReapEnds
  <2>2. Owner[cur] \in Conns
    BY <2>1 DEF Owner
  <2>3. CASE Quarantine
    <3>1. Owner' = [Owner EXCEPT ![cur] = -1]
      BY <2>1, <2>3 DEF Owner
    <3>2. Pool!Retire(cur)
      BY <2>1, <2>2, <3>1 DEF Pool!Retire
    <3> QED
      BY <2>1, <3>2 DEF Pool!Next
  <2>4. CASE Recycle
    <3>1. Owner' = [Owner EXCEPT ![cur] = 0]
      BY <2>1, <2>4 DEF Owner
    <3>2. Pool!Release(cur)
      BY <2>1, <2>2, <3>1 DEF Pool!Release
    <3> QED
      BY <2>1, <3>2 DEF Pool!Next
  <2> QED
    BY <1>2, <2>3, <2>4
<1>3. CASE ~Accept /\ ~Quarantine /\ ~Recycle
  <2>1. Owner' = Owner /\ arrived' = arrived
    BY <1>3, PoolFrame DEF Owner, FreeSets
  <2> QED
    BY <2>1 DEF Pool!vars
<1> QED
  BY <1>1, <1>2, <1>3

\* add_connection_set and reap_connection_set implement the pool: every client
\* gets at most one block, none is turned away while a block is free, and a
\* block is free, owned by one client or retired for good.
THEOREM PoolImplemented == Spec => ImplementsPool
<1>1. IInv /\ IInv' /\ [Next]_vars => [Pool!Next]_(Pool!vars)
  BY PoolRefinement
<1>2. Init => Pool!Init
  BY PoolInit
<1> QED
  BY <1>1, <1>2, Invariance, PTL DEF Spec, ImplementsPool, Pool!Spec

-----------------------------------------------------------------------------
(* The second invariant, relative to the first: one lemma for each part of *)
(* KeysInv, and what follows from both.                                    *)

\* The free list holds numbers of sets.
LEMMA FreeSetsAreSets ==
  ASSUME TypeOK
  PROVE  FreeSets \subseteq Sets
  BY ConstantFacts DEF TypeOK, FreeSets, Sets

\* Only an accept and a setup open sockets, of the allocated set they work on;
\* a reap that gives its set back or quarantines it has closed them.
LEMMA FdsAreAllocatedStep ==
  ASSUME IInv, KeysInv, [Next]_vars
  PROVE  FdsAreAllocated'
<1> SUFFICES ASSUME NEW i \in Sets, NEW m \in Members, << i, m >> \in fds'
             PROVE  i \in allocated'
  BY DEF FdsAreAllocated
<1> USE DEF IInv, KeysInv
<1>0. << i, m >> \in fds => i \in allocated
  BY DEF FdsAreAllocated
<1>1. CASE Accept
  <2>1. CASE PoolExhausted
    BY <1>0, <1>1, <2>1 DEF Accept, setVars
  <2>2. CASE ~PoolExhausted
    BY <1>0, <1>1, <2>2, AcceptTakesEmptySet
  <2> QED
    BY <2>1, <2>2
<1>2. CASE ConnectBackend
  <2>1. cur \in allocated /\ allocated' = allocated /\ fds' \subseteq fds \cup { << cur, member >> }
    BY <1>2 DEF ConnectBackend, SetupFails, CurIsHeld, SetupSteps
  <2> QED
    BY <1>0, <2>1
<1>3. CASE Quarantine \/ Recycle
  <2>1. << cur, m >> \notin fds /\ fds' \subseteq fds /\ allocated' = allocated \ {cur}
    BY <1>3, ConstantFacts DEF Quarantine, Recycle, ResetSet, CurProgress, ClosesDone,
       RetryTail, Members
  <2> QED
    BY <1>0, <2>1
<1>4. CASE allocated' = allocated /\ fds' \subseteq fds
  BY <1>0, <1>4
<1>5. ASSUME Setup
      PROVE  Accept \/ ConnectBackend \/ UNCHANGED << allocated, fds >>
  BY <1>5 DEF Setup, GetCookies, InstallLifecycle, InstallRoute, InstallSlot, Activate, SetupFails
<1>6. ASSUME Reap
      PROVE  Quarantine \/ Recycle \/ (allocated' = allocated /\ fds' \subseteq fds)
  BY <1>6 DEF Reap, ReapSlot, ReapRoute, ReapFlow, ReapLifecycle, ReapDecision,
     ReapClose, RetrySlot, RetryRoute, RetryFlow, RetryDecision, RetryLifecycle, ReapFrame
<1>7. ASSUME \/ (\E j \in Sets : LifecycleReap(j)) \/ Signal \/ Shutdown
             \/ (\E s \in Sockets : StartRun(s) \/ RunStep(s)) \/ Done \/ UNCHANGED vars
      PROVE  UNCHANGED << allocated, fds >>
  BY <1>7 DEF LifecycleReap, Signal, Shutdown, LeaveLoop, DestroyReap, DestroySkip,
     CallFrame, Done, StartRun, RunStep, Parse, Decide, LookupRoute, Forget, Redirect,
     RunFrame, vars, setVars
<1> QED
  BY <1>1, <1>2, <1>3, <1>4, <1>5, <1>6, <1>7 DEF Next

\* A set is active or the one the thread works on: an accept starts on it, an
\* activation makes it active, a reap takes it back and ends with it free or
\* quarantined.
LEMMA AllocatedIsActiveStep ==
  ASSUME IInv, KeysInv, [Next]_vars
  PROVE  AllocatedIsActive'
<1> USE DEF IInv, KeysInv, AllocatedIsActive, CurIsHeld, SetupSteps, ReapSteps
<1>1. CASE Accept
  <2>1. CASE PoolExhausted
    BY <1>1, <2>1 DEF Accept, setVars, threadVars
  <2>2. CASE ~PoolExhausted
    <3>1. UNCHANGED active /\ pc = "loop"
      BY <1>1, <2>2 DEF Accept
    <3> QED
      BY <1>1, <2>2, <3>1, AcceptTakesEmptySet
  <2> QED
    BY <2>1, <2>2
<1>2. CASE Setup /\ ~Accept
  BY <1>2 DEF Setup, ConnectBackend, GetCookies, InstallLifecycle, InstallRoute,
     InstallSlot, Activate, SetupFails, CallReap, Goto, NextMember
<1>3. CASE Reap
  BY <1>3 DEF Reap, ReapSlot, ReapRoute, ReapFlow, ReapLifecycle, ReapDecision,
     ReapClose, RetrySlot, RetryRoute, RetryFlow, RetryDecision, RetryLifecycle,
     Quarantine, Recycle, ReapFrame, Goto, Return, NextMember, AfterClose
<1>4. CASE (\E i \in Sets : LifecycleReap(i)) \/ Signal \/ Shutdown
  BY <1>4 DEF LifecycleReap, Signal, Shutdown, LeaveLoop, DestroyReap, DestroySkip,
     CallReap, CallFrame, setVars, threadVars
<1>5. CASE (\E s \in Sockets : StartRun(s) \/ RunStep(s)) \/ Done \/ UNCHANGED vars
  BY <1>5 DEF StartRun, RunStep, Parse, Decide, LookupRoute, Forget, Redirect,
     RunFrame, Done, vars, setVars, threadVars
<1> QED
  BY <1>1, <1>2, <1>3, <1>4, <1>5 DEF Next

\* The totals move with the active sets: a reap of an active set owes one to
\* reaped_total or to quarantined_count, a reap of a half set up one nothing.
LEMMA AcceptedAreAccountedStep ==
  ASSUME IInv, KeysInv, [Next]_vars
  PROVE  AcceptedAreAccounted'
<1> USE DEF IInv, KeysInv, AcceptedAreAccounted, Pending, ReapSteps
<1>0. /\ active_count \in Nat /\ reaped_total \in Nat /\ accepted_total \in Nat
      /\ quarantined_count \in Nat /\ was_active \in BOOLEAN
  BY DEF TypeOK
<1>1. CASE Accept
  BY <1>0, <1>1 DEF Accept, setVars, poolVars, countVars, threadVars
<1>2. CASE Activate
  BY <1>0, <1>2 DEF Activate, Goto, poolVars
<1>3. CASE SetupFails /\ pc \in SetupSteps
  <2>1. cur \notin active
    BY <1>3 DEF CurIsHeld
  <2> QED
    BY <1>0, <1>3, <2>1 DEF SetupFails, CallReap, poolVars, SetupSteps
<1>4. CASE Setup /\ ~Accept /\ ~Activate /\ ~SetupFails
  BY <1>0, <1>4 DEF Setup, ConnectBackend, GetCookies, InstallLifecycle, InstallRoute,
     InstallSlot, Goto, NextMember, poolVars, countVars
<1>5. CASE Quarantine \/ Recycle
  <2>1. pc' \in { "loop", "destroy" }
    BY <1>5 DEF Quarantine, Recycle, Goto, Return
  <2>2. CASE Quarantine
    BY <1>0, <2>1, <2>2 DEF Quarantine, countVars
  <2>3. CASE Recycle
    BY <1>0, <2>1, <2>3 DEF Recycle
  <2> QED
    BY <1>5, <2>2, <2>3
<1>6. CASE Reap /\ ~Quarantine /\ ~Recycle
  <2>1. pc \in ReapSteps /\ pc' \in ReapSteps
    BY <1>6 DEF Reap, ReapSlot, ReapRoute, ReapFlow, ReapLifecycle, ReapDecision,
       ReapClose, RetrySlot, RetryRoute, RetryFlow, RetryDecision, RetryLifecycle,
       NextMember, AfterClose
  <2>2. UNCHANGED << quarantined_count, active_count, accepted_total, reaped_total, was_active >>
    BY <1>6 DEF Reap, ReapSlot, ReapRoute, ReapFlow, ReapLifecycle, ReapDecision,
       ReapClose, RetrySlot, RetryRoute, RetryFlow, RetryDecision, RetryLifecycle,
       ReapFrame, poolVars
  <2> QED
    BY <1>0, <2>1, <2>2
<1>7. CASE (\E i \in Sets : LifecycleReap(i)) \/ DestroyReap
  <2>1. PICK i : CallReap(i) /\ pc \in { "loop", "destroy" }
    BY <1>7 DEF LifecycleReap, DestroyReap
  <2>2. /\ pc' = "reap_slots" /\ Pending = 0
        /\ UNCHANGED << quarantined_count, accepted_total, reaped_total >>
    BY <1>7, <2>1 DEF LifecycleReap, DestroyReap, CallReap, CallFrame, poolVars
  <2>3. CASE i \in active
    <3>1. was_active' = TRUE /\ active_count' = active_count - 1
      BY <2>1, <2>3 DEF CallReap
    <3> QED
      BY <1>0, <2>2, <3>1
  <2>4. CASE i \notin active
    <3>1. ~was_active' /\ active_count' = active_count
      BY <2>1, <2>4 DEF CallReap
    <3> QED
      BY <1>0, <2>2, <3>1
  <2> QED
    BY <2>3, <2>4
<1>8. CASE \/ Signal \/ LeaveLoop \/ DestroySkip \/ Done \/ UNCHANGED vars
           \/ \E s \in Sockets : StartRun(s) \/ RunStep(s)
  BY <1>0, <1>8 DEF Signal, LeaveLoop, DestroySkip, Done, StartRun, RunStep, Parse, Decide,
     LookupRoute, Forget, Redirect, RunFrame, vars, setVars, poolVars, countVars, threadVars
<1>9. ASSUME Setup, SetupFails
      PROVE  pc \in SetupSteps \/ Accept \/ Activate
  BY <1>9 DEF Setup, ConnectBackend, GetCookies, InstallLifecycle, InstallRoute,
     InstallSlot, SetupSteps
<1> QED
  BY <1>1, <1>2, <1>3, <1>4, <1>5, <1>6, <1>7, <1>8, <1>9 DEF Next, Shutdown

\* The flag of a lifecycle key is set on a set with a cookie, and the reap
\* clears it before it closes the sockets or in the retry, or it remembers
\* that a call failed.
LEMMA LifecycleFlagsStep ==
  ASSUME IInv, KeysInv, [Next]_vars
  PROVE  /\ lifecycle_installed' \subseteq has_cookie'
         /\ pc' = "lifecycle" => cur' \in has_cookie'
         /\ ~cleanup_failed' /\ pc' \in { "reap_decision", "reap_close", "reap_finish" } =>
              cur' \notin lifecycle_installed'
<1> USE DEF KeysInv, LifecycleIsOwned
<1>1. CASE Accept
  BY <1>1 DEF Accept, setVars, threadVars
<1>2. CASE Setup /\ ~Accept
  BY <1>2 DEF Setup, ConnectBackend, GetCookies, InstallLifecycle, InstallRoute,
     InstallSlot, Activate, SetupFails, CallReap, Goto, NextMember
<1>3. CASE ReapSlot \/ ReapRoute \/ ReapFlow \/ ReapLifecycle \/ ReapDecision
  BY <1>3 DEF ReapSlot, ReapRoute, ReapFlow, ReapLifecycle, ReapDecision, ReapFrame,
     DeleteSlot, DeleteRoute, DeleteFlow, DeleteLifecycle, DeleteDecision, CallFails, NextMember
<1>4. CASE ReapClose
  <2>1. member \in 0 .. SOCKS_PER_CONNECTION - 1 /\ SOCKS_PER_CONNECTION \in Nat
    BY ConstantFacts DEF IInv, TypeOK, Members
  <2> QED
    BY <1>4, <2>1 DEF ReapClose, ReapFrame, NextMember, AfterClose
<1>5. CASE RetrySlot \/ RetryRoute \/ RetryFlow \/ RetryDecision \/ RetryLifecycle
  BY <1>5 DEF RetrySlot, RetryRoute, RetryFlow, RetryDecision, RetryLifecycle, ReapFrame,
     DeleteSlot, DeleteRoute, DeleteDecision, DeleteLifecycle, CallFails
<1>6. CASE Quarantine \/ Recycle
  BY <1>6 DEF Quarantine, Recycle, ResetSet, Goto, Return
<1>7. CASE (\E i \in Sets : LifecycleReap(i)) \/ Signal \/ Shutdown
  BY <1>7 DEF LifecycleReap, Signal, Shutdown, LeaveLoop, DestroyReap, DestroySkip,
     CallReap, CallFrame, setVars, threadVars
<1>8. CASE (\E s \in Sockets : StartRun(s) \/ RunStep(s)) \/ Done \/ UNCHANGED vars
  BY <1>8 DEF StartRun, RunStep, Parse, Decide, LookupRoute, Forget, Redirect,
     RunFrame, Done, vars, setVars, threadVars
<1> QED
  BY <1>1, <1>2, <1>3, <1>4, <1>5, <1>6, <1>7, <1>8 DEF Next, Reap

\* Every lifecycle key keeps the one set that has the flag for it, and that
\* set is not on the free list.
LEMMA LifecycleIsOwnedStep ==
  ASSUME IInv, KeysInv, [Next]_vars
  PROVE  LifecycleIsOwned'
<1> SUFFICES /\ \A c \in lifecycle' :
                  \E i \in Sets : client'[i] = c /\ i \in lifecycle_installed'
             /\ lifecycle_installed' \cap FreeSets' = {}
  BY LifecycleFlagsStep DEF LifecycleIsOwned
<1> USE DEF IInv, KeysInv, LifecycleIsOwned
<1>0. /\ client \in [Sets -> Conns \cup {NoConn}] /\ allocated \subseteq Sets
      /\ allocated \cap FreeSets = {} /\ FreeSets \subseteq Sets
      /\ NoConn \notin lifecycle
  BY ConstantFacts, FreeSetsAreSets DEF TypeOK, PoolPartition
<1>1. CASE Accept
  <2>1. CASE PoolExhausted
    BY <1>1, <2>1 DEF Accept, setVars, poolVars, mapVars, FreeSets
  <2>2. CASE ~PoolExhausted
    <3> DEFINE n == free_sets[free_count - 1]
    <3>1. /\ n \in Sets /\ n \in FreeSets /\ FreeSets' = FreeSets \ {n}
          /\ client' = [client EXCEPT ![n] = arrived + 1] /\ lifecycle' = lifecycle
      BY <1>1, <2>2, AcceptTakesEmptySet DEF mapVars
    <3>2. lifecycle_installed' = lifecycle_installed /\ n \notin lifecycle_installed
      BY <1>1, <2>2, <3>1 DEF Accept
    <3> HIDE DEF n
    <3>3. \A i \in lifecycle_installed : i \in Sets => client'[i] = client[i]
      BY <1>0, <3>1, <3>2
    <3> QED
      BY <3>1, <3>2, <3>3
  <2> QED
    BY <2>1, <2>2
<1>2. CASE InstallLifecycle /\ ~SetupFails
  <2>1. /\ cur \in Sets /\ cur \notin FreeSets /\ client' = client /\ FreeSets' = FreeSets
        /\ lifecycle' = lifecycle \cup { client[cur] }
        /\ lifecycle_installed' = lifecycle_installed \cup {cur}
    BY <1>0, <1>2 DEF InstallLifecycle, CurIsHeld, SetupSteps, poolVars, FreeSets
  <2> QED
    BY <2>1
<1>3. CASE DeleteLifecycle /\ UNCHANGED << client, poolVars >>
  <2>1. client' = client /\ FreeSets' = FreeSets
    BY <1>3 DEF poolVars, FreeSets
  <2>2. CASE lifecycle' = lifecycle /\ lifecycle_installed' = lifecycle_installed
    BY <2>1, <2>2
  <2>3. CASE lifecycle' = lifecycle \ { client[cur] }
             /\ lifecycle_installed' = lifecycle_installed \ {cur}
    BY <2>1, <2>3
  <2>4. CASE /\ cur \notin lifecycle_installed /\ lifecycle' = lifecycle
             /\ lifecycle_installed' = lifecycle_installed \ {cur}
    BY <2>1, <2>4
  <2> QED
    BY <1>3, <2>2, <2>3, <2>4 DEF DeleteLifecycle
<1>4. CASE Recycle
  <2>1. /\ cur \in Sets /\ cur \notin lifecycle_installed /\ FreeSets' = FreeSets \cup {cur}
    BY <1>4, ReapEnds DEF Recycle
  <2>2. /\ lifecycle' = lifecycle /\ client' = [client EXCEPT ![cur] = NoConn]
        /\ lifecycle_installed' = lifecycle_installed
    BY <1>4, <2>1 DEF Recycle, ResetSet, mapVars
  <2> QED
    BY <1>0, <2>1, <2>2
<1>5. CASE UNCHANGED << client, lifecycle, lifecycle_installed, free_sets, free_count >>
  BY <1>5 DEF FreeSets
<1>6. ASSUME Setup
      PROVE  \/ Accept \/ (InstallLifecycle /\ ~SetupFails)
             \/ UNCHANGED << client, lifecycle, lifecycle_installed, free_sets, free_count >>
  BY <1>6 DEF Setup, ConnectBackend, GetCookies, InstallLifecycle, InstallRoute,
     InstallSlot, Activate, SetupFails, mapVars, poolVars
<1>7. ASSUME Reap
      PROVE  \/ DeleteLifecycle /\ UNCHANGED << client, poolVars >>
             \/ Recycle
             \/ UNCHANGED << client, lifecycle, lifecycle_installed, free_sets, free_count >>
  BY <1>7 DEF Reap, ReapSlot, ReapRoute, ReapFlow, ReapLifecycle, ReapDecision,
     ReapClose, RetrySlot, RetryRoute, RetryFlow, RetryDecision, RetryLifecycle,
     Quarantine, ReapFrame, mapVars, poolVars
<1>8. ASSUME \/ (\E j \in Sets : LifecycleReap(j)) \/ Signal \/ Shutdown
             \/ (\E s \in Sockets : StartRun(s) \/ RunStep(s)) \/ Done \/ UNCHANGED vars
      PROVE  UNCHANGED << client, lifecycle, lifecycle_installed, free_sets, free_count >>
  BY <1>8 DEF LifecycleReap, Signal, Shutdown, LeaveLoop, DestroyReap, DestroySkip,
     CallFrame, Done, StartRun, RunStep, Parse, Decide, LookupRoute, Forget, Redirect,
     RunFrame, vars, setVars, poolVars, mapVars
<1> QED
  BY <1>1, <1>2, <1>3, <1>4, <1>5, <1>6, <1>7, <1>8 DEF Next

\* What the thread does on its own set leaves the keys of the active sets
\* alone: other slots, other sockets, another connection.
LEMMA ActiveIsServedStep ==
  ASSUME IInv, IInv', KeysInv, [Next]_vars
  PROVE  ActiveIsServed'
<1> SUFFICES ASSUME NEW i \in active', NEW m \in Members
             PROVE  /\ client'[i] \in lifecycle'
                    /\ sock_map'[Slot(i, m)] = << client'[i], m >>
                    /\ routes'[<< client'[i], m >>] = i
  BY ConstantFacts DEF ActiveIsServed, Slot
<1> DEFINE Served == /\ client[i] \in lifecycle
                     /\ sock_map[Slot(i, m)] = << client[i], m >>
                     /\ routes[<< client[i], m >>] = i
<1> USE DEF IInv, KeysInv
<1>0. /\ sock_map \in [Slots -> Sockets \cup {NoSocket}] /\ Slot(i, m) \in Slots
      /\ routes \in [Sockets -> Sets \cup {NoSet}]
      /\ client \in [Sets -> Conns \cup {NoConn}] /\ member \in Members
      /\ i \in Sets /\ active \subseteq allocated /\ allocated \subseteq Sets
      /\ i \in active => Served
  BY SlotInRange DEF ActiveIsServed, TypeOK, CurIsHeld
\* The set that the thread works on is another one with another client.
<1>cur. ASSUME pc \in SetupSteps \cup ReapSteps, i \in active
        PROVE  /\ cur \in Sets /\ i # cur /\ client[i] # client[cur]
               /\ client[i] \in Conns /\ client[cur] \in Conns
  BY <1>0, <1>cur DEF CurIsHeld, ClientsAreHeld, SetupSteps, ReapSteps
<1> HIDE DEF Served
<1>1. CASE Accept
  <2>1. CASE PoolExhausted
    BY <1>0, <1>1, <2>1 DEF Accept, setVars, mapVars, Served
  <2>2. CASE ~PoolExhausted
    <3> DEFINE n == free_sets[free_count - 1]
    <3>1. /\ n \in Sets /\ n \notin allocated
          /\ client' = [client EXCEPT ![n] = arrived + 1] /\ UNCHANGED mapVars
      BY <1>1, <2>2, AcceptTakesEmptySet
    <3>2. active' = active
      BY <1>1, <2>2 DEF Accept
    <3> HIDE DEF n
    <3>3. client'[i] = client[i]
      BY <1>0, <3>1, <3>2
    <3> QED
      BY <1>0, <3>1, <3>2, <3>3 DEF mapVars, Served
  <2> QED
    BY <2>1, <2>2
<1>2. CASE Activate
  <2>1. CASE i = cur
    <3>1. /\ client[cur] \in lifecycle /\ routes[Sock(m)] = cur
          /\ sock_map[Slot(cur, m)] = Sock(m)
      BY <1>2, ConstantFacts DEF Activate, SetupProgress, RoutesSet, SlotsSet, Members
    <3> QED
      BY <1>2, <2>1, <3>1 DEF Activate, Sock, mapVars
  <2>2. CASE i # cur
    BY <1>0, <1>2, <2>2 DEF Activate, mapVars, Served
  <2> QED
    BY <2>1, <2>2
<1>3. CASE InstallLifecycle /\ ~SetupFails
  BY <1>0, <1>3 DEF InstallLifecycle, Served
<1>4. CASE InstallRoute /\ ~SetupFails
  <2>1. /\ pc = "routes" /\ active' = active /\ UNCHANGED << client, lifecycle, sock_map >>
        /\ routes' = [routes EXCEPT ![<< client[cur], member >>] = cur]
    BY <1>4 DEF InstallRoute, Sock
  <2>2. client[i] # client[cur] /\ client[i] \in Conns
    BY <1>cur, <2>1 DEF SetupSteps
  <2>3. routes'[<< client[i], m >>] = routes[<< client[i], m >>]
    BY <1>0, <2>1, <2>2 DEF Sockets
  <2> QED
    BY <1>0, <2>1, <2>3 DEF Served
<1>5. ASSUME pc \in SetupSteps \cup ReapSteps, active' = active,
             UNCHANGED << client, lifecycle, routes >>, NEW v,
             sock_map' = [sock_map EXCEPT ![Slot(cur, member)] = v]
      PROVE  Served'
  <2>1. i \in active /\ cur \in Sets /\ i # cur
    BY <1>5, <1>cur
  <2>2. Slot(i, m) # Slot(cur, member)
    BY <1>0, <2>1, SlotInjective
  <2>3. sock_map'[Slot(i, m)] = sock_map[Slot(i, m)]
    BY <1>0, <1>5, <2>2
  <2> QED
    BY <1>0, <1>5, <2>1, <2>3 DEF Served
<1>6. CASE InstallSlot /\ ~SetupFails
  <2>1. /\ pc = "slots" /\ active' = active /\ UNCHANGED << client, lifecycle, routes >>
        /\ sock_map' = [sock_map EXCEPT ![Slot(cur, member)] = Sock(member)]
    BY <1>6 DEF InstallSlot
  <2> QED
    BY <1>5, <2>1 DEF SetupSteps, Served
<1>7. CASE ReapSlot \/ RetrySlot
  <2>1. /\ pc \in ReapSteps /\ active' = active /\ UNCHANGED << client, lifecycle, routes >>
        /\ DeleteSlot
    BY <1>7 DEF ReapSlot, RetrySlot, ReapFrame, ReapSteps
  <2>2. CASE sock_map' = sock_map
    BY <1>0, <2>1, <2>2 DEF Served
  <2>3. CASE sock_map' = [sock_map EXCEPT ![Slot(cur, member)] = NoSocket]
    BY <1>5, <2>1, <2>3 DEF Served
  <2> QED
    BY <2>1, <2>2, <2>3 DEF DeleteSlot
<1>8. CASE ReapRoute \/ RetryRoute
  <2>1. /\ pc \in ReapSteps /\ active' = active /\ UNCHANGED << client, lifecycle, sock_map >>
        /\ DeleteRoute
    BY <1>8 DEF ReapRoute, RetryRoute, ReapFrame, ReapSteps
  <2>2. /\ i \in active /\ client[i] # client[cur] /\ client[i] \in Conns
        /\ client[cur] \in Conns
    BY <1>cur, <2>1
  <2>3. CASE routes' = routes
    BY <1>0, <2>1, <2>3 DEF Served
  <2>4. CASE routes' = [routes EXCEPT ![<< client[cur], member >>] = NoSet]
    <3>1. routes'[<< client[i], m >>] = routes[<< client[i], m >>]
      BY <1>0, <2>2, <2>4 DEF Sockets
    <3> QED
      BY <1>0, <2>1, <2>2, <3>1 DEF Served
  <2> QED
    BY <2>1, <2>3, <2>4 DEF DeleteRoute, Sock, Served
<1>9. CASE ReapLifecycle \/ RetryLifecycle
  <2>1. /\ pc \in ReapSteps /\ active' = active /\ UNCHANGED << client, routes, sock_map >>
        /\ lifecycle \ { client[cur] } \subseteq lifecycle'
    BY <1>9 DEF ReapLifecycle, RetryLifecycle, DeleteLifecycle, ReapFrame, ReapSteps
  <2>2. i \in active /\ client[i] # client[cur]
    BY <1>cur, <2>1
  <2> QED
    BY <1>0, <2>1, <2>2 DEF Served
<1>10. CASE ReapClose
  <2>1. /\ pc \in ReapSteps /\ active' = active /\ UNCHANGED << client, lifecycle, routes >>
    BY <1>10 DEF ReapClose, ReapFrame, ReapSteps
  <2>2. i \in active /\ client[i] # client[cur]
    BY <1>cur, <2>1
  <2>3. CASE sock_map' = sock_map
    BY <1>0, <2>1, <2>2, <2>3 DEF Served
  <2>4. CASE sock_map' = [s \in Slots |-> IF sock_map[s] = << client[cur], member >>
                                            THEN NoSocket ELSE sock_map[s]]
    <3>1. sock_map[Slot(i, m)] # << client[cur], member >>
      BY <1>0, <2>2 DEF Served
    <3>2. sock_map'[Slot(i, m)] = sock_map[Slot(i, m)]
      BY <1>0, <2>4, <3>1
    <3> QED
      BY <1>0, <2>1, <2>2, <3>2 DEF Served
  <2> QED
    BY <1>10, <2>3, <2>4 DEF ReapClose, Sock, Served
<1>11. CASE Recycle
  <2>1. /\ pc \in ReapSteps /\ active' = active /\ UNCHANGED mapVars
        /\ client' = [client EXCEPT ![cur] = NoConn]
    BY <1>11 DEF Recycle, ResetSet, ReapSteps
  <2>2. i \in active /\ i # cur
    BY <1>cur, <2>1
  <2>3. client'[i] = client[i]
    BY <1>0, <2>1, <2>2
  <2> QED
    BY <1>0, <2>1, <2>2, <2>3 DEF mapVars, Served
<1>12. CASE active' \subseteq active /\ UNCHANGED << client, lifecycle, sock_map, routes >>
  BY <1>0, <1>12 DEF Served
<1>13. ASSUME Setup
       PROVE  \/ Accept \/ Activate \/ (InstallLifecycle /\ ~SetupFails)
              \/ (InstallRoute /\ ~SetupFails) \/ (InstallSlot /\ ~SetupFails)
              \/ active' \subseteq active /\ UNCHANGED << client, lifecycle, sock_map, routes >>
  BY <1>13 DEF Setup, ConnectBackend, GetCookies, InstallLifecycle, InstallRoute,
     InstallSlot, SetupFails, CallReap, mapVars
<1>14. ASSUME ReapFlow \/ ReapDecision \/ RetryFlow \/ RetryDecision \/ Quarantine
       PROVE  active' \subseteq active /\ UNCHANGED << client, lifecycle, sock_map, routes >>
  BY <1>14 DEF ReapFlow, ReapDecision, RetryFlow, RetryDecision, Quarantine, ReapFrame, mapVars
<1>15. ASSUME \/ (\E j \in Sets : LifecycleReap(j)) \/ Signal \/ Shutdown
              \/ (\E s \in Sockets : StartRun(s) \/ RunStep(s)) \/ Done \/ UNCHANGED vars
       PROVE  active' \subseteq active /\ UNCHANGED << client, lifecycle, sock_map, routes >>
  BY <1>15 DEF LifecycleReap, Signal, Shutdown, LeaveLoop, DestroyReap, DestroySkip,
     CallReap, CallFrame, Done, StartRun, RunStep, Parse, Decide, LookupRoute, Forget,
     Redirect, RunFrame, vars, setVars, mapVars
<1>16. Served' => /\ client'[i] \in lifecycle'
                  /\ sock_map'[Slot(i, m)] = << client'[i], m >>
                  /\ routes'[<< client'[i], m >>] = i
  BY DEF Served, Slot
<1> QED
  BY <1>1, <1>2, <1>3, <1>4, <1>6, <1>7, <1>8, <1>9, <1>10, <1>11, <1>12, <1>13, <1>14,
     <1>15, <1>16 DEF Next, Reap

\* Each step of a setup adds its own keys to those of the steps before, and a
\* failed one gives the set to a reap.
LEMMA SetupProgressStep ==
  ASSUME IInv, IInv', KeysInv, [Next]_vars
  PROVE  SetupProgress'
<1> SUFFICES ASSUME NEW m \in Members
             PROVE  /\ pc' \in { "cookies", "lifecycle" } => member' = 0
                    /\ pc' \in { "routes", "slots", "activate" } => client'[cur'] \in lifecycle'
                    /\ m < RoutesSet' => routes'[<< client'[cur'], m >>] = cur'
                    /\ m < SlotsSet' => sock_map'[Slot(cur', m)] = << client'[cur'], m >>
  <2>1. 0 \in Members
    BY ConstantFacts
  <2> QED
    BY <2>1 DEF SetupProgress, Sock, Slot
<1> USE DEF IInv, KeysInv, SetupProgress, RoutesSet, SlotsSet, Sock
<1>0. /\ SOCKS_PER_CONNECTION \in Nat /\ SOCKS_PER_CONNECTION >= 2
      /\ member \in 0 .. SOCKS_PER_CONNECTION - 1 /\ m \in 0 .. SOCKS_PER_CONNECTION - 1
      /\ sock_map \in [Slots -> Sockets \cup {NoSocket}]
      /\ routes \in [Sockets -> Sets \cup {NoSet}]
      /\ client \in [Sets -> Conns \cup {NoConn}] /\ member \in Members
      /\ allocated \subseteq Sets
  BY ConstantFacts DEF TypeOK, Members
<1>1. CASE Accept
  <2>1. CASE PoolExhausted
    BY <1>1, <2>1 DEF Accept, setVars, threadVars, mapVars
  <2>2. CASE ~PoolExhausted
    BY <1>0, <1>1, <2>2, AcceptTakesEmptySet
  <2> QED
    BY <2>1, <2>2
<1>2. CASE SetupFails \/ (\E i \in Sets : LifecycleReap(i)) \/ DestroyReap
  BY <1>0, <1>2 DEF SetupFails, LifecycleReap, DestroyReap, CallReap
<1>3. CASE (ConnectBackend \/ GetCookies) /\ ~SetupFails
  BY <1>0, <1>3 DEF ConnectBackend, GetCookies, NextMember, Goto
<1>4. CASE InstallLifecycle /\ ~SetupFails
  BY <1>0, <1>4 DEF InstallLifecycle, Goto
<1>5. CASE InstallRoute /\ ~SetupFails
  <2>1. /\ pc = "routes" /\ cur \in Sets /\ client[cur] \in Conns
        /\ routes' = [routes EXCEPT ![<< client[cur], member >>] = cur]
        /\ UNCHANGED << cur, client, lifecycle >> /\ NextMember("slots")
    BY <1>0, <1>5 DEF InstallRoute, CurIsHeld, ClientsAreHeld, SetupSteps
  <2>2. CASE m = member
    <3>1. routes'[<< client[cur], m >>] = cur
      BY <1>0, <2>1, <2>2 DEF Sockets
    <3> QED
      BY <1>0, <2>1, <3>1 DEF NextMember
  <2>3. CASE m # member
    <3>1. routes'[<< client[cur], m >>] = routes[<< client[cur], m >>]
      BY <1>0, <2>1, <2>3 DEF Sockets
    <3> QED
      BY <1>0, <2>1, <2>3, <3>1 DEF NextMember
  <2> QED
    BY <2>2, <2>3
<1>6. CASE InstallSlot /\ ~SetupFails
  <2>1. /\ pc = "slots" /\ cur \in Sets
        /\ sock_map' = [sock_map EXCEPT ![Slot(cur, member)] = << client[cur], member >>]
        /\ UNCHANGED << cur, client, lifecycle, routes >> /\ NextMember("activate")
    BY <1>0, <1>6 DEF InstallSlot, CurIsHeld, SetupSteps
  <2>2. Slot(cur, m) \in Slots /\ (Slot(cur, m) = Slot(cur, member) <=> m = member)
    BY <1>0, <2>1, SlotInRange, SlotInjective
  <2>3. sock_map'[Slot(cur, m)] = IF m = member THEN << client[cur], member >>
                                                ELSE sock_map[Slot(cur, m)]
    BY <1>0, <2>1, <2>2
  <2> QED
    BY <1>0, <2>1, <2>3 DEF NextMember
<1>7. CASE Activate \/ Reap
  <2>1. pc' \notin SetupSteps
    BY <1>7 DEF Activate, Reap, ReapSlot, ReapRoute, ReapFlow, ReapLifecycle, ReapDecision,
       ReapClose, RetrySlot, RetryRoute, RetryFlow, RetryDecision, RetryLifecycle,
       Quarantine, Recycle, Goto, Return, NextMember, AfterClose, SetupSteps
  <2> QED
    BY <1>0, <2>1 DEF SetupSteps
<1>8. CASE \/ Signal \/ LeaveLoop \/ DestroySkip \/ Done \/ UNCHANGED vars
           \/ \E s \in Sockets : StartRun(s) \/ RunStep(s)
  <2>1. /\ UNCHANGED << client, cur, member, sock_map, routes, lifecycle >>
        /\ pc' = pc \/ pc' \notin SetupSteps
    BY <1>8 DEF Signal, LeaveLoop, DestroySkip, Done, StartRun, RunStep, Parse, Decide,
       LookupRoute, Forget, Redirect, RunFrame, vars, setVars, threadVars, mapVars, SetupSteps
  <2> QED
    BY <1>0, <2>1 DEF SetupSteps
<1>9. ASSUME Setup
      PROVE  \/ Accept \/ SetupFails \/ Activate
             \/ (ConnectBackend \/ GetCookies) /\ ~SetupFails
             \/ (InstallLifecycle \/ InstallRoute \/ InstallSlot) /\ ~SetupFails
  BY <1>9 DEF Setup
<1> QED
  BY <1>1, <1>2, <1>3, <1>4, <1>5, <1>6, <1>7, <1>8, <1>9 DEF Next, Shutdown

\* An initialised manager has no key, no active set and no total.
LEMMA InitKeysInv ==
  ASSUME Init
  PROVE  KeysInv
  BY ConstantFacts DEF Init, KeysInv, LifecycleIsOwned, FdsAreAllocated, AllocatedIsActive,
     ActiveIsServed, SetupProgress, RoutesSet, SlotsSet, AcceptedAreAccounted, Pending,
     SetupSteps, ReapSteps, Members

\* Both invariants together hold in every reachable state.
THEOREM KeysInvariance == Spec => [](IInv /\ KeysInv)
<1>1. Init => IInv /\ KeysInv
  BY InitIInv, InitKeysInv
<1>2. IInv /\ KeysInv /\ [Next]_vars => (IInv /\ KeysInv)'
  <2> SUFFICES ASSUME IInv, KeysInv, [Next]_vars
               PROVE  IInv' /\ KeysInv'
    OBVIOUS
  <2>1. IInv'
    BY TypeStep, PoolStep, CurIsHeldStep, CurProgressStep, SlotsAreOwnedStep,
       RoutesAreOwnedStep, RunsAreOwnedStep, ClientsAreHeldStep, CountersStep DEF IInv
  <2>2. LifecycleIsOwned' /\ FdsAreAllocated' /\ AllocatedIsActive' /\ AcceptedAreAccounted'
    BY LifecycleIsOwnedStep, FdsAreAllocatedStep, AllocatedIsActiveStep, AcceptedAreAccountedStep
  <2>3. ActiveIsServed' /\ SetupProgress'
    BY <2>1, ActiveIsServedStep, SetupProgressStep
  <2> QED
    BY <2>1, <2>2, <2>3 DEF KeysInv
<1> QED
  BY <1>1, <1>2, PTL DEF Spec

\* reap_connection_set hands a block back only when its slots, routes, flags
\* and descriptors are gone and no run of the BPF programs still names it.
THEOREM FreeSetsClean == Spec => []FreeSetsAreClean
<1>1. IInv /\ KeysInv => FreeSetsAreClean
  <2> SUFFICES ASSUME IInv, KeysInv, NEW i \in FreeSets
               PROVE  /\ \A m \in Members :
                           /\ sock_map[Slot(i, m)] = NoSocket
                           /\ << i, m >> \notin fds \cup sockmap_installed \cup route_installed
                      /\ i \notin lifecycle_installed
                      /\ \A s \in Sockets : routes[s] # i /\ entry[s] # i
    BY DEF FreeSetsAreClean
  <2> USE DEF IInv, KeysInv
  <2>1. /\ i \in Sets /\ client[i] = NoConn
        /\ \A m \in Members : << i, m >> \notin fds \cup sockmap_installed \cup route_installed
    BY FreeSetsAreSets DEF ClientsAreHeld
  <2>2. \A m \in Members : sock_map[Slot(i, m)] = NoSocket
    BY <2>1 DEF SlotsAreOwned
  <2>3. i \notin lifecycle_installed
    BY DEF LifecycleIsOwned
  <2>4. ASSUME NEW s \in Sockets
        PROVE  routes[s] # i /\ entry[s] # i
    <3>1. s[1] # NoConn /\ s[2] \in Members /\ i # NoSet
      BY <2>1, ConstantFacts DEF Sockets
    <3> QED
      BY <2>1, <3>1 DEF RoutesAreOwned, RunsAreOwned
  <2> QED
    BY <2>1, <2>2, <2>3, <2>4
<1> QED
  BY <1>1, KeysInvariance, PTL

\* Every lifecycle and route key has a set out of the free list that knows of
\* it, so the router can still delete it.
THEOREM KeysOwned == Spec => []KeysAreOwned
<1>1. IInv /\ KeysInv => KeysAreOwned
  <2> SUFFICES ASSUME IInv, KeysInv
               PROVE  KeysAreOwned
    OBVIOUS
  <2> USE DEF IInv, KeysInv
  <2>1. ASSUME NEW c \in lifecycle
        PROVE  \E i \in Sets \ FreeSets : client[i] = c /\ i \in lifecycle_installed
    BY DEF LifecycleIsOwned
  <2>2. ASSUME NEW s \in Sockets, routes[s] # NoSet
        PROVE  /\ routes[s] \notin FreeSets /\ client[routes[s]] = s[1]
               /\ << routes[s], s[2] >> \in route_installed
    <3>1. s[2] \in Members
      BY DEF Sockets
    <3> QED
      BY <2>2, <3>1 DEF RoutesAreOwned, ClientsAreHeld
  <2> QED
    BY <2>1, <2>2 DEF KeysAreOwned
<1> QED
  BY <1>1, KeysInvariance, PTL

\* The counters of the status socket add up: between two events every
\* accepted connection is active, reaped or quarantined.
THEOREM CountersCorrect == Spec => []CountersAgree
<1>1. IInv /\ KeysInv => CountersAgree
  <2> SUFFICES ASSUME IInv, KeysInv
               PROVE  CountersAgree
    OBVIOUS
  <2>1. /\ active_count \in Nat /\ reaped_total \in Nat /\ accepted_total \in Nat
        /\ quarantined_count \in Nat
    BY DEF IInv, TypeOK
  <2>2. Pending \in {0, 1} /\ (pc = "loop" => Pending = 0)
    BY DEF Pending, ReapSteps
  <2>3. AcceptedAreAccounted /\ CountersCount
    BY DEF IInv, KeysInv
  <2> QED
    BY <2>1, <2>2, <2>3 DEF CountersAgree, AcceptedAreAccounted, CountersCount
<1> QED
  BY <1>1, KeysInvariance, PTL

\* Between two events of the event loop nothing is half done: the allocated
\* sets are the active ones, completely installed, and no other socket is in
\* the SOCKMAP.
THEOREM LoopSettled == Spec => []LoopIsSettled
<1>1. IInv /\ KeysInv => LoopIsSettled
  <2> SUFFICES ASSUME IInv, KeysInv, pc = "loop"
               PROVE  /\ allocated = active
                      /\ ActiveIsServed
                      /\ \A i \in Sets \ allocated : \A m \in Members :
                           sock_map[Slot(i, m)] = NoSocket
    BY DEF LoopIsSettled, ActiveIsServed
  <2> USE DEF IInv, KeysInv
  <2>1. allocated = active
    BY DEF AllocatedIsActive, SetupSteps, ReapSteps
  <2>2. ASSUME NEW i \in Sets \ allocated, NEW m \in Members
        PROVE  sock_map[Slot(i, m)] = NoSocket
    BY DEF FdsAreAllocated, SlotsAreOwned
  <2> QED
    BY <2>1, <2>2
<1> QED
  BY <1>1, KeysInvariance, PTL
=============================================================================
