------------------------------ MODULE SkProfile ------------------------------
(***************************************************************************)
(* The component profile of the router: the per-CPU counters the verdict   *)
(* program keeps (sk_profile_record in bpf/programs/sk_router.bpf.c), the  *)
(* commands of the status socket that copy and clear them                  *)
(* (serve_profile_read and serve_profile_reset in src/sk_router.c), and    *)
(* the tool that asks for them (scripts/sk_profile_components.py) in the   *)
(* order of a measurement (benchmarks/routing_wrk/benchmark.sh): load,     *)
(* reset, load, read.                                                      *)
(*                                                                         *)
(* Nothing locks the counters. A run of the verdict adds to each of its    *)
(* six words by a load and a store; the router copies or clears the words  *)
(* of every CPU one after the other.                                       *)
(***************************************************************************)
EXTENDS Integers, Sequences, FiniteSets, FiniteSetsExt

CONSTANTS
  NumCPUs,       (* libbpf_num_possible_cpus()                             *)
  Elapsed,       (* what one stage of one request may take                 *)
  MaxRequests,   (* bound: requests of the load                            *)
  MaxTries,      (* bound: commands that may fail before one gives up      *)
  Disturbed,     (* commands that are given while requests are under way   *)
  Failures       (* what may go wrong: calls, lines of an answer, timeouts *)

ASSUME ProfileAssumption ==
  /\ NumCPUs \in Nat \ {0} /\ Elapsed \subseteq Nat
  /\ MaxRequests \in Nat /\ MaxTries \in Nat
  /\ Disturbed \subseteq { "read", "reset" }
  /\ Failures \subseteq { "cpu_count", "map", "line", "late", "timeout" }

CPUs == 0 .. NumCPUs - 1
STAGES == << "parse_signal", "decision", "redirect" >>
Stages == { STAGES[i] : i \in DOMAIN STAGES }
METRICS == << "count", "total_ns" >>
Metrics == { METRICS[i] : i \in DOMAIN METRICS }

\* The words in the order in which one run adds to them, and in the order in
\* which a map call per stage copies them, CPU by CPU.
Word(n) == << STAGES[(n - 1) \div 2 + 1], METRICS[((n - 1) % 2) + 1] >>
Words == 2 * Len(STAGES)
Cell(n) == << STAGES[(n - 1) \div (2 * NumCPUs) + 1],
              ((n - 1) \div 2) % NumCPUs, METRICS[((n - 1) % 2) + 1] >>
Cells == Words * NumCPUs
StartsStage(n) == (n - 1) % (2 * NumCPUs) = 0

VARIABLES
  \* sk_profile_components, and the verdicts that record in it
  value,         (* [Stages -> [CPUs -> [Metrics -> Nat]]]                 *)
  word,          (* [CPUs -> the word the run there adds to, 0 for no run] *)
  reg,           (* [CPUs -> what it loaded], or NoLoad                    *)
  elapsed,       (* [CPUs -> [Stages -> its measurements]]                 *)
  begun,
  \* the router's thread
  alive, pc, cell,
  values,        (* the local copy of the counters                         *)
  pending,       (* commands on the status socket: [cmd, gone]             *)
  \* the measurement
  phase, tries, result,
  \* history: what was recorded since the reset was sent, and how much of it
  \* was complete when the read was sent
  load, before

bpfVars == << value, word, reg, elapsed, begun >>
routerVars == << alive, pc, cell, values, pending >>
toolVars == << phase, tries, result >>
vars == << bpfVars, routerVars, toolVars, load, before >>

NoLoad == -1
NoResult == << >>
Zero == [m \in Metrics |-> 0]
ZeroTotals == [s \in Stages |-> Zero]
Busy == { c \in CPUs : word[c] # 0 }

Init ==
  /\ value = [s \in Stages |-> [c \in CPUs |-> Zero]]
  /\ word = [c \in CPUs |-> 0] /\ reg = [c \in CPUs |-> NoLoad]
  /\ elapsed = [c \in CPUs |-> [s \in Stages |-> 0]] /\ begun = 0
  /\ alive = TRUE /\ pc = "loop" /\ cell = 1 /\ pending = << >>
  /\ values = value
  /\ phase = "warmup" /\ tries = 0 /\ result = NoResult
  /\ load = ZeroTotals /\ before = ZeroTotals

-----------------------------------------------------------------------------
(* The verdict, after a redirect that succeeded. *)

Contribution(e) == [s \in Stages |-> [count |-> 1, total_ns |-> e[s]]]
Plus(a, b) == [s \in Stages |-> [m \in Metrics |-> a[s][m] + b[s][m]]]
Sum(f, cpus) == MapThenSumSet(LAMBDA c : f[c], cpus)
Recording(s, m) ==
  [c \in CPUs |-> IF c \in Busy THEN Contribution(elapsed[c])[s][m] ELSE 0]
InFlight == [s \in Stages |-> [m \in Metrics |-> Sum(Recording(s, m), CPUs)]]

\* No load runs while a command is under way, unless that is disturbed.
LoadRuns ==
  \/ phase \in { "warmup", "measuring" }
  \/ phase = "resetting" /\ "reset" \in Disturbed
  \/ phase = "reading" /\ "read" \in Disturbed

BeginRecord(c) ==
  /\ alive /\ LoadRuns /\ begun < MaxRequests /\ word[c] = 0
  /\ begun' = begun + 1
  /\ word' = [word EXCEPT ![c] = 1]
  /\ \E e \in [Stages -> Elapsed] :
       /\ elapsed' = [elapsed EXCEPT ![c] = e]
       /\ load' = Plus(load, Contribution(e))
  /\ UNCHANGED << value, reg, routerVars, toolVars, before >>

LoadWord(c) ==
  /\ alive /\ word[c] # 0 /\ reg[c] = NoLoad
  /\ reg' = [reg EXCEPT ![c] = value[Word(word[c])[1]][c][Word(word[c])[2]]]
  /\ UNCHANGED << value, word, elapsed, begun, routerVars, toolVars, load, before >>

StoreWord_NeverEnds(c) ==
  LET s == Word(word[c])[1]  m == Word(word[c])[2] IN
  /\ alive /\ reg[c] # NoLoad
  /\ value' = [value EXCEPT ![s][c][m] = reg[c] + Contribution(elapsed[c])[s][m]]
  /\ reg' = [reg EXCEPT ![c] = NoLoad]
  /\ word' = [word EXCEPT ![c] = @ + 1]
  /\ UNCHANGED << elapsed, begun, routerVars, toolVars, load, before >>

StoreWord(c) ==
  LET s == Word(word[c])[1]  m == Word(word[c])[2] IN
  /\ alive /\ reg[c] # NoLoad
  /\ value' = [value EXCEPT ![s][c][m] = reg[c] + Contribution(elapsed[c])[s][m]]
  /\ reg' = [reg EXCEPT ![c] = NoLoad]
  /\ word' = [word EXCEPT ![c] = (@ + 1) % (Words + 1)]
  /\ UNCHANGED << elapsed, begun, routerVars, toolVars, load, before >>

-----------------------------------------------------------------------------
(* The tool. What it makes of an answer. *)

Error == [profile_enabled |-> TRUE, error |-> TRUE]
Status == [profile_enabled |-> FALSE, error |-> FALSE]

\* aggregate_response, over the rows of the CPUs whose line arrived.
Column(v, s, m) == [c \in CPUs |-> v[s][c][m]]
Totals(a) ==
  [s \in Stages |-> [m \in Metrics |-> Sum(Column(a.values, s, m), a.rows)]]

HasAllRows_Unchecked(a) == TRUE
HasAllRows(a) == Cardinality(a.rows) = a.cpu_count

CountsAgree(a) == \A s, t \in Stages : Totals(a)[s].count = Totals(a)[t].count

Accepts(a) ==
  a.profile_enabled /\ ~a.error /\ a.cpu_count > 0 /\ HasAllRows(a) /\ CountsAgree(a)

\* confirm_reset
Confirms(a) == a.profile_enabled /\ ~a.error

\* A command that failed may be given again.
CommandFails ==
  /\ phase' = IF tries = MaxTries THEN "aborted"
              ELSE IF phase = "resetting" THEN "warmup" ELSE "measuring"
  /\ tries' = IF tries = MaxTries THEN tries ELSE tries + 1
  /\ UNCHANGED result

Received(a) ==
  IF phase = "resetting"
    THEN IF Confirms(a) THEN phase' = "measuring" /\ UNCHANGED << tries, result >>
         ELSE CommandFails
    ELSE IF Accepts(a)
           THEN phase' = "done" /\ result' = Totals(a) /\ UNCHANGED tries
           ELSE CommandFails

Send(cmd, next) ==
  /\ Busy = {} \/ cmd \in Disturbed
  /\ phase' = next
  /\ pending' = Append(pending, [cmd |-> cmd, gone |-> FALSE])
  /\ UNCHANGED << bpfVars, alive, pc, cell, values, tries, result >>

SendReset ==
  /\ phase = "warmup" /\ Send("reset", "resetting")
  /\ load' = InFlight /\ UNCHANGED before

SendRead ==
  /\ phase = "measuring" /\ Send("read", "reading")
  /\ before' = [s \in Stages |-> [m \in Metrics |-> load[s][m] - InFlight[s][m]]]
  /\ UNCHANGED load

\* The answer did not come within the timeout; the command stays queued.
GiveUp ==
  /\ "timeout" \in Failures /\ alive
  /\ phase \in { "resetting", "reading" }
  /\ pending' = [pending EXCEPT ![Len(pending)].gone = TRUE]
  /\ CommandFails
  /\ UNCHANGED << bpfVars, alive, pc, cell, values, load, before >>

\* There is no router to connect to.
RouterGone ==
  /\ ~alive /\ phase \notin { "done", "aborted" }
  /\ phase' = "aborted"
  /\ UNCHANGED << bpfVars, routerVars, tries, result, load, before >>

-----------------------------------------------------------------------------
(* The router, serve_status: one command at a time. *)

\* Nobody reads an answer whose client has gone: the write raises SIGPIPE,
\* which the router does not handle.
Answer(a) ==
  /\ pc' = "loop" /\ pending' = Tail(pending)
  /\ IF Head(pending).gone THEN alive' = FALSE /\ UNCHANGED toolVars
     ELSE Received(a) /\ UNCHANGED alive

Serve ==
  /\ alive /\ pc = "loop" /\ pending # << >>
  /\ pc' = Head(pending).cmd /\ cell' = 1
  /\ UNCHANGED << bpfVars, alive, values, pending, toolVars, load, before >>

\* The command did not come within 20 ms, and is taken for "status".
ServeLate ==
  /\ alive /\ pc = "loop" /\ pending # << >> /\ "late" \in Failures
  /\ Answer(Status)
  /\ UNCHANGED << bpfVars, cell, values, load, before >>

\* The number of CPUs or the memory is not to be had, or a map call fails.
\* What a reset has cleared by then stays so.
ServeFails ==
  /\ alive /\ pc \in { "read", "reset" } /\ cell <= Cells
  /\ \/ cell = 1 /\ "cpu_count" \in Failures
     \/ StartsStage(cell) /\ "map" \in Failures
  /\ Answer(Error)
  /\ UNCHANGED << bpfVars, cell, values, load, before >>

ReadCell ==
  LET s == Cell(cell)[1]  c == Cell(cell)[2]  m == Cell(cell)[3] IN
  /\ alive /\ pc = "read" /\ cell <= Cells
  /\ values' = [values EXCEPT ![s][c][m] = value[s][c][m]]
  /\ cell' = cell + 1
  /\ UNCHANGED << bpfVars, alive, pc, pending, toolVars, load, before >>

\* A header and a line per CPU; what dprintf returns is not looked at. When
\* the header is lost, a row takes its place.
AnswerRead ==
  /\ alive /\ pc = "read" /\ cell > Cells
  /\ \E header \in { TRUE, "line" \notin Failures },
        rows \in IF "line" \in Failures THEN SUBSET CPUs ELSE { CPUs } :
       Answer([profile_enabled |-> header, error |-> FALSE, cpu_count |-> NumCPUs,
               rows |-> rows, values |-> values])
  /\ UNCHANGED << bpfVars, cell, values, load, before >>

ResetCell ==
  LET s == Cell(cell)[1]  c == Cell(cell)[2]  m == Cell(cell)[3] IN
  /\ alive /\ pc = "reset" /\ cell <= Cells
  /\ value' = [value EXCEPT ![s][c][m] = 0]
  /\ cell' = cell + 1
  /\ UNCHANGED << word, reg, elapsed, begun, alive, pc, values, pending, toolVars,
                  load, before >>

AnswerReset ==
  /\ alive /\ pc = "reset" /\ cell > Cells
  /\ Answer([profile_enabled |-> TRUE, error |-> FALSE])
  /\ UNCHANGED << bpfVars, cell, values, load, before >>

\* Nothing is left to do, or the router has gone.
Ended ==
  /\ phase \in { "done", "aborted" }
  /\ ~alive \/ (Busy = {} /\ pending = << >>)
  /\ UNCHANGED vars

Next ==
  \/ \E c \in CPUs : BeginRecord(c) \/ LoadWord(c) \/ StoreWord(c)
  \/ SendReset \/ SendRead \/ GiveUp \/ RouterGone
  \/ Serve \/ ServeLate \/ ServeFails \/ ReadCell \/ AnswerRead \/ ResetCell
  \/ AnswerReset \/ Ended

Spec == Init /\ [][Next]_vars

-----------------------------------------------------------------------------
(* Properties *)

\* The type invariant: a run is at one of its words, and no word is negative.
TypeOK ==
  /\ value \in [Stages -> [CPUs -> [Metrics -> Nat]]]
  /\ word \in [CPUs -> 0 .. Words] /\ reg \in [CPUs -> Nat \cup { NoLoad }]
  /\ values \in [Stages -> [CPUs -> [Metrics -> Nat]]] /\ cell \in 1 .. Cells + 1
  /\ pc \in { "loop", "read", "reset" } /\ begun \in 0 .. MaxRequests
  /\ phase \in { "warmup", "resetting", "measuring", "reading", "done", "aborted" }
  /\ tries \in 0 .. MaxTries

\* An accepted reading counts every request that was complete when it was asked
\* for, and none that had not begun when it was answered, whatever calls failed,
\* lines were lost and commands timed out and were given again. One that is
\* taken between the loads, as the benchmark does, counts its own load exactly.
ReadIsBracketed ==
  result # NoResult =>
    \A s \in Stages, m \in Metrics :
      before[s][m] <= result[s][m] /\ result[s][m] <= load[s][m]

-----------------------------------------------------------------------------
(* The inductive invariant. It holds when no request is under way while the *)
(* counters are reset ("reset" \notin Disturbed).                           *)

Commands == [cmd : { "read", "reset" }, gone : BOOLEAN]

\* Someone gave up waiting: the router ends when it comes to that command, and
\* no later answer is received.
Doomed == ~alive \/ \E i \in DOMAIN pending : pending[i].gone

\* The tool waits for the answer to the last command in the queue, if to any.
Waiting == phase \in { "resetting", "reading" }
CommandsAreInOrder ==
  /\ pending \in Seq(Commands)
  /\ pc # "loop" => pending # << >> /\ pc = Head(pending).cmd
  /\ alive =>
       /\ Waiting => /\ pending # << >>
                     /\ pending[Len(pending)].cmd = IF phase = "resetting" THEN "reset" ELSE "read"
       /\ \A i \in DOMAIN pending : pending[i].gone <=> ~(Waiting /\ i = Len(pending))

RecordsAreTyped ==
  /\ elapsed \in [CPUs -> [Stages -> Nat]]
  /\ load \in [Stages -> [Metrics -> Nat]] /\ before \in [Stages -> [Metrics -> Int]]
  /\ \A c \in CPUs : reg[c] # NoLoad => word[c] # 0

\* Nothing is recorded during a reset, which clears one word after the other.
ResetIsQuiet ==
  phase = "resetting" =>
    /\ Busy = { } /\ load = ZeroTotals
    /\ ~Doomed /\ pc = "reset" =>
         \A n \in 1 .. cell - 1 : value[Cell(n)[1]][Cell(n)[2]][Cell(n)[3]] = 0

\* What the run at each CPU has still to add to a word.
Owed(s, m) ==
  [c \in CPUs |->
    IF \E n \in 1 .. Words : word[c] # 0 /\ word[c] <= n /\ Word(n) = << s, m >>
      THEN Contribution(elapsed[c])[s][m] ELSE 0]

\* The load is what the counters have and what the runs still add. No other
\* run writes to the word between a load and its store.
LoadIsRecorded ==
  ~Doomed /\ phase \in { "measuring", "reading" } =>
    /\ \A c \in CPUs :
         reg[c] # NoLoad => reg[c] = value[Word(word[c])[1]][c][Word(word[c])[2]]
    /\ \A s \in Stages, m \in Metrics :
         load[s][m] = Sum(Column(value, s, m), CPUs) + Sum(Owed(s, m), CPUs)

\* A reading that is under way: the words that are copied, and those to come.
Copied(s, c, m) == pc = "read" /\ \E n \in 1 .. cell - 1 : Cell(n) = << s, c, m >>
Reading ==
  [s \in Stages |-> [c \in CPUs |-> [m \in Metrics |->
     IF Copied(s, c, m) THEN values[s][c][m] ELSE value[s][c][m]]]]

ReadingIsBracketed ==
  ~Doomed /\ phase = "reading" =>
    /\ \A s \in Stages, m \in Metrics : before[s][m] <= Sum(Column(Reading, s, m), CPUs)
    /\ \A s \in Stages, c \in CPUs, m \in Metrics : Reading[s][c][m] <= value[s][c][m]

ResultIsFinal == result # NoResult => phase = "done"

ProfileInv ==
  /\ TypeOK /\ CommandsAreInOrder /\ RecordsAreTyped /\ ResetIsQuiet
  /\ LoadIsRecorded /\ ReadingIsBracketed /\ ResultIsFinal /\ ReadIsBracketed
=============================================================================
