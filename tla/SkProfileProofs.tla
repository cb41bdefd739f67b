--------------------------- MODULE SkProfileProofs ---------------------------
(***************************************************************************)
(* Proofs about SkProfile, for every number of CPUs and of requests, every *)
(* set of times and every choice of what may fail.                         *)
(***************************************************************************)
EXTENDS SkProfile, Totals, SequenceTheorems

-----------------------------------------------------------------------------
(* The words of the counters. *)

\* The stages and the metrics, by name.
LEMMA StageNames ==
  /\ Stages = { "parse_signal", "decision", "redirect" } /\ Len(STAGES) = 3 /\ Words = 6
  /\ Metrics = { "count", "total_ns" }
<1>1. DOMAIN STAGES = 1 .. 3 /\ Len(STAGES) = 3 /\ DOMAIN METRICS = 1 .. 2
  BY DEF STAGES, METRICS
<1>2. Stages = { STAGES[1], STAGES[2], STAGES[3] } /\ Metrics = { METRICS[1], METRICS[2] }
  BY <1>1 DEF Stages, Metrics
<1> QED
  BY <1>1, <1>2 DEF STAGES, METRICS, Words

LEMMA CPUsAreFinite == IsFiniteSet(CPUs) /\ Cardinality(CPUs) = NumCPUs
  BY FS_Interval, ProfileAssumption DEF CPUs

\* A run adds to each word once.
LEMMA WordOrder ==
  /\ \A n \in 1 .. Words : Word(n) \in Stages \X Metrics
  /\ \A n, k \in 1 .. Words : Word(n) = Word(k) => n = k
  /\ \A s \in Stages, m \in Metrics : \E n \in 1 .. Words : Word(n) = << s, m >>
<1>1. /\ Word(1) = << "parse_signal", "count" >> /\ Word(2) = << "parse_signal", "total_ns" >>
      /\ Word(3) = << "decision", "count" >> /\ Word(4) = << "decision", "total_ns" >>
      /\ Word(5) = << "redirect", "count" >> /\ Word(6) = << "redirect", "total_ns" >>
  BY DEF Word, STAGES, METRICS
<1>2. \A n \in 1 .. Words : n \in { 1, 2, 3, 4, 5, 6 }
  BY StageNames
<1> QED
  BY <1>1, <1>2, StageNames

\* The quotient and the remainder are those of the division.
LEMMA Division ==
  ASSUME NEW b \in Nat \ {0}, NEW q \in Nat, NEW r \in 0 .. b - 1
  PROVE  (b * q + r) \div b = q /\ (b * q + r) % b = r
  OBVIOUS

\* A copy or a reset comes to every word of every CPU.
LEMMA CellOrder ==
  /\ \A n \in 1 .. Cells : Cell(n)[1] \in Stages /\ Cell(n)[2] \in CPUs /\ Cell(n)[3] \in Metrics
  /\ \A s \in Stages, c \in CPUs, m \in Metrics :
       \E n \in 1 .. Cells : Cell(n) = << s, c, m >>
<1>1. NumCPUs \in Nat \ {0} /\ Cells = 6 * NumCPUs /\ Cells \in Nat
  BY ProfileAssumption, StageNames DEF Cells
<1>2. ASSUME NEW n \in 1 .. Cells
      PROVE  Cell(n)[1] \in Stages /\ Cell(n)[2] \in CPUs /\ Cell(n)[3] \in Metrics
  <2>1. (n - 1) \div (2 * NumCPUs) \in 0 .. 2
    BY <1>1
  <2>2. STAGES[(n - 1) \div (2 * NumCPUs) + 1] \in Stages
    BY <2>1, StageNames DEF STAGES
  <2>3. ((n - 1) \div 2) % NumCPUs \in CPUs
    BY <1>1 DEF CPUs
  <2>4. METRICS[((n - 1) % 2) + 1] \in Metrics
    <3>1. (n - 1) % 2 \in { 0, 1 }
      BY <1>1
    <3> QED
      BY <3>1, StageNames DEF METRICS
  <2> QED
    BY <2>2, <2>3, <2>4 DEF Cell
<1>3. ASSUME NEW s \in Stages, NEW c \in CPUs, NEW m \in Metrics
      PROVE  \E n \in 1 .. Cells : Cell(n) = << s, c, m >>
  <2>1. PICK i \in 0 .. 2 : STAGES[i + 1] = s
    BY StageNames DEF STAGES
  <2>2. PICK j \in 0 .. 1 : METRICS[j + 1] = m
    BY StageNames DEF METRICS
  <2>3. c \in 0 .. NumCPUs - 1 /\ 2 * c + j \in 0 .. 2 * NumCPUs - 1
    BY <1>1 DEF CPUs
  <2> DEFINE n == (2 * NumCPUs) * i + (2 * c + j) + 1
  <2>4. n \in 1 .. Cells
    <3>1. CASE i = 0
      BY <1>1, <2>3, <3>1
    <3>2. CASE i = 1
      BY <1>1, <2>3, <3>2
    <3>3. CASE i = 2
      BY <1>1, <2>3, <3>3
    <3> QED
      BY <3>1, <3>2, <3>3
  <2>5. (n - 1) \div (2 * NumCPUs) = i
    <3>1. n - 1 = (2 * NumCPUs) * i + (2 * c + j)
      BY <1>1, <2>3
    <3>2. PICK b \in Nat \ {0} : b = 2 * NumCPUs
      BY <1>1
    <3>3. PICK r \in 0 .. b - 1 : r = 2 * c + j
      BY <2>3, <3>2
    <3>4. (b * i + r) \div b = i
      BY Division
    <3> HIDE DEF n
    <3> QED
      BY <3>1, <3>2, <3>3, <3>4
  <2>6. n - 1 = 2 * (NumCPUs * i + c) + j /\ NumCPUs * i + c \in Nat
    BY <1>1, <2>3
  <2>7. (n - 1) \div 2 = NumCPUs * i + c /\ (n - 1) % 2 = j
    <3> HIDE DEF n
    <3> QED
      BY <2>6, Division
  <2>8. ((n - 1) \div 2) % NumCPUs = c
    BY <1>1, <2>3, <2>7, Division
  <2>9. Cell(n) = << s, c, m >>
    BY <2>1, <2>2, <2>5, <2>7, <2>8 DEF Cell
  <2> QED
    BY <2>4, <2>9
<1> QED
  BY <1>2, <1>3

-----------------------------------------------------------------------------
(* The queue of commands. *)

\* The rest of the queue after its first command.
LEMMA TailOfQueue ==
  ASSUME NEW q \in Seq(Commands), q # << >>
  PROVE  /\ Head(q) = q[1] /\ q[1] \in Commands /\ Len(q) \in Nat \ {0} /\ 1 \in DOMAIN q
         /\ DOMAIN q = 1 .. Len(q) /\ q[Len(q)] \in Commands
         /\ Tail(q) \in Seq(Commands)
         /\ Len(q) = 1 => Tail(q) = << >>
<1>1. Len(q) \in Nat /\ Len(q) # 0
  BY EmptySeq
<1>2. /\ Head(q) = q[1] /\ Tail(q) \in Seq(Commands) /\ Len(Tail(q)) = Len(q) - 1
      /\ DOMAIN q = 1 .. Len(q) /\ \A i \in 1 .. Len(q) : q[i] \in Commands
  BY <1>1
<1>3. Tail(q) = << >> <=> Len(Tail(q)) = 0
  BY <1>2, EmptySeq
<1> QED
  BY <1>1, <1>2, <1>3

\* While nobody gave up, the queue is empty or has the one command that the
\* tool waits for.
LEMMA OneCommand ==
  ASSUME CommandsAreInOrder, ~Doomed
  PROVE  /\ alive
         /\ pending # << >> => /\ Waiting /\ Len(pending) = 1 /\ ~Head(pending).gone
                               /\ Head(pending).cmd = IF phase = "resetting" THEN "reset" ELSE "read"
         /\ ~Waiting => pending = << >> /\ pc = "loop"
<1>1. alive /\ \A i \in DOMAIN pending : ~pending[i].gone
  BY DEF Doomed
<1>2. \A i \in DOMAIN pending : Waiting /\ i = Len(pending)
  BY <1>1 DEF CommandsAreInOrder
<1>3. ASSUME pending # << >>
      PROVE  /\ Waiting /\ Len(pending) = 1 /\ ~Head(pending).gone
             /\ Head(pending).cmd = IF phase = "resetting" THEN "reset" ELSE "read"
  <2>1. Head(pending) = pending[1] /\ 1 \in DOMAIN pending
    BY <1>3, TailOfQueue DEF CommandsAreInOrder
  <2>2. Waiting /\ Len(pending) = 1 /\ ~pending[1].gone
    BY <1>1, <1>2, <2>1
  <2> QED
    BY <1>1, <2>1, <2>2 DEF CommandsAreInOrder
<1> QED
  BY <1>1, <1>3 DEF CommandsAreInOrder

-----------------------------------------------------------------------------
(* What the answer to a command leads to. *)

Same == UNCHANGED << bpfVars, cell, values, load, before >>

\* Nobody waits for it.
NobodyReads == ~alive' /\ UNCHANGED toolVars

\* Somebody does.
ResetConfirmed ==
  /\ phase = "resetting" /\ pc = "reset" /\ cell > Cells
  /\ phase' = "measuring" /\ UNCHANGED << tries, result >>
ReadAccepted ==
  /\ phase = "reading" /\ pc = "read" /\ cell > Cells
  /\ phase' = "done" /\ UNCHANGED tries
  /\ result' = [s \in Stages |-> [m \in Metrics |-> Sum(Column(values, s, m), CPUs)]]

\* An answer that is complete has a row of every CPU.
LEMMA AllRows ==
  ASSUME NEW rows \in SUBSET CPUs, Cardinality(rows) = NumCPUs
  PROVE  rows = CPUs
  BY CPUsAreFinite, FS_Subset, FS_CardinalityType

\* An answer is received by the tool that waits for it, or ends the router.
LEMMA Received1 ==
  ASSUME CommandsAreInOrder, alive, pending # << >>, NEW a, Answer(a)
  PROVE  /\ pc' = "loop" /\ pending' = Tail(pending)
         /\ \/ NobodyReads
            \/ /\ ~Doomed /\ alive' /\ pending' = << >> /\ Received(a) /\ Waiting
               /\ Head(pending).cmd = IF phase = "resetting" THEN "reset" ELSE "read"
<1>1. pc' = "loop" /\ pending' = Tail(pending)
  BY DEF Answer
<1>2. CASE Head(pending).gone
  BY <1>1, <1>2 DEF Answer, NobodyReads
<1>3. CASE ~Head(pending).gone
  <2>1. /\ Head(pending) = pending[1] /\ Len(pending) \in Nat \ {0} /\ 1 \in DOMAIN pending
        /\ DOMAIN pending = 1 .. Len(pending)
        /\ Len(pending) = 1 => Tail(pending) = << >>
    BY TailOfQueue DEF CommandsAreInOrder
  <2>2. Waiting /\ Len(pending) = 1
    BY <1>3, <2>1 DEF CommandsAreInOrder
  <2>3. ~Doomed
    BY <1>3, <2>1, <2>2 DEF Doomed
  <2>4. alive' /\ Received(a)
    BY <1>3 DEF Answer
  <2>5. Head(pending).cmd = IF phase = "resetting" THEN "reset" ELSE "read"
    BY <2>1, <2>2 DEF CommandsAreInOrder
  <2> QED
    BY <1>1, <2>1, <2>2, <2>3, <2>4, <2>5
<1> QED
  BY <1>2, <1>3

Replied ==
  /\ Same /\ alive /\ pending # << >> /\ pc' = "loop" /\ pending' = Tail(pending)
  /\ \/ NobodyReads
     \/ /\ ~Doomed /\ alive' /\ pending' = << >> /\ Waiting
        /\ ResetConfirmed \/ ReadAccepted \/ CommandFails

LEMMA Replies ==
  ASSUME CommandsAreInOrder, ServeLate \/ ServeFails \/ AnswerRead \/ AnswerReset
  PROVE  Replied
<1>1. CASE ServeLate
  <2>1. /\ Same /\ alive /\ pending # << >> /\ Answer(Status)
    BY <1>1 DEF ServeLate, Same
  <2>2. ~Confirms(Status) /\ ~Accepts(Status)
    BY DEF Confirms, Accepts, Status
  <2>3. Received(Status) => CommandFails
    BY <2>2 DEF Received
  <2> QED
    BY <2>1, <2>3, Received1 DEF Replied
<1>2. CASE ServeFails
  <2>1. /\ Same /\ alive /\ pending # << >> /\ Answer(Error)
    BY <1>2 DEF ServeFails, Same, CommandsAreInOrder
  <2>2. ~Confirms(Error) /\ ~Accepts(Error)
    BY DEF Confirms, Accepts, Error
  <2>3. Received(Error) => CommandFails
    BY <2>2 DEF Received
  <2> QED
    BY <2>1, <2>3, Received1 DEF Replied
<1>3. CASE AnswerRead
  <2>1. PICK header \in { TRUE, "line" \notin Failures }, rows \in SUBSET CPUs :
          Answer([profile_enabled |-> header, error |-> FALSE, cpu_count |-> NumCPUs,
                  rows |-> rows, values |-> values])
    BY <1>3 DEF AnswerRead
  <2> DEFINE a == [profile_enabled |-> header, error |-> FALSE, cpu_count |-> NumCPUs,
                   rows |-> rows, values |-> values]
  <2>2. /\ Same /\ alive /\ pending # << >> /\ Answer(a)
        /\ pc = "read" /\ cell > Cells /\ Head(pending).cmd = "read"
    BY <1>3, <2>1 DEF AnswerRead, Same, CommandsAreInOrder
  <2>3. Accepts(a) =>
          Totals(a) = [s \in Stages |-> [m \in Metrics |-> Sum(Column(values, s, m), CPUs)]]
    <3>1. Accepts(a) => rows = CPUs
      BY AllRows DEF Accepts, HasAllRows
    <3> QED
      BY <3>1 DEF Totals
  <2> HIDE DEF a
  <2>4. phase = "reading" /\ Received(a) => ReadAccepted \/ CommandFails
    BY <2>2, <2>3 DEF Received, ReadAccepted
  <2> QED
    BY <2>2, <2>4, Received1 DEF Replied, Waiting
<1>4. CASE AnswerReset
  <2> DEFINE a == [profile_enabled |-> TRUE, error |-> FALSE]
  <2>2. /\ Same /\ alive /\ pending # << >> /\ Answer(a)
        /\ pc = "reset" /\ cell > Cells /\ Head(pending).cmd = "reset"
    BY <1>4 DEF AnswerReset, Same, CommandsAreInOrder
  <2> HIDE DEF a
  <2>4. phase = "resetting" /\ Received(a) => ResetConfirmed \/ CommandFails
    BY <2>2 DEF Received, ResetConfirmed
  <2> QED
    BY <2>2, <2>4, Received1 DEF Replied, Waiting
<1> QED
  BY <1>1, <1>2, <1>3, <1>4

-----------------------------------------------------------------------------
(* Types. *)

Grid == [Stages -> [CPUs -> [Metrics -> Nat]]]

\* What one run adds to a word.
LEMMA ContributionType ==
  ASSUME NEW e \in [Stages -> Nat], NEW s \in Stages, NEW m \in Metrics
  PROVE  /\ Contribution(e)[s][m] \in Nat
         /\ Contribution(e)[s].count = 1 /\ Contribution(e)[s].total_ns = e[s]
<1>1. Contribution(e)[s] = [count |-> 1, total_ns |-> e[s]]
  BY DEF Contribution
<1> QED
  BY <1>1, StageNames

\* A run is at a word of its own when it has loaded one.
LEMMA AtWord ==
  ASSUME TypeOK, NEW c \in CPUs, word[c] # 0
  PROVE  word[c] \in 1 .. Words /\ Word(word[c]) \in Stages \X Metrics
<1>1. word[c] \in 1 .. Words
  BY StageNames DEF TypeOK
<1> QED
  BY <1>1, WordOrder

\* The store of a run, with the amount that it adds.
Stored(c, s, m) ==
  /\ alive /\ word[c] # 0 /\ reg[c] \in Nat /\ reg[c] # NoLoad /\ Word(word[c]) = << s, m >>
  /\ word[c] \in 1 .. Words
  /\ value' = [value EXCEPT ![s][c][m] = reg[c] + Contribution(elapsed[c])[s][m]]
  /\ reg' = [reg EXCEPT ![c] = NoLoad]
  /\ word' = [word EXCEPT ![c] = (word[c] + 1) % (Words + 1)]
  /\ UNCHANGED << elapsed, begun, routerVars, toolVars, load, before >>

LEMMA Store ==
  ASSUME TypeOK, RecordsAreTyped, NEW c \in CPUs, StoreWord(c)
  PROVE  \E s \in Stages, m \in Metrics : Stored(c, s, m)
<1>1. word[c] # 0 /\ reg[c] \in Nat
  BY DEF TypeOK, RecordsAreTyped, StoreWord
<1>2. word[c] \in 1 .. Words /\ Word(word[c]) \in Stages \X Metrics
  BY <1>1, AtWord
<1>3. PICK s \in Stages, m \in Metrics : Word(word[c]) = << s, m >>
  BY <1>2
<1>4. Word(word[c])[1] = s /\ Word(word[c])[2] = m
  BY <1>3
<1>5. Stored(c, s, m)
  BY <1>1, <1>2, <1>3, <1>4 DEF StoreWord, Stored
<1> QED
  BY <1>5

\* The word a reset clears, or a copy copies.
LEMMA AtCell ==
  ASSUME TypeOK, cell <= Cells
  PROVE  /\ cell \in 1 .. Cells /\ cell + 1 \in 1 .. Cells + 1 /\ Cells \in Nat
         /\ Cell(cell)[1] \in Stages /\ Cell(cell)[2] \in CPUs /\ Cell(cell)[3] \in Metrics
<1>1. cell \in 1 .. Cells + 1 /\ Cells \in Nat
  BY ProfileAssumption, StageNames DEF TypeOK, Cells
<1>2. cell \in 1 .. Cells
  BY <1>1
<1> QED
  BY <1>1, <1>2, CellOrder

LEMMA TypeStep ==
  ASSUME TypeOK, CommandsAreInOrder, RecordsAreTyped, [Next]_vars
  PROVE  TypeOK'
<1> SUFFICES TypeOK'
  OBVIOUS
<1>0. Words = 6 /\ Cells \in Nat /\ MaxRequests \in Nat /\ MaxTries \in Nat
  BY ProfileAssumption, StageNames DEF Cells
<1>1. CASE \E c \in CPUs : BeginRecord(c)
  <2>1. PICK c \in CPUs : BeginRecord(c)
    BY <1>1
  <2>2. word' \in [CPUs -> 0 .. Words] /\ begun' \in 0 .. MaxRequests
    BY <1>0, <2>1 DEF BeginRecord, TypeOK
  <2> QED
    BY <2>1, <2>2 DEF BeginRecord, TypeOK, routerVars, toolVars
<1>2. CASE \E c \in CPUs : LoadWord(c)
  <2>1. PICK c \in CPUs : LoadWord(c)
    BY <1>2
  <2>2. Word(word[c])[1] \in Stages /\ Word(word[c])[2] \in Metrics
    BY <2>1, AtWord DEF LoadWord
  <2>3. value[Word(word[c])[1]][c][Word(word[c])[2]] \in Nat
    BY <2>2 DEF TypeOK
  <2>4. reg' \in [CPUs -> Nat \cup { NoLoad }]
    BY <2>1, <2>3 DEF LoadWord, TypeOK
  <2> QED
    BY <2>1, <2>4 DEF LoadWord, TypeOK, routerVars, toolVars
<1>3. CASE \E c \in CPUs : StoreWord(c)
  <2>1. PICK c \in CPUs, s \in Stages, m \in Metrics : Stored(c, s, m)
    BY <1>3, Store
  <2>2. reg[c] + Contribution(elapsed[c])[s][m] \in Nat
    <3>1. elapsed[c] \in [Stages -> Nat]
      BY DEF RecordsAreTyped
    <3> QED
      BY <2>1, <3>1, ContributionType DEF Stored
  <2>3. value' \in [Stages -> [CPUs -> [Metrics -> Nat]]]
    BY <2>1, <2>2 DEF Stored, TypeOK
  <2>4. (word[c] + 1) % (Words + 1) \in 0 .. Words
    BY <1>0, <2>1 DEF Stored
  <2>5. word' \in [CPUs -> 0 .. Words] /\ reg' \in [CPUs -> Nat \cup { NoLoad }]
    BY <2>1, <2>4 DEF Stored, TypeOK
  <2> QED
    BY <2>1, <2>3, <2>5 DEF Stored, TypeOK, routerVars, toolVars
<1>4. CASE SendReset \/ SendRead
  BY <1>4 DEF SendReset, SendRead, Send, TypeOK, bpfVars
<1>5. CASE GiveUp
  BY <1>0, <1>5 DEF GiveUp, CommandFails, TypeOK, bpfVars
<1>6. CASE RouterGone
  BY <1>6 DEF RouterGone, TypeOK, bpfVars, routerVars
<1>7. CASE Serve
  <2>1. Head(pending).cmd \in { "read", "reset" }
    BY <1>7, TailOfQueue DEF Serve, CommandsAreInOrder, Commands
  <2> QED
    BY <1>0, <1>7, <2>1 DEF Serve, TypeOK, bpfVars, toolVars
<1>8. CASE ServeLate \/ ServeFails \/ AnswerRead \/ AnswerReset
  <2>1. Replied
    BY <1>8, Replies
  <2>2. phase' \in { "warmup", "resetting", "measuring", "reading", "done", "aborted" }
        /\ tries' \in 0 .. MaxTries
    BY <1>0, <2>1 DEF Replied, NobodyReads, ResetConfirmed, ReadAccepted, CommandFails,
       TypeOK, toolVars
  <2> QED
    BY <2>1, <2>2 DEF Replied, Same, TypeOK, bpfVars
<1>9. CASE ReadCell
  <2>1. values' \in [Stages -> [CPUs -> [Metrics -> Nat]]] /\ cell' \in 1 .. Cells + 1
    <3>1. value[Cell(cell)[1]][Cell(cell)[2]][Cell(cell)[3]] \in Nat
      BY <1>9, AtCell DEF ReadCell, TypeOK
    <3> QED
      BY <1>9, <3>1, AtCell DEF ReadCell, TypeOK
  <2> QED
    BY <1>9, <2>1 DEF ReadCell, TypeOK, bpfVars, toolVars
<1>10. CASE ResetCell
  <2>1. value' \in [Stages -> [CPUs -> [Metrics -> Nat]]] /\ cell' \in 1 .. Cells + 1
    BY <1>10, AtCell DEF ResetCell, TypeOK
  <2> QED
    BY <1>10, <2>1 DEF ResetCell, TypeOK, toolVars
<1>11. CASE UNCHANGED vars
  BY <1>11 DEF TypeOK, vars, bpfVars, routerVars, toolVars
<1> QED
  BY <1>1, <1>2, <1>3, <1>4, <1>5, <1>6, <1>7, <1>8, <1>9, <1>10, <1>11 DEF Next, Ended

\* The actions that leave the commands and the phase alone.
LEMMA QuietSteps ==
  ASSUME \/ \E c \in CPUs : BeginRecord(c) \/ LoadWord(c) \/ StoreWord(c)
         \/ ReadCell \/ ResetCell \/ UNCHANGED vars
  PROVE  UNCHANGED << alive, pc, pending, toolVars >>
  BY DEF BeginRecord, LoadWord, StoreWord, ReadCell, ResetCell, vars, routerVars, toolVars

\* A command that somebody gave up waiting for.
LEMMA MarkGone ==
  ASSUME NEW r \in Commands
  PROVE  [r EXCEPT !.gone = TRUE] = [cmd |-> r.cmd, gone |-> TRUE]
<1> DEFINE u == [r EXCEPT !.gone = TRUE]
<1>1. u \in Commands /\ u.cmd = r.cmd /\ u.gone
  BY DEF Commands
<1> HIDE DEF u
<1>2. u = [cmd |-> r.cmd, gone |-> TRUE]
  BY <1>1 DEF Commands
<1> QED
  BY <1>2 DEF u

LEMMA CommandsStep ==
  ASSUME TypeOK, CommandsAreInOrder, [Next]_vars
  PROVE  CommandsAreInOrder'
<1> SUFFICES CommandsAreInOrder'
  OBVIOUS
<1>1. CASE \/ \E c \in CPUs : BeginRecord(c) \/ LoadWord(c) \/ StoreWord(c)
           \/ ReadCell \/ ResetCell \/ UNCHANGED vars
  BY <1>1, QuietSteps DEF CommandsAreInOrder, Waiting, toolVars
<1>2. CASE SendReset \/ SendRead
  <2>1. PICK cmd \in { "read", "reset" } :
          /\ ~Waiting /\ Waiting' /\ cmd = IF phase' = "resetting" THEN "reset" ELSE "read"
          /\ pending' = Append(pending, [cmd |-> cmd, gone |-> FALSE])
          /\ UNCHANGED << alive, pc >>
    BY <1>2 DEF SendReset, SendRead, Send, Waiting
  <2> DEFINE new == [cmd |-> cmd, gone |-> FALSE]
  <2>2. new \in Commands /\ new.cmd = cmd /\ new.gone = FALSE
    BY DEF Commands
  <2> HIDE DEF new
  <2>3. pending \in Seq(Commands) /\ pending' = Append(pending, new)
    BY <2>1 DEF CommandsAreInOrder, new
  <2>4. /\ pending' \in Seq(Commands) /\ Len(pending') = Len(pending) + 1 /\ Len(pending) \in Nat
        /\ pending' # << >> /\ DOMAIN pending = 1 .. Len(pending)
        /\ DOMAIN pending' = 1 .. Len(pending) + 1
        /\ pending'[Len(pending) + 1] = new
        /\ \A i \in DOMAIN pending : pending'[i] = pending[i]
    BY <2>2, <2>3
  <2>5. pc' # "loop" => pc' = Head(pending').cmd
    BY <2>1, <2>4 DEF CommandsAreInOrder
  <2>6. ASSUME alive', NEW i \in DOMAIN pending'
        PROVE  (pending'[i].gone <=> i # Len(pending'))
    <3>1. CASE i = Len(pending) + 1
      BY <2>2, <2>4, <3>1
    <3>2. CASE i \in DOMAIN pending
      BY <2>1, <2>4, <2>6, <3>2 DEF CommandsAreInOrder
    <3> QED
      BY <2>4, <3>1, <3>2
  <2> QED
    BY <2>1, <2>2, <2>4, <2>5, <2>6 DEF CommandsAreInOrder
<1>3. CASE GiveUp
  <2>1. /\ alive /\ alive' /\ Waiting /\ ~Waiting' /\ pc' = pc
        /\ pending # << >> /\ pending' = [pending EXCEPT ![Len(pending)].gone = TRUE]
    BY <1>3 DEF GiveUp, CommandFails, Waiting, CommandsAreInOrder
  <2> DEFINE last == [cmd |-> pending[Len(pending)].cmd, gone |-> TRUE]
  <2>2. /\ pending \in Seq(Commands) /\ DOMAIN pending = 1 .. Len(pending)
        /\ Len(pending) \in DOMAIN pending /\ pending[Len(pending)] \in Commands
        /\ \A i \in DOMAIN pending : pending[i] \in Commands
    BY <2>1, TailOfQueue DEF CommandsAreInOrder
  <2>3. pending' = [pending EXCEPT ![Len(pending)] = last]
    <3>1. PICK r \in Commands : r = pending[Len(pending)]
      BY <2>2
    <3>2. [r EXCEPT !.gone = TRUE] = [cmd |-> r.cmd, gone |-> TRUE]
      BY MarkGone
    <3>3. pending' = [pending EXCEPT ![Len(pending)] = [r EXCEPT !.gone = TRUE]]
      BY <2>1, <3>1
    <3> QED
      BY <3>1, <3>2, <3>3
  <2>4. last \in Commands /\ last.gone = TRUE /\ last.cmd = pending[Len(pending)].cmd
    BY <2>2 DEF Commands
  <2> HIDE DEF last
  <2>5. /\ pending' \in Seq(Commands) /\ pending' # << >> /\ DOMAIN pending' = DOMAIN pending
        /\ pending'[Len(pending)] = last
        /\ \A i \in DOMAIN pending : i # Len(pending) => pending'[i] = pending[i]
    BY <2>2, <2>3, <2>4, <2>1
  <2>6. \A i \in DOMAIN pending' : pending'[i].gone
    BY <2>1, <2>2, <2>4, <2>5 DEF CommandsAreInOrder
  <2>7. Head(pending').cmd = Head(pending).cmd
    <3>1. Head(pending') = pending'[1] /\ Head(pending) = pending[1] /\ 1 \in DOMAIN pending
      BY <2>1, <2>2, <2>5, TailOfQueue
    <3> QED
      BY <2>4, <2>5, <3>1
  <2> QED
    BY <2>1, <2>5, <2>6, <2>7 DEF CommandsAreInOrder
<1>4. CASE RouterGone
  BY <1>4 DEF RouterGone, CommandsAreInOrder, routerVars
<1>5. CASE Serve
  BY <1>5 DEF Serve, CommandsAreInOrder, Waiting, toolVars
<1>6. CASE ServeLate \/ ServeFails \/ AnswerRead \/ AnswerReset
  <2>1. Replied
    BY <1>6, Replies
  <2>2. Tail(pending) \in Seq(Commands)
    BY <2>1, TailOfQueue DEF Replied, CommandsAreInOrder
  <2>3. CASE NobodyReads
    BY <2>1, <2>2, <2>3 DEF Replied, NobodyReads, CommandsAreInOrder
  <2>4. CASE alive' /\ pending' = << >> /\ (ResetConfirmed \/ ReadAccepted \/ CommandFails)
    <3>1. ~Waiting'
      BY <2>4 DEF ResetConfirmed, ReadAccepted, CommandFails, Waiting
    <3> QED
      BY <2>1, <2>2, <2>4, <3>1 DEF Replied, CommandsAreInOrder
  <2> QED
    BY <2>1, <2>3, <2>4 DEF Replied
<1> QED
  BY <1>1, <1>2, <1>3, <1>4, <1>5, <1>6 DEF Next, Ended

\* Whoever gives up leaves a command in the queue that nobody waits for.
LEMMA GiveUpDooms ==
  ASSUME CommandsAreInOrder, GiveUp
  PROVE  Doomed'
<1>1. /\ pending # << >> /\ pending' = [pending EXCEPT ![Len(pending)].gone = TRUE]
  BY DEF GiveUp, CommandFails, Waiting, CommandsAreInOrder
<1>2. Len(pending) \in DOMAIN pending /\ pending[Len(pending)] \in Commands
  BY <1>1, TailOfQueue DEF CommandsAreInOrder
<1>3. Len(pending) \in DOMAIN pending' /\ pending'[Len(pending)].gone
  BY <1>1, <1>2 DEF Commands
<1> QED
  BY <1>3 DEF Doomed

\* Once somebody gave up, no answer will be received any more.
LEMMA DoomedForever ==
  ASSUME CommandsAreInOrder, [Next]_vars, ~Doomed'
  PROVE  ~Doomed
<1>1. CASE \/ \E c \in CPUs : BeginRecord(c) \/ LoadWord(c) \/ StoreWord(c)
           \/ ReadCell \/ ResetCell \/ UNCHANGED vars
  BY <1>1, QuietSteps DEF Doomed
<1>2. CASE SendReset \/ SendRead
  <2>1. PICK new :
          /\ pending' = Append(pending, new) /\ UNCHANGED alive
    BY <1>2 DEF SendReset, SendRead, Send
  <2>2. \A i \in DOMAIN pending : i \in DOMAIN pending' /\ pending'[i] = pending[i]
    BY <2>1 DEF CommandsAreInOrder
  <2> QED
    BY <2>1, <2>2 DEF Doomed
<1>3. CASE GiveUp
  BY <1>3, GiveUpDooms
<1>4. CASE RouterGone \/ Serve
  BY <1>4 DEF RouterGone, Serve, Doomed, routerVars
<1>5. CASE ServeLate \/ ServeFails \/ AnswerRead \/ AnswerReset
  BY <1>5, Replies DEF Replied, NobodyReads, Doomed
<1> QED
  BY <1>1, <1>2, <1>3, <1>4, <1>5 DEF Next, Ended

-----------------------------------------------------------------------------
(* The sums over the CPUs. *)

Table == [Stages -> [Metrics -> Nat]]

\* A sum of natural numbers over the CPUs.
LEMMA SumType ==
  ASSUME NEW f \in [CPUs -> Nat]
  PROVE  Sum(f, CPUs) \in Nat /\ Sum(f, CPUs) = Total(f, CPUs)
<1>1. Total(f, CPUs) \in Nat
  BY CPUsAreFinite, TotalBounds
<1>2. Sum(f, CPUs) = Total(f, CPUs)
  BY DEF Sum, Total
<1> QED
  BY <1>1, <1>2

LEMMA SumZero ==
  ASSUME NEW f \in [CPUs -> Nat], \A c \in CPUs : f[c] = 0
  PROVE  Sum(f, CPUs) = 0
<1>1. f = [c \in CPUs |-> 0]
  OBVIOUS
<1>2. Total(f, CPUs) = 0
  BY <1>1, CPUsAreFinite, TotalZero
<1> QED
  BY <1>2, SumType

LEMMA SumMonotone ==
  ASSUME NEW f \in [CPUs -> Nat], NEW g \in [CPUs -> Nat], \A c \in CPUs : f[c] <= g[c]
  PROVE  Sum(f, CPUs) <= Sum(g, CPUs)
<1>1. f \in [CPUs -> Int] /\ g \in [CPUs -> Int]
  OBVIOUS
<1>2. Total(f, CPUs) <= Total(g, CPUs)
  BY <1>1, CPUsAreFinite, TotalMonotone
<1> QED
  BY <1>2, SumType

\* One entry changed changes the sum by as much.
LEMMA SumUpdate ==
  ASSUME NEW f \in [CPUs -> Nat], NEW h \in [CPUs -> Nat], NEW b \in CPUs,
         \A c \in CPUs : c # b => h[c] = f[c]
  PROVE  Sum(h, CPUs) = Sum(f, CPUs) - f[b] + h[b]
<1>1. f \in [CPUs -> Int] /\ h \in [CPUs -> Int]
  OBVIOUS
<1>2. Total(h, CPUs) = Total(f, CPUs) - f[b] + h[b]
  BY <1>1, CPUsAreFinite, TotalUpdate
<1> QED
  BY <1>2, SumType

\* Terms that add up make sums that add up.
LEMMA SumOfSums ==
  ASSUME NEW f \in [CPUs -> Nat], NEW g \in [CPUs -> Nat], NEW h \in [CPUs -> Nat],
         \A c \in CPUs : h[c] = f[c] + g[c]
  PROVE  Sum(h, CPUs) = Sum(f, CPUs) + Sum(g, CPUs)
<1>1. f \in [CPUs -> Int] /\ g \in [CPUs -> Int] /\ h = [c \in CPUs |-> f[c] + g[c]]
  OBVIOUS
<1>2. Total(h, CPUs) = Total(f, CPUs) + Total(g, CPUs)
  BY <1>1, CPUsAreFinite, TotalOfSum
<1> QED
  BY <1>2, SumType

LEMMA RecordingType ==
  ASSUME RecordsAreTyped, NEW s \in Stages, NEW m \in Metrics
  PROVE  /\ Recording(s, m) \in [CPUs -> Nat] /\ Sum(Recording(s, m), CPUs) \in Nat
         /\ Owed(s, m) \in [CPUs -> Nat] /\ Sum(Owed(s, m), CPUs) \in Nat
         /\ InFlight[s][m] = Sum(Recording(s, m), CPUs)
<1>1. \A c \in CPUs : Contribution(elapsed[c])[s][m] \in Nat
  <2>1. \A c \in CPUs : elapsed[c] \in [Stages -> Nat]
    BY DEF RecordsAreTyped
  <2> QED
    BY <2>1, ContributionType
<1>2. Recording(s, m) \in [CPUs -> Nat] /\ Owed(s, m) \in [CPUs -> Nat]
  BY <1>1 DEF Recording, Owed
<1>3. InFlight[s][m] = Sum(Recording(s, m), CPUs)
  BY DEF InFlight
<1> QED
  BY <1>2, <1>3, SumType

LEMMA InFlightType ==
  ASSUME RecordsAreTyped
  PROVE  InFlight \in Table
<1>1. \A s \in Stages, m \in Metrics : Sum(Recording(s, m), CPUs) \in Nat
  BY RecordingType
<1> QED
  BY <1>1 DEF InFlight, Table

\* What a run that begins adds to the load.
Begun(c, e) ==
  /\ e \in [Stages -> Nat] /\ alive /\ LoadRuns /\ word[c] = 0
  /\ word' = [word EXCEPT ![c] = 1]
  /\ elapsed' = [elapsed EXCEPT ![c] = e]
  /\ load' \in Table
  /\ \A s \in Stages, m \in Metrics : load'[s][m] = load[s][m] + Contribution(e)[s][m]
  /\ UNCHANGED << value, reg, routerVars, toolVars, before >>

LEMMA BeginRun ==
  ASSUME RecordsAreTyped, NEW c \in CPUs, BeginRecord(c)
  PROVE  \E e \in [Stages -> Nat] : Begun(c, e)
<1>1. PICK e \in [Stages -> Elapsed] :
        /\ elapsed' = [elapsed EXCEPT ![c] = e]
        /\ load' = Plus(load, Contribution(e))
  BY DEF BeginRecord
<1>2. e \in [Stages -> Nat]
  BY ProfileAssumption
<1>3. \A s \in Stages, m \in Metrics :
        load[s][m] \in Nat /\ Contribution(e)[s][m] \in Nat
  BY <1>2, ContributionType DEF RecordsAreTyped
<1>4. load' \in Table
  BY <1>1, <1>3 DEF Plus, Table
<1>5. \A s \in Stages, m \in Metrics : load'[s][m] = load[s][m] + Contribution(e)[s][m]
  BY <1>1 DEF Plus
<1>6. Begun(c, e)
  BY <1>1, <1>2, <1>4, <1>5 DEF BeginRecord, Begun
<1> QED
  BY <1>2, <1>6

LEMMA RecordsStep ==
  ASSUME TypeOK, CommandsAreInOrder, RecordsAreTyped, [Next]_vars
  PROVE  RecordsAreTyped'
<1> SUFFICES RecordsAreTyped'
  OBVIOUS
<1>1. CASE \E c \in CPUs : BeginRecord(c)
  <2>1. PICK c \in CPUs, e \in [Stages -> Nat] : Begun(c, e)
    BY <1>1, BeginRun
  <2>2. elapsed' \in [CPUs -> [Stages -> Nat]]
    BY <2>1 DEF Begun, RecordsAreTyped
  <2>3. \A d \in CPUs : reg'[d] # NoLoad => word'[d] # 0
    BY <2>1 DEF Begun, RecordsAreTyped, TypeOK
  <2> QED
    BY <2>1, <2>2, <2>3 DEF Begun, RecordsAreTyped, Table
<1>2. CASE \E c \in CPUs : LoadWord(c)
  <2>1. PICK c \in CPUs : LoadWord(c)
    BY <1>2
  <2>2. \A d \in CPUs : reg'[d] # NoLoad => word'[d] # 0
    BY <2>1 DEF LoadWord, RecordsAreTyped, TypeOK
  <2> QED
    BY <2>1, <2>2 DEF LoadWord, RecordsAreTyped
<1>3. CASE \E c \in CPUs : StoreWord(c)
  <2>1. PICK c \in CPUs, s \in Stages, m \in Metrics : Stored(c, s, m)
    BY <1>3, Store
  <2>2. \A d \in CPUs : reg'[d] # NoLoad => word'[d] # 0
    BY <2>1 DEF Stored, RecordsAreTyped, TypeOK
  <2> QED
    BY <2>1, <2>2 DEF Stored, RecordsAreTyped
<1>4. CASE SendReset
  BY <1>4, InFlightType DEF SendReset, Send, RecordsAreTyped, Table, bpfVars
<1>5. CASE SendRead
  <2>1. \A s \in Stages, m \in Metrics : load[s][m] - InFlight[s][m] \in Int
    BY InFlightType DEF RecordsAreTyped, Table
  <2>2. before' \in [Stages -> [Metrics -> Int]]
    BY <1>5, <2>1 DEF SendRead
  <2> QED
    BY <1>5, <2>2 DEF SendRead, Send, RecordsAreTyped, bpfVars
<1>6. CASE \/ GiveUp \/ RouterGone \/ Serve \/ ReadCell \/ ResetCell \/ UNCHANGED vars
  BY <1>6 DEF GiveUp, RouterGone, Serve, ReadCell, ResetCell, RecordsAreTyped, vars, bpfVars
<1>7. CASE ServeLate \/ ServeFails \/ AnswerRead \/ AnswerReset
  BY <1>7, Replies DEF Replied, Same, RecordsAreTyped, bpfVars
<1> QED
  BY <1>1, <1>2, <1>3, <1>4, <1>5, <1>6, <1>7 DEF Next, Ended

-----------------------------------------------------------------------------
(* The reset. *)

\* Nothing is under way when a reset is sent.
LEMMA QuietIsZero ==
  ASSUME RecordsAreTyped, Busy = {}
  PROVE  InFlight = ZeroTotals
<1>1. \A s \in Stages, m \in Metrics : Sum(Recording(s, m), CPUs) = 0
  <2>1. ASSUME NEW s \in Stages, NEW m \in Metrics
        PROVE  Sum(Recording(s, m), CPUs) = 0
    <3>1. \A c \in CPUs : Recording(s, m)[c] = 0
      BY DEF Recording
    <3> QED
      BY <3>1, RecordingType, SumZero
  <2> QED
    BY <2>1
<1> QED
  BY <1>1 DEF InFlight, ZeroTotals, Zero

\* A command that is served while nobody gave up is the one waited for.
LEMMA ServedInPhase ==
  ASSUME CommandsAreInOrder, ~Doomed
  PROVE  /\ pc = "reset" => phase = "resetting"
         /\ pc = "read" => phase = "reading"
  BY OneCommand DEF CommandsAreInOrder, Waiting

LEMMA ResetStep ==
  ASSUME "reset" \notin Disturbed,
         TypeOK, CommandsAreInOrder, RecordsAreTyped, ResetIsQuiet, [Next]_vars
  PROVE  ResetIsQuiet'
<1> SUFFICES ASSUME phase' = "resetting"
             PROVE  /\ Busy' = {} /\ load' = ZeroTotals
                    /\ ~Doomed' /\ pc' = "reset" =>
                         \A n \in 1 .. cell' - 1 :
                           value'[Cell(n)[1]][Cell(n)[2]][Cell(n)[3]] = 0
  BY DEF ResetIsQuiet
<1>0. ~Doomed' => ~Doomed
  BY DoomedForever
<1>1. ASSUME NEW c \in CPUs, BeginRecord(c) \/ LoadWord(c) \/ StoreWord(c)
      PROVE  FALSE
  <2>1. phase = "resetting"
    BY <1>1 DEF BeginRecord, LoadWord, StoreWord, toolVars
  <2>2. word[c] = 0 /\ reg[c] = NoLoad
    BY <2>1 DEF ResetIsQuiet, Busy, RecordsAreTyped
  <2> QED
    BY <1>1, <2>1, <2>2 DEF BeginRecord, LoadWord, StoreWord, LoadRuns
<1>2. CASE SendReset
  <2>1. Busy = {} /\ UNCHANGED << bpfVars, alive, pc, cell >> /\ load' = InFlight
        /\ phase = "warmup"
    BY <1>2 DEF SendReset, Send
  <2>2. Busy' = {}
    BY <2>1 DEF Busy, bpfVars
  <2>3. load' = ZeroTotals
    BY <2>1, QuietIsZero
  <2>4. ~Doomed' => pc' # "reset"
    BY <1>0, <2>1, ServedInPhase
  <2> QED
    BY <2>2, <2>3, <2>4
<1>3. CASE ServeLate \/ ServeFails \/ AnswerRead \/ AnswerReset
  <2>1. Replied
    BY <1>3, Replies
  <2>2. phase = "resetting" /\ pc' # "reset"
    BY <2>1 DEF Replied, NobodyReads, ResetConfirmed, ReadAccepted, CommandFails, toolVars
  <2> QED
    BY <2>1, <2>2 DEF Replied, Same, ResetIsQuiet, Busy, bpfVars
<1>4. CASE Serve
  <2>1. phase = "resetting" /\ cell' = 1 /\ UNCHANGED << bpfVars, load >>
    BY <1>4 DEF Serve, toolVars
  <2> QED
    BY <2>1 DEF ResetIsQuiet, Busy, bpfVars
<1>5. CASE ResetCell
  <2>1. /\ phase = "resetting" /\ UNCHANGED << word, load >> /\ cell' = cell + 1
        /\ pc = "reset" /\ cell <= Cells
        /\ value' = [value EXCEPT ![Cell(cell)[1]][Cell(cell)[2]][Cell(cell)[3]] = 0]
    BY <1>5 DEF ResetCell, toolVars
  <2>2. ASSUME ~Doomed', NEW n \in 1 .. cell
        PROVE  value'[Cell(n)[1]][Cell(n)[2]][Cell(n)[3]] = 0
    <3>1. /\ cell \in 1 .. Cells /\ n \in 1 .. Cells
      BY <2>1, AtCell
    <3>2. /\ Cell(cell)[1] \in Stages /\ Cell(cell)[2] \in CPUs /\ Cell(cell)[3] \in Metrics
          /\ Cell(n)[1] \in Stages /\ Cell(n)[2] \in CPUs /\ Cell(n)[3] \in Metrics
      BY <3>1, CellOrder
    <3>3. n # cell => value[Cell(n)[1]][Cell(n)[2]][Cell(n)[3]] = 0
      BY <1>0, <2>1, <2>2, <3>1 DEF ResetIsQuiet
    <3> QED
      BY <2>1, <3>2, <3>3 DEF TypeOK
  <2>3. cell' - 1 = cell
    BY <2>1, AtCell
  <2> QED
    BY <2>1, <2>2, <2>3 DEF ResetIsQuiet, Busy
<1>6. CASE ReadCell
  <2>1. phase = "resetting" /\ UNCHANGED << bpfVars, load >> /\ pc' = "read"
    BY <1>6 DEF ReadCell, toolVars
  <2> QED
    BY <2>1 DEF ResetIsQuiet, Busy, bpfVars
<1>7. CASE SendRead \/ GiveUp \/ RouterGone
  BY <1>7 DEF SendRead, Send, GiveUp, CommandFails, RouterGone
<1>8. CASE UNCHANGED vars
  BY <1>0, <1>8 DEF ResetIsQuiet, Busy, vars, bpfVars, routerVars, toolVars
<1> QED
  BY <1>1, <1>2, <1>3, <1>4, <1>5, <1>6, <1>7, <1>8 DEF Next, Ended

-----------------------------------------------------------------------------
(* The load. *)

Recorded ==
  /\ \A c \in CPUs :
       reg[c] # NoLoad => reg[c] = value[Word(word[c])[1]][c][Word(word[c])[2]]
  /\ \A s \in Stages, m \in Metrics :
       load[s][m] = Sum(Column(value, s, m), CPUs) + Sum(Owed(s, m), CPUs)

LEMMA ColumnType ==
  ASSUME NEW v \in Grid, NEW s \in Stages, NEW m \in Metrics
  PROVE  /\ Column(v, s, m) \in [CPUs -> Nat] /\ Sum(Column(v, s, m), CPUs) \in Nat
         /\ \A c \in CPUs : Column(v, s, m)[c] = v[s][c][m]
<1>1. /\ Column(v, s, m) \in [CPUs -> Nat]
      /\ \A c \in CPUs : Column(v, s, m)[c] = v[s][c][m]
  BY DEF Column, Grid
<1> QED
  BY <1>1, SumType

LEMMA OwedType ==
  RecordsAreTyped => \A s \in Stages, m \in Metrics : Owed(s, m) \in [CPUs -> Nat]
  BY RecordingType

LEMMA OwedTypeNext ==
  ASSUME RecordsAreTyped'
  PROVE  \A s \in Stages, m \in Metrics : Owed(s, m)' \in [CPUs -> Nat]
<1>1. (\A s \in Stages, m \in Metrics : Owed(s, m) \in [CPUs -> Nat])'
  BY OwedType, PTL
<1> QED
  BY <1>1

LEMMA RecordedSame ==
  ASSUME Recorded, UNCHANGED << bpfVars, load >>
  PROVE  Recorded'
<1>1. \A s \in Stages, m \in Metrics :
        Column(value', s, m) = Column(value, s, m) /\ Owed(s, m)' = Owed(s, m)
  BY DEF bpfVars, Owed
<1> QED
  BY <1>1 DEF Recorded, bpfVars

\* A run that begins owes its contribution to every word.
LEMMA RecordedBegin ==
  ASSUME RecordsAreTyped, RecordsAreTyped', TypeOK, Recorded,
         NEW c \in CPUs, NEW e \in [Stages -> Nat], Begun(c, e)
  PROVE  Recorded'
<1>1. /\ word[c] = 0 /\ word'[c] = 1 /\ elapsed'[c] = e
      /\ \A d \in CPUs : d # c => word'[d] = word[d] /\ elapsed'[d] = elapsed[d]
      /\ reg' = reg /\ value' = value
  BY DEF Begun, TypeOK, RecordsAreTyped
<1>2. ASSUME NEW d \in CPUs, reg'[d] # NoLoad
      PROVE  reg'[d] = value'[Word(word'[d])[1]][d][Word(word'[d])[2]]
  <2>1. d # c
    BY <1>1, <1>2 DEF RecordsAreTyped
  <2> QED
    BY <1>1, <1>2, <2>1 DEF Recorded
<1>3. ASSUME NEW s \in Stages, NEW m \in Metrics
      PROVE  load'[s][m] = Sum(Column(value', s, m), CPUs) + Sum(Owed(s, m)', CPUs)
  <2>1. Owed(s, m) \in [CPUs -> Nat] /\ Sum(Owed(s, m), CPUs) \in Nat
    BY RecordingType
  <2>2. (Owed(s, m) \in [CPUs -> Nat])'
    BY OwedTypeNext
  <2>3. Owed(s, m)[c] = 0
    BY <1>1 DEF Owed
  <2>4. \E n \in 1 .. Words : word'[c] # 0 /\ word'[c] <= n /\ Word(n) = << s, m >>
    BY <1>1, WordOrder, StageNames
  <2>5. Owed(s, m)'[c] = Contribution(e)[s][m]
    BY <1>1, <2>4 DEF Owed
  <2>6. \A d \in CPUs : d # c => Owed(s, m)'[d] = Owed(s, m)[d]
    BY <1>1 DEF Owed
  <2>7. Sum(Owed(s, m)', CPUs) = Sum(Owed(s, m), CPUs) - Owed(s, m)[c] + Owed(s, m)'[c]
    BY <2>1, <2>2, <2>6, SumUpdate
  <2>8. load'[s][m] = load[s][m] + Contribution(e)[s][m] /\ Contribution(e)[s][m] \in Nat
    BY ContributionType DEF Begun
  <2>9. load[s][m] = Sum(Column(value, s, m), CPUs) + Sum(Owed(s, m), CPUs)
    BY DEF Recorded
  <2>10. Sum(Column(value, s, m), CPUs) \in Nat
    BY ColumnType DEF TypeOK, Grid
  <2> QED
    BY <1>1, <2>1, <2>3, <2>5, <2>7, <2>8, <2>9, <2>10
<1> QED
  BY <1>2, <1>3 DEF Recorded

\* A store hands over what the run owed to its word, and nothing else.
LEMMA OwedStore ==
  ASSUME TypeOK, NEW c \in CPUs, NEW s \in Stages, NEW m \in Metrics, Stored(c, s, m)
  PROVE  /\ Owed(s, m)[c] = Contribution(elapsed[c])[s][m] /\ Owed(s, m)'[c] = 0
         /\ \A t \in Stages, k \in Metrics, d \in CPUs :
              << t, k >> # << s, m >> \/ d # c => Owed(t, k)'[d] = Owed(t, k)[d]
<1>1. /\ word[c] \in 1 .. Words /\ Word(word[c]) = << s, m >> /\ elapsed' = elapsed
      /\ word'[c] = (word[c] + 1) % (Words + 1) /\ Words = 6
      /\ \A d \in CPUs : d # c => word'[d] = word[d]
  BY StageNames DEF Stored, TypeOK
<1>2. word'[c] = IF word[c] = Words THEN 0 ELSE word[c] + 1
  BY <1>1
<1>3. Owed(s, m)[c] = Contribution(elapsed[c])[s][m]
  BY <1>1 DEF Owed
<1>4. ~ \E n \in 1 .. Words : word'[c] # 0 /\ word'[c] <= n /\ Word(n) = << s, m >>
  BY <1>1, <1>2, WordOrder
<1>5. Owed(s, m)'[c] = 0
  BY <1>4 DEF Owed
<1>6. ASSUME NEW t \in Stages, NEW k \in Metrics, << t, k >> # << s, m >>
      PROVE  Owed(t, k)'[c] = Owed(t, k)[c]
  <2>1. \A n \in 1 .. Words : Word(n) = << t, k >> => n # word[c]
    BY <1>1, <1>6
  <2>2. (\E n \in 1 .. Words : word'[c] # 0 /\ word'[c] <= n /\ Word(n) = << t, k >>)
        <=> (\E n \in 1 .. Words : word[c] # 0 /\ word[c] <= n /\ Word(n) = << t, k >>)
    BY <1>1, <1>2, <2>1
  <2> QED
    BY <1>1, <2>2 DEF Owed
<1>7. ASSUME NEW t \in Stages, NEW k \in Metrics, NEW d \in CPUs, d # c
      PROVE  Owed(t, k)'[d] = Owed(t, k)[d]
  BY <1>1, <1>7 DEF Owed
<1> QED
  BY <1>3, <1>5, <1>6, <1>7

\* The word that is stored grows by the contribution; no other word changes.
LEMMA ValueStore ==
  ASSUME TypeOK, RecordsAreTyped, Recorded,
         NEW c \in CPUs, NEW s \in Stages, NEW m \in Metrics, Stored(c, s, m)
  PROVE  /\ Contribution(elapsed[c])[s][m] \in Nat
         /\ value'[s][c][m] = value[s][c][m] + Contribution(elapsed[c])[s][m]
         /\ \A t \in Stages, k \in Metrics, d \in CPUs :
              << t, k >> # << s, m >> \/ d # c => value'[t][d][k] = value[t][d][k]
<1>1. elapsed[c] \in [Stages -> Nat]
  BY DEF RecordsAreTyped
<1>2. Contribution(elapsed[c])[s][m] \in Nat
  BY <1>1, ContributionType
<1>3. reg[c] = value[s][c][m]
  <2>1. Word(word[c])[1] = s /\ Word(word[c])[2] = m /\ reg[c] # NoLoad
    BY DEF Stored
  <2> QED
    BY <2>1 DEF Recorded
<1>4. value' = [value EXCEPT ![s][c][m] = reg[c] + Contribution(elapsed[c])[s][m]]
  BY DEF Stored
<1>5. value \in [Stages -> [CPUs -> [Metrics -> Nat]]]
  BY DEF TypeOK
<1>6. value'[s][c][m] = reg[c] + Contribution(elapsed[c])[s][m]
  BY <1>4, <1>5
<1>7. ASSUME NEW t \in Stages, NEW k \in Metrics, NEW d \in CPUs,
             << t, k >> # << s, m >> \/ d # c
      PROVE  value'[t][d][k] = value[t][d][k]
  BY <1>4, <1>5, <1>7
<1> QED
  BY <1>2, <1>3, <1>6, <1>7

\* What one sum loses the other gains.
LEMMA Exchange ==
  ASSUME NEW V \in Nat, NEW O \in Nat, NEW v \in Nat, NEW w \in Nat, NEW o \in Nat, NEW q \in Nat,
         w - v = o - q
  PROVE  (V - v + w) + (O - o + q) = V + O
  OBVIOUS

LEMMA RecordedStore ==
  ASSUME TypeOK, TypeOK', RecordsAreTyped, RecordsAreTyped', Recorded,
         NEW c \in CPUs, NEW s \in Stages, NEW m \in Metrics, Stored(c, s, m)
  PROVE  Recorded'
<1>1. /\ reg'[c] = NoLoad /\ load' = load /\ word[c] # 0
      /\ \A d \in CPUs : d # c => reg'[d] = reg[d] /\ word'[d] = word[d]
  BY DEF Stored, TypeOK
<1>2. ASSUME NEW d \in CPUs, reg'[d] # NoLoad
      PROVE  reg'[d] = value'[Word(word'[d])[1]][d][Word(word'[d])[2]]
  <2>1. d # c /\ reg[d] # NoLoad /\ word[d] # 0
    BY <1>1, <1>2 DEF RecordsAreTyped
  <2>2. PICK t \in Stages, k \in Metrics : Word(word[d]) = << t, k >>
    BY <2>1, AtWord
  <2>3. value'[t][d][k] = value[t][d][k]
    BY <2>1, ValueStore
  <2>4. reg[d] = value[t][d][k]
    BY <2>1, <2>2 DEF Recorded
  <2> QED
    BY <1>1, <2>1, <2>2, <2>3, <2>4
<1>3. ASSUME NEW t \in Stages, NEW k \in Metrics
      PROVE  load'[t][k] = Sum(Column(value', t, k), CPUs) + Sum(Owed(t, k)', CPUs)
  <2>0. value \in Grid /\ value' \in Grid
    BY DEF TypeOK, Grid
  <2>1. /\ Owed(t, k) \in [CPUs -> Nat] /\ Sum(Owed(t, k), CPUs) \in Nat
        /\ value \in Grid /\ value' \in Grid
    BY <2>0, RecordingType
  <2>2. (Owed(t, k) \in [CPUs -> Nat])'
    BY OwedTypeNext
  <2>3. /\ Column(value, t, k) \in [CPUs -> Nat] /\ Sum(Column(value, t, k), CPUs) \in Nat
        /\ \A d \in CPUs : Column(value, t, k)[d] = value[t][d][k]
        /\ Column(value', t, k) \in [CPUs -> Nat]
        /\ \A d \in CPUs : Column(value', t, k)[d] = value'[t][d][k]
    BY <2>1, ColumnType
  <2>4. \A d \in CPUs : d # c =>
          Owed(t, k)'[d] = Owed(t, k)[d] /\ Column(value', t, k)[d] = Column(value, t, k)[d]
    BY <2>3, OwedStore, ValueStore
  <2>5. Sum(Owed(t, k)', CPUs) = Sum(Owed(t, k), CPUs) - Owed(t, k)[c] + Owed(t, k)'[c]
    BY <2>1, <2>2, <2>4, SumUpdate
  <2>6. Sum(Column(value', t, k), CPUs)
          = Sum(Column(value, t, k), CPUs) - Column(value, t, k)[c] + Column(value', t, k)[c]
    BY <2>3, <2>4, SumUpdate
  <2>7. Column(value', t, k)[c] - Column(value, t, k)[c] = Owed(t, k)[c] - Owed(t, k)'[c]
    <3>1. CASE t = s /\ k = m
      <4>1. /\ Owed(t, k)[c] = Contribution(elapsed[c])[s][m] /\ Owed(t, k)'[c] = 0
        BY <3>1, OwedStore
      <4>2. /\ Contribution(elapsed[c])[s][m] \in Nat
            /\ value'[t][c][k] = value[t][c][k] + Contribution(elapsed[c])[s][m]
        BY <3>1, ValueStore
      <4> QED
        BY <2>3, <4>1, <4>2
    <3>2. CASE << t, k >> # << s, m >>
      BY <2>1, <2>3, <3>2, OwedStore, ValueStore
    <3> QED
      BY <3>1, <3>2
  <2>8. load[t][k] = Sum(Column(value, t, k), CPUs) + Sum(Owed(t, k), CPUs)
    BY DEF Recorded
  <2>9. /\ Owed(t, k)[c] \in Nat /\ Owed(t, k)'[c] \in Nat
        /\ Column(value, t, k)[c] \in Nat /\ Column(value', t, k)[c] \in Nat
    BY <2>1, <2>2, <2>3
  <2>10. Sum(Column(value', t, k), CPUs) + Sum(Owed(t, k)', CPUs)
           = Sum(Column(value, t, k), CPUs) + Sum(Owed(t, k), CPUs)
    BY <2>1, <2>3, <2>5, <2>6, <2>7, <2>9, Exchange
  <2> QED
    BY <1>1, <2>8, <2>10
<1> QED
  BY <1>2, <1>3 DEF Recorded

\* When a reset is confirmed, every word is zero and nobody adds to one.
LEMMA RecordedReset ==
  ASSUME TypeOK, RecordsAreTyped, ResetIsQuiet, ~Doomed, ResetConfirmed
  PROVE  Recorded
<1>1. Busy = {} /\ load = ZeroTotals
  BY DEF ResetIsQuiet, ResetConfirmed
<1>2. \A c \in CPUs : word[c] = 0 /\ reg[c] = NoLoad
  BY <1>1 DEF Busy, RecordsAreTyped
<1>3. ASSUME NEW s \in Stages, NEW c \in CPUs, NEW m \in Metrics
      PROVE  value[s][c][m] = 0
  <2>1. PICK n \in 1 .. Cells : Cell(n) = << s, c, m >>
    BY CellOrder
  <2>2. n \in 1 .. cell - 1
    <3>1. Cells \in Nat /\ cell \in Int /\ cell > Cells
      BY ProfileAssumption, StageNames DEF TypeOK, Cells, ResetConfirmed
    <3> QED
      BY <3>1
  <2>3. value[Cell(n)[1]][Cell(n)[2]][Cell(n)[3]] = 0
    BY <2>2 DEF ResetIsQuiet, ResetConfirmed
  <2> QED
    BY <2>1, <2>3
<1>4. ASSUME NEW s \in Stages, NEW m \in Metrics
      PROVE  load[s][m] = Sum(Column(value, s, m), CPUs) + Sum(Owed(s, m), CPUs)
  <2>1. Sum(Column(value, s, m), CPUs) = 0
    <3>1. value \in Grid
      BY DEF TypeOK, Grid
    <3>2. /\ Column(value, s, m) \in [CPUs -> Nat]
          /\ \A c \in CPUs : Column(value, s, m)[c] = 0
      BY <1>3, <3>1, ColumnType
    <3> QED
      BY <3>2, SumZero
  <2>2. Sum(Owed(s, m), CPUs) = 0
    <3>1. Owed(s, m) \in [CPUs -> Nat] /\ \A c \in CPUs : Owed(s, m)[c] = 0
      BY <1>2, RecordingType DEF Owed
    <3> QED
      BY <3>1, SumZero
  <2>3. load[s][m] = 0
    BY <1>1 DEF ZeroTotals, Zero
  <2> QED
    BY <2>1, <2>2, <2>3
<1> QED
  BY <1>2, <1>4 DEF Recorded

LEMMA LoadStep ==
  ASSUME TypeOK, TypeOK', CommandsAreInOrder, RecordsAreTyped, RecordsAreTyped',
         ResetIsQuiet, LoadIsRecorded, [Next]_vars
  PROVE  LoadIsRecorded'
<1> SUFFICES ASSUME ~Doomed', phase' \in { "measuring", "reading" }
             PROVE  Recorded'
  BY DEF LoadIsRecorded, Recorded
<1>0. ~Doomed
  BY DoomedForever
<1>01. phase \in { "measuring", "reading" } => Recorded
  BY <1>0 DEF LoadIsRecorded, Recorded
<1>1. CASE \E c \in CPUs : BeginRecord(c)
  <2>1. PICK c \in CPUs, e \in [Stages -> Nat] : Begun(c, e)
    BY <1>1, BeginRun
  <2>2. Recorded
    BY <1>01, <2>1 DEF Begun, toolVars
  <2> QED
    BY <2>1, <2>2, RecordedBegin
<1>2. CASE \E c \in CPUs : LoadWord(c)
  <2>1. PICK c \in CPUs : LoadWord(c)
    BY <1>2
  <2>2. Recorded /\ UNCHANGED << value, word, elapsed, load >>
    BY <1>01, <2>1 DEF LoadWord, toolVars
  <2>3. \A s \in Stages, m \in Metrics :
          Column(value', s, m) = Column(value, s, m) /\ Owed(s, m)' = Owed(s, m)
    BY <2>2 DEF Owed
  <2>4. \A d \in CPUs :
          reg'[d] # NoLoad => reg'[d] = value[Word(word[d])[1]][d][Word(word[d])[2]]
    BY <2>1, <2>2 DEF LoadWord, Recorded, TypeOK
  <2> QED
    BY <2>2, <2>3, <2>4 DEF Recorded
<1>3. CASE \E c \in CPUs : StoreWord(c)
  <2>1. PICK c \in CPUs, s \in Stages, m \in Metrics : Stored(c, s, m)
    BY <1>3, Store
  <2>2. Recorded
    BY <1>01, <2>1 DEF Stored, toolVars
  <2> QED
    BY <2>1, <2>2, RecordedStore
<1>4. CASE SendRead
  <2>1. Recorded /\ UNCHANGED << bpfVars, load >>
    BY <1>01, <1>4 DEF SendRead, Send
  <2> QED
    BY <2>1, RecordedSame
<1>5. CASE SendReset \/ RouterGone
  BY <1>5 DEF SendReset, Send, RouterGone
<1>6. CASE GiveUp
  BY <1>6, GiveUpDooms
<1>7. CASE ServeLate \/ ServeFails \/ AnswerRead \/ AnswerReset
  <2>1. Replied
    BY <1>7, Replies
  <2>2. ~NobodyReads
    BY DEF NobodyReads, Doomed
  <2>3. UNCHANGED << bpfVars, load >>
    BY <2>1 DEF Replied, Same
  <2>4. Recorded
    <3>1. CASE ResetConfirmed
      BY <1>0, <3>1, RecordedReset
    <3>2. CASE ReadAccepted
      BY <3>2 DEF ReadAccepted
    <3>3. CASE CommandFails /\ Waiting
      BY <1>01, <3>3 DEF CommandFails, Waiting
    <3> QED
      BY <2>1, <2>2, <3>1, <3>2, <3>3 DEF Replied
  <2> QED
    BY <2>3, <2>4, RecordedSame
<1>8. CASE Serve \/ ReadCell \/ UNCHANGED vars
  <2>1. UNCHANGED << bpfVars, load, toolVars >>
    BY <1>8 DEF Serve, ReadCell, vars
  <2>2. Recorded
    BY <1>01, <2>1 DEF toolVars
  <2> QED
    BY <2>1, <2>2, RecordedSame
<1>9. CASE ResetCell
  BY <1>0, <1>9, ServedInPhase DEF ResetCell, toolVars
<1> QED
  BY <1>1, <1>2, <1>3, <1>4, <1>5, <1>6, <1>7, <1>8, <1>9 DEF Next, Ended

-----------------------------------------------------------------------------
(* A reading. *)

\* Greater words make greater sums.
LEMMA Grows ==
  ASSUME NEW A \in Grid, NEW B \in Grid,
         \A s \in Stages, c \in CPUs, m \in Metrics : A[s][c][m] <= B[s][c][m]
  PROVE  \A s \in Stages, m \in Metrics :
           Sum(Column(A, s, m), CPUs) <= Sum(Column(B, s, m), CPUs)
<1> SUFFICES ASSUME NEW s \in Stages, NEW m \in Metrics
             PROVE  Sum(Column(A, s, m), CPUs) <= Sum(Column(B, s, m), CPUs)
  OBVIOUS
<1>1. /\ Column(A, s, m) \in [CPUs -> Nat] /\ Column(B, s, m) \in [CPUs -> Nat]
      /\ \A c \in CPUs : Column(A, s, m)[c] = A[s][c][m] /\ Column(B, s, m)[c] = B[s][c][m]
  BY ColumnType
<1>2. \A c \in CPUs : Column(A, s, m)[c] <= Column(B, s, m)[c]
  BY <1>1
<1> QED
  BY <1>1, <1>2, SumMonotone

\* A reading mixes the words that are copied with those that are not yet.
LEMMA ReadingType ==
  ASSUME TypeOK
  PROVE  /\ Reading \in Grid /\ value \in Grid /\ values \in Grid
         /\ \A s \in Stages, c \in CPUs, m \in Metrics :
              Reading[s][c][m] = IF Copied(s, c, m) THEN values[s][c][m] ELSE value[s][c][m]
  BY DEF TypeOK, Grid, Reading

LEMMA ReadingTypeNext ==
  ASSUME TypeOK'
  PROVE  /\ Reading' \in Grid /\ value' \in Grid /\ values' \in Grid
         /\ \A s \in Stages, c \in CPUs, m \in Metrics :
              Reading'[s][c][m]
                = IF Copied(s, c, m)' THEN values'[s][c][m] ELSE value'[s][c][m]
  BY DEF TypeOK, Grid, Reading

Bracketed ==
  /\ \A s \in Stages, m \in Metrics : before[s][m] <= Sum(Column(Reading, s, m), CPUs)
  /\ \A s \in Stages, c \in CPUs, m \in Metrics : Reading[s][c][m] <= value[s][c][m]

\* A reading that grows stays above its lower bound.
LEMMA BracketedGrows ==
  ASSUME TypeOK, TypeOK', RecordsAreTyped, Bracketed, before' = before,
         \A s \in Stages, c \in CPUs, m \in Metrics :
           Reading[s][c][m] <= Reading'[s][c][m] /\ Reading'[s][c][m] <= value'[s][c][m]
  PROVE  Bracketed'
<1>1. Reading \in Grid /\ Reading' \in Grid
  BY ReadingType, ReadingTypeNext
<1>2. ASSUME NEW s \in Stages, NEW m \in Metrics
      PROVE  before'[s][m] <= Sum(Column(Reading', s, m), CPUs)
  <2>1. Sum(Column(Reading, s, m), CPUs) <= Sum(Column(Reading', s, m), CPUs)
    BY <1>1, Grows
  <2>2. /\ Sum(Column(Reading, s, m), CPUs) \in Nat /\ Sum(Column(Reading', s, m), CPUs) \in Nat
    BY <1>1, ColumnType
  <2>3. before[s][m] <= Sum(Column(Reading, s, m), CPUs) /\ before[s][m] \in Int
    BY DEF Bracketed, RecordsAreTyped
  <2> QED
    BY <2>1, <2>2, <2>3
<1> QED
  BY <1>2 DEF Bracketed

LEMMA BracketedSame ==
  ASSUME Bracketed, TypeOK, TypeOK', before' = before, value' = value,
         \A s \in Stages, c \in CPUs, m \in Metrics : Reading'[s][c][m] = Reading[s][c][m]
  PROVE  Bracketed'
<1>1. Reading \in Grid /\ Reading' \in Grid
  BY ReadingType, ReadingTypeNext
<1>2. \A s \in Stages, m \in Metrics : Column(Reading', s, m) = Column(Reading, s, m)
  BY <1>1 DEF Column
<1> QED
  BY <1>2 DEF Bracketed

\* What was complete when the read was sent is in the counters by then.
LEMMA BracketedSend ==
  ASSUME TypeOK, TypeOK', CommandsAreInOrder, RecordsAreTyped, Recorded, ~Doomed, SendRead
  PROVE  Bracketed'
<1>1. /\ pc = "loop" /\ pc' = "loop" /\ value' = value
      /\ before' = [s \in Stages |-> [m \in Metrics |-> load[s][m] - InFlight[s][m]]]
  BY OneCommand DEF SendRead, Send, Waiting, bpfVars
<1>2. Reading' \in Grid /\ value \in Grid
  BY ReadingType, ReadingTypeNext
<1>3. \A s \in Stages, c \in CPUs, m \in Metrics : Reading'[s][c][m] = value[s][c][m]
  BY <1>1, ReadingTypeNext DEF Copied
<1>4. ASSUME NEW s \in Stages, NEW m \in Metrics
      PROVE  before'[s][m] <= Sum(Column(Reading', s, m), CPUs)
  <2>1. Column(Reading', s, m) = Column(value, s, m)
    BY <1>2, <1>3 DEF Column
  <2>2. /\ Recording(s, m) \in [CPUs -> Nat] /\ Sum(Recording(s, m), CPUs) \in Nat
        /\ Owed(s, m) \in [CPUs -> Nat] /\ Sum(Owed(s, m), CPUs) \in Nat
        /\ InFlight[s][m] = Sum(Recording(s, m), CPUs)
    BY RecordingType
  <2>3. \A c \in CPUs : Owed(s, m)[c] <= Recording(s, m)[c]
    BY <2>2 DEF Owed, Recording, Busy
  <2>4. Sum(Owed(s, m), CPUs) <= Sum(Recording(s, m), CPUs)
    BY <2>2, <2>3, SumMonotone
  <2>5. load[s][m] = Sum(Column(value, s, m), CPUs) + Sum(Owed(s, m), CPUs)
    BY DEF Recorded
  <2>6. before'[s][m] = load[s][m] - Sum(Recording(s, m), CPUs)
    BY <1>1, <2>2
  <2>7. Sum(Column(value, s, m), CPUs) \in Nat
    BY <1>2, ColumnType
  <2> QED
    BY <2>1, <2>2, <2>4, <2>5, <2>6, <2>7
<1>5. \A s \in Stages, c \in CPUs, m \in Metrics : Reading'[s][c][m] <= value'[s][c][m]
  BY <1>1, <1>2, <1>3 DEF Grid
<1> QED
  BY <1>4, <1>5 DEF Bracketed

\* A word that is copied is taken as it is by then.
LEMMA BracketedCopy ==
  ASSUME TypeOK, TypeOK', RecordsAreTyped, Bracketed, ReadCell
  PROVE  Bracketed'
<1>1. /\ pc = "read" /\ pc' = "read" /\ cell' = cell + 1 /\ value' = value /\ before' = before
      /\ values' = [values EXCEPT ![Cell(cell)[1]][Cell(cell)[2]][Cell(cell)[3]] =
                      value[Cell(cell)[1]][Cell(cell)[2]][Cell(cell)[3]]]
  BY DEF ReadCell, bpfVars
<1>2. /\ cell \in 1 .. Cells /\ Cell(cell)[1] \in Stages /\ Cell(cell)[2] \in CPUs
      /\ Cell(cell)[3] \in Metrics
  BY AtCell DEF ReadCell
<1>3. PICK t \in Stages, d \in CPUs, k \in Metrics :
        t = Cell(cell)[1] /\ d = Cell(cell)[2] /\ k = Cell(cell)[3]
  BY <1>2
<1>4. Cell(cell) = << t, d, k >>
  BY <1>3 DEF Cell
<1>5. values \in Grid /\ value \in Grid /\ Reading \in Grid
  BY ReadingType
<1>6. values' = [values EXCEPT ![t][d][k] = value[t][d][k]]
  BY <1>1, <1>3
<1>7. ASSUME NEW s \in Stages, NEW c \in CPUs, NEW m \in Metrics
      PROVE  Reading[s][c][m] <= Reading'[s][c][m] /\ Reading'[s][c][m] <= value'[s][c][m]
  <2>1. /\ Reading[s][c][m] <= value[s][c][m] /\ Reading[s][c][m] \in Nat
        /\ value[s][c][m] \in Nat
    BY <1>5 DEF Bracketed, Grid
  <2>2. /\ Reading[s][c][m] = IF Copied(s, c, m) THEN values[s][c][m] ELSE value[s][c][m]
        /\ Reading'[s][c][m] = IF Copied(s, c, m)' THEN values'[s][c][m] ELSE value'[s][c][m]
    BY ReadingType, ReadingTypeNext
  <2>3. CASE << s, c, m >> = << t, d, k >>
    <3>1. values'[s][c][m] = value[s][c][m]
      BY <1>5, <1>6, <2>3 DEF Grid
    <3> QED
      BY <1>1, <2>1, <2>2, <3>1
  <2>4. CASE << s, c, m >> # << t, d, k >>
    <3>1. values'[s][c][m] = values[s][c][m]
      BY <1>5, <1>6, <2>4 DEF Grid
    <3>2. Copied(s, c, m)' <=> Copied(s, c, m)
      <4>1. 1 .. cell' - 1 = 1 .. cell - 1 \cup { cell }
        BY <1>1, <1>2, StageNames DEF TypeOK
      <4> QED
        BY <1>1, <1>4, <2>4, <4>1 DEF Copied
    <3>3. Reading'[s][c][m] = Reading[s][c][m]
      BY <1>1, <2>2, <3>1, <3>2
    <3> QED
      BY <1>1, <2>1, <3>3
  <2> QED
    BY <2>3, <2>4
<1> QED
  BY <1>1, <1>7, BracketedGrows

LEMMA BracketedStore ==
  ASSUME TypeOK, TypeOK', RecordsAreTyped, Recorded, Bracketed,
         NEW c \in CPUs, NEW s \in Stages, NEW m \in Metrics, Stored(c, s, m)
  PROVE  Bracketed'
<1>1. UNCHANGED << pc, cell, values, before >>
  BY DEF Stored, routerVars
<1>2. ASSUME NEW t \in Stages, NEW d \in CPUs, NEW k \in Metrics
      PROVE  Reading[t][d][k] <= Reading'[t][d][k] /\ Reading'[t][d][k] <= value'[t][d][k]
  <2>1. /\ Reading[t][d][k] <= value[t][d][k] /\ Reading[t][d][k] \in Nat
        /\ value[t][d][k] \in Nat /\ value'[t][d][k] \in Nat
    BY ReadingType, ReadingTypeNext DEF Bracketed, Grid
  <2>2. /\ Reading[t][d][k] = IF Copied(t, d, k) THEN values[t][d][k] ELSE value[t][d][k]
        /\ Reading'[t][d][k] = IF Copied(t, d, k)' THEN values'[t][d][k] ELSE value'[t][d][k]
    BY ReadingType, ReadingTypeNext
  <2>3. Copied(t, d, k)' <=> Copied(t, d, k)
    BY <1>1 DEF Copied
  <2>4. value[t][d][k] <= value'[t][d][k]
    <3>1. CASE << t, k >> = << s, m >> /\ d = c
      BY <2>1, <3>1, ValueStore
    <3>2. CASE << t, k >> # << s, m >> \/ d # c
      BY <2>1, <3>2, ValueStore
    <3> QED
      BY <3>1, <3>2
  <2> QED
    BY <1>1, <2>1, <2>2, <2>3, <2>4
<1> QED
  BY <1>1, <1>2, BracketedGrows

LEMMA ReadingStep ==
  ASSUME TypeOK, TypeOK', CommandsAreInOrder, RecordsAreTyped,
         LoadIsRecorded, ReadingIsBracketed, [Next]_vars
  PROVE  ReadingIsBracketed'
<1> SUFFICES ASSUME ~Doomed', phase' = "reading"
             PROVE  Bracketed'
  BY DEF ReadingIsBracketed, Bracketed
<1>0. ~Doomed
  BY DoomedForever
<1>01. phase = "reading" => Recorded /\ Bracketed
  BY <1>0 DEF LoadIsRecorded, Recorded, ReadingIsBracketed, Bracketed
<1>1. CASE \E c \in CPUs : StoreWord(c)
  <2>1. PICK c \in CPUs, s \in Stages, m \in Metrics : Stored(c, s, m)
    BY <1>1, Store
  <2>2. Recorded /\ Bracketed
    BY <1>01, <2>1 DEF Stored, toolVars
  <2> QED
    BY <2>1, <2>2, BracketedStore
<1>2. CASE \/ \E c \in CPUs : BeginRecord(c) \/ LoadWord(c)
           \/ Serve \/ UNCHANGED vars
  <2>1. /\ UNCHANGED << value, values, before, toolVars >>
        /\ UNCHANGED << pc, cell >> \/ (pc = "loop" /\ cell' = 1)
    BY <1>2 DEF BeginRecord, LoadWord, Serve, vars, bpfVars, routerVars
  <2>2. Bracketed
    BY <1>01, <2>1 DEF toolVars
  <2>3. ASSUME NEW s \in Stages, NEW c \in CPUs, NEW m \in Metrics
        PROVE  Copied(s, c, m)' <=> Copied(s, c, m)
    BY <2>1 DEF Copied
  <2>4. \A s \in Stages, c \in CPUs, m \in Metrics : Reading'[s][c][m] = Reading[s][c][m]
    BY <2>1, <2>3, ReadingType, ReadingTypeNext
  <2> QED
    BY <2>1, <2>2, <2>4, BracketedSame
<1>3. CASE SendRead
  <2>1. Recorded
    BY <1>0, <1>3 DEF SendRead, LoadIsRecorded, Recorded
  <2> QED
    BY <1>0, <1>3, <2>1, BracketedSend
<1>4. CASE ReadCell
  <2>1. Bracketed
    BY <1>01, <1>4 DEF ReadCell, toolVars
  <2> QED
    BY <1>4, <2>1, BracketedCopy
<1>5. CASE GiveUp
  BY <1>5, GiveUpDooms
<1>6. CASE SendReset \/ RouterGone
  BY <1>6 DEF SendReset, Send, RouterGone
<1>7. CASE ServeLate \/ ServeFails \/ AnswerRead \/ AnswerReset
  <2>1. Replied /\ ~NobodyReads
    BY <1>7, Replies DEF NobodyReads, Doomed
  <2> QED
    BY <2>1 DEF Replied, ResetConfirmed, ReadAccepted, CommandFails
<1>8. CASE ResetCell
  BY <1>0, <1>8, ServedInPhase DEF ResetCell, toolVars
<1> QED
  BY <1>1, <1>2, <1>3, <1>4, <1>5, <1>6, <1>7, <1>8 DEF Next, Ended

-----------------------------------------------------------------------------
(* The result. *)

LEMMA ResultStep ==
  ASSUME TypeOK, CommandsAreInOrder, RecordsAreTyped, LoadIsRecorded, ReadingIsBracketed,
         ResultIsFinal, ReadIsBracketed, [Next]_vars
  PROVE  ResultIsFinal' /\ ReadIsBracketed'
<1>1. CASE UNCHANGED << result, phase, load, before >>
  BY <1>1 DEF ResultIsFinal, ReadIsBracketed
<1>2. CASE phase # "done" /\ result' = result
  BY <1>2 DEF ResultIsFinal, ReadIsBracketed
<1>3. CASE /\ ~Doomed /\ Same /\ ReadAccepted
  <2>1. Recorded /\ Bracketed /\ load' = load /\ before' = before
    BY <1>3 DEF LoadIsRecorded, Recorded, ReadingIsBracketed, Bracketed, ReadAccepted, Same
  <2>2. /\ Reading \in Grid /\ value \in Grid /\ values \in Grid
        /\ \A s \in Stages, c \in CPUs, m \in Metrics :
             Reading[s][c][m] = IF Copied(s, c, m) THEN values[s][c][m] ELSE value[s][c][m]
    BY ReadingType
  <2>3. ASSUME NEW s \in Stages, NEW c \in CPUs, NEW m \in Metrics
        PROVE  Reading[s][c][m] = values[s][c][m]
    <3>1. PICK n \in 1 .. Cells : Cell(n) = << s, c, m >>
      BY CellOrder
    <3>2. n \in 1 .. cell - 1
      <4>1. Cells \in Nat /\ cell \in Int /\ cell > Cells
        BY <1>3, ProfileAssumption, StageNames DEF TypeOK, Cells, ReadAccepted
      <4> QED
        BY <4>1
    <3>3. Copied(s, c, m)
      BY <1>3, <3>1, <3>2 DEF Copied, ReadAccepted
    <3> QED
      BY <2>2, <3>3
  <2>4. ASSUME NEW s \in Stages, NEW m \in Metrics
        PROVE  before'[s][m] <= result'[s][m] /\ result'[s][m] <= load'[s][m]
    <3>1. Column(values, s, m) = Column(Reading, s, m)
      BY <2>3 DEF Column
    <3>2. result'[s][m] = Sum(Column(Reading, s, m), CPUs)
      BY <1>3, <3>1 DEF ReadAccepted
    <3>3. before[s][m] <= Sum(Column(Reading, s, m), CPUs)
      BY <2>1 DEF Bracketed
    <3>4. Sum(Column(Reading, s, m), CPUs) <= Sum(Column(value, s, m), CPUs)
      BY <2>1, <2>2, Grows DEF Bracketed
    <3>5. load[s][m] = Sum(Column(value, s, m), CPUs) + Sum(Owed(s, m), CPUs)
      BY <2>1 DEF Recorded
    <3>6. /\ Sum(Column(Reading, s, m), CPUs) \in Nat /\ Sum(Column(value, s, m), CPUs) \in Nat
          /\ Sum(Owed(s, m), CPUs) \in Nat
      BY <2>2, ColumnType, RecordingType
    <3>7. Sum(Column(Reading, s, m), CPUs) <= load[s][m]
      BY <3>4, <3>5, <3>6
    <3> QED
      BY <2>1, <3>2, <3>3, <3>7
  <2> QED
    BY <1>3, <2>4 DEF ResultIsFinal, ReadIsBracketed, ReadAccepted
<1>4. CASE ServeLate \/ ServeFails \/ AnswerRead \/ AnswerReset
  <2>1. Replied
    BY <1>4, Replies
  <2>2. CASE NobodyReads
    BY <1>1, <2>1, <2>2 DEF Replied, Same, NobodyReads, toolVars
  <2>3. CASE ~Doomed /\ Waiting /\ (ResetConfirmed \/ ReadAccepted \/ CommandFails)
    BY <1>2, <1>3, <2>1, <2>3 DEF Replied, Waiting, ResetConfirmed, CommandFails
  <2> QED
    BY <2>1, <2>2, <2>3 DEF Replied
<1>5. CASE \/ \E c \in CPUs : LoadWord(c) \/ StoreWord(c)
           \/ Serve \/ ReadCell \/ ResetCell \/ UNCHANGED vars
  BY <1>1, <1>5 DEF LoadWord, StoreWord, Serve, ReadCell, ResetCell, vars, toolVars
<1>6. CASE \/ \E c \in CPUs : BeginRecord(c)
           \/ SendReset \/ SendRead \/ GiveUp \/ RouterGone
  BY <1>2, <1>6 DEF BeginRecord, LoadRuns, SendReset, SendRead, Send, GiveUp, CommandFails,
     RouterGone, toolVars
<1> QED
  BY <1>4, <1>5, <1>6 DEF Next, Ended

-----------------------------------------------------------------------------
(* Theorems *)

LEMMA InitTypes == Init => TypeOK /\ CommandsAreInOrder /\ RecordsAreTyped
<1> SUFFICES ASSUME Init PROVE TypeOK /\ CommandsAreInOrder /\ RecordsAreTyped
  OBVIOUS
<1>1. Words \in Nat /\ Cells \in Nat /\ 1 \in 1 .. Cells + 1
  BY ProfileAssumption, StageNames DEF Cells
<1>2. Zero \in [Metrics -> Nat] /\ ZeroTotals \in [Stages -> [Metrics -> Nat]]
  BY DEF Zero, ZeroTotals
<1>3. /\ value \in [Stages -> [CPUs -> [Metrics -> Nat]]] /\ values = value
      /\ elapsed \in [CPUs -> [Stages -> Nat]]
      /\ word \in [CPUs -> 0 .. Words] /\ reg \in [CPUs -> Nat \cup { NoLoad }]
  BY <1>1, <1>2 DEF Init
<1>4. TypeOK
  BY <1>1, <1>3, ProfileAssumption DEF Init, TypeOK
<1>5. CommandsAreInOrder
  <2>1. pending \in Seq(Commands) /\ DOMAIN pending = {}
    BY DEF Init
  <2> QED
    BY <2>1 DEF Init, CommandsAreInOrder, Waiting
<1>6. RecordsAreTyped
  BY <1>2, <1>3 DEF Init, RecordsAreTyped
<1> QED
  BY <1>4, <1>5, <1>6

\* However the runs, the router and the tool interleave, and whatever fails, a
\* run is at one of its words, the copy of serve_profile_read does not leave the
\* counters, and no word of either is negative.
THEOREM ProfileTypes == Spec => []TypeOK
<1>1. Init => TypeOK /\ CommandsAreInOrder /\ RecordsAreTyped
  BY InitTypes
<1>2. TypeOK /\ CommandsAreInOrder /\ RecordsAreTyped /\ [Next]_vars
        => (TypeOK /\ CommandsAreInOrder /\ RecordsAreTyped)'
  BY TypeStep, CommandsStep, RecordsStep
<1> QED
  BY <1>1, <1>2, PTL DEF Spec

\* Where the load pauses while the counters are reset, the counters and what
\* the runs still add are the load since then, and a reading lies between what
\* was complete when it was asked for and the counters.
THEOREM ProfileInvariance ==
  ASSUME "reset" \notin Disturbed
  PROVE  Spec => []ProfileInv
<1>1. Init => ProfileInv
  <2> SUFFICES ASSUME Init PROVE ProfileInv
    OBVIOUS
  <2>1. TypeOK /\ CommandsAreInOrder /\ RecordsAreTyped
    BY InitTypes
  <2>2. phase = "warmup" /\ result = NoResult
    BY DEF Init
  <2> QED
    BY <2>1, <2>2 DEF ProfileInv, ResetIsQuiet, LoadIsRecorded, ReadingIsBracketed,
       ResultIsFinal, ReadIsBracketed
<1>2. ProfileInv /\ [Next]_vars => ProfileInv'
  <2> SUFFICES ASSUME ProfileInv, [Next]_vars PROVE ProfileInv'
    OBVIOUS
  <2>1. /\ TypeOK /\ CommandsAreInOrder /\ RecordsAreTyped /\ ResetIsQuiet
        /\ LoadIsRecorded /\ ReadingIsBracketed /\ ResultIsFinal /\ ReadIsBracketed
    BY DEF ProfileInv
  <2>2. TypeOK' /\ CommandsAreInOrder' /\ RecordsAreTyped'
    BY <2>1, TypeStep, CommandsStep, RecordsStep
  <2>3. ResetIsQuiet'
    BY <2>1, ResetStep
  <2>4. LoadIsRecorded'
    BY <2>1, <2>2, LoadStep
  <2>5. ReadingIsBracketed'
    BY <2>1, <2>2, ReadingStep
  <2>6. ResultIsFinal' /\ ReadIsBracketed'
    BY <2>1, ResultStep
  <2> QED
    BY <2>2, <2>3, <2>4, <2>5, <2>6 DEF ProfileInv
<1> QED
  BY <1>1, <1>2, PTL DEF Spec

\* What aggregate_response accepts counts everything that was complete when
\* the read was sent and nothing that had not begun when it was answered, for
\* any number of CPUs and requests, whatever calls fail, lines are lost and
\* commands time out, as long as the reset falls between the loads.
THEOREM ReadBracketed ==
  ASSUME "reset" \notin Disturbed
  PROVE  Spec => []ReadIsBracketed
<1>1. ProfileInv => ReadIsBracketed
  BY DEF ProfileInv
<1> QED
  BY <1>1, ProfileInvariance, PTL
=============================================================================
