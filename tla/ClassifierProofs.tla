-------------------------- MODULE ClassifierProofs --------------------------
(***************************************************************************)
(* Proofs about the classifier, for every alphabet, policy, model and text.*)
(*                                                                         *)
(* BM25 by itself: the limit of words is never met, and no score passes    *)
(* its bound. A word that was counted cost two bytes of the text. On a     *)
(* regular text the scores are those of the reference: a word is told by   *)
(* its first and last places, the stream keeps the places of the word      *)
(* under way, and the reference, which goes from the left end to the right *)
(* by recursion, finds the same places.                                    *)
(*                                                                         *)
(* The n-grams: a query has counted the trigrams of the characters it saw, *)
(* each as often as the keyword has it too, which is what two multisets    *)
(* have in common. The words that are over and the open one are the words  *)
(* of the text.                                                            *)
(*                                                                         *)
(* The distilled model: no score passes the bound that the file's header   *)
(* claims, so that 32 bits are enough for it. After n bytes a score is     *)
(* within score_bound - (PromptBytes - n) times MaxWeight of zero: this is *)
(* what a byte more keeps, and the bound follows from it because bytes are *)
(* counted to PromptBytes only. And a score is the sum of the reference.   *)
(*                                                                         *)
(* The classifier is BM25 as Bm25 describes it, whatever else sees the     *)
(* bytes, so that what is proved of Bm25 holds of it. From the three       *)
(* signals together follows the route.                                     *)
(***************************************************************************)
EXTENDS ClassifierReference, Totals, SequenceTheorems, TLAPS

-----------------------------------------------------------------------------
(* BM25: the inductive invariant. *)

\* A word that was counted cost at least two bytes: one of its own and the
\* one that ended it. The word under way has one, and a connector one more.
BytesPaid ==
  /\ ~finished /\ word = << >> => pending_connector = NoByte
  /\ ~finished /\ word = << >> => 2 * query_tokens <= Len(text)
  /\ ~finished /\ word # << >> /\ pending_connector = NoByte
       => 2 * query_tokens + 1 <= Len(text)
  /\ ~finished /\ word # << >> /\ pending_connector # NoByte
       => 2 * query_tokens + 2 <= Len(text)

Bm25Inv == TypeOK /\ NoOverflow /\ BytesPaid

-----------------------------------------------------------------------------
(* BM25: counting a word. *)

\* With a byte to spare there is room for one more word.
LEMMA RoomForAWord ==
  ASSUME NEW q \in Nat, 2 * q + 1 <= MaxBytes
  PROVE  q < MaxQueryTokens
  BY Bm25Assumption DEF MaxQueryTokens

\* The types of the scores, which CountWord keeps.
ScoresOK(s, q, matched, flag) ==
  /\ s \in [Documents -> Nat] /\ q \in Nat /\ matched \in SUBSET Documents
  /\ flag \in BOOLEAN /\ ~flag /\ q <= MaxQueryTokens
  /\ \A d \in Documents : s[d] <= MaxTermWeight * q

\* Adding the weights of one term keeps the scores within their bound for one
\* more word.
LEMMA AddWeightsIsBounded ==
  ASSUME NEW t \in Terms, AddWeights(t),
         scores \in [Documents -> Nat], matched_documents \in SUBSET Documents,
         query_tokens \in Nat,
         \A d \in Documents : scores[d] <= MaxTermWeight * query_tokens
  PROVE  /\ scores' \in [Documents -> Nat] /\ matched_documents' \in SUBSET Documents
         /\ \A d \in Documents : scores'[d] <= MaxTermWeight * (query_tokens + 1)
<1>1. MaxTermWeight \in Nat /\ t.weights \in [Documents -> 0 .. MaxTermWeight]
  BY Bm25Assumption
<1>2. scores' = [d \in Documents |-> scores[d] + t.weights[d]]
  BY DEF AddWeights
<1>3. MaxTermWeight * (query_tokens + 1) = MaxTermWeight * query_tokens + MaxTermWeight
  BY <1>1
<1>4. MaxTermWeight * query_tokens \in Int
  BY <1>1
<1> DEFINE bound == MaxTermWeight * query_tokens
<1>5. ASSUME NEW d \in Documents
      PROVE  scores'[d] \in Nat /\ scores'[d] <= bound + MaxTermWeight
  <2>1. scores[d] \in Nat /\ t.weights[d] \in 0 .. MaxTermWeight /\ scores[d] <= bound
    BY <1>1
  <2>2. bound \in Int
    BY <1>4
  <2> HIDE DEF bound
  <2> QED
    BY <2>1, <2>2, <1>1, <1>2
<1>6. scores' \in [Documents -> Nat]
  BY <1>2, <1>5
<1>7. matched_documents' \in SUBSET Documents
  BY DEF AddWeights
<1> QED
  BY <1>3, <1>5, <1>6, <1>7

\* Counting a word with a byte to spare adds at most one to the words.
LEMMA CountWordIsBounded ==
  ASSUME NEW w, CountWord(w), TypeOK, NoOverflow, 2 * query_tokens + 1 <= MaxBytes
  PROVE  /\ query_tokens' \in { query_tokens, query_tokens + 1 }
         /\ ScoresOK(scores', query_tokens', matched_documents', overflow')
<1>1. query_tokens \in Nat /\ query_tokens < MaxQueryTokens
  BY RoomForAWord DEF TypeOK
<1>2. MaxQueryTokens \in Int /\ MaxTermWeight \in Nat
  BY Bm25Assumption DEF MaxQueryTokens
<1>3. ScoresOK(scores, query_tokens, matched_documents, overflow)
  BY DEF TypeOK, NoOverflow, ScoresOK
<1>4. CASE UNCHANGED scoreVars
  BY <1>3, <1>4 DEF scoreVars
<1>5. CASE ~UNCHANGED scoreVars
  <2>1. /\ query_tokens' = query_tokens + 1 /\ overflow' = overflow
        /\ IF Exact(w) = {} THEN UNCHANGED << scores, matched_documents >>
           ELSE \E t \in Exact(w) : AddWeights(t)
    BY <1>1, <1>2, <1>5 DEF CountWord
  <2>2. /\ query_tokens' \in Nat /\ query_tokens' <= MaxQueryTokens
        /\ overflow' \in BOOLEAN /\ ~overflow'
    BY <2>1, <1>1, <1>2, <1>3 DEF ScoresOK
  <2>3. /\ scores' \in [Documents -> Nat] /\ matched_documents' \in SUBSET Documents
        /\ \A d \in Documents : scores'[d] <= MaxTermWeight * (query_tokens + 1)
    <3>1. CASE Exact(w) = {}
      <4>1. scores' = scores /\ matched_documents' = matched_documents
        BY <2>1, <3>1
      <4>2. MaxTermWeight * (query_tokens + 1) = MaxTermWeight * query_tokens + MaxTermWeight
        BY <1>1, <1>2
      <4> DEFINE bound == MaxTermWeight * query_tokens
      <4>3. bound \in Int
        BY <1>1, <1>2
      <4>4. ASSUME NEW d \in Documents
            PROVE  scores[d] <= bound + MaxTermWeight
        <5>1. scores[d] \in Nat /\ scores[d] <= bound
          BY <1>3 DEF ScoresOK
        <5> HIDE DEF bound
        <5> QED
          BY <5>1, <4>3, <1>2
      <4> QED
        BY <4>1, <4>2, <4>4, <1>3 DEF ScoresOK
    <3>2. CASE Exact(w) # {}
      <4>1. PICK t \in Exact(w) : AddWeights(t)
        BY <2>1, <3>2
      <4>2. t \in Terms
        BY DEF Exact
      <4> QED
        BY <4>1, <4>2, <1>1, <1>3, AddWeightsIsBounded DEF ScoresOK
    <3> QED
      BY <3>1, <3>2
  <2> QED
    BY <2>1, <2>2, <2>3 DEF ScoresOK
<1> QED
  BY <1>4, <1>5

-----------------------------------------------------------------------------
(* BM25: the steps. *)

\* The invariant holds of the state that xdp_bm25_init leaves.
LEMMA InitBm25Inv == Init => Bm25Inv
<1> SUFFICES ASSUME Init PROVE Bm25Inv
  OBVIOUS
<1>1. MaxQueryTokens \in Nat /\ MaxTermWeight \in Nat /\ MaxBytes \in Nat
  BY Bm25Assumption DEF MaxQueryTokens
<1>2. scores = [d \in Documents |-> 0] /\ query_tokens = 0
  BY DEF Init
<1>3. TypeOK
  <2>1. scores \in [Documents -> Nat] /\ query_tokens \in Nat
    BY <1>2
  <2>2. text = << >> /\ word = << >> /\ Len(<< >>) = 0 /\ << >> \in Seq(Bytes)
    BY DEF Init
  <2>3. /\ matched_documents = {} /\ pending_connector = NoByte /\ previous_char = NoByte
    BY DEF Init
  <2>4. overflow \in BOOLEAN /\ finished \in BOOLEAN
    BY Zenon DEF Init
  <2> QED
    BY <1>1, <2>1, <2>2, <2>3, <2>4 DEF TypeOK
<1>4. MaxTermWeight * 0 = 0
  BY <1>1
<1>5. NoOverflow
  BY <1>1, <1>2, <1>4 DEF Init, NoOverflow
<1> QED
  BY <1>3, <1>5 DEF Init, Bm25Inv, BytesPaid

\* A byte of a word: it begins a word, continues one, joins one over a
\* connector or ends one and begins the next.
LEMMA WordBytePaid ==
  ASSUME Bm25Inv, NEW c \in Bytes, ScoreChar(c), WordByte(c)
  PROVE  Bm25Inv'
<1>1. /\ text \in Seq(Bytes) /\ text' = Append(text, c) /\ Len(text) < MaxBytes
      /\ MaxBytes \in Nat /\ finished' = finished /\ ~finished
  BY Bm25Assumption DEF Bm25Inv, TypeOK, ScoreChar
<1>2. text' \in Seq(Bytes) /\ Len(text') = Len(text) + 1 /\ Len(text) \in Nat
  BY <1>1
<1>3. /\ pending_connector' = NoByte /\ previous_char' = c /\ c \in WordChars
      /\ word \in Seq(Bytes) /\ query_tokens \in Nat /\ finished \in BOOLEAN
      /\ pending_connector \in Connectors \cup { NoByte }
  BY DEF WordByte, Bm25Inv, TypeOK
<1>4. ScoresOK(scores, query_tokens, matched_documents, overflow)
  BY DEF Bm25Inv, TypeOK, NoOverflow, ScoresOK
<1>5. CASE word' = Append(word, c) /\ pending_connector = NoByte /\ UNCHANGED scoreVars
  <2>1. word' \in Seq(Bytes) /\ word' # << >>
    BY <1>3, <1>5
  <2>2. 2 * query_tokens' + 1 <= Len(text')
    BY <1>1, <1>2, <1>3, <1>5 DEF Bm25Inv, BytesPaid, scoreVars
  <2> QED
    BY <1>1, <1>2, <1>3, <1>4, <1>5, <2>1, <2>2
       DEF Bm25Inv, TypeOK, NoOverflow, BytesPaid, ScoresOK, scoreVars
<1>6. CASE /\ word' = word \o << pending_connector, c >>
           /\ pending_connector # NoByte /\ UNCHANGED scoreVars
  <2>1. word' \in Seq(Bytes) /\ word' # << >>
    BY <1>3, <1>6 DEF Bytes
  <2>2. 2 * query_tokens' + 1 <= Len(text')
    BY <1>1, <1>2, <1>3, <1>6 DEF Bm25Inv, BytesPaid, scoreVars
  <2> QED
    BY <1>1, <1>2, <1>3, <1>4, <1>6, <2>1, <2>2
       DEF Bm25Inv, TypeOK, NoOverflow, BytesPaid, ScoresOK, scoreVars
<1>7. CASE word' = << c >> /\ pending_connector # NoByte /\ CountWord(word)
  <2>1. word' \in Seq(Bytes) /\ word' # << >>
    BY <1>7
  <2>2. 2 * query_tokens + 2 <= Len(text)
    BY <1>1, <1>7 DEF Bm25Inv, BytesPaid
  <2>3. 2 * query_tokens + 1 <= MaxBytes
    BY <1>1, <1>2, <1>3, <2>2
  <2>4. /\ query_tokens' \in { query_tokens, query_tokens + 1 }
        /\ ScoresOK(scores', query_tokens', matched_documents', overflow')
    BY <1>7, <2>3, CountWordIsBounded DEF Bm25Inv
  <2>5. 2 * query_tokens' + 1 <= Len(text')
    BY <1>2, <1>3, <2>2, <2>4
  <2>6. NoOverflow'
    BY <2>4, Zenon DEF NoOverflow, ScoresOK
  <2>7. TypeOK'
    BY <1>1, <1>2, <1>3, <2>1, <2>4 DEF TypeOK, ScoresOK
  <2>8. BytesPaid'
    BY <1>1, <1>3, <2>1, <2>5 DEF BytesPaid
  <2> QED
    BY <2>6, <2>7, <2>8 DEF Bm25Inv
<1> QED
  BY <1>5, <1>6, <1>7 DEF WordByte

\* A connector is kept beside the word that it may turn out to belong to.
LEMMA ConnectorBytePaid ==
  ASSUME Bm25Inv, NEW c \in Bytes, ScoreChar(c), ConnectorByte(c)
  PROVE  Bm25Inv'
<1>1. /\ text \in Seq(Bytes) /\ text' = Append(text, c) /\ Len(text) < MaxBytes
      /\ MaxBytes \in Nat /\ finished' = finished /\ ~finished
  BY Bm25Assumption DEF Bm25Inv, TypeOK, ScoreChar
<1>2. text' \in Seq(Bytes) /\ Len(text') = Len(text) + 1 /\ Len(text) \in Nat
  BY <1>1
<1>3. /\ word # << >> /\ pending_connector = NoByte /\ c \in Connectors
      /\ UNCHANGED << scoreVars, word, previous_char >> /\ pending_connector' = c
  BY DEF ConnectorByte
<1>4. query_tokens \in Nat
  BY DEF Bm25Inv, TypeOK
<1>5. 2 * query_tokens' + 2 <= Len(text')
  BY <1>1, <1>2, <1>3, <1>4 DEF Bm25Inv, BytesPaid, scoreVars
<1>6. 2 * query_tokens' + 1 <= Len(text')
  BY <1>2, <1>3, <1>4, <1>5 DEF scoreVars
<1> QED
  BY <1>1, <1>2, <1>3, <1>5, <1>6
     DEF Bm25Inv, TypeOK, NoOverflow, BytesPaid, scoreVars

\* The end of a word leaves the scores within their bounds, and the word was
\* paid for.
LEMMA EndWordPaid ==
  ASSUME Bm25Inv, ~finished, EndWord
  PROVE  /\ ScoresOK(scores', query_tokens', matched_documents', overflow')
         /\ 2 * query_tokens' <= Len(text) + 1
         /\ word' = << >> /\ pending_connector' = NoByte /\ previous_char' = NoByte
<1>1. /\ query_tokens \in Nat /\ Len(text) \in Nat /\ Len(text) <= MaxBytes
      /\ MaxBytes \in Nat /\ pending_connector \in Connectors \cup { NoByte }
  BY Bm25Assumption DEF Bm25Inv, TypeOK
<1>2. word' = << >> /\ pending_connector' = NoByte /\ previous_char' = NoByte
  BY DEF EndWord
<1>3. CASE word = << >>
  <2>1. UNCHANGED scoreVars
    BY <1>3 DEF EndWord
  <2>2. 2 * query_tokens <= Len(text)
    BY <1>3 DEF Bm25Inv, BytesPaid
  <2>3. ScoresOK(scores, query_tokens, matched_documents, overflow)
    BY DEF Bm25Inv, TypeOK, NoOverflow, ScoresOK
  <2> QED
    BY <1>1, <1>2, <2>1, <2>2, <2>3 DEF scoreVars
<1>4. CASE word # << >>
  <2>1. CountWord(word)
    BY <1>4 DEF EndWord
  <2>2. 2 * query_tokens + 1 <= Len(text)
    BY <1>1, <1>4 DEF Bm25Inv, BytesPaid
  <2>3. 2 * query_tokens + 1 <= MaxBytes
    BY <1>1, <2>2
  <2>4. /\ query_tokens' \in { query_tokens, query_tokens + 1 }
        /\ ScoresOK(scores', query_tokens', matched_documents', overflow')
    BY <2>1, <2>3, CountWordIsBounded DEF Bm25Inv
  <2> QED
    BY <1>1, <1>2, <2>2, <2>4
<1> QED
  BY <1>3, <1>4

\* A byte that is not of the word.
LEMMA OtherBytePaid ==
  ASSUME Bm25Inv, NEW c \in Bytes, ScoreChar(c), OtherByte(c)
  PROVE  Bm25Inv'
<1>1. /\ text \in Seq(Bytes) /\ text' = Append(text, c) /\ Len(text) < MaxBytes
      /\ MaxBytes \in Nat /\ finished' = finished /\ ~finished
  BY Bm25Assumption DEF Bm25Inv, TypeOK, ScoreChar
<1>2. text' \in Seq(Bytes) /\ Len(text') = Len(text) + 1 /\ Len(text) \in Nat
  BY <1>1
<1>3. EndWord
  BY DEF OtherByte
<1>4. /\ ScoresOK(scores', query_tokens', matched_documents', overflow')
      /\ 2 * query_tokens' <= Len(text) + 1
      /\ word' = << >> /\ pending_connector' = NoByte /\ previous_char' = NoByte
  BY <1>1, <1>3, EndWordPaid
<1>5. NoOverflow'
  BY <1>4, Zenon DEF NoOverflow, ScoresOK
<1>6. TypeOK'
  BY <1>1, <1>2, <1>4 DEF Bm25Inv, TypeOK, ScoresOK
<1>7. BytesPaid'
  BY <1>1, <1>2, <1>4 DEF BytesPaid
<1> QED
  BY <1>5, <1>6, <1>7 DEF Bm25Inv

\* The end of the request.
LEMMA FinishPaid ==
  ASSUME Bm25Inv, Finish
  PROVE  Bm25Inv'
<1>1. ~finished /\ EndWord /\ text' = text /\ finished' = TRUE
  BY DEF Finish
<1>2. /\ ScoresOK(scores', query_tokens', matched_documents', overflow')
      /\ word' = << >> /\ pending_connector' = NoByte /\ previous_char' = NoByte
  BY <1>1, EndWordPaid
<1>3. NoOverflow'
  BY <1>2, Zenon DEF NoOverflow, ScoresOK
<1>4. TypeOK'
  BY <1>1, <1>2 DEF Bm25Inv, TypeOK, ScoresOK
<1>5. BytesPaid'
  BY <1>1 DEF BytesPaid
<1> QED
  BY <1>3, <1>4, <1>5 DEF Bm25Inv

\* Every step keeps the invariant.
LEMMA StepBm25Inv == Bm25Inv /\ [Next]_vars => Bm25Inv'
<1> SUFFICES ASSUME Bm25Inv, [Next]_vars PROVE Bm25Inv'
  OBVIOUS
<1>1. CASE \E c \in Bytes : ScoreChar(c)
  <2>1. PICK c \in Bytes : ScoreChar(c)
    BY <1>1
  <2>2. WordByte(c) \/ ConnectorByte(c) \/ OtherByte(c)
    BY <2>1 DEF ScoreChar
  <2> QED
    BY <2>1, <2>2, WordBytePaid, ConnectorBytePaid, OtherBytePaid
<1>2. CASE Finish
  BY <1>2, FinishPaid
<1>3. CASE UNCHANGED vars
  BY <1>3 DEF vars, scoreVars, wordVars, Bm25Inv, TypeOK, NoOverflow, BytesPaid
<1> QED
  BY <1>1, <1>2, <1>3 DEF Next

-----------------------------------------------------------------------------
(* BM25: the theorems. *)

\* Type correctness of the BM25 state over any text.
THEOREM Bm25TypeCorrect == Spec => []TypeOK
<1>1. Bm25Inv => TypeOK
  BY DEF Bm25Inv
<1> QED
  BY InitBm25Inv, StepBm25Inv, <1>1, PTL DEF Spec

\* xdp_bm25_finish_word never gives the signal up: whatever the policy, a text
\* of at most MaxBytes bytes has no more than XDP_BM25_MAX_QUERY_TOKENS words,
\* and no score is more than that many times the greatest weight.
THEOREM Bm25NeverOverflows == Spec => []NoOverflow
<1>1. Bm25Inv => NoOverflow
  BY DEF Bm25Inv
<1> QED
  BY InitBm25Inv, StepBm25Inv, <1>1, PTL DEF Spec

-----------------------------------------------------------------------------
(* The distilled model: what bounds its scores. *)

\* The bytes that may have added a weight, and two.
BytesCounted(n) == IF n < 2 THEN 2 ELSE n

Margin(n) == (PromptBytes - BytesCounted(n)) * MaxWeight

InMargin(f, n, v) == v <= f.score_bound - Margin(n) /\ -(f.score_bound - Margin(n)) <= v

LoadedFiles == { f \in Files : Loads(f) }

DistillInv ==
  /\ model \in LoadedFiles \cup { NoModel }
  /\ distill.bytes_seen \in Nat /\ distill.bytes_seen <= PromptBytes
  /\ distill.bytes_seen >= 1 => distill.previous_1 \in Bytes
  /\ distill.bytes_seen >= 2 => distill.previous_2 \in Bytes
  /\ model # NoModel =>
       /\ distill.score \in [Classes -> Int]
       /\ \A c \in Classes : InMargin(model, distill.bytes_seen, distill.score[c])

-----------------------------------------------------------------------------
(* Lemmas about the bounds. *)

\* The margin is never negative, and one byte more costs one weight of it
\* (xdp_distill_score_char stops at PromptBytes).
LEMMA MarginShrinks ==
  ASSUME NEW n \in Nat, n <= PromptBytes
  PROVE  /\ Margin(n) \in Int /\ Margin(n) >= 0
         /\ n < 2 /\ n < PromptBytes => Margin(n + 1) = Margin(n)
         /\ n >= 2 /\ n < PromptBytes => Margin(n + 1) = Margin(n) - MaxWeight
<1>1. PromptBytes \in Nat /\ PromptBytes >= 2 /\ MaxWeight \in Nat
  BY DistillAssumption
<1>2. \A a, w \in Nat : a * w \in Nat
  OBVIOUS
<1>3. \A a \in Int, w \in Nat : (a - 1) * w = a * w - w
  OBVIOUS
<1>4. Margin(n) \in Int /\ Margin(n) >= 0
  <2>1. PromptBytes - BytesCounted(n) \in Nat
    BY <1>1 DEF BytesCounted
  <2> QED BY <1>1, <1>2, <2>1 DEF Margin
<1>5. n < 2 /\ n < PromptBytes => Margin(n + 1) = Margin(n)
  BY <1>1 DEF Margin, BytesCounted
<1>6. n >= 2 /\ n < PromptBytes => Margin(n + 1) = Margin(n) - MaxWeight
  <2>1. SUFFICES ASSUME n >= 2 PROVE Margin(n + 1) = Margin(n) - MaxWeight
    OBVIOUS
  <2>2. BytesCounted(n) = n /\ BytesCounted(n + 1) = n + 1
    BY <2>1 DEF BytesCounted
  <2>3. PromptBytes - (n + 1) = (PromptBytes - n) - 1 /\ PromptBytes - n \in Int
    BY <1>1
  <2>4. ((PromptBytes - n) - 1) * MaxWeight = (PromptBytes - n) * MaxWeight - MaxWeight
    BY <1>1, <1>3, <2>3
  <2> QED BY <2>2, <2>3, <2>4 DEF Margin
<1> QED BY <1>4, <1>5, <1>6

\* What a file that populate_distill_model accepts is like.
LEMMA LoadedFile ==
  ASSUME NEW f \in LoadedFiles
  PROVE  /\ f.score_bound \in Nat /\ f.score_bound <= MaxScore
         /\ f.bias \in [Classes -> Int]
         /\ f.weights \in [Buckets -> [Classes -> Int]]
         /\ \A c \in Classes : InMargin(f, 0, f.bias[c])
         /\ \A b \in Buckets, c \in Classes :
              -MaxWeight <= f.weights[b][c] /\ f.weights[b][c] <= MaxWeight
<1>1. f \in Files /\ Loads(f)
  BY DEF LoadedFiles
<1>2. /\ MaxScore \in Nat /\ MaxWeight \in Nat /\ PromptBytes \in Nat /\ PromptBytes >= 2
      /\ f.score_bound \in Nat
      /\ f.bias \in [Classes -> -MaxScore - 1 .. MaxScore]
      /\ f.weights \in [Buckets -> [Classes -> -MaxWeight .. MaxWeight]]
  BY <1>1, DistillAssumption
<1>3. f.bias \in [Classes -> Int]
  BY <1>2
<1>4. f.weights \in [Buckets -> [Classes -> Int]]
  BY <1>2
<1>5. \A b \in Buckets, c \in Classes :
        -MaxWeight <= f.weights[b][c] /\ f.weights[b][c] <= MaxWeight
  BY <1>2
<1>6. PICK m \in Classes :
        /\ \A d \in Classes : Abs(f.bias[d]) <= Abs(f.bias[m])
        /\ Abs(f.bias[m]) + (PromptBytes - 2) * MaxWeight = f.score_bound
  BY <1>1 DEF Loads
<1>7. Margin(0) = (PromptBytes - 2) * MaxWeight /\ Margin(0) \in Int
  BY <1>2, MarginShrinks DEF Margin, BytesCounted
<1>8. Abs(f.bias[m]) = f.score_bound - Margin(0)
  BY <1>2, <1>3, <1>6, <1>7 DEF Abs
<1>9. ASSUME NEW c \in Classes PROVE InMargin(f, 0, f.bias[c])
  BY <1>2, <1>3, <1>6, <1>7, <1>8 DEF InMargin, Abs
<1> QED BY <1>1, <1>2, <1>3, <1>4, <1>5, <1>9 DEF Loads

\* A score within the bound is not wrapped when a weight is added.
LEMMA ByteStaysWithin ==
  ASSUME NEW f \in LoadedFiles, NEW n \in Nat, n < PromptBytes, n >= 2,
         NEW v \in Int, InMargin(f, n, v),
         NEW w \in Int, -MaxWeight <= w, w <= MaxWeight
  PROVE  Wrap(v + w) = v + w /\ v + w \in Int /\ InMargin(f, n + 1, v + w)
<1>1. PromptBytes \in Nat /\ MaxWeight \in Nat /\ MaxScore \in Nat
  BY DistillAssumption
<1>2. f.score_bound \in Nat /\ f.score_bound <= MaxScore
  BY LoadedFile
<1>3. Margin(n) \in Int /\ Margin(n + 1) = Margin(n) - MaxWeight /\ Margin(n + 1) >= 0
  BY <1>1, MarginShrinks
<1>4. InMargin(f, n + 1, v + w)
  BY <1>1, <1>2, <1>3 DEF InMargin
<1>5. Wrap(v + w) = v + w
  BY <1>1, <1>2, <1>3, <1>4 DEF InMargin, Wrap
<1> QED BY <1>4, <1>5

-----------------------------------------------------------------------------
(* The invariant *)

LEMMA InitDistillInv == ClassifierInit => DistillInv
<1> SUFFICES ASSUME ClassifierInit PROVE DistillInv
  OBVIOUS
<1>1. model \in LoadedFiles \cup { NoModel } /\ distill = NewDistill(model)
  BY DEF ClassifierInit, LoadedFiles
<1>2. distill.bytes_seen = 0 /\ distill.score = model.bias
  BY <1>1 DEF NewDistill
<1>3. PromptBytes \in Nat
  BY DistillAssumption
<1>4. model # NoModel =>
        /\ distill.score \in [Classes -> Int]
        /\ \A c \in Classes : InMargin(model, distill.bytes_seen, distill.score[c])
  BY <1>1, <1>2, LoadedFile
<1> QED BY <1>1, <1>2, <1>3, <1>4 DEF DistillInv

LEMMA ClassifyKeepsDistillInv ==
  ASSUME DistillInv, NEW c \in Bytes, Classify(c)
  PROVE  DistillInv'
<1> USE DEF DistillInv
<1>1. distill' = DistillScore(model, distill, c) /\ model' = model
  BY DEF Classify
<1>2. PromptBytes \in Nat /\ PromptBytes >= 2
  BY DistillAssumption
<1>3. CASE distill.bytes_seen >= PromptBytes
  BY <1>1, <1>3 DEF DistillScore
<1>4. CASE distill.bytes_seen < PromptBytes
  <2> DEFINE n == distill.bytes_seen
             b == Bucket(distill.previous_2, distill.previous_1, c)
  <2>1. /\ distill'.bytes_seen = n + 1
        /\ distill'.previous_1 = c /\ distill'.previous_2 = distill.previous_1
        /\ distill'.score = IF n < 2 THEN distill.score
                            ELSE [d \in Classes |-> Wrap(distill.score[d] + model.weights[b][d])]
    BY <1>1, <1>2, <1>4 DEF DistillScore
  <2>2. n \in Nat /\ n < PromptBytes
    BY <1>4
  <2>3. ASSUME model # NoModel
        PROVE  /\ distill'.score \in [Classes -> Int]
               /\ \A d \in Classes : InMargin(model, n + 1, distill'.score[d])
    <3>1. CASE n < 2
      <4>1. Margin(n + 1) = Margin(n)
        BY <2>2, <3>1, MarginShrinks
      <4>2. distill'.score = distill.score
        BY <2>1, <3>1
      <4> QED BY <2>3, <4>1, <4>2 DEF InMargin
    <3>2. CASE n >= 2
      <4>1. b \in Buckets
        BY <2>2, <3>2, PolicyAssumption
      <4>2. model \in LoadedFiles
        BY <2>3
      <4>3. distill'.score = [d \in Classes |-> Wrap(distill.score[d] + model.weights[b][d])]
        BY <2>1, <2>2, <3>2
      <4>4. ASSUME NEW d \in Classes
            PROVE  /\ Wrap(distill.score[d] + model.weights[b][d]) \in Int
                   /\ InMargin(model, n + 1, Wrap(distill.score[d] + model.weights[b][d]))
        <5>1. distill.score[d] \in Int /\ InMargin(model, n, distill.score[d])
          BY <2>3
        <5>2. /\ model.weights[b][d] \in Int
              /\ -MaxWeight <= model.weights[b][d] /\ model.weights[b][d] <= MaxWeight
          BY <4>1, <4>2, LoadedFile
        <5> QED BY <2>2, <3>2, <4>2, <5>1, <5>2, ByteStaysWithin
      <4> QED BY <4>3, <4>4
    <3> QED BY <2>2, <3>1, <3>2
  <2>4. distill'.bytes_seen \in Nat /\ distill'.bytes_seen <= PromptBytes
    BY <1>2, <2>1, <2>2
  <2> QED BY <1>1, <2>1, <2>2, <2>3, <2>4
<1> QED BY <1>2, <1>3, <1>4

LEMMA DistillInvStep == DistillInv /\ [ClassifierNext]_classifierVars => DistillInv'
<1> SUFFICES ASSUME DistillInv, [ClassifierNext]_classifierVars PROVE DistillInv'
  OBVIOUS
<1>1. ASSUME NEW c \in Bytes, Classify(c) PROVE DistillInv'
  BY <1>1, ClassifyKeepsDistillInv
<1>2. CASE Decide
  BY <1>2 DEF Decide, DistillInv
<1>3. CASE Verdict
  BY <1>3 DEF Verdict, DistillInv
<1>4. CASE UNCHANGED classifierVars
  BY <1>4 DEF classifierVars, DistillInv
<1> QED BY <1>1, <1>2, <1>3, <1>4 DEF ClassifierNext

\* The margin is what is left to the bound.
LEMMA DistillInvBounds == DistillInv => ScoresStayInBound
<1> SUFFICES ASSUME DistillInv, model # NoModel, NEW c \in Classes
             PROVE  -model.score_bound <= distill.score[c] /\ distill.score[c] <= model.score_bound
  BY DEF ScoresStayInBound
<1>1. model \in LoadedFiles
  BY DEF DistillInv
<1>2. model.score_bound \in Nat
  BY <1>1, LoadedFile
<1>3. Margin(distill.bytes_seen) \in Int /\ Margin(distill.bytes_seen) >= 0
  BY MarginShrinks DEF DistillInv
<1>4. distill.score[c] \in Int /\ InMargin(model, distill.bytes_seen, distill.score[c])
  BY DEF DistillInv
<1> QED BY <1>2, <1>3, <1>4 DEF InMargin

\* No score of xdp_distill_score_char passes the proven_score_bound that
\* populate_distill_model has checked.
THEOREM ScoresStayInBoundCorrect == ClassifierSpec => []ScoresStayInBound
<1>1. ClassifierInit => DistillInv
  BY InitDistillInv
<1>2. DistillInv /\ [ClassifierNext]_classifierVars => DistillInv'
  BY DistillInvStep
<1>3. DistillInv => ScoresStayInBound
  BY DistillInvBounds
<1> QED BY <1>1, <1>2, <1>3, PTL DEF ClassifierSpec

-----------------------------------------------------------------------------
(* BM25 within the classifier *)

LEMMA StepOfBm25 == [ClassifierNext]_classifierVars => [Next]_vars
<1>1. ASSUME NEW c \in Bytes, Classify(c) PROVE Next
  BY <1>1 DEF Classify, Next
<1>2. Decide => Next
  BY DEF Decide, Next
<1>3. Verdict => UNCHANGED vars
  BY DEF Verdict
<1>4. UNCHANGED classifierVars => UNCHANGED vars
  BY DEF classifierVars
<1> QED BY <1>1, <1>2, <1>3, <1>4 DEF ClassifierNext

\* Each byte that xdp_classifier_score_char passes on, and the end, are steps
\* of BM25; the verdict leaves it alone.
THEOREM ClassifierRunsBm25 == ClassifierSpec => Spec
<1>1. ClassifierInit => Init
  BY DEF ClassifierInit
<1> QED BY <1>1, StepOfBm25, PTL DEF ClassifierSpec, Spec

\* The bounds of BM25 (XDP_BM25_MAX_QUERY_TOKENS) hold in the classifier.
THEOREM ClassifierNeverOverflows == ClassifierSpec => []NoOverflow
BY ClassifierRunsBm25, Bm25NeverOverflows, PTL
-----------------------------------------------------------------------------
(* N-grams: multisets of trigrams, as sequences. *)

\* A trigram occurs a number of times, and not at all if it is no element.
LEMMA TimesType ==
  ASSUME NEW G, NEW s \in Seq(G), NEW g
  PROVE  /\ Times(g, s) \in Nat /\ IsFiniteSet({ i \in DOMAIN s : s[i] = g })
         /\ g \notin Range(s) => Times(g, s) = 0
         /\ IsFiniteSet(Range(s)) /\ Range(s) \subseteq G
<1>1. DOMAIN s = 1 .. Len(s) /\ Len(s) \in Nat
  OBVIOUS
<1>2. IsFiniteSet(DOMAIN s)
  BY <1>1, FS_Interval
<1>3. IsFiniteSet({ i \in DOMAIN s : s[i] = g })
  <2>1. { i \in DOMAIN s : s[i] = g } \subseteq DOMAIN s
    OBVIOUS
  <2> QED
    BY <1>2, <2>1, FS_Subset
<1>4. g \notin Range(s) => { i \in DOMAIN s : s[i] = g } = {}
  BY DEF Range
<1>5. IsFiniteSet(Range(s))
  <2>1. s \in Surjection(DOMAIN s, Range(s))
    BY DEF Surjection, Range
  <2> QED
    BY <1>2, <2>1, FS_Surjection DEF ExistsSurjection
<1> QED
  BY <1>3, <1>4, <1>5, FS_CardinalityType, FS_EmptySet DEF Times, Range

\* One more at the end.
LEMMA TimesAppend ==
  ASSUME NEW G, NEW s \in Seq(G), NEW x \in G, NEW g
  PROVE  /\ Append(s, x) \in Seq(G)
         /\ Times(g, Append(s, x)) = Times(g, s) + (IF g = x THEN 1 ELSE 0)
         /\ Range(Append(s, x)) = Range(s) \cup {x}
<1> DEFINE old == { i \in DOMAIN s : s[i] = g }
           new == { i \in DOMAIN Append(s, x) : Append(s, x)[i] = g }
           n == Len(s) + 1
<1>1. /\ Append(s, x) \in Seq(G) /\ DOMAIN s = 1 .. Len(s) /\ Len(s) \in Nat
      /\ DOMAIN Append(s, x) = 1 .. n /\ n \in Nat
      /\ Append(s, x)[n] = x /\ \A i \in 1 .. Len(s) : Append(s, x)[i] = s[i]
  OBVIOUS
<1>2. new = IF g = x THEN old \cup {n} ELSE old
  BY <1>1
<1>3. IsFiniteSet(old) /\ n \notin old
  <2>1. IsFiniteSet(DOMAIN s) /\ old \subseteq DOMAIN s
    BY <1>1, FS_Interval
  <2> QED
    BY <1>1, <2>1, FS_Subset
<1>4. Cardinality(old \cup {n}) = Cardinality(old) + 1 /\ Cardinality(old) \in Nat
  BY <1>3, FS_AddElement, FS_CardinalityType
<1>5. Range(Append(s, x)) = Range(s) \cup {x}
  BY <1>1 DEF Range
<1>6. Times(g, s) = Cardinality(old) /\ Times(g, Append(s, x)) = Cardinality(new)
  BY DEF Times
<1> HIDE DEF old, new
<1> QED
  BY <1>1, <1>2, <1>4, <1>5, <1>6

\* The sum behind Common.
Least(left, right) == [g \in Range(left) |-> SmallerOf(Times(g, left), Times(g, right))]

LEMMA CommonIsTotal ==
  ASSUME NEW G, NEW left \in Seq(G), NEW right \in Seq(G)
  PROVE  /\ Common(left, right) = Total(Least(left, right), Range(left))
         /\ Least(left, right) \in [Range(left) -> Nat] /\ Common(left, right) \in Nat
<1>1. Common(left, right) = Total(Least(left, right), Range(left))
  BY DEF Common, Total, Least
<1>2. Least(left, right) \in [Range(left) -> Nat]
  BY TimesType DEF Least, SmallerOf
<1>3. IsFiniteSet(Range(left))
  BY TimesType
<1> QED
  BY <1>1, <1>2, <1>3, TotalBounds

\* One more trigram is one more in common, if it is among the others as often.
LEMMA CommonAppend ==
  ASSUME NEW G, NEW left \in Seq(G), NEW right \in Seq(G), NEW x \in G
  PROVE  Common(left, Append(right, x)) =
           Common(left, right) + (IF Times(x, left) >= Times(x, right) + 1 THEN 1 ELSE 0)
<1> DEFINE f == Least(left, right)
           h == Least(left, Append(right, x))
<1>0. Append(right, x) \in Seq(G)
  OBVIOUS
<1>1. /\ f \in [Range(left) -> Int] /\ h \in [Range(left) -> Int] /\ IsFiniteSet(Range(left))
      /\ Common(left, right) = Total(f, Range(left)) /\ Common(left, right) \in Nat
      /\ Common(left, Append(right, x)) = Total(h, Range(left))
  <2>1. /\ Common(left, right) = Total(f, Range(left)) /\ Common(left, right) \in Nat
        /\ f \in [Range(left) -> Nat]
    BY CommonIsTotal
  <2>2. /\ Common(left, Append(right, x)) = Total(h, Range(left)) /\ h \in [Range(left) -> Nat]
    BY <1>0, CommonIsTotal
  <2>3. IsFiniteSet(Range(left))
    BY TimesType
  <2> HIDE DEF f, h
  <2> QED
    BY <2>1, <2>2, <2>3
<1>2. ASSUME NEW g \in Range(left)
      PROVE  /\ f[g] = SmallerOf(Times(g, left), Times(g, right))
             /\ h[g] = SmallerOf(Times(g, left), Times(g, right) + (IF g = x THEN 1 ELSE 0))
             /\ Times(g, left) \in Nat /\ Times(g, right) \in Nat
  <2>1. Times(g, Append(right, x)) = Times(g, right) + (IF g = x THEN 1 ELSE 0)
    BY TimesAppend
  <2>2. Times(g, left) \in Nat /\ Times(g, right) \in Nat
    BY TimesType
  <2>3. /\ f[g] = SmallerOf(Times(g, left), Times(g, right))
        /\ h[g] = SmallerOf(Times(g, left), Times(g, Append(right, x)))
    BY DEF Least
  <2> QED
    BY <2>1, <2>2, <2>3
<1> HIDE DEF f, h
<1>3. CASE x \in Range(left)
  <2>1. \A g \in Range(left) \ {x} : h[g] = f[g]
    BY <1>2
  <2>2. Total(h, Range(left)) = Total(f, Range(left)) - f[x] + h[x]
    BY <1>1, <1>3, <2>1, TotalUpdate
  <2>3. h[x] = f[x] + (IF Times(x, left) >= Times(x, right) + 1 THEN 1 ELSE 0)
    BY <1>2, <1>3 DEF SmallerOf
  <2> QED
    BY <1>1, <1>3, <2>2, <2>3
<1>4. CASE x \notin Range(left)
  <2>1. \A g \in Range(left) : h[g] = f[g]
    BY <1>2, <1>4
  <2>2. h = f
    BY <1>1, <2>1
  <2>3. Times(x, left) = 0 /\ Times(x, right) \in Nat
    BY <1>4, TimesType
  <2> QED
    BY <1>1, <2>2, <2>3
<1> QED
  BY <1>3, <1>4

\* It is the same from either side.
LEMMA CommonSwaps ==
  ASSUME NEW G, NEW left \in Seq(G), NEW right \in Seq(G)
  PROVE  Common(left, right) = Common(right, left)
<1> DEFINE T == Range(left) \cup Range(right)
           both == [g \in T |-> SmallerOf(Times(g, left), Times(g, right))]
<1>1. \A g : /\ Times(g, left) \in Nat /\ Times(g, right) \in Nat
             /\ g \notin Range(left) => Times(g, left) = 0
             /\ g \notin Range(right) => Times(g, right) = 0
  BY TimesType
<1>2. IsFiniteSet(T)
  BY TimesType, FS_Union
<1>3. \A g \in T : both[g] = SmallerOf(Times(g, left), Times(g, right)) /\ both[g] \in Int
  BY <1>1 DEF SmallerOf
<1>4. both \in [T -> Int]
  BY <1>3
<1>5. Total(both, T) = Common(left, right)
  <2>1. /\ Common(left, right) = Total(Least(left, right), Range(left))
        /\ Least(left, right) \in [Range(left) -> Nat]
    BY CommonIsTotal
  <2>2. /\ \A g \in Range(left) : Least(left, right)[g] = both[g]
        /\ \A g \in T \ Range(left) : both[g] = 0
    BY <1>1, <1>3 DEF Least, SmallerOf
  <2>3. Least(left, right) \in [Range(left) -> Int] /\ Range(left) \in SUBSET T
    BY <2>1
  <2> HIDE DEF both, T
  <2> QED
    BY <1>2, <1>4, <2>1, <2>2, <2>3, TotalOfPart
<1>6. Total(both, T) = Common(right, left)
  <2>1. /\ Common(right, left) = Total(Least(right, left), Range(right))
        /\ Least(right, left) \in [Range(right) -> Nat]
    BY CommonIsTotal
  <2>2. /\ \A g \in Range(right) : Least(right, left)[g] = both[g]
        /\ \A g \in T \ Range(right) : both[g] = 0
    BY <1>1, <1>3 DEF Least, SmallerOf
  <2>3. Least(right, left) \in [Range(right) -> Int] /\ Range(right) \in SUBSET T
    BY <2>1
  <2> HIDE DEF both, T
  <2> QED
    BY <1>2, <1>4, <2>1, <2>2, <2>3, TotalOfPart
<1> QED
  BY <1>5, <1>6

-----------------------------------------------------------------------------
(* N-grams: the trigrams of words. *)

Characters == Bytes \cup { Space }
Trigrams == Characters \X Characters \X Characters

\* The trigrams of a word, and those that the code counts of it.
LEMMA GramsType ==
  ASSUME NEW w \in Seq(Bytes)
  PROVE  /\ Grams(w) \in Seq(Trigrams) /\ Len(Grams(w)) = Len(w) + 2
         /\ Counted(w) \in Seq(Trigrams)
         /\ Len(w) = 1 => Len(Counted(w)) = 2 /\ w[1] \in Bytes
         /\ Len(w) # 1 => Counted(w) = Grams(w)
<1>1. \A i \in Int : Padded(w, i) \in Characters
  BY DEF Padded, Characters
<1>2. Len(w) \in Nat
  OBVIOUS
<1>3. Grams(w) \in [1 .. Len(w) + 2 -> Trigrams]
  BY <1>1, <1>2 DEF Grams, Trigrams
<1>4. Grams(w) \in Seq(Trigrams) /\ Len(Grams(w)) = Len(w) + 2
  BY <1>2, <1>3
<1>5. CASE Len(w) = 1
  <2>1. w[1] \in Bytes
    BY <1>5
  <2>2. << Space, Space, w[1] >> \in Trigrams /\ << w[1], Space, Space >> \in Trigrams
    BY <2>1 DEF Trigrams, Characters
  <2> QED
    BY <1>4, <1>5, <2>1, <2>2 DEF Counted
<1> QED
  BY <1>4, <1>5 DEF Counted

\* A character more changes the trigrams of the padding at the end only.
LEMMA GramsAppend ==
  ASSUME NEW w \in Seq(Bytes), NEW c \in Bytes
  PROVE  /\ Append(w, c) \in Seq(Bytes) /\ Len(Append(w, c)) = Len(w) + 1
         /\ \A i \in 1 .. Len(w) : Grams(Append(w, c))[i] = Grams(w)[i]
         /\ Grams(Append(w, c))[Len(w) + 1] = << Padded(w, Len(w) - 1), Padded(w, Len(w)), c >>
<1>1. Len(w) \in Nat /\ Append(w, c) \in Seq(Bytes) /\ Len(Append(w, c)) = Len(w) + 1
  OBVIOUS
<1>2. /\ \A i \in Int : i <= Len(w) => Padded(Append(w, c), i) = Padded(w, i)
      /\ Padded(Append(w, c), Len(w) + 1) = c
  BY <1>1 DEF Padded
<1>3. \A i \in 1 .. Len(w) + 3 : Grams(Append(w, c))[i] =
        << Padded(Append(w, c), i - 2), Padded(Append(w, c), i - 1), Padded(Append(w, c), i) >>
  BY <1>1 DEF Grams
<1>4. ASSUME NEW i \in 1 .. Len(w)
      PROVE  Grams(Append(w, c))[i] = Grams(w)[i]
  <2>1. /\ i \in 1 .. Len(w) + 3 /\ i \in 1 .. Len(w) + 2
        /\ i - 2 \in Int /\ i - 1 \in Int /\ i \in Int
        /\ i - 2 <= Len(w) /\ i - 1 <= Len(w) /\ i <= Len(w)
    BY <1>1
  <2>2. Grams(w)[i] = << Padded(w, i - 2), Padded(w, i - 1), Padded(w, i) >>
    BY <2>1 DEF Grams
  <2> QED
    BY <1>2, <1>3, <2>1, <2>2
<1>5. Grams(Append(w, c))[Len(w) + 1] = << Padded(w, Len(w) - 1), Padded(w, Len(w)), c >>
  <2>1. Len(w) + 1 \in 1 .. Len(w) + 3 /\ (Len(w) + 1) - 2 = Len(w) - 1 /\ (Len(w) + 1) - 1 = Len(w)
    BY <1>1
  <2> QED
    BY <1>1, <1>2, <1>3, <2>1
<1> QED
  BY <1>1, <1>4, <1>5

-----------------------------------------------------------------------------
(* N-grams: queries. *)

Queries ==
  [seen : Seq(Trigrams), same : [Keywords -> Nat], overflow : BOOLEAN,
   previous : Characters, last : Characters, length : Nat]

\* The counters are what is in common with each keyword.
CountsCommon(q) == \A k \in Keywords : q.same[k] = Common(Grams(k.text), q.seen)

\* The first n trigrams of a sequence are counted, as far as there is room.
Begins(q, grams, n, limit) ==
  /\ Len(q.seen) = SmallerOf(n, limit)
  /\ q.overflow <=> n > limit
  /\ \A i \in 1 .. Len(q.seen) : q.seen[i] = grams[i]

QueryOk(q, grams, n, limit) == q \in Queries /\ CountsCommon(q) /\ Begins(q, grams, n, limit)

\* xdp_jaccard_add_gram counts the next one.
LEMMA AddGramCounts ==
  ASSUME NEW limit \in Nat, NEW grams \in Seq(Trigrams), NEW n \in Nat, n + 1 <= Len(grams),
         NEW q, QueryOk(q, grams, n, limit)
  PROVE  LET a == AddGram(q, grams[n + 1], limit) IN
         /\ QueryOk(a, grams, n + 1, limit)
         /\ a.previous = q.previous /\ a.last = q.last /\ a.length = q.length
<1> DEFINE gram == grams[n + 1]
           a == AddGram(q, gram, limit)
<1>1. /\ q.seen \in Seq(Trigrams) /\ q.same \in [Keywords -> Nat] /\ q.overflow \in BOOLEAN
      /\ q \in Queries /\ gram \in Trigrams /\ Len(q.seen) \in Nat
      /\ Len(q.seen) = SmallerOf(n, limit) /\ (q.overflow <=> n > limit)
      /\ \A i \in 1 .. Len(q.seen) : q.seen[i] = grams[i]
  BY DEF QueryOk, Queries, Begins
<1> HIDE DEF gram
<1>2. CASE n >= limit
  <2>1. a = [q EXCEPT !.overflow = TRUE]
    BY <1>1, <1>2 DEF AddGram, SmallerOf
  <2>2. /\ a \in Queries /\ a.seen = q.seen /\ a.same = q.same /\ a.overflow
        /\ a.previous = q.previous /\ a.last = q.last /\ a.length = q.length
    BY <1>1, <2>1 DEF Queries
  <2>3. Len(a.seen) = SmallerOf(n + 1, limit) /\ n + 1 > limit
    BY <1>1, <1>2, <2>2 DEF SmallerOf
  <2> HIDE DEF a
  <2>4. CountsCommon(a)
    BY <2>2 DEF QueryOk, CountsCommon
  <2>5. Begins(a, grams, n + 1, limit)
    BY <1>1, <2>2, <2>3 DEF Begins
  <2>6. QueryOk(a, grams, n + 1, limit)
    BY <2>2, <2>4, <2>5 DEF QueryOk
  <2> QED
    BY <2>2, <2>6 DEF a, gram
<1>3. CASE ~ (n >= limit)
  <2> DEFINE owners == GramMask(gram, Times(gram, q.seen) + 1)
             same == [k \in Keywords |-> q.same[k] + IF k \in owners THEN 1 ELSE 0]
  <2>1. a = [q EXCEPT !.seen = Append(q.seen, gram), !.same = same]
    BY <1>1, <1>3 DEF AddGram, SmallerOf
  <2>2. same \in [Keywords -> Nat]
    BY <1>1
  <2> HIDE DEF same
  <2>3. /\ a \in Queries /\ a.seen = Append(q.seen, gram) /\ a.same = same
        /\ a.overflow = q.overflow
        /\ a.previous = q.previous /\ a.last = q.last /\ a.length = q.length
    <3>1. Append(q.seen, gram) \in Seq(Trigrams)
      BY <1>1
    <3> QED
      BY <1>1, <2>1, <2>2, <3>1 DEF Queries
  <2> HIDE DEF a
  <2>4. CountsCommon(a)
    <3>1. ASSUME NEW k \in Keywords
          PROVE  same[k] = Common(Grams(k.text), Append(q.seen, gram))
      <4>1. Grams(k.text) \in Seq(Trigrams)
        BY JaccardAssumption, GramsType
      <4>2. Common(Grams(k.text), Append(q.seen, gram)) = Common(Grams(k.text), q.seen)
              + (IF Times(gram, Grams(k.text)) >= Times(gram, q.seen) + 1 THEN 1 ELSE 0)
        BY <1>1, <4>1, CommonAppend
      <4>3. q.same[k] = Common(Grams(k.text), q.seen)
        BY DEF QueryOk, CountsCommon
      <4> QED
        BY <4>2, <4>3 DEF same, GramMask
    <3> QED
      BY <2>3, <3>1 DEF CountsCommon
  <2>5. Begins(a, grams, n + 1, limit)
    <3>1. Len(q.seen) = n /\ Len(a.seen) = n + 1 /\ n + 1 <= limit
      BY <1>1, <1>3, <2>3 DEF SmallerOf
    <3>2. \A i \in 1 .. n + 1 : a.seen[i] = grams[i]
      BY <1>1, <2>3, <3>1 DEF gram
    <3> QED
      BY <1>1, <2>3, <3>1, <3>2 DEF Begins, SmallerOf
  <2>6. QueryOk(a, grams, n + 1, limit)
    BY <2>3, <2>4, <2>5 DEF QueryOk
  <2> QED
    BY <2>3, <2>6 DEF a, gram
<1> QED
  BY <1>2, <1>3

\* Only the trigrams that were counted matter.
LEMMA SameBeginning ==
  ASSUME NEW limit \in Nat, NEW n \in Nat, NEW left, NEW right,
         \A i \in 1 .. n : right[i] = left[i], NEW q, QueryOk(q, left, n, limit)
  PROVE  QueryOk(q, right, n, limit)
<1>1. Len(q.seen) \in Nat /\ Len(q.seen) <= n
  BY DEF QueryOk, Queries, Begins, SmallerOf
<1> QED
  BY <1>1 DEF QueryOk, Begins

\* The query has counted the trigrams of w but for those of the padding at the
\* end.
Follows(q, w, limit) ==
  /\ QueryOk(q, Grams(w), Len(w), limit)
  /\ q.length = Len(w)
  /\ Len(w) >= 1 => q.last = w[Len(w)]
  /\ Len(w) >= 2 => q.previous = w[Len(w) - 1]

LEMMA NewQueryType == NewQuery \in Queries
<1>1. << >> \in Seq(Trigrams) /\ [k \in Keywords |-> 0] \in [Keywords -> Nat]
  OBVIOUS
<1>2. Space \in Characters
  BY DEF Characters
<1> QED
  BY <1>1, <1>2 DEF NewQuery, Queries

\* A query that has seen nothing, whatever characters it remembers.
LEMMA EmptyFollows ==
  ASSUME NEW limit \in Nat, NEW a \in Characters, NEW b \in Characters
  PROVE  Follows([NewQuery EXCEPT !.previous = a, !.last = b], << >>, limit)
<1> DEFINE q == [NewQuery EXCEPT !.previous = a, !.last = b]
<1>1. /\ q.seen = << >> /\ q.same = [k \in Keywords |-> 0] /\ q.overflow = FALSE
      /\ q.previous = a /\ q.last = b /\ q.length = 0
  BY DEF NewQuery
<1>2. q \in Queries
  BY NewQueryType DEF Queries
<1> HIDE DEF q
<1>3. CountsCommon(q)
  <2>1. ASSUME NEW k \in Keywords
        PROVE  Common(Grams(k.text), << >>) = 0
    <3> DEFINE left == Grams(k.text)
               f == Least(left, << >>)
    <3>1. left \in Seq(Trigrams) /\ << >> \in Seq(Trigrams)
      BY JaccardAssumption, GramsType
    <3> HIDE DEF left
    <3>2. /\ Common(left, << >>) = Total(f, Range(left)) /\ IsFiniteSet(Range(left))
      BY <3>1, CommonIsTotal, TimesType
    <3>3. \A g : Times(g, << >>) = 0 /\ Times(g, left) \in Nat
      <4>1. Range(<< >>) = {}
        BY DEF Range
      <4> QED
        BY <3>1, <4>1, TimesType
    <3>4. f = [g \in Range(left) |-> 0]
      BY <3>3 DEF Least, SmallerOf
    <3>5. Total([g \in Range(left) |-> 0], Range(left)) = 0
      BY <3>2, TotalZero
    <3> QED
      BY <3>2, <3>4, <3>5 DEF left
  <2> QED
    BY <1>1, <2>1 DEF CountsCommon
<1>4. Begins(q, Grams(<< >>), 0, limit)
  BY <1>1 DEF Begins, SmallerOf
<1>5. Len(<< >>) = 0
  OBVIOUS
<1>6. Follows(q, << >>, limit)
  BY <1>1, <1>2, <1>3, <1>4, <1>5 DEF Follows, QueryOk
<1> QED
  BY <1>6 DEF q

\* xdp_jaccard_push: the query follows the character.
LEMMA PushFollows ==
  ASSUME NEW limit \in Nat, NEW w \in Seq(Bytes), NEW c \in Bytes, NEW q, Follows(q, w, limit)
  PROVE  Follows(Push(q, c, limit), Append(w, c), limit)
<1> DEFINE n == Len(w)
           v == Append(w, c)
           a == AddGram(q, Grams(v)[n + 1], limit)
<1>1. /\ n \in Nat /\ v \in Seq(Bytes) /\ Len(v) = n + 1 /\ v[n + 1] = c
      /\ \A i \in 1 .. n : v[i] = w[i]
      /\ Grams(v) \in Seq(Trigrams) /\ Len(Grams(v)) = n + 3
      /\ \A i \in 1 .. n : Grams(v)[i] = Grams(w)[i]
      /\ Grams(v)[n + 1] = << Padded(w, n - 1), Padded(w, n), c >>
  <2>1. n \in Nat /\ v \in Seq(Bytes) /\ Len(v) = n + 1 /\ v[n + 1] = c
        /\ \A i \in 1 .. n : v[i] = w[i]
    OBVIOUS
  <2>2. /\ \A i \in 1 .. n : Grams(v)[i] = Grams(w)[i]
        /\ Grams(v)[n + 1] = << Padded(w, n - 1), Padded(w, n), c >>
    BY GramsAppend
  <2> HIDE DEF v
  <2>3. Grams(v) \in Seq(Trigrams) /\ Len(Grams(v)) = Len(v) + 2
    BY <2>1, GramsType
  <2> HIDE DEF n
  <2> QED
    BY <2>1, <2>2, <2>3
<1>2. /\ q \in Queries /\ q.length = n /\ QueryOk(q, Grams(w), n, limit)
      /\ n >= 1 => q.last = w[n]
      /\ n >= 2 => q.previous = w[n - 1]
  BY DEF Follows, QueryOk
<1> HIDE DEF v, n
<1>3. QueryOk(q, Grams(v), n, limit)
  BY <1>1, <1>2, SameBeginning
<1>4. /\ QueryOk(a, Grams(v), n + 1, limit)
      /\ a.previous = q.previous /\ a.last = q.last /\ a.length = q.length
  <2>1. n + 1 <= Len(Grams(v))
    BY <1>1
  <2> QED
    BY <1>1, <1>3, <2>1, AddGramCounts
<1>5. Grams(v)[n + 1] = IF n = 0 THEN << Space, Space, c >>
                        ELSE IF n = 1 THEN << Space, q.last, c >>
                        ELSE << q.previous, q.last, c >>
  <2>0. Len(w) = n
    BY DEF n
  <2>1. CASE n = 0
    <3>1. Padded(w, n - 1) = Space /\ Padded(w, n) = Space
      BY <2>0, <2>1 DEF Padded
    <3> QED
      BY <1>1, <2>1, <3>1
  <2>2. CASE n = 1
    <3>1. Padded(w, n - 1) = Space /\ Padded(w, n) = w[n]
      BY <2>0, <2>2 DEF Padded
    <3> QED
      BY <1>1, <1>2, <2>2, <3>1
  <2>3. CASE n >= 2
    <3>1. n - 1 \in 1 .. Len(w) /\ n \in 1 .. Len(w) /\ n # 0 /\ n # 1
      BY <1>1, <2>0, <2>3
    <3>2. Padded(w, n - 1) = w[n - 1] /\ Padded(w, n) = w[n]
      BY <3>1 DEF Padded
    <3> QED
      BY <1>1, <1>2, <2>3, <3>1, <3>2
  <2> QED
    BY <1>1, <2>1, <2>2, <2>3
<1> HIDE DEF a
<1> DEFINE p == [a EXCEPT !.previous = IF q.length = 0 THEN a.previous ELSE q.last,
                          !.last = c, !.length = a.length + 1]
<1>6. Push(q, c, limit) = p
  BY <1>2, <1>5 DEF Push, a
<1>7. /\ p \in Queries /\ p.seen = a.seen /\ p.same = a.same /\ p.overflow = a.overflow
      /\ p.last = c /\ p.length = n + 1
      /\ n >= 1 => p.previous = q.last
  <2>1. /\ a \in Queries /\ q.last \in Characters /\ a.previous \in Characters
        /\ c \in Characters /\ a.length = n /\ n + 1 \in Nat
    BY <1>1, <1>2, <1>4 DEF QueryOk, Queries, Characters
  <2>2. p \in Queries
    BY <2>1 DEF Queries
  <2> QED
    BY <1>1, <1>2, <2>1, <2>2 DEF Queries
<1> HIDE DEF p
<1>8. QueryOk(p, Grams(v), n + 1, limit)
  BY <1>4, <1>7 DEF QueryOk, CountsCommon, Begins
<1>9. /\ n + 1 >= 1 => p.last = v[n + 1]
      /\ n + 1 >= 2 => p.previous = v[(n + 1) - 1]
  <2>1. (n + 1) - 1 = n /\ (n + 1 >= 2 => n >= 1 /\ n \in 1 .. n)
    BY <1>1
  <2>2. n + 1 >= 2 => v[n] = w[n] /\ q.last = w[n] /\ p.previous = q.last
    BY <1>1, <1>2, <1>7, <2>1
  <2> QED
    BY <1>1, <1>7, <2>1, <2>2
<1>10. Follows(p, v, limit)
  <2>1. Len(v) = n + 1
    BY <1>1
  <2> QED
    BY <1>7, <1>8, <1>9, <2>1 DEF Follows
<1> QED
  BY <1>6, <1>10 DEF v

\* xdp_jaccard_close: all that is counted of the word is counted now.
LEMMA CloseFollows ==
  ASSUME NEW limit \in Nat, NEW w \in Seq(Bytes), w # << >>, NEW q, Follows(q, w, limit)
  PROVE  QueryOk(Close(q, limit), Counted(w), Len(Counted(w)), limit)
<1> DEFINE n == Len(w)
           g == Grams(w)
           t == Counted(w)
<1>1. n \in Nat /\ n >= 1
  OBVIOUS
<1>2. /\ g \in Seq(Trigrams) /\ Len(g) = n + 2 /\ t \in Seq(Trigrams)
      /\ n # 1 => t = g
      /\ n = 1 => Len(t) = 2
  BY GramsType
<1>3. /\ QueryOk(q, g, n, limit) /\ q.length = n /\ q.last = w[n]
      /\ n >= 2 => q.previous = w[n - 1]
  BY <1>1 DEF Follows
<1> HIDE DEF n, g, t
<1>4. CASE n = 1
  <2>1. t = << << Space, Space, w[1] >>, << w[1], Space, Space >> >> /\ Len(t) = 2
    BY <1>2, <1>4 DEF Counted, t, n
  <2>2. g[1] = << Space, Space, w[1] >>
    <3>1. Padded(w, -1) = Space /\ Padded(w, 0) = Space /\ Padded(w, 1) = w[1]
      BY <1>4 DEF Padded, n
    <3>2. 1 \in 1 .. n + 2 /\ 1 - 2 = -1 /\ 1 - 1 = 0
      BY <1>4
    <3>3. g[1] = << Padded(w, 1 - 2), Padded(w, 1 - 1), Padded(w, 1) >>
      BY <3>2 DEF Grams, g, n
    <3> QED
      BY <3>1, <3>2, <3>3
  <2>3. QueryOk(q, t, 1, limit)
    <3>1. \A i \in 1 .. 1 : t[i] = g[i]
      BY <2>1, <2>2
    <3> QED
      BY <1>3, <1>4, <3>1, SameBeginning
  <2>4. QueryOk(AddGram(q, t[1 + 1], limit), t, 1 + 1, limit)
    <3>1. 1 \in Nat /\ 1 + 1 <= Len(t)
      BY <2>1
    <3> QED
      BY <1>2, <2>3, <3>1, AddGramCounts
  <2>5. Close(q, limit) = AddGram(q, t[2], limit)
    BY <1>3, <1>4, <2>1 DEF Close
  <2> QED
    BY <2>1, <2>4, <2>5 DEF t
<1>5. CASE n >= 2
  <2>1. /\ g[n + 1] = << w[n - 1], w[n], Space >>
        /\ g[n + 2] = << w[n], Space, Space >>
    <3>1. /\ n + 1 \in 1 .. n + 2 /\ n + 2 \in 1 .. n + 2
          /\ (n + 1) - 2 = n - 1 /\ (n + 1) - 1 = n /\ (n + 2) - 2 = n /\ (n + 2) - 1 = n + 1
          /\ n - 1 \in 1 .. n /\ n \in 1 .. n /\ n + 1 \notin 1 .. n /\ n + 2 \notin 1 .. n
      BY <1>1, <1>5
    <3>2. /\ Padded(w, n - 1) = w[n - 1] /\ Padded(w, n) = w[n]
          /\ Padded(w, n + 1) = Space /\ Padded(w, n + 2) = Space
      BY <3>1 DEF Padded, n
    <3>3. /\ g[n + 1] = << Padded(w, (n + 1) - 2), Padded(w, (n + 1) - 1), Padded(w, n + 1) >>
          /\ g[n + 2] = << Padded(w, (n + 2) - 2), Padded(w, (n + 2) - 1), Padded(w, n + 2) >>
      BY <3>1 DEF Grams, g, n
    <3> QED
      BY <3>1, <3>2, <3>3
  <2>2. t = g
    BY <1>1, <1>2, <1>5
  <2> DEFINE a == AddGram(q, g[n + 1], limit)
  <2>3. QueryOk(a, g, n + 1, limit) /\ a.last = q.last
    <3>1. n + 1 <= Len(g)
      BY <1>1, <1>2
    <3>2. g \in Seq(Trigrams) /\ n \in Nat /\ QueryOk(q, g, n, limit)
      BY <1>1, <1>2, <1>3
    <3> QED
      BY <3>1, <3>2, AddGramCounts
  <2>4. Close(q, limit) = AddGram(a, g[n + 2], limit)
    <3>1. g[n + 1] = << q.previous, q.last, Space >> /\ g[n + 2] = << q.last, Space, Space >>
      BY <1>3, <1>5, <2>1
    <3>2. q.length # 1
      BY <1>1, <1>3, <1>5
    <3> QED
      BY <3>1, <3>2 DEF Close
  <2> HIDE DEF a
  <2>5. QueryOk(AddGram(a, g[(n + 1) + 1], limit), g, (n + 1) + 1, limit)
    <3>1. n + 1 \in Nat /\ (n + 1) + 1 <= Len(g)
      BY <1>1, <1>2
    <3> QED
      BY <1>2, <2>3, <3>1, AddGramCounts
  <2>6. (n + 1) + 1 = n + 2 /\ n + 2 = Len(g)
    BY <1>1, <1>2
  <2>7. QueryOk(Close(q, limit), g, Len(g), limit)
    BY <2>4, <2>5, <2>6
  <2> QED
    BY <2>2, <2>7 DEF t
<1> QED
  BY <1>1, <1>4, <1>5

\* xdp_jaccard_match_query: a query that has counted all of them matches the
\* keywords that are similar, and none if there was no room.
LEMMA MatchFollows ==
  ASSUME NEW limit \in Nat, NEW grams \in Seq(Trigrams), NEW q,
         QueryOk(q, grams, Len(grams), limit)
  PROVE  MatchQuery(q) =
           { k \in Keywords : Len(grams) <= limit /\ ReferenceSimilar(grams, k) }
<1>1. /\ q.seen \in Seq(Trigrams) /\ q.overflow \in BOOLEAN /\ Len(grams) \in Nat
      /\ Len(q.seen) = SmallerOf(Len(grams), limit) /\ (q.overflow <=> Len(grams) > limit)
      /\ \A i \in 1 .. Len(q.seen) : q.seen[i] = grams[i]
      /\ \A k \in Keywords : q.same[k] = Common(Grams(k.text), q.seen)
  BY DEF QueryOk, Queries, Begins, CountsCommon
<1>2. CASE Len(grams) > limit
  BY <1>1, <1>2 DEF MatchQuery
<1>3. CASE Len(grams) <= limit
  <2>1. q.seen = grams
    BY <1>1, <1>3 DEF SmallerOf
  <2>2. ASSUME NEW k \in Keywords
        PROVE  Similar(q.same[k], Len(q.seen), k) <=> ReferenceSimilar(grams, k)
    <3> DEFINE right == Grams(k.text)
               same == Common(grams, right)
               all == Len(grams) + Len(right) - same
    <3>1. right \in Seq(Trigrams) /\ Len(right) = Len(k.text) + 2 /\ k.threshold_milli \in Nat
      BY JaccardAssumption, GramsType
    <3>2. same \in Nat /\ q.same[k] = same
      BY <1>1, <2>1, <3>1, CommonIsTotal, CommonSwaps
    <3>3. all \in Int /\ Len(q.seen) + (Len(k.text) + 2) - q.same[k] = all
      BY <1>1, <2>1, <3>1, <3>2
    <3>4. Similar(q.same[k], Len(q.seen), k) <=>
            /\ same # 0
            /\ (all * all - (all - same) * (all - same)) * 1000 >= all * all * k.threshold_milli
      BY <3>2, <3>3 DEF Similar
    <3>5. ReferenceSimilar(grams, k) <=>
            /\ same > 0
            /\ 1000 * (all * all - (all - same) * (all - same)) >= k.threshold_milli * all * all
      BY DEF ReferenceSimilar
    <3> HIDE DEF right, same, all
    <3> DEFINE x == all * all
               y == (all - same) * (all - same)
               z == k.threshold_milli
    <3>6. x \in Int /\ y \in Int /\ z \in Int /\ k.threshold_milli * all * all = x * z
      BY <3>1, <3>2, <3>3
    <3>7. (x - y) * 1000 = 1000 * (x - y)
      BY <3>6
    <3> QED
      BY <3>2, <3>4, <3>5, <3>6, <3>7
  <2>3. MatchQuery(q) = { k \in Keywords : Similar(q.same[k], Len(q.seen), k) }
    BY <1>1, <1>3 DEF MatchQuery
  <2> QED
    BY <1>3, <2>2, <2>3
<1> QED
  BY <1>1, <1>2, <1>3

-----------------------------------------------------------------------------
(* N-grams: the words of a text. *)

\* The words that the text has gone past, and the m characters of the one under
\* way.
EndedWords(t) == { r \in WordRanges(t) : r[2] < Len(t) }

OpenWord(t, m) ==
  /\ m \in Nat /\ m <= Len(t)
  /\ \A n \in (Len(t) - m) + 1 .. Len(t) : t[n] \in JaccardWordChars
  /\ Len(t) > m => t[Len(t) - m] \notin JaccardWordChars

TheWord(t, m) == SubSeq(t, (Len(t) - m) + 1, Len(t))

\* The keywords that a word, or the whole text, is similar to.
SimilarTo(w, limit) ==
  { k \in Keywords : Len(Counted(w)) <= limit /\ ReferenceSimilar(Counted(w), k) }

SimilarToWords(t, ranges) == UNION { SimilarTo(SubSeq(t, r[1], r[2]), MaxGrams) : r \in ranges }

\* A character of a word ends none.
LEMMA WordGoesOn ==
  ASSUME NEW t \in Seq(Bytes), NEW c \in Bytes, c \in JaccardWordChars,
         NEW m, OpenWord(t, m)
  PROVE  /\ EndedWords(Append(t, c)) = EndedWords(t)
         /\ OpenWord(Append(t, c), m + 1)
         /\ TheWord(Append(t, c), m + 1) = Append(TheWord(t, m), c)
         /\ TheWord(t, m) \in Seq(Bytes) /\ Len(TheWord(t, m)) = m
<1> DEFINE n == Len(t)
           u == Append(t, c)
<1>1. /\ n \in Nat /\ u \in Seq(Bytes) /\ Len(u) = n + 1 /\ u[n + 1] = c
      /\ DOMAIN t = 1 .. n /\ DOMAIN u = 1 .. n + 1
      /\ \A i \in 1 .. n : u[i] = t[i]
  OBVIOUS
<1>2. /\ m \in Nat /\ m <= n /\ \A i \in (n - m) + 1 .. n : t[i] \in JaccardWordChars
      /\ n > m => t[n - m] \notin JaccardWordChars
  BY DEF OpenWord
<1>3. /\ TheWord(u, m + 1) = Append(TheWord(t, m), c)
      /\ TheWord(t, m) \in Seq(Bytes) /\ Len(TheWord(t, m)) = m
  <2>1. /\ (n - m) + 1 \in 1 .. n + 1 /\ ((n + 1) - (m + 1)) + 1 = (n - m) + 1
    BY <1>1, <1>2
  <2> QED
    BY <1>1, <1>2, <2>1 DEF TheWord
<1> HIDE DEF n, u
<1>4. OpenWord(u, m + 1)
  <2>1. (n + 1) - (m + 1) = n - m /\ m + 1 \in Nat /\ m + 1 <= n + 1
    BY <1>1, <1>2
  <2>2. \A i \in (n - m) + 1 .. n + 1 : u[i] \in JaccardWordChars
    <3>1. ASSUME NEW i \in (n - m) + 1 .. n + 1
          PROVE  u[i] \in JaccardWordChars
      <4>1. CASE i = n + 1
        BY <1>1, <4>1
      <4>2. CASE i # n + 1
        <5>1. i \in (n - m) + 1 .. n /\ i \in 1 .. n
          BY <1>1, <1>2, <4>2
        <5> QED
          BY <1>1, <1>2, <5>1
      <4> QED
        BY <4>1, <4>2
    <3> QED
      BY <3>1
  <2>3. n + 1 > m + 1 => u[n - m] \notin JaccardWordChars
    <3>1. n + 1 > m + 1 => n > m /\ n - m \in 1 .. n
      BY <1>1, <1>2
    <3> QED
      BY <1>1, <1>2, <3>1
  <2> QED
    BY <1>1, <2>1, <2>2, <2>3 DEF OpenWord
<1>5. ASSUME NEW r
      PROVE  r \in EndedWords(u) <=> r \in EndedWords(t)
  <2>1. ASSUME r \in EndedWords(u) PROVE r \in EndedWords(t)
    <3>1. /\ r \in (1 .. n + 1) \X (1 .. n + 1) /\ r[2] < n + 1 /\ r[1] <= r[2]
          /\ \A i \in r[1] .. r[2] : u[i] \in JaccardWordChars
          /\ r[1] > 1 => u[r[1] - 1] \notin JaccardWordChars
          /\ u[r[2] + 1] \notin JaccardWordChars
      BY <1>1, <2>1 DEF EndedWords, WordRanges
    <3>2. r[1] \in 1 .. n + 1 /\ r[2] \in 1 .. n + 1 /\ r = << r[1], r[2] >>
      BY <3>1
    <3>3. r[2] # n
      BY <1>1, <3>1
    <3>4. r[1] \in 1 .. n /\ r[2] \in 1 .. n /\ r[2] < n /\ r[2] + 1 \in 1 .. n
      BY <1>1, <3>1, <3>2, <3>3
    <3>5. /\ \A i \in r[1] .. r[2] : t[i] \in JaccardWordChars
          /\ r[1] > 1 => t[r[1] - 1] \notin JaccardWordChars
          /\ t[r[2] + 1] \notin JaccardWordChars
      <4>1. /\ \A i \in r[1] .. r[2] : i \in 1 .. n
            /\ r[1] > 1 => r[1] - 1 \in 1 .. n
        BY <1>1, <3>4
      <4> QED
        BY <1>1, <3>1, <3>4, <4>1
    <3>6. r \in (1 .. n) \X (1 .. n)
      BY <3>2, <3>4
    <3> QED
      BY <1>1, <3>1, <3>4, <3>5, <3>6 DEF EndedWords, WordRanges, n
  <2>2. ASSUME r \in EndedWords(t) PROVE r \in EndedWords(u)
    <3>1. /\ r \in (1 .. n) \X (1 .. n) /\ r[2] < n /\ r[1] <= r[2]
          /\ \A i \in r[1] .. r[2] : t[i] \in JaccardWordChars
          /\ r[1] > 1 => t[r[1] - 1] \notin JaccardWordChars
          /\ t[r[2] + 1] \notin JaccardWordChars
      BY <1>1, <2>2 DEF EndedWords, WordRanges, n
    <3>2. r[1] \in 1 .. n /\ r[2] \in 1 .. n /\ r = << r[1], r[2] >>
      BY <3>1
    <3>3. /\ r[1] \in 1 .. n + 1 /\ r[2] \in 1 .. n + 1 /\ r[2] < n + 1 /\ r[2] + 1 \in 1 .. n
      BY <1>1, <3>1, <3>2
    <3>4. /\ \A i \in r[1] .. r[2] : u[i] \in JaccardWordChars
          /\ r[1] > 1 => u[r[1] - 1] \notin JaccardWordChars
          /\ u[r[2] + 1] \notin JaccardWordChars
      <4>1. /\ \A i \in r[1] .. r[2] : i \in 1 .. n
            /\ r[1] > 1 => r[1] - 1 \in 1 .. n
        BY <1>1, <3>2
      <4> QED
        BY <1>1, <3>1, <3>3, <4>1
    <3>5. r \in (1 .. n + 1) \X (1 .. n + 1)
      BY <3>2, <3>3
    <3> QED
      BY <1>1, <3>1, <3>3, <3>4, <3>5 DEF EndedWords, WordRanges
  <2> QED
    BY <2>1, <2>2
<1>6. EndedWords(u) = EndedWords(t)
  BY <1>5
<1> QED
  BY <1>3, <1>4, <1>6 DEF u

\* Any other ends the word under way, if there is one.
LEMMA WordEnds ==
  ASSUME NEW t \in Seq(Bytes), NEW c \in Bytes, c \notin JaccardWordChars
  PROVE  EndedWords(Append(t, c)) = WordRanges(t) /\ OpenWord(Append(t, c), 0)
<1> DEFINE n == Len(t)
           u == Append(t, c)
<1>1. /\ n \in Nat /\ u \in Seq(Bytes) /\ Len(u) = n + 1 /\ u[n + 1] = c
      /\ DOMAIN t = 1 .. n /\ DOMAIN u = 1 .. n + 1
      /\ \A i \in 1 .. n : u[i] = t[i]
  OBVIOUS
<1> HIDE DEF n, u
<1>2. OpenWord(u, 0)
  <2>1. (n + 1) - 0 = n + 1 /\ 0 <= n + 1 /\ \A i \in ((n + 1) - 0) + 1 .. n + 1 : FALSE
    BY <1>1
  <2> QED
    BY <1>1, <2>1 DEF OpenWord
<1>3. ASSUME NEW r
      PROVE  r \in EndedWords(u) <=> r \in WordRanges(t)
  <2>1. ASSUME r \in EndedWords(u) PROVE r \in WordRanges(t)
    <3>1. /\ r \in (1 .. n + 1) \X (1 .. n + 1) /\ r[2] < n + 1 /\ r[1] <= r[2]
          /\ \A i \in r[1] .. r[2] : u[i] \in JaccardWordChars
          /\ r[1] > 1 => u[r[1] - 1] \notin JaccardWordChars
          /\ u[r[2] + 1] \notin JaccardWordChars
      BY <1>1, <2>1 DEF EndedWords, WordRanges
    <3>2. r[1] \in 1 .. n + 1 /\ r[2] \in 1 .. n + 1 /\ r = << r[1], r[2] >>
      BY <3>1
    <3>3. r[1] \in 1 .. n /\ r[2] \in 1 .. n /\ (r[2] < n => r[2] + 1 \in 1 .. n)
      BY <1>1, <3>1, <3>2
    <3>4. /\ \A i \in r[1] .. r[2] : t[i] \in JaccardWordChars
          /\ r[1] > 1 => t[r[1] - 1] \notin JaccardWordChars
          /\ r[2] < n => t[r[2] + 1] \notin JaccardWordChars
      <4>1. /\ \A i \in r[1] .. r[2] : i \in 1 .. n
            /\ r[1] > 1 => r[1] - 1 \in 1 .. n
        BY <1>1, <3>3
      <4> QED
        BY <1>1, <3>1, <3>3, <4>1
    <3>5. r \in (1 .. n) \X (1 .. n)
      BY <3>2, <3>3
    <3> QED
      BY <1>1, <3>1, <3>4, <3>5 DEF WordRanges, n
  <2>2. ASSUME r \in WordRanges(t) PROVE r \in EndedWords(u)
    <3>1. /\ r \in (1 .. n) \X (1 .. n) /\ r[1] <= r[2]
          /\ \A i \in r[1] .. r[2] : t[i] \in JaccardWordChars
          /\ r[1] > 1 => t[r[1] - 1] \notin JaccardWordChars
          /\ r[2] < n => t[r[2] + 1] \notin JaccardWordChars
      BY <1>1, <2>2 DEF WordRanges, n
    <3>2. r[1] \in 1 .. n /\ r[2] \in 1 .. n /\ r = << r[1], r[2] >>
      BY <3>1
    <3>3. /\ r[1] \in 1 .. n + 1 /\ r[2] \in 1 .. n + 1 /\ r[2] < n + 1
          /\ r[2] < n => r[2] + 1 \in 1 .. n
          /\ ~ (r[2] < n) => r[2] + 1 = n + 1
      BY <1>1, <3>2
    <3>4. /\ \A i \in r[1] .. r[2] : u[i] \in JaccardWordChars
          /\ r[1] > 1 => u[r[1] - 1] \notin JaccardWordChars
          /\ u[r[2] + 1] \notin JaccardWordChars
      <4>1. /\ \A i \in r[1] .. r[2] : i \in 1 .. n
            /\ r[1] > 1 => r[1] - 1 \in 1 .. n
        BY <1>1, <3>2
      <4>2. CASE r[2] < n
        BY <1>1, <3>1, <3>3, <4>1, <4>2
      <4>3. CASE ~ (r[2] < n)
        BY <1>1, <3>1, <3>3, <4>1, <4>3
      <4> QED
        BY <4>2, <4>3
    <3>5. r \in (1 .. n + 1) \X (1 .. n + 1)
      BY <3>2, <3>3
    <3> QED
      BY <1>1, <3>1, <3>3, <3>4, <3>5 DEF EndedWords, WordRanges
  <2> QED
    BY <2>1, <2>2
<1>4. EndedWords(u) = WordRanges(t)
  BY <1>3
<1> QED
  BY <1>2, <1>4 DEF u

\* The words of a text are those it has gone past and the one at its end.
LEMMA LastWord ==
  ASSUME NEW t \in Seq(Bytes), NEW m, OpenWord(t, m)
  PROVE  WordRanges(t) =
           EndedWords(t) \cup (IF m = 0 THEN {} ELSE { << (Len(t) - m) + 1, Len(t) >> })
<1> DEFINE n == Len(t)
<1>1. /\ n \in Nat /\ DOMAIN t = 1 .. n
  OBVIOUS
<1>2. /\ m \in Nat /\ m <= n /\ \A i \in (n - m) + 1 .. n : t[i] \in JaccardWordChars
      /\ n > m => t[n - m] \notin JaccardWordChars
  BY DEF OpenWord
<1> HIDE DEF n
<1>3. ASSUME NEW r \in WordRanges(t), r[2] >= n
      PROVE  m # 0 /\ r = << (n - m) + 1, n >>
  <2>1. /\ r \in (1 .. n) \X (1 .. n) /\ r[1] <= r[2]
        /\ \A i \in r[1] .. r[2] : t[i] \in JaccardWordChars
        /\ r[1] > 1 => t[r[1] - 1] \notin JaccardWordChars
    BY <1>1 DEF WordRanges, n
  <2>2. r[1] \in 1 .. n /\ r[2] = n /\ r = << r[1], r[2] >>
    BY <1>1, <1>3, <2>1
  <2>3. ~ (r[1] < (n - m) + 1)
    <3> SUFFICES ASSUME r[1] < (n - m) + 1 PROVE FALSE
      OBVIOUS
    <3>1. n - m \in r[1] .. r[2] /\ n > m
      BY <1>1, <1>2, <2>2
    <3> QED
      BY <1>2, <2>1, <3>1
  <2>4. ~ (r[1] > (n - m) + 1)
    <3> SUFFICES ASSUME r[1] > (n - m) + 1 PROVE FALSE
      OBVIOUS
    <3>1. r[1] - 1 \in (n - m) + 1 .. n /\ r[1] > 1
      BY <1>1, <1>2, <2>2
    <3> QED
      BY <1>2, <2>1, <3>1
  <2>5. r[1] = (n - m) + 1
    BY <1>1, <1>2, <2>2, <2>3, <2>4
  <2> QED
    BY <1>1, <1>2, <2>2, <2>5
<1>4. ASSUME m # 0
      PROVE  << (n - m) + 1, n >> \in WordRanges(t)
  <2> DEFINE r == << (n - m) + 1, n >>
  <2>1. /\ r[1] = (n - m) + 1 /\ r[2] = n /\ r[1] \in 1 .. n /\ r[2] \in 1 .. n /\ r[1] <= r[2]
    BY <1>1, <1>2, <1>4
  <2>2. r \in (1 .. n) \X (1 .. n)
    BY <2>1
  <2>3. r[1] > 1 => r[1] - 1 = n - m /\ n > m
    BY <1>1, <1>2, <2>1
  <2> HIDE DEF r
  <2>4. r \in WordRanges(t)
    BY <1>1, <1>2, <2>1, <2>2, <2>3 DEF WordRanges, n
  <2> QED
    BY <2>4 DEF r
<1>5. \A r \in WordRanges(t) : r[2] < n \/ r[2] >= n
  BY <1>1 DEF WordRanges
<1>6. EndedWords(t) = { r \in WordRanges(t) : r[2] < n }
  BY DEF EndedWords, n
<1>7. WordRanges(t) = EndedWords(t) \cup (IF m = 0 THEN {} ELSE { << (n - m) + 1, n >> })
  BY <1>3, <1>4, <1>5, <1>6
<1> QED
  BY <1>7 DEF n

\* Later bytes change no part of the text.
LEMMA SamePart ==
  ASSUME NEW t \in Seq(Bytes), NEW c \in Bytes, NEW a \in 1 .. Len(t), NEW b \in 1 .. Len(t)
  PROVE  SubSeq(Append(t, c), a, b) = SubSeq(t, a, b)
<1> DEFINE u == Append(t, c)
           size == IF a <= b THEN b - a + 1 ELSE 0
<1>1. /\ Len(u) = Len(t) + 1 /\ u \in Seq(Bytes) /\ \A i \in 1 .. Len(t) : u[i] = t[i]
  OBVIOUS
<1>2. a \in Int /\ b \in Int /\ \A i \in a .. b : i \in 1 .. Len(t)
  OBVIOUS
<1>3. \A i \in a .. b : t[i] \in Bytes /\ u[i] \in Bytes /\ u[i] = t[i]
  BY <1>1, <1>2
<1> HIDE DEF u
<1>4. /\ SubSeq(t, a, b) \in Seq(Bytes) /\ Len(SubSeq(t, a, b)) = size
      /\ \A i \in 1 .. b - a + 1 : SubSeq(t, a, b)[i] = t[a + i - 1]
  BY <1>2, <1>3, SubSeqProperties
<1>5. /\ SubSeq(u, a, b) \in Seq(Bytes) /\ Len(SubSeq(u, a, b)) = size
      /\ \A i \in 1 .. b - a + 1 : SubSeq(u, a, b)[i] = u[a + i - 1]
  BY <1>2, <1>3, SubSeqProperties
<1>6. size \in Nat /\ \A i \in 1 .. size : i \in 1 .. b - a + 1 /\ a + i - 1 \in a .. b
  BY <1>2
<1> HIDE DEF size
<1>7. \A i \in 1 .. size : SubSeq(u, a, b)[i] = SubSeq(t, a, b)[i]
  BY <1>3, <1>4, <1>5, <1>6
<1>8. SubSeq(u, a, b) = SubSeq(t, a, b)
  BY <1>4, <1>5, <1>7
<1> QED
  BY <1>8 DEF u

\* Nor any word.
LEMMA SameWords ==
  ASSUME NEW t \in Seq(Bytes), NEW c \in Bytes, NEW R, R \subseteq WordRanges(t)
  PROVE  SimilarToWords(Append(t, c), R) = SimilarToWords(t, R)
<1>1. ASSUME NEW r \in R
      PROVE  SubSeq(Append(t, c), r[1], r[2]) = SubSeq(t, r[1], r[2])
  <2>1. r[1] \in 1 .. Len(t) /\ r[2] \in 1 .. Len(t)
    <3>1. r \in (1 .. Len(t)) \X (1 .. Len(t))
      BY DEF WordRanges
    <3> QED
      BY <3>1
  <2> QED
    BY <2>1, SamePart
<1> QED
  BY <1>1 DEF SimilarToWords

\* What the word under way adds at its end.
LEMMA WordIsMatched ==
  ASSUME NEW s, s \in [matched : SUBSET Keywords, word : Queries, full : Queries],
         NEW t \in Seq(Bytes), NEW m, OpenWord(t, m), s.word.length = m,
         Follows(s.word, TheWord(t, m), MaxGrams),
         s.matched = SimilarToWords(t, EndedWords(t))
  PROVE  /\ FinishWord(s) \in [matched : SUBSET Keywords, word : Queries, full : Queries]
         /\ FinishWord(s).full = s.full
         /\ FinishWord(s).matched = SimilarToWords(t, WordRanges(t))
<1>1. MaxGrams \in Nat
  BY JaccardAssumption
<1>2. CASE m = 0
  <2>1. FinishWord(s) = s
    BY <1>2 DEF FinishWord
  <2>2. WordRanges(t) = EndedWords(t)
    BY <1>2, LastWord
  <2> QED
    BY <2>1, <2>2
<1>3. CASE m # 0
  <2> DEFINE w == TheWord(t, m)
             closed == Close(s.word, MaxGrams)
             n == Len(t)
  <2>1. w \in Seq(Bytes) /\ w # << >> /\ w = SubSeq(t, (n - m) + 1, n)
    <3>1. m \in Nat /\ m <= n /\ n \in Nat /\ (n - m) + 1 \in 1 .. n
      BY <1>3 DEF OpenWord
    <3>2. \A i \in (n - m) + 1 .. n : t[i] \in Bytes
      BY <3>1
    <3>3. w = SubSeq(t, (n - m) + 1, n)
      BY DEF TheWord
    <3> HIDE DEF w, n
    <3>4. w \in Seq(Bytes) /\ Len(w) = (n - ((n - m) + 1)) + 1
      BY <3>1, <3>2, <3>3, SubSeqProperties
    <3>5. Len(w) # 0
      BY <1>3, <3>1, <3>4
    <3> QED
      BY <3>3, <3>4, <3>5
  <2> HIDE DEF w, n
  <2>2. QueryOk(closed, Counted(w), Len(Counted(w)), MaxGrams)
    BY <1>1, <2>1, CloseFollows DEF w
  <2>3. Counted(w) \in Seq(Trigrams)
    BY <2>1, GramsType
  <2>4. MatchQuery(closed) = SimilarTo(w, MaxGrams)
    BY <1>1, <2>2, <2>3, MatchFollows DEF SimilarTo
  <2>5. FinishWord(s) = [s EXCEPT !.word = closed, !.matched = @ \cup MatchQuery(closed)]
    BY <1>3 DEF FinishWord
  <2>6. closed \in Queries
    BY <2>2 DEF QueryOk
  <2>7. MatchQuery(closed) \in SUBSET Keywords
    BY <2>4 DEF SimilarTo
  <2>8. SimilarToWords(t, WordRanges(t)) = SimilarToWords(t, EndedWords(t)) \cup SimilarTo(w, MaxGrams)
    <3>1. WordRanges(t) = EndedWords(t) \cup { << (n - m) + 1, n >> }
      BY <1>3, LastWord DEF n
    <3>2. SimilarToWords(t, WordRanges(t)) =
            SimilarToWords(t, EndedWords(t)) \cup SimilarTo(SubSeq(t, (n - m) + 1, n), MaxGrams)
      <4> DEFINE last == << (n - m) + 1, n >>
      <4>1. last[1] = (n - m) + 1 /\ last[2] = n
        OBVIOUS
      <4> HIDE DEF last
      <4>2. ASSUME NEW k
            PROVE  k \in SimilarToWords(t, EndedWords(t) \cup { last }) <=>
                     \/ k \in SimilarToWords(t, EndedWords(t))
                     \/ k \in SimilarTo(SubSeq(t, last[1], last[2]), MaxGrams)
        BY DEF SimilarToWords
      <4> QED
        BY <3>1, <4>1, <4>2 DEF last
    <3> QED
      BY <2>1, <3>2
  <2> HIDE DEF closed
  <2> QED
    BY <2>4, <2>5, <2>6, <2>7, <2>8
<1> QED
  BY <1>2, <1>3

-----------------------------------------------------------------------------
(* N-grams: the invariant. *)

JaccardInv ==
  /\ text \in Seq(Bytes)
  /\ jaccard \in [matched : SUBSET Keywords, word : Queries, full : Queries]
  /\ finished => jaccard.matched = CountedKeywords
  /\ ~finished =>
       /\ OpenWord(text, jaccard.word.length)
       /\ Follows(jaccard.word, TheWord(text, jaccard.word.length), MaxGrams)
       /\ Follows(jaccard.full, text, MaxTextGrams)
       /\ jaccard.matched = SimilarToWords(text, EndedWords(text))

LEMMA InitJaccardInv == ClassifierInit => JaccardInv
<1> SUFFICES ASSUME ClassifierInit PROVE JaccardInv
  OBVIOUS
<1>1. text = << >> /\ finished = FALSE /\ jaccard = NewJaccard
  BY DEF ClassifierInit, Init
<1>2. jaccard.word = NewQuery /\ jaccard.full = NewQuery /\ jaccard.matched = {}
      /\ NewQuery.length = 0
  BY <1>1 DEF NewJaccard, NewQuery
<1>3. \A limit \in Nat : Follows(NewQuery, << >>, limit)
  <2>1. NewQuery = [NewQuery EXCEPT !.previous = Space, !.last = Space]
    <3>1. NewQuery.previous = Space /\ NewQuery.last = Space
      BY DEF NewQuery
    <3> QED
      BY <3>1, NewQueryType DEF Queries
  <2>2. Space \in Characters
    BY DEF Characters
  <2> QED
    BY <2>1, <2>2, EmptyFollows
<1>4. MaxGrams \in Nat /\ MaxTextGrams \in Nat
  BY JaccardAssumption
<1>5. NewQuery \in Queries
  BY <1>3, <1>4 DEF Follows, QueryOk
<1>6. jaccard \in [matched : SUBSET Keywords, word : Queries, full : Queries]
  BY <1>1, <1>5 DEF NewJaccard
<1>7. text \in Seq(Bytes) /\ Len(text) = 0 /\ TheWord(text, 0) = << >>
  BY <1>1 DEF TheWord
<1>8. OpenWord(text, 0)
  BY <1>7 DEF OpenWord
<1>9. SimilarToWords(text, EndedWords(text)) = {}
  <2>1. EndedWords(text) = {}
    BY <1>1 DEF EndedWords, WordRanges
  <2> QED
    BY <2>1 DEF SimilarToWords
<1> QED
  BY <1>1, <1>2, <1>3, <1>4, <1>6, <1>7, <1>8, <1>9 DEF JaccardInv

LEMMA ClassifyKeepsJaccardInv ==
  ASSUME JaccardInv, NEW c \in Bytes, Classify(c)
  PROVE  JaccardInv'
<1> DEFINE Signals == [matched : SUBSET Keywords, word : Queries, full : Queries]
           m == jaccard.word.length
           pushed == [jaccard EXCEPT !.full = Push(@, c, MaxTextGrams)]
<1>1. /\ ~finished /\ ~finished' /\ text' = Append(text, c)
      /\ jaccard' = JaccardScore(jaccard, c)
  BY DEF Classify, ScoreChar
<1>2. /\ text \in Seq(Bytes) /\ jaccard \in Signals /\ OpenWord(text, m)
      /\ Follows(jaccard.word, TheWord(text, m), MaxGrams)
      /\ Follows(jaccard.full, text, MaxTextGrams)
      /\ jaccard.matched = SimilarToWords(text, EndedWords(text))
  BY <1>1 DEF JaccardInv
<1>3. MaxGrams \in Nat /\ MaxTextGrams \in Nat
  BY JaccardAssumption
<1>4. Follows(Push(jaccard.full, c, MaxTextGrams), text', MaxTextGrams)
  BY <1>1, <1>2, <1>3, PushFollows
<1>5. Push(jaccard.full, c, MaxTextGrams) \in Queries
  BY <1>4 DEF Follows, QueryOk
<1>6. /\ pushed \in Signals /\ pushed.matched = jaccard.matched /\ pushed.word = jaccard.word
      /\ pushed.full = Push(jaccard.full, c, MaxTextGrams)
  BY <1>2, <1>5
<1>7. jaccard' = IF c \in JaccardWordChars
                   THEN [pushed EXCEPT !.word = Push(@, c, MaxGrams)]
                   ELSE [FinishWord(pushed) EXCEPT !.word = ResetQuery(@)]
  BY <1>1 DEF JaccardScore
<1>8. text' \in Seq(Bytes)
  BY <1>1, <1>2
<1> HIDE DEF pushed
<1>9. CASE c \in JaccardWordChars
  <2> DEFINE next == Push(jaccard.word, c, MaxGrams)
  <2>1. /\ EndedWords(text') = EndedWords(text) /\ OpenWord(text', m + 1)
        /\ TheWord(text', m + 1) = Append(TheWord(text, m), c)
        /\ TheWord(text, m) \in Seq(Bytes) /\ Len(TheWord(text, m)) = m
    BY <1>1, <1>2, <1>9, WordGoesOn
  <2>2. Follows(next, TheWord(text', m + 1), MaxGrams)
    BY <1>2, <1>3, <2>1, PushFollows
  <2>3. next \in Queries /\ next.length = m + 1
    <3>1. Len(TheWord(text', m + 1)) = m + 1
      BY <2>1
    <3> QED
      BY <2>2, <3>1 DEF Follows, QueryOk
  <2> HIDE DEF next
  <2>4. jaccard' = [pushed EXCEPT !.word = next]
    BY <1>6, <1>7, <1>9 DEF next
  <2>5. /\ jaccard' \in Signals /\ jaccard'.matched = jaccard.matched /\ jaccard'.word = next
        /\ jaccard'.full = Push(jaccard.full, c, MaxTextGrams)
    BY <1>6, <2>3, <2>4
  <2>6. SimilarToWords(text', EndedWords(text')) = SimilarToWords(text, EndedWords(text))
    <3>1. EndedWords(text) \subseteq WordRanges(text)
      BY DEF EndedWords
    <3> QED
      BY <1>1, <1>2, <2>1, <3>1, SameWords
  <2> QED
    BY <1>1, <1>2, <1>4, <1>8, <2>1, <2>2, <2>3, <2>5, <2>6 DEF JaccardInv
<1>10. CASE c \notin JaccardWordChars
  <2> DEFINE done == FinishWord(pushed)
             next == ResetQuery(done.word)
  <2>1. EndedWords(text') = WordRanges(text) /\ OpenWord(text', 0)
    BY <1>1, <1>2, <1>10, WordEnds
  <2>2. /\ done \in Signals /\ done.full = pushed.full
        /\ done.matched = SimilarToWords(text, WordRanges(text))
    BY <1>2, <1>6, WordIsMatched
  <2> HIDE DEF done
  <2>3. Follows(next, << >>, MaxGrams)
    <3>1. done.word.previous \in Characters /\ done.word.last \in Characters
      BY <2>2 DEF Queries
    <3> QED
      BY <1>3, <3>1, EmptyFollows DEF ResetQuery
  <2>4. next \in Queries /\ next.length = 0
    BY <2>3 DEF Follows, QueryOk
  <2> HIDE DEF next
  <2>5. jaccard' = [done EXCEPT !.word = next]
    BY <1>7, <1>10, <2>2 DEF next, done
  <2>6. /\ jaccard' \in Signals /\ jaccard'.matched = done.matched /\ jaccard'.word = next
        /\ jaccard'.full = Push(jaccard.full, c, MaxTextGrams)
    BY <1>6, <2>2, <2>4, <2>5
  <2>7. SimilarToWords(text', WordRanges(text)) = SimilarToWords(text, WordRanges(text))
    BY <1>1, <1>2, SameWords
  <2>8. TheWord(text', 0) = << >>
    <3>1. Len(text') \in Nat /\ (Len(text') - 0) + 1 > Len(text')
      BY <1>8
    <3> QED
      BY <1>8, <3>1 DEF TheWord
  <2> QED
    BY <1>1, <1>4, <1>8, <2>1, <2>2, <2>3, <2>4, <2>6, <2>7, <2>8 DEF JaccardInv
<1> QED
  BY <1>9, <1>10

\* The end of the text ends its last word, and compares the whole.
LEMMA DecideFindsKeywords ==
  ASSUME JaccardInv, Decide
  PROVE  JaccardInv'
<1> DEFINE Signals == [matched : SUBSET Keywords, word : Queries, full : Queries]
           m == jaccard.word.length
           done == FinishWord(jaccard)
           closed == Close(done.full, MaxTextGrams)
<1>1. /\ ~finished /\ finished' /\ text' = text
      /\ jaccard' = JaccardFinish(jaccard)
  BY DEF Decide, Finish
<1>2. /\ text \in Seq(Bytes) /\ jaccard \in Signals /\ OpenWord(text, m)
      /\ Follows(jaccard.word, TheWord(text, m), MaxGrams)
      /\ Follows(jaccard.full, text, MaxTextGrams)
      /\ jaccard.matched = SimilarToWords(text, EndedWords(text))
  BY <1>1 DEF JaccardInv
<1>3. MaxGrams \in Nat /\ MaxTextGrams \in Nat
  BY JaccardAssumption
<1>4. /\ done \in Signals /\ done.full = jaccard.full
      /\ done.matched = SimilarToWords(text, WordRanges(text))
  BY <1>2, WordIsMatched
<1>5. jaccard.full.length = Len(text)
  BY <1>2 DEF Follows
<1>6. CountedKeywords =
        SimilarToWords(text, WordRanges(text))
          \cup (IF text = << >> THEN {} ELSE SimilarTo(text, MaxTextGrams))
  <2>1. ASSUME NEW k \in Keywords
        PROVE  k \in CountedKeywords <=>
                 \/ k \in SimilarToWords(text, WordRanges(text))
                 \/ text # << >> /\ k \in SimilarTo(text, MaxTextGrams)
    <3>1. k \in SimilarToWords(text, WordRanges(text)) <=>
            \E w \in ReferenceWords : Len(Counted(w)) <= MaxGrams /\ ReferenceSimilar(Counted(w), k)
      <4>1. k \in SimilarToWords(text, WordRanges(text)) <=>
              \E r \in WordRanges(text) : k \in SimilarTo(SubSeq(text, r[1], r[2]), MaxGrams)
        BY DEF SimilarToWords
      <4>2. \A w : k \in SimilarTo(w, MaxGrams) <=>
              Len(Counted(w)) <= MaxGrams /\ ReferenceSimilar(Counted(w), k)
        BY DEF SimilarTo
      <4> QED
        BY <4>1, <4>2 DEF ReferenceWords
    <3>2. k \in SimilarTo(text, MaxTextGrams) <=>
            Len(Counted(text)) <= MaxTextGrams /\ ReferenceSimilar(Counted(text), k)
      BY DEF SimilarTo
    <3>3. k \in CountedKeywords <=> \E w \in Candidates : ReferenceSimilar(Counted(w), k)
      BY DEF CountedKeywords
    <3> QED
      BY <3>1, <3>2, <3>3 DEF Candidates
  <2>2. /\ CountedKeywords \subseteq Keywords
        /\ SimilarToWords(text, WordRanges(text)) \subseteq Keywords
        /\ SimilarTo(text, MaxTextGrams) \subseteq Keywords
    BY DEF CountedKeywords, SimilarToWords, SimilarTo
  <2> QED
    BY <2>1, <2>2
<1> HIDE DEF done
<1>7. jaccard' \in Signals /\ jaccard'.matched = CountedKeywords
  <2>1. jaccard' = IF done.full.length = 0 THEN done
                   ELSE [done EXCEPT !.full = closed, !.matched = @ \cup MatchQuery(closed)]
    BY <1>1 DEF JaccardFinish, done
  <2>2. CASE text = << >>
    <3>1. jaccard' = done
      BY <1>4, <1>5, <2>1, <2>2
    <3> QED
      BY <1>4, <1>6, <2>2, <3>1
  <2>3. CASE text # << >>
    <3>1. done.full.length # 0
      BY <1>2, <1>4, <1>5, <2>3
    <3>2. QueryOk(closed, Counted(text), Len(Counted(text)), MaxTextGrams)
      BY <1>2, <1>3, <1>4, <2>3, CloseFollows
    <3>3. Counted(text) \in Seq(Trigrams)
      BY <1>2, GramsType
    <3> HIDE DEF closed
    <3>4. MatchQuery(closed) = SimilarTo(text, MaxTextGrams)
      BY <1>3, <3>2, <3>3, MatchFollows DEF SimilarTo
    <3>5. closed \in Queries /\ MatchQuery(closed) \in SUBSET Keywords
      BY <3>2, <3>4 DEF QueryOk, SimilarTo
    <3>6. jaccard' = [done EXCEPT !.full = closed, !.matched = @ \cup MatchQuery(closed)]
      BY <2>1, <3>1
    <3> QED
      BY <1>4, <1>6, <2>3, <3>4, <3>5, <3>6
  <2> QED
    BY <2>2, <2>3
<1>8. CountedKeywords' = CountedKeywords
  BY <1>1 DEF CountedKeywords, Candidates, ReferenceWords, WordRanges
<1> QED
  BY <1>1, <1>2, <1>7, <1>8 DEF JaccardInv

LEMMA JaccardInvStep == JaccardInv /\ [ClassifierNext]_classifierVars => JaccardInv'
<1> SUFFICES ASSUME JaccardInv, [ClassifierNext]_classifierVars PROVE JaccardInv'
  OBVIOUS
<1>1. ASSUME NEW c \in Bytes, Classify(c) PROVE JaccardInv'
  BY <1>1, ClassifyKeepsJaccardInv
<1>2. CASE Decide
  BY <1>2, DecideFindsKeywords
<1>3. ASSUME UNCHANGED << text, finished, jaccard >> PROVE JaccardInv'
  <2>1. CountedKeywords' = CountedKeywords
    BY <1>3 DEF CountedKeywords, Candidates, ReferenceWords, WordRanges
  <2> QED
    BY <1>3, <2>1 DEF JaccardInv
<1>4. CASE Verdict
  BY <1>3, <1>4 DEF Verdict, vars
<1>5. CASE UNCHANGED classifierVars
  BY <1>3, <1>5 DEF classifierVars, vars
<1> QED
  BY <1>1, <1>2, <1>4, <1>5 DEF ClassifierNext

\* The counters of xdp_jaccard_push, word by word and over the whole text, end
\* as the similarities that jaccard_reference.py computes from the trigrams,
\* whatever the keywords, the thresholds and the limits; but for the trigram
\* that a single character is short of.
THEOREM JaccardAgreesCorrect == ClassifierSpec => []JaccardAgrees
<1>1. ClassifierInit => JaccardInv
  BY InitJaccardInv
<1>2. JaccardInv /\ [ClassifierNext]_classifierVars => JaccardInv'
  BY JaccardInvStep
<1>3. JaccardInv => JaccardAgrees
  BY DEF JaccardInv, JaccardAgrees
<1> QED
  BY <1>1, <1>2, <1>3, PTL DEF ClassifierSpec

-----------------------------------------------------------------------------
(* BM25: the words of a text, as places. *)

\* Two word bytes that belong to one word: neighbours, or a connector apart.
Part(t, p) == p \in DOMAIN t /\ t[p] \in WordChars
Link(t, p, q) ==
  Part(t, p) /\ Part(t, q) /\ (q = p + 1 \/ (q = p + 2 /\ t[p + 1] \in Connectors))

\* From word byte to word byte without a delimiter or two connectors in a row.
Chain(t, i, j) ==
  /\ Part(t, i) /\ Part(t, j) /\ i <= j
  /\ \A k \in i .. j : t[k] \notin Delimiters
  /\ \A k \in i .. j - 1 : t[k] \in WordChars \/ t[k + 1] \in WordChars

\* The longest of those.
Tokens(t) ==
  { r \in (DOMAIN t) \X (DOMAIN t) :
      /\ Chain(t, r[1], r[2])
      /\ \A p \in DOMAIN t : ~ Link(t, p, r[1])
      /\ \A q \in DOMAIN t : ~ Link(t, r[2], q) }

LEMMA Places ==
  ASSUME NEW t \in Seq(Bytes)
  PROVE  /\ Len(t) \in Nat /\ DOMAIN t = 1 .. Len(t)
         /\ \A p \in 1 .. Len(t) :
              /\ t[p] \in Bytes
              /\ t[p] \notin WordChars /\ t[p] \notin Delimiters => t[p] \in Connectors
              /\ t[p] \in WordChars => t[p] \notin Connectors /\ t[p] \notin Delimiters
              /\ t[p] \in Connectors => t[p] \notin Delimiters
         /\ IsFiniteSet(Tokens(t))
<1>1. Len(t) \in Nat /\ DOMAIN t = 1 .. Len(t) /\ \A p \in 1 .. Len(t) : t[p] \in Bytes
  OBVIOUS
<1>2. \A x \in Bytes :
        /\ x \notin WordChars /\ x \notin Delimiters => x \in Connectors
        /\ x \in WordChars => x \notin Connectors /\ x \notin Delimiters
        /\ x \in Connectors => x \notin Delimiters
  BY Bm25Assumption DEF Bytes
<1>3. IsFiniteSet(Tokens(t))
  <2>0. IsFiniteSet(DOMAIN t)
    BY <1>1, FS_Interval
  <2>1. IsFiniteSet((DOMAIN t) \X (DOMAIN t))
    BY <2>0, FS_Product, Zenon
  <2> QED
    BY <2>1, FS_Subset DEF Tokens
<1> QED
  BY <1>1, <1>2, <1>3

\* A word byte of a chain is linked to one before it, but for the first, and to
\* one behind it, but for the last.
LEMMA ChainLinks ==
  ASSUME NEW t \in Seq(Bytes), NEW i \in Int, NEW j \in Int, Chain(t, i, j),
         NEW k \in i .. j, t[k] \in WordChars
  PROVE  /\ k # i => \E p \in i .. k - 1 : Link(t, p, k)
         /\ k # j => \E q \in k + 1 .. j : Link(t, k, q)
<1>1. /\ i \in 1 .. Len(t) /\ j \in 1 .. Len(t) /\ i <= j /\ Len(t) \in Nat
      /\ t[i] \in WordChars /\ t[j] \in WordChars
      /\ \A m \in i .. j : m \in 1 .. Len(t) /\ t[m] \notin Delimiters
      /\ \A m \in i .. j - 1 : t[m] \in WordChars \/ t[m + 1] \in WordChars
  BY Places DEF Chain, Part
<1>2. \A m \in i .. j : t[m] \in WordChars \/ t[m] \in Connectors
  BY <1>1, Places
<1>3. ASSUME k # i
      PROVE  \E p \in i .. k - 1 : Link(t, p, k)
  <2>1. k - 1 \in i .. j /\ k - 1 \in i .. k - 1 /\ k = (k - 1) + 1 /\ k \in 1 .. Len(t)
    BY <1>1, <1>3
  <2>2. CASE t[k - 1] \in WordChars
    <3>1. Link(t, k - 1, k)
      BY <1>1, <2>1, <2>2, Places DEF Link, Part
    <3> QED
      BY <2>1, <3>1
  <2>3. CASE t[k - 1] \notin WordChars
    <3>1. t[k - 1] \in Connectors /\ k - 1 # i
      BY <1>1, <1>2, <2>1, <2>3
    <3>2. k - 2 \in i .. j - 1 /\ (k - 2) + 1 = k - 1 /\ k = (k - 2) + 2 /\ k - 2 \in i .. k - 1
      BY <1>1, <2>1, <3>1
    <3>3. t[k - 2] \in WordChars /\ k - 2 \in 1 .. Len(t)
      <4>1. t[k - 2] \in WordChars \/ t[(k - 2) + 1] \in WordChars
        BY <1>1, <3>2
      <4>2. k - 2 \in i .. j
        BY <3>2
      <4> QED
        BY <1>1, <2>3, <3>2, <4>1, <4>2
    <3>4. Link(t, k - 2, k)
      BY <1>1, <2>1, <3>1, <3>2, <3>3, Places DEF Link, Part
    <3> QED
      BY <3>2, <3>4
  <2> QED
    BY <2>2, <2>3
<1>4. ASSUME k # j
      PROVE  \E q \in k + 1 .. j : Link(t, k, q)
  <2>1. k + 1 \in i .. j /\ k + 1 \in k + 1 .. j /\ k \in 1 .. Len(t)
    BY <1>1, <1>4
  <2>2. CASE t[k + 1] \in WordChars
    <3>1. Link(t, k, k + 1)
      BY <1>1, <2>1, <2>2, Places DEF Link, Part
    <3> QED
      BY <2>1, <3>1
  <2>3. CASE t[k + 1] \notin WordChars
    <3>1. t[k + 1] \in Connectors /\ k + 1 # j
      BY <1>1, <1>2, <2>1, <2>3
    <3>2. k + 1 \in i .. j - 1 /\ (k + 1) + 1 = k + 2 /\ k + 2 \in k + 1 .. j /\ k + 2 \in i .. j
      BY <1>1, <2>1, <3>1
    <3>3. t[k + 2] \in WordChars /\ k + 2 \in 1 .. Len(t)
      <4>1. t[k + 1] \in WordChars \/ t[(k + 1) + 1] \in WordChars
        BY <1>1, <3>2
      <4> QED
        BY <1>1, <2>3, <3>2, <4>1
    <3>4. Link(t, k, k + 2)
      BY <1>1, <2>1, <3>1, <3>2, <3>3, Places DEF Link, Part
    <3> QED
      BY <3>2, <3>4
  <2> QED
    BY <2>2, <2>3
<1> QED
  BY <1>3, <1>4

\* A link makes a chain longer.
LEMMA ChainGrows ==
  ASSUME NEW t \in Seq(Bytes), NEW i \in Int, NEW j \in Int, NEW q \in Int,
         Chain(t, i, j), Link(t, j, q)
  PROVE  Chain(t, i, q) /\ q > j
<1>1. /\ i \in 1 .. Len(t) /\ j \in 1 .. Len(t) /\ i <= j /\ Len(t) \in Nat
      /\ t[i] \in WordChars /\ t[j] \in WordChars
      /\ \A m \in i .. j : t[m] \notin Delimiters
      /\ \A m \in i .. j - 1 : t[m] \in WordChars \/ t[m + 1] \in WordChars
  BY Places DEF Chain, Part
<1>2. /\ q \in 1 .. Len(t) /\ t[q] \in WordChars
      /\ q = j + 1 \/ (q = j + 2 /\ t[j + 1] \in Connectors)
  BY Places DEF Link, Part
<1>3. q > j /\ i <= q /\ Part(t, i) /\ Part(t, q)
  BY <1>1, <1>2, Places DEF Part
<1>4. ASSUME NEW m \in i .. q
      PROVE  t[m] \notin Delimiters
  <2>1. m \in i .. j \/ m = q \/ (m = j + 1 /\ q = j + 2)
    BY <1>1, <1>2
  <2>2. m \in 1 .. Len(t)
    BY <1>1, <1>2
  <2> QED
    BY <1>1, <1>2, <2>1, <2>2, Places
<1>5. ASSUME NEW m \in i .. q - 1
      PROVE  t[m] \in WordChars \/ t[m + 1] \in WordChars
  <2>1. m \in i .. j - 1 \/ m = j \/ (m = j + 1 /\ q = m + 1)
    BY <1>1, <1>2
  <2> QED
    BY <1>1, <1>2, <2>1
<1> QED
  BY <1>3, <1>4, <1>5 DEF Chain

\* Words do not overlap.
LEMMA TokensApart ==
  ASSUME NEW t \in Seq(Bytes), NEW r \in Tokens(t)
  PROVE  /\ r = << r[1], r[2] >> /\ r[1] \in 1 .. Len(t) /\ r[2] \in 1 .. Len(t) /\ r[1] <= r[2]
         /\ Chain(t, r[1], r[2]) /\ Part(t, r[1]) /\ Part(t, r[2])
         /\ \A s \in Tokens(t) :
              /\ s[1] \in r[1] .. r[2] => s[1] = r[1]
              /\ s[1] = r[1] => s = r
              /\ s[2] = r[2] => s = r
<1>1. ASSUME NEW s \in Tokens(t)
      PROVE  /\ s = << s[1], s[2] >> /\ s[1] \in 1 .. Len(t) /\ s[2] \in 1 .. Len(t) /\ s[1] <= s[2]
             /\ Chain(t, s[1], s[2]) /\ Part(t, s[1]) /\ Part(t, s[2])
             /\ \A p \in 1 .. Len(t) : ~ Link(t, p, s[1]) /\ ~ Link(t, s[2], p)
             /\ t[s[1]] \in WordChars /\ t[s[2]] \in WordChars
  <2>1. s \in (DOMAIN t) \X (DOMAIN t) /\ Chain(t, s[1], s[2])
    BY DEF Tokens
  <2> QED
    BY <2>1, Places DEF Tokens, Chain, Part
<1>2. ASSUME NEW s \in Tokens(t), NEW x \in Tokens(t), s[1] \in x[1] .. x[2]
      PROVE  s[1] = x[1]
  <2> SUFFICES ASSUME s[1] # x[1] PROVE FALSE
    OBVIOUS
  <2>0. x[1] \in Int /\ x[2] \in Int /\ Chain(t, x[1], x[2]) /\ t[s[1]] \in WordChars
    BY <1>1, Places
  <2>1. PICK p \in x[1] .. s[1] - 1 : Link(t, p, s[1])
    BY <1>2, <2>0, ChainLinks
  <2>2. p \in 1 .. Len(t)
    BY <1>1, <1>2, Places
  <2> QED
    BY <1>1, <2>1, <2>2
<1>3. ASSUME NEW s \in Tokens(t), NEW x \in Tokens(t), s[1] = x[1]
      PROVE  ~ (s[2] < x[2])
  <2> SUFFICES ASSUME s[2] < x[2] PROVE FALSE
    OBVIOUS
  <2>1. s[2] \in x[1] .. x[2] /\ s[2] # x[2]
    BY <1>1, <1>3
  <2>0. x[1] \in Int /\ x[2] \in Int /\ Chain(t, x[1], x[2]) /\ t[s[2]] \in WordChars
    BY <1>1, Places
  <2>2. PICK q \in s[2] + 1 .. x[2] : Link(t, s[2], q)
    BY <2>0, <2>1, ChainLinks
  <2>3. q \in 1 .. Len(t)
    BY <1>1, <2>2, Places
  <2> QED
    BY <1>1, <2>2, <2>3
<1>4. ASSUME NEW s \in Tokens(t), s[1] = r[1]
      PROVE  s = r
  <2>1. s[2] = r[2]
    BY <1>1, <1>3, <1>4
  <2> QED
    BY <1>1, <1>4, <2>1
<1>5. ASSUME NEW s \in Tokens(t), s[2] = r[2]
      PROVE  s = r
  <2>1. s[1] \in r[1] .. r[2] \/ r[1] \in s[1] .. s[2]
    BY <1>1, <1>5
  <2>2. s[1] = r[1]
    BY <1>2, <2>1
  <2> QED
    BY <1>4, <2>2
<1> QED
  BY <1>1, <1>2, <1>4, <1>5

\* A word begins at every word byte that is linked to none before it.
LEMMA TokenBegins ==
  ASSUME NEW t \in Seq(Bytes), NEW k \in 1 .. Len(t), Part(t, k),
         \A p \in DOMAIN t : ~ Link(t, p, k)
  PROVE  \E j \in k .. Len(t) : << k, j >> \in Tokens(t)
<1> DEFINE reach == { j \in 1 .. Len(t) : Chain(t, k, j) }
           j == Max(reach)
<1>1. Len(t) \in Nat /\ DOMAIN t = 1 .. Len(t) /\ t[k] \in WordChars
  BY Places DEF Part
<1>2. k \in reach
  <2>1. \A m \in k .. k : m = k
    OBVIOUS
  <2>2. \A m \in k .. k - 1 : FALSE
    OBVIOUS
  <2>3. \A m \in k .. k : t[m] \notin Delimiters
    BY <1>1, <2>1, Places
  <2>4. Chain(t, k, k)
    BY <2>2, <2>3 DEF Chain
  <2> QED
    BY <2>4
<1>3. j \in reach /\ \A m \in reach : j >= m
  <2>1. reach \in SUBSET (1 .. Len(t)) /\ reach # {}
    BY <1>2
  <2> HIDE DEF reach
  <2>2. j \in reach /\ \A m \in reach : j >= m
    BY <1>1, <2>1, GreatestNumber
  <2> QED
    BY <2>2
<1> HIDE DEF j
<1>4. j \in 1 .. Len(t) /\ Chain(t, k, j) /\ k <= j
  BY <1>3 DEF Chain
<1>5. ASSUME NEW q \in DOMAIN t, Link(t, j, q)
      PROVE  FALSE
  <2>1. Chain(t, k, q) /\ q > j
    BY <1>1, <1>4, <1>5, ChainGrows
  <2> QED
    BY <1>1, <1>3, <2>1
<1>6. << k, j >> \in Tokens(t)
  BY <1>1, <1>4, <1>5 DEF Tokens
<1>7. j \in k .. Len(t)
  BY <1>1, <1>4
<1> QED
  BY <1>6, <1>7

-----------------------------------------------------------------------------
(* BM25: a byte more. *)

\* A word byte that the next byte may be linked to.
LinkNext(t, p) ==
  Part(t, p) /\ (p = Len(t) \/ (p = Len(t) - 1 /\ t[Len(t)] \in Connectors))

\* What a byte more leaves alone.
LEMMA Longer ==
  ASSUME NEW t \in Seq(Bytes), NEW c \in Bytes
  PROVE  LET u == Append(t, c)
             n == Len(t)
         IN  /\ n \in Nat /\ u \in Seq(Bytes) /\ Len(u) = n + 1 /\ u[n + 1] = c
             /\ DOMAIN t = 1 .. n /\ DOMAIN u = 1 .. n + 1
             /\ \A p \in 1 .. n : u[p] = t[p]
             /\ \A p, q \in 1 .. n : Link(u, p, q) <=> Link(t, p, q)
             /\ \A p \in 1 .. n : Link(u, p, n + 1) <=> LinkNext(t, p) /\ c \in WordChars
             /\ \A p \in 1 .. n + 1 : ~ Link(u, n + 1, p) /\ ~ Link(u, p, p)
             /\ \A i, j \in 1 .. n : Chain(u, i, j) <=> Chain(t, i, j)
<1> DEFINE u == Append(t, c)
           n == Len(t)
<1>1. /\ n \in Nat /\ u \in Seq(Bytes) /\ Len(u) = n + 1 /\ u[n + 1] = c
      /\ DOMAIN t = 1 .. n /\ DOMAIN u = 1 .. n + 1
      /\ \A p \in 1 .. n : u[p] = t[p]
  OBVIOUS
<1> HIDE DEF u
<1>2. ASSUME NEW p \in 1 .. n, NEW q \in 1 .. n
      PROVE  Link(u, p, q) <=> Link(t, p, q)
  <2>1. /\ p \in 1 .. n + 1 /\ q \in 1 .. n + 1
        /\ q = p + 2 => p + 1 \in 1 .. n
    BY <1>1
  <2> HIDE DEF n
  <2> QED
    BY <1>1, <2>1 DEF Link, Part
<1>3. ASSUME NEW p \in 1 .. n
      PROVE  Link(u, p, n + 1) <=> LinkNext(t, p) /\ c \in WordChars
  <2> HIDE DEF n
  <2>0. n \in Nat
    BY <1>1
  <2>1. /\ p \in 1 .. n + 1 /\ n + 1 \in 1 .. n + 1
        /\ n + 1 = p + 1 <=> p = n
        /\ n + 1 = p + 2 <=> p = n - 1
        /\ p = n - 1 => p + 1 = n
        /\ n \in 1 .. n
    BY <2>0
  <2>2. Link(u, p, n + 1) <=>
          /\ t[p] \in WordChars /\ c \in WordChars
          /\ p = n \/ (p = n - 1 /\ u[p + 1] \in Connectors)
    BY <1>1, <2>1 DEF Link, Part
  <2>3. p = n - 1 => u[p + 1] = t[n]
    BY <1>1, <2>1
  <2> QED
    BY <1>1, <2>2, <2>3 DEF LinkNext, Part, n
<1>4. ASSUME NEW p \in 1 .. n + 1
      PROVE  ~ Link(u, n + 1, p) /\ ~ Link(u, p, p)
  BY <1>1 DEF Link, Part
<1>5. ASSUME NEW i \in 1 .. n, NEW j \in 1 .. n
      PROVE  Chain(u, i, j) <=> Chain(t, i, j)
  <2>1. /\ i \in 1 .. n + 1 /\ j \in 1 .. n + 1
        /\ \A k \in i .. j : u[k] = t[k]
        /\ \A k \in i .. j - 1 : u[k] = t[k] /\ u[k + 1] = t[k + 1]
    <3>1. /\ \A k \in i .. j : k \in 1 .. n
          /\ \A k \in i .. j - 1 : k \in 1 .. n /\ k + 1 \in 1 .. n
      BY <1>1
    <3> QED
      BY <1>1, <3>1
  <2> HIDE DEF n
  <2> QED
    BY <1>1, <2>1 DEF Chain, Part
<1> QED
  BY <1>1, <1>2, <1>3, <1>4, <1>5 DEF u

\* What is no word byte changes no word.
LEMMA OtherAfter ==
  ASSUME NEW t \in Seq(Bytes), NEW c \in Bytes, c \notin WordChars
  PROVE  Tokens(Append(t, c)) = Tokens(t)
<1> DEFINE u == Append(t, c)
           n == Len(t)
<1>1. /\ n \in Nat /\ u \in Seq(Bytes) /\ Len(u) = n + 1 /\ u[n + 1] = c
      /\ DOMAIN t = 1 .. n /\ DOMAIN u = 1 .. n + 1
      /\ \A p, q \in 1 .. n : Link(u, p, q) <=> Link(t, p, q)
      /\ \A p \in 1 .. n : ~ Link(u, p, n + 1)
      /\ \A p \in 1 .. n + 1 : ~ Link(u, n + 1, p) /\ ~ Link(u, p, p)
      /\ \A i, j \in 1 .. n : Chain(u, i, j) <=> Chain(t, i, j)
  BY Longer
<1> HIDE DEF u, n
<1>2. \A p \in 1 .. n + 1 : p \in 1 .. n \/ p = n + 1
  BY <1>1
<1>3. \A p \in 1 .. n : p \in 1 .. n + 1
  BY <1>1
<1>4. ASSUME NEW r \in Tokens(u)
      PROVE  r \in Tokens(t)
  <2>1. /\ r \in (1 .. n + 1) \X (1 .. n + 1) /\ Chain(u, r[1], r[2])
        /\ \A p \in 1 .. n + 1 : ~ Link(u, p, r[1]) /\ ~ Link(u, r[2], p)
    BY <1>1 DEF Tokens
  <2>2. r[2] # n + 1 /\ r[1] # n + 1
    BY <1>1, <2>1 DEF Chain, Part
  <2>3. r[1] \in 1 .. n /\ r[2] \in 1 .. n /\ r \in (1 .. n) \X (1 .. n)
    BY <1>2, <2>1, <2>2
  <2> QED
    BY <1>1, <1>3, <2>1, <2>3 DEF Tokens
<1>5. ASSUME NEW r \in Tokens(t)
      PROVE  r \in Tokens(u)
  <2>1. /\ r \in (1 .. n) \X (1 .. n) /\ Chain(t, r[1], r[2])
        /\ \A p \in 1 .. n : ~ Link(t, p, r[1]) /\ ~ Link(t, r[2], p)
    BY <1>1 DEF Tokens
  <2>2. /\ r[1] \in 1 .. n /\ r[2] \in 1 .. n /\ r \in (1 .. n + 1) \X (1 .. n + 1)
    BY <1>3, <2>1
  <2>3. \A p \in 1 .. n + 1 : ~ Link(u, p, r[1]) /\ ~ Link(u, r[2], p)
    BY <1>1, <1>2, <1>3, <2>1, <2>2
  <2> QED
    BY <1>1, <2>1, <2>2, <2>3 DEF Tokens
<1> QED
  BY <1>4, <1>5 DEF u

\* A word byte that is linked to none before it begins a word.
LEMMA WordBegins ==
  ASSUME NEW t \in Seq(Bytes), NEW c \in WordChars, c \in Bytes,
         \A p \in DOMAIN t : ~ LinkNext(t, p)
  PROVE  LET new == << Len(t) + 1, Len(t) + 1 >> IN
         /\ Tokens(Append(t, c)) = Tokens(t) \cup { new } /\ new \notin Tokens(t)
<1> DEFINE u == Append(t, c)
           n == Len(t)
           new == << n + 1, n + 1 >>
<1>1. /\ n \in Nat /\ u \in Seq(Bytes) /\ Len(u) = n + 1 /\ u[n + 1] = c
      /\ DOMAIN t = 1 .. n /\ DOMAIN u = 1 .. n + 1
      /\ \A p, q \in 1 .. n : Link(u, p, q) <=> Link(t, p, q)
      /\ \A p \in 1 .. n : ~ Link(u, p, n + 1)
      /\ \A p \in 1 .. n + 1 : ~ Link(u, n + 1, p) /\ ~ Link(u, p, p)
      /\ \A i, j \in 1 .. n : Chain(u, i, j) <=> Chain(t, i, j)
  BY Longer
<1> HIDE DEF u, n
<1>2. \A p \in 1 .. n + 1 : p \in 1 .. n \/ p = n + 1
  BY <1>1
<1>3. \A p \in 1 .. n : p \in 1 .. n + 1 /\ p # n + 1
  BY <1>1
<1>4. n + 1 \in 1 .. n + 1 /\ n + 1 \notin 1 .. n
  BY <1>1
<1>5. ASSUME NEW r \in Tokens(u)
      PROVE  r \in Tokens(t) \/ r = new
  <2>1. /\ r \in (1 .. n + 1) \X (1 .. n + 1) /\ Chain(u, r[1], r[2])
        /\ \A p \in 1 .. n + 1 : ~ Link(u, p, r[1]) /\ ~ Link(u, r[2], p)
    BY <1>1 DEF Tokens
  <2>2. r[1] \in 1 .. n + 1 /\ r[2] \in 1 .. n + 1 /\ r = << r[1], r[2] >> /\ r[1] <= r[2]
    BY <2>1 DEF Chain
  <2>3. CASE r[2] = n + 1
    <3> SUFFICES ASSUME r[1] # n + 1 PROVE FALSE
      BY <2>2, <2>3
    <3>1. PICK p \in r[1] .. r[2] - 1 : Link(u, p, r[2])
      <4>1. r[1] \in Int /\ r[2] \in Int /\ r[2] \in r[1] .. r[2] /\ u[r[2]] \in WordChars
        BY <1>1, <2>2, <2>3
      <4>2. r[2] # r[1]
        BY <2>3
      <4> QED
        BY <1>1, <2>1, <4>1, <4>2, ChainLinks
    <3>2. p \in 1 .. n
      BY <1>1, <2>2, <2>3
    <3> QED
      BY <1>1, <2>3, <3>1, <3>2
  <2>4. CASE r[2] # n + 1
    <3>1. r[1] \in 1 .. n /\ r[2] \in 1 .. n /\ r \in (1 .. n) \X (1 .. n)
      <4>1. r[1] \in 1 .. n /\ r[2] \in 1 .. n
        BY <1>1, <2>2, <2>4
      <4> QED
        BY <2>2, <4>1
    <3> QED
      BY <1>1, <1>3, <2>1, <3>1 DEF Tokens
  <2> QED
    BY <2>3, <2>4
<1>6. ASSUME NEW r \in Tokens(t)
      PROVE  r \in Tokens(u)
  <2>1. /\ r \in (1 .. n) \X (1 .. n) /\ Chain(t, r[1], r[2])
        /\ \A p \in 1 .. n : ~ Link(t, p, r[1]) /\ ~ Link(t, r[2], p)
    BY <1>1 DEF Tokens
  <2>2. /\ r[1] \in 1 .. n /\ r[2] \in 1 .. n /\ r \in (1 .. n + 1) \X (1 .. n + 1)
    BY <1>3, <2>1
  <2>3. \A p \in 1 .. n + 1 : ~ Link(u, p, r[1]) /\ ~ Link(u, r[2], p)
    BY <1>1, <1>2, <1>3, <2>1, <2>2
  <2> QED
    BY <1>1, <2>1, <2>2, <2>3 DEF Tokens
<1>7. new \in Tokens(u)
  <2>1. new[1] = n + 1 /\ new[2] = n + 1 /\ new \in (1 .. n + 1) \X (1 .. n + 1)
    BY <1>4
  <2>2. Chain(u, n + 1, n + 1)
    <3>1. /\ Part(u, n + 1) /\ c \notin Delimiters
      BY <1>1, <1>4, Bm25Assumption DEF Part
    <3>2. /\ n + 1 <= n + 1 /\ \A k \in n + 1 .. n + 1 : k = n + 1
          /\ \A k \in n + 1 .. (n + 1) - 1 : FALSE
      BY <1>1
    <3> QED
      BY <1>1, <3>1, <3>2 DEF Chain
  <2>3. \A p \in 1 .. n + 1 : ~ Link(u, p, n + 1) /\ ~ Link(u, n + 1, p)
    BY <1>1, <1>2
  <2> HIDE DEF new
  <2> QED
    BY <1>1, <2>1, <2>2, <2>3 DEF Tokens
<1>8. new \notin Tokens(t)
  BY <1>1, <1>4 DEF Tokens
<1>9. Tokens(u) = Tokens(t) \cup { new }
  <2> HIDE DEF new
  <2> QED
    BY <1>5, <1>6, <1>7
<1> QED
  BY <1>8, <1>9 DEF u, n

\* One that is linked makes its word longer.
LEMMA WordGrows ==
  ASSUME NEW t \in Seq(Bytes), NEW c \in WordChars, c \in Bytes,
         NEW open \in Tokens(t), LinkNext(t, open[2])
  PROVE  LET new == << open[1], Len(t) + 1 >> IN
         /\ Tokens(Append(t, c)) = (Tokens(t) \ { open }) \cup { new } /\ new \notin Tokens(t)
<1> DEFINE u == Append(t, c)
           n == Len(t)
           new == << open[1], n + 1 >>
<1>1. /\ n \in Nat /\ u \in Seq(Bytes) /\ Len(u) = n + 1 /\ u[n + 1] = c
      /\ DOMAIN t = 1 .. n /\ DOMAIN u = 1 .. n + 1
      /\ \A p, q \in 1 .. n : Link(u, p, q) <=> Link(t, p, q)
      /\ \A p \in 1 .. n : Link(u, p, n + 1) <=> LinkNext(t, p)
      /\ \A p \in 1 .. n + 1 : ~ Link(u, n + 1, p) /\ ~ Link(u, p, p)
      /\ \A i, j \in 1 .. n : Chain(u, i, j) <=> Chain(t, i, j)
  BY Longer
<1>2. /\ open = << open[1], open[2] >> /\ open[1] \in 1 .. n /\ open[2] \in 1 .. n
      /\ Chain(t, open[1], open[2])
      /\ \A r \in Tokens(t) : (r[2] = open[2] => r = open) /\ (r[1] = open[1] => r = open)
      /\ \A p \in 1 .. n : ~ Link(t, p, open[1]) /\ ~ Link(t, open[2], p)
  BY TokensApart, Places DEF Tokens
<1>3. \A p \in 1 .. n : LinkNext(t, p) => p = open[2]
  <2>1. ASSUME NEW p \in 1 .. n, LinkNext(t, p), p # open[2]
        PROVE  FALSE
    <3>1. t[p] \in WordChars /\ t[open[2]] \in WordChars
      BY <2>1 DEF LinkNext, Part
    <3>2. \/ p = n /\ open[2] = n - 1 /\ t[n] \in Connectors
          \/ p = n - 1 /\ open[2] = n /\ t[n] \in Connectors
      BY <1>1, <1>2, <2>1 DEF LinkNext
    <3> QED
      BY <1>1, <1>2, <3>1, <3>2, Places
  <2> QED
    BY <2>1
<1> HIDE DEF u, n
<1>4. /\ \A p \in 1 .. n + 1 : p \in 1 .. n \/ p = n + 1
      /\ \A p \in 1 .. n : p \in 1 .. n + 1 /\ p # n + 1
      /\ n + 1 \in 1 .. n + 1 /\ n + 1 \notin 1 .. n
  BY <1>1
<1>5. ASSUME NEW r \in Tokens(u)
      PROVE  r = new \/ (r \in Tokens(t) /\ r # open)
  <2>1. /\ r \in (1 .. n + 1) \X (1 .. n + 1) /\ Chain(u, r[1], r[2])
        /\ \A p \in 1 .. n + 1 : ~ Link(u, p, r[1]) /\ ~ Link(u, r[2], p)
    BY <1>1 DEF Tokens
  <2>2. r[1] \in 1 .. n + 1 /\ r[2] \in 1 .. n + 1 /\ r = << r[1], r[2] >> /\ r[1] <= r[2]
    BY <2>1 DEF Chain
  <2>3. CASE r[2] = n + 1
    <3>1. Chain(u, open[1], open[2]) /\ Link(u, open[2], n + 1)
      BY <1>1, <1>2
    <3>2. Chain(u, open[1], n + 1)
      <4>1. open[1] \in Int /\ open[2] \in Int /\ n + 1 \in Int
        BY <1>1, <1>2
      <4> QED
        BY <1>1, <3>1, <4>1, ChainGrows
    <3>3. << open[1], n + 1 >> \in Tokens(u)
      <4>1. \A p \in 1 .. n + 1 : ~ Link(u, p, open[1]) /\ ~ Link(u, n + 1, p)
        BY <1>1, <1>2, <1>4
      <4>2. << open[1], n + 1 >> \in (1 .. n + 1) \X (1 .. n + 1)
        BY <1>2, <1>4
      <4> QED
        BY <1>1, <3>2, <4>1, <4>2 DEF Tokens
    <3>4. r = << open[1], n + 1 >>
      <4> DEFINE x == << open[1], n + 1 >>
      <4>1. x \in Tokens(u) /\ x[2] = r[2]
        BY <2>3, <3>3
      <4> HIDE DEF x
      <4>2. x = r
        BY <1>1, <4>1, TokensApart
      <4> QED
        BY <4>2 DEF x
    <3> QED
      BY <3>4
  <2>4. CASE r[2] # n + 1
    <3>1. r[1] \in 1 .. n /\ r[2] \in 1 .. n
      BY <1>1, <2>2, <2>4
    <3>2. r \in (1 .. n) \X (1 .. n)
      BY <2>2, <3>1
    <3>3. r \in Tokens(t)
      BY <1>1, <1>4, <2>1, <3>1, <3>2 DEF Tokens
    <3>4. r # open
      BY <1>1, <1>2, <1>4, <2>1
    <3> QED
      BY <3>3, <3>4
  <2> QED
    BY <2>3, <2>4
<1>6. ASSUME NEW r \in Tokens(t), r # open
      PROVE  r \in Tokens(u)
  <2>1. /\ r \in (1 .. n) \X (1 .. n) /\ Chain(t, r[1], r[2])
        /\ \A p \in 1 .. n : ~ Link(t, p, r[1]) /\ ~ Link(t, r[2], p)
    BY <1>1 DEF Tokens
  <2>2. /\ r[1] \in 1 .. n /\ r[2] \in 1 .. n /\ r \in (1 .. n + 1) \X (1 .. n + 1)
    BY <1>4, <2>1
  <2>3. r[2] # open[2]
    BY <1>2, <1>6
  <2>4. \A p \in 1 .. n + 1 : ~ Link(u, p, r[1]) /\ ~ Link(u, r[2], p)
    BY <1>1, <1>3, <1>4, <2>1, <2>2, <2>3
  <2> QED
    BY <1>1, <2>1, <2>2, <2>4 DEF Tokens
<1>7. new \in Tokens(u)
  <2>1. Chain(u, open[1], open[2]) /\ Link(u, open[2], n + 1)
    BY <1>1, <1>2
  <2>2. Chain(u, open[1], n + 1)
    <3>1. open[1] \in Int /\ open[2] \in Int /\ n + 1 \in Int
      BY <1>1, <1>2
    <3> QED
      BY <1>1, <2>1, <3>1, ChainGrows
  <2>3. \A p \in 1 .. n + 1 : ~ Link(u, p, open[1]) /\ ~ Link(u, n + 1, p)
    BY <1>1, <1>2, <1>4
  <2>4. new \in (1 .. n + 1) \X (1 .. n + 1)
    BY <1>2, <1>4
  <2> QED
    BY <1>1, <2>2, <2>3, <2>4 DEF Tokens
<1>8. new \notin Tokens(t)
  BY <1>1, <1>4 DEF Tokens
<1>9. Tokens(u) = (Tokens(t) \ { open }) \cup { new }
  <2> HIDE DEF new
  <2> QED
    BY <1>5, <1>6, <1>7
<1> QED
  BY <1>8, <1>9 DEF u, n

-----------------------------------------------------------------------------
(* BM25: what a word adds. *)

\* The hash leads to the term of the word, if it has one.
LEMMA ExactIsTerm ==
  ASSUME NEW w
  PROVE  /\ Exact(w) = TermsOf(w) /\ TermsOf(w) \subseteq Terms
         /\ \A t \in TermsOf(w) : /\ TermsOf(w) = {t}
                                  /\ (IsStopword(w) <=> t.stopword)
                                  /\ \A d : WeightOf(w, d) = t.weights[d]
<1>1. \A t \in Terms : t.token = w => Len(w) <= MaxTokenBytes /\ t.hash = Hash(w)
  BY Bm25Assumption
<1>2. Exact(w) = TermsOf(w)
  BY <1>1 DEF Exact, TermsOf
<1>3. \A t \in TermsOf(w), u \in TermsOf(w) : t = u
  BY <1>1, Bm25Assumption DEF TermsOf
<1>4. \A t \in TermsOf(w) : TermsOf(w) = {t}
  BY <1>3
<1>5. ASSUME NEW t \in TermsOf(w)
      PROVE  /\ (IsStopword(w) <=> t.stopword)
             /\ \A d : WeightOf(w, d) = t.weights[d]
  <2>1. (CHOOSE u \in TermsOf(w) : TRUE) \in TermsOf(w)
    OBVIOUS
  <2>2. (CHOOSE u \in TermsOf(w) : TRUE) = t
    BY <1>3, <2>1
  <2> QED
    BY <1>3, <2>2 DEF IsStopword, WeightOf
<1> QED
  BY <1>2, <1>4, <1>5 DEF TermsOf

LEMMA WeightType ==
  ASSUME NEW w, NEW d \in Documents
  PROVE  WeightOf(w, d) \in Nat
<1>1. CASE TermsOf(w) = {}
  BY <1>1 DEF WeightOf
<1>2. CASE TermsOf(w) # {}
  <2>1. PICK t : t \in TermsOf(w)
    BY <1>2
  <2>2. t \in Terms /\ WeightOf(w, d) = t.weights[d]
    BY <2>1, ExactIsTerm
  <2>3. t.weights[d] \in 0 .. MaxTermWeight /\ MaxTermWeight \in Nat
    BY <2>2, Bm25Assumption
  <2> QED
    BY <2>2, <2>3
<1> QED
  BY <1>1, <1>2

\* What a word is worth, of the things that are counted, and nothing if it is a
\* stop word.
Weights(d) == [w \in Seq(Bytes) |-> WeightOf(w, d)]
Ones == [w \in Seq(Bytes) |-> 1]
Kept(v) == [w \in Seq(Bytes) |-> IF IsStopword(w) THEN 0 ELSE v[w]]

\* The documents of the scores so far.
MatchedByScores ==
  matched_documents = { d \in Documents : scores[d] > 0 /\ scores[d] >= Threshold[d] }

\* xdp_bm25_finish_word adds it, where the words are not too many.
LEMMA CountWordAdds ==
  ASSUME NEW w \in Seq(Bytes), CountWord(w), scores \in [Documents -> Nat], query_tokens \in Nat,
         query_tokens < MaxQueryTokens, MatchedByScores
  PROVE  /\ scores' \in [Documents -> Nat]
         /\ \A d \in Documents : scores'[d] = scores[d] + Kept(Weights(d))[w]
         /\ query_tokens' = query_tokens + Kept(Ones)[w]
         /\ MatchedByScores'
<1>1. MaxQueryTokens \in Int /\ Threshold \in [Documents -> Nat]
  BY Bm25Assumption DEF MaxQueryTokens
<1>2. /\ Kept(Ones)[w] = IF IsStopword(w) THEN 0 ELSE 1
      /\ \A d \in Documents : Kept(Weights(d))[w] = IF IsStopword(w) THEN 0 ELSE WeightOf(w, d)
  BY DEF Kept, Ones, Weights
<1>3. (\E t \in Exact(w) : t.stopword) <=> IsStopword(w)
  BY ExactIsTerm DEF IsStopword
<1>4. CASE IsStopword(w)
  <2>1. UNCHANGED scoreVars
    BY <1>3, <1>4 DEF CountWord
  <2>2. scores' = scores /\ query_tokens' = query_tokens /\ matched_documents' = matched_documents
    BY <2>1 DEF scoreVars
  <2>3. \A d \in Documents : scores[d] \in Nat
    OBVIOUS
  <2> QED
    BY <1>2, <1>4, <2>2, <2>3 DEF MatchedByScores
<1>5. CASE ~ IsStopword(w)
  <2>1. /\ query_tokens' = query_tokens + 1
        /\ IF Exact(w) = {} THEN UNCHANGED << scores, matched_documents >>
           ELSE \E t \in Exact(w) : AddWeights(t)
    BY <1>1, <1>3, <1>5 DEF CountWord
  <2>2. CASE Exact(w) = {}
    <3>1. \A d \in Documents : WeightOf(w, d) = 0
      BY <2>2, ExactIsTerm DEF WeightOf
    <3>2. scores' = scores /\ matched_documents' = matched_documents
      BY <2>1, <2>2
    <3>3. \A d \in Documents : scores[d] \in Nat
      OBVIOUS
    <3> QED
      BY <1>2, <1>5, <2>1, <3>1, <3>2, <3>3 DEF MatchedByScores
  <2>3. CASE Exact(w) # {}
    <3>1. PICK t \in Exact(w) : AddWeights(t)
      BY <2>1, <2>3
    <3>2. /\ scores' = [d \in Documents |-> scores[d] + t.weights[d]]
          /\ matched_documents' = matched_documents \cup
               { d \in Documents : t.weights[d] # 0 /\ scores[d] + t.weights[d] >= Threshold[d] }
      BY <3>1 DEF AddWeights
    <3>3. \A d \in Documents : WeightOf(w, d) = t.weights[d] /\ t.weights[d] \in Nat
      BY ExactIsTerm, WeightType
    <3>4. \A d \in Documents :
            scores[d] \in Nat /\ Threshold[d] \in Nat /\ scores'[d] = scores[d] + t.weights[d]
      BY <1>1, <3>2
    <3>5. scores' \in [Documents -> Nat]
      BY <3>2, <3>3
    <3>6. MatchedByScores'
      <4>1. ASSUME NEW d \in Documents
            PROVE  d \in matched_documents' <=> scores'[d] > 0 /\ scores'[d] >= Threshold[d]
        <5>1. d \in matched_documents <=> scores[d] > 0 /\ scores[d] >= Threshold[d]
          BY DEF MatchedByScores
        <5>2. d \in matched_documents' <=>
                d \in matched_documents
                  \/ (t.weights[d] # 0 /\ scores[d] + t.weights[d] >= Threshold[d])
          BY <3>2
        <5> QED
          BY <3>3, <3>4, <5>1, <5>2
      <4>2. matched_documents' \subseteq Documents
        BY <3>2 DEF MatchedByScores
      <4> QED
        BY <4>1, <4>2 DEF MatchedByScores
    <3> QED
      BY <1>2, <1>5, <2>1, <3>3, <3>4, <3>5, <3>6
  <2> QED
    BY <2>2, <2>3
<1> QED
  BY <1>4, <1>5

-----------------------------------------------------------------------------
(* BM25: the words of a text, as sums. *)

WordAt(t, r) == SubSeq(t, r[1], r[2])
Worth(v, t, R) == Total([r \in R |-> Kept(v)[WordAt(t, r)]], R)

\* A word is bytes of the text.
LEMMA WordAtType ==
  ASSUME NEW t \in Seq(Bytes), NEW i \in 1 .. Len(t), NEW j \in 1 .. Len(t)
  PROVE  /\ SubSeq(t, i, j) \in Seq(Bytes)
         /\ i <= j => Len(SubSeq(t, i, j)) = j - i + 1
         /\ \A k \in 1 .. j - i + 1 : SubSeq(t, i, j)[k] = t[i + k - 1]
<1>1. i \in Int /\ j \in Int /\ \A k \in i .. j : t[k] \in Bytes
  OBVIOUS
<1> QED
  BY <1>1, SubSeqProperties

LEMMA KeptType ==
  ASSUME NEW v \in [Seq(Bytes) -> Nat], NEW t \in Seq(Bytes), NEW r \in Tokens(t)
  PROVE  WordAt(t, r) \in Seq(Bytes) /\ Kept(v)[WordAt(t, r)] \in Nat
<1>1. WordAt(t, r) \in Seq(Bytes)
  BY TokensApart, WordAtType DEF WordAt
<1> QED
  BY <1>1 DEF Kept

\* A word more.
LEMMA WorthOfOneMore ==
  ASSUME NEW v \in [Seq(Bytes) -> Nat], NEW t \in Seq(Bytes),
         NEW R, R \subseteq Tokens(t), NEW x \in Tokens(t), x \notin R
  PROVE  Worth(v, t, R \cup {x}) = Worth(v, t, R) + Kept(v)[WordAt(t, x)]
<1> DEFINE T == R \cup {x}
           f == [r \in T |-> Kept(v)[WordAt(t, r)]]
           h == [r \in R |-> Kept(v)[WordAt(t, r)]]
<1>1. IsFiniteSet(R)
  BY Places, FS_Subset
<1>2. f \in [T -> Int]
  BY KeptType
<1>3. h = [r \in R |-> f[r]] /\ f[x] = Kept(v)[WordAt(t, x)]
  OBVIOUS
<1>4. Total(f, R \cup {x}) = Total([r \in R |-> f[r]], R) + f[x]
  <2> HIDE DEF f
  <2> QED
    BY <1>1, <1>2, TotalOneMore
<1>5. Worth(v, t, R \cup {x}) = Total(f, R \cup {x}) /\ Worth(v, t, R) = Total(h, R)
  BY DEF Worth
<1> HIDE DEF f, h
<1> QED
  BY <1>3, <1>4, <1>5

\* No word, and a byte more.
LEMMA WorthStays ==
  ASSUME NEW v, NEW t \in Seq(Bytes), NEW c \in Bytes, NEW R, R \subseteq Tokens(t)
  PROVE  Worth(v, Append(t, c), R) = Worth(v, t, R)
<1>1. ASSUME NEW r \in R
      PROVE  WordAt(Append(t, c), r) = WordAt(t, r)
  <2>1. r[1] \in 1 .. Len(t) /\ r[2] \in 1 .. Len(t)
    BY TokensApart
  <2> QED
    BY <2>1, SamePart DEF WordAt
<1>2. [r \in R |-> Kept(v)[WordAt(Append(t, c), r)]] = [r \in R |-> Kept(v)[WordAt(t, r)]]
  BY <1>1
<1> QED
  BY <1>2 DEF Worth

LEMMA WorthOfNone ==
  ASSUME NEW v, NEW t
  PROVE  Worth(v, t, {}) = 0
<1>1. [r \in {} |-> Kept(v)[WordAt(t, r)]] = [r \in {} |-> 0]
  OBVIOUS
<1>2. Total([r \in {} |-> 0], {}) = 0
  BY FS_EmptySet, TotalZero
<1> QED
  BY <1>1, <1>2 DEF Worth

-----------------------------------------------------------------------------
(* BM25: the word under way. *)

\* Its place in the text, behind which a connector may be pending.
OpenToken ==
  LET last == IF pending_connector = NoByte THEN Len(text) ELSE Len(text) - 1 IN
  << (last - Len(word)) + 1, last >>

Ended == Tokens(text) \ (IF word = << >> THEN {} ELSE { OpenToken })

\* The scores are those of the words that have ended.
SumsAre(R) ==
  /\ query_tokens = Worth(Ones, text, R)
  /\ \A d \in Documents : scores[d] = Worth(Weights(d), text, R)

\* The word under way is the last of the text, when the text is regular.
WordIsLast ==
  /\ word = << >> => pending_connector = NoByte /\ \A p \in DOMAIN text : ~ LinkNext(text, p)
  /\ word # << >> =>
       /\ OpenToken \in Tokens(text) /\ LinkNext(text, OpenToken[2])
       /\ word = WordAt(text, OpenToken) /\ previous_char = text[OpenToken[2]]
       /\ pending_connector # NoByte => pending_connector = text[Len(text)]

RegularInv ==
  /\ MatchedByScores
  /\ ~finished /\ Regular(text) => WordIsLast /\ SumsAre(Ended)
  /\ finished /\ Regular(text) => SumsAre(Tokens(text))

\* A beginning of a regular text is regular.
LEMMA RegularBefore ==
  ASSUME NEW t \in Seq(Bytes), NEW c \in Bytes, Regular(Append(t, c))
  PROVE  Regular(t)
<1> DEFINE u == Append(t, c)
<1>1. /\ DOMAIN t \subseteq DOMAIN u /\ DOMAIN t = 1 .. Len(t) /\ Len(t) \in Nat
      /\ \A p \in DOMAIN t : u[p] = t[p]
  OBVIOUS
<1> HIDE DEF u
<1>2. ASSUME NEW i \in DOMAIN t, NEW j \in DOMAIN t, NEW S
      PROVE  Within(u, i, j, S) <=> Within(t, i, j, S)
  <2>1. \A k \in i .. j : k \in DOMAIN t
    BY <1>1
  <2> QED
    BY <1>1, <2>1 DEF Within
<1>3. ASSUME NEW i \in DOMAIN t, NEW j \in DOMAIN t, i <= j, ~ Within(t, i, j, Delimiters)
      PROVE  /\ \A a, b \in i .. j : t[a] \in Connectors /\ t[b] \in Connectors => t[a] = t[b]
             /\ Within(t, i, j, { Dot }) => ~ Within(t, i, j, Letters)
  <2>1. i \in DOMAIN u /\ j \in DOMAIN u /\ ~ Within(u, i, j, Delimiters)
    BY <1>1, <1>2, <1>3
  <2>2. /\ \A a, b \in i .. j : u[a] \in Connectors /\ u[b] \in Connectors => u[a] = u[b]
        /\ Within(u, i, j, { Dot }) => ~ Within(u, i, j, Letters)
    BY <1>3, <2>1 DEF Regular, u
  <2>3. \A k \in i .. j : k \in DOMAIN t
    BY <1>1
  <2> QED
    BY <1>1, <1>2, <2>2, <2>3
<1> QED
  BY <1>3 DEF Regular

\* A connector in a regular text always connects: around a dot there are only
\* digits.
LEMMA RegularConnects ==
  ASSUME Bm25Inv, NEW c \in WordChars, c \in Bytes, WordIsLast, Regular(Append(text, c)),
         word # << >>, pending_connector # NoByte
  PROVE  Connects(c)
<1> DEFINE u == Append(text, c)
           n == Len(text)
           e == OpenToken[2]
<1>1. /\ text \in Seq(Bytes) /\ n \in Nat /\ DOMAIN u = 1 .. n + 1 /\ u[n + 1] = c
      /\ \A p \in 1 .. n : u[p] = text[p]
  BY DEF Bm25Inv, TypeOK
<1>2. /\ e = n - 1 /\ OpenToken \in Tokens(text) /\ LinkNext(text, e)
      /\ previous_char = text[e] /\ pending_connector = text[n]
  BY DEF WordIsLast, OpenToken
<1>3. e \in 1 .. n /\ text[e] \in WordChars /\ n - 1 \in 1 .. n /\ text[n] \in Connectors
  BY <1>1, <1>2 DEF LinkNext, Part
<1> HIDE DEF u, n, e
<1> SUFFICES ASSUME pending_connector = Dot
             PROVE  previous_char \in Digits /\ c \in Digits
  BY DEF Connects
<1>4. /\ e \in 1 .. n + 1 /\ n + 1 \in 1 .. n + 1 /\ e <= n + 1
      /\ \A k \in e .. n + 1 : k = e \/ k = n \/ k = n + 1
      /\ e \in e .. n + 1 /\ n \in e .. n + 1 /\ n + 1 \in e .. n + 1 /\ n \in 1 .. n
  BY <1>1, <1>2, <1>3
<1>5. u[e] = text[e] /\ u[n] = text[n]
  BY <1>1, <1>3, <1>4
<1>6. ~ Within(u, e, n + 1, Delimiters)
  BY <1>1, <1>3, <1>4, <1>5, Bm25Assumption DEF Within
<1>7. Within(u, e, n + 1, { Dot })
  BY <1>2, <1>4, <1>5 DEF Within
<1>8. ~ Within(u, e, n + 1, Letters)
  BY <1>1, <1>4, <1>6, <1>7 DEF Regular, u
<1>9. u[e] \notin Letters /\ u[n + 1] \notin Letters
  BY <1>4, <1>8 DEF Within
<1> QED
  BY <1>1, <1>2, <1>3, <1>5, <1>9 DEF WordChars

\* The parts of a word and the next byte are again a part of the text.
LEMMA WordAtAppend ==
  ASSUME NEW t \in Seq(Bytes), NEW c \in Bytes, NEW i \in 1 .. Len(t) + 1
  PROVE  /\ SubSeq(Append(t, c), i, Len(t) + 1) = Append(SubSeq(t, i, Len(t)), c)
         /\ i <= Len(t) =>
              SubSeq(t, i, Len(t)) = Append(SubSeq(t, i, Len(t) - 1), t[Len(t)])
<1> DEFINE n == Len(t)
           u == Append(t, c)
<1>1. /\ n \in Nat /\ u \in Seq(Bytes) /\ u[n + 1] = c
      /\ \A p \in 1 .. n : u[p] = t[p] /\ t[p] \in Bytes
  OBVIOUS
<1> HIDE DEF n, u
<1>2. /\ i \in Int /\ n \in Int /\ n - 1 \in Int /\ n + 1 \in Int
      /\ \A k \in i .. n : t[k] \in Bytes
      /\ \A k \in i .. n - 1 : t[k] \in Bytes
      /\ \A k \in i .. n + 1 : u[k] \in Bytes
  <2>1. /\ \A k \in i .. n : k \in 1 .. n
        /\ \A k \in i .. n - 1 : k \in 1 .. n
        /\ \A k \in i .. n + 1 : k \in 1 .. n \/ k = n + 1
        /\ i \in 1 .. n + 1
    BY <1>1 DEF n
  <2> QED
    BY <1>1, <2>1
<1>3. i \in 1 .. n + 1
  BY DEF n
<1>4. /\ SubSeq(t, i, n) \in Seq(Bytes) /\ Len(SubSeq(t, i, n)) = n - i + 1
      /\ \A k \in 1 .. n - i + 1 : SubSeq(t, i, n)[k] = t[i + k - 1]
  BY <1>1, <1>2, <1>3, SubSeqProperties
<1>5. /\ SubSeq(u, i, n + 1) \in Seq(Bytes) /\ Len(SubSeq(u, i, n + 1)) = n - i + 2
      /\ \A k \in 1 .. n - i + 2 : SubSeq(u, i, n + 1)[k] = u[i + k - 1]
  <2>1. (n + 1) - i + 1 = n - i + 2
    BY <1>1, <1>3
  <2>2. /\ SubSeq(u, i, n + 1) \in Seq(Bytes)
        /\ Len(SubSeq(u, i, n + 1)) = IF i <= n + 1 THEN (n + 1) - i + 1 ELSE 0
        /\ \A k \in 1 .. (n + 1) - i + 1 : SubSeq(u, i, n + 1)[k] = u[i + k - 1]
    BY <1>2, SubSeqProperties
  <2> QED
    BY <1>3, <2>1, <2>2
<1>6. SubSeq(u, i, n + 1) = Append(SubSeq(t, i, n), c)
  <2> DEFINE left == SubSeq(u, i, n + 1)
             part == SubSeq(t, i, n)
             m == n - i + 1
  <2>1. /\ m \in Nat /\ left \in Seq(Bytes) /\ Len(left) = m + 1
        /\ part \in Seq(Bytes) /\ Len(part) = m
        /\ \A k \in 1 .. m : left[k] = part[k]
        /\ left[m + 1] = c
    <3>1. /\ m \in Nat /\ n - i + 2 = m + 1 /\ i + (m + 1) - 1 = n + 1 /\ m + 1 \in 1 .. m + 1
          /\ \A k \in 1 .. m : k \in 1 .. m + 1 /\ i + k - 1 \in 1 .. n
      BY <1>1, <1>3
    <3> QED
      BY <1>1, <1>4, <1>5, <3>1
  <2> HIDE DEF left, part, m
  <2>2. left = Append(part, c)
    BY <2>1
  <2> QED
    BY <2>2 DEF left, part
<1>7. ASSUME i <= n
      PROVE  SubSeq(t, i, n) = Append(SubSeq(t, i, n - 1), t[n])
  <2> DEFINE left == SubSeq(t, i, n)
             part == SubSeq(t, i, n - 1)
             m == n - i
  <2>1. /\ part \in Seq(Bytes) /\ Len(part) = IF i <= n - 1 THEN (n - 1) - i + 1 ELSE 0
        /\ \A k \in 1 .. (n - 1) - i + 1 : part[k] = t[i + k - 1]
    BY <1>2, SubSeqProperties
  <2>2. /\ m \in Nat /\ left \in Seq(Bytes) /\ Len(left) = m + 1
        /\ part \in Seq(Bytes) /\ Len(part) = m
        /\ \A k \in 1 .. m : left[k] = part[k]
        /\ left[m + 1] = t[n]
    <3>1. /\ m \in Nat /\ n - i + 1 = m + 1 /\ i + (m + 1) - 1 = n /\ m + 1 \in 1 .. m + 1
          /\ (n - 1) - i + 1 = m /\ (i <= n - 1 \/ m = 0)
          /\ \A k \in 1 .. m : k \in 1 .. m + 1
      BY <1>1, <1>3, <1>7
    <3> QED
      BY <1>1, <1>4, <2>1, <3>1
  <2>3. t[n] \in Bytes
    BY <1>1, <1>2, <1>7
  <2> HIDE DEF left, part, m
  <2>4. left = Append(part, t[n])
    BY <2>2, <2>3
  <2> QED
    BY <2>4 DEF left, part
<1> QED
  BY <1>6, <1>7 DEF u, n

\* The sums of the same words after a byte more.
LEMMA SumsStay ==
  ASSUME NEW c \in Bytes, text \in Seq(Bytes), text' = Append(text, c),
         UNCHANGED << scores, query_tokens >>,
         NEW R, R \subseteq Tokens(text), SumsAre(R), NEW S, S = R
  PROVE  /\ query_tokens' = Worth(Ones, text', S)
         /\ \A d \in Documents : scores'[d] = Worth(Weights(d), text', S)
  BY WorthStays DEF SumsAre

\* The word under way is now the one that ends with the byte.
LEMMA WordIsNow ==
  ASSUME text \in Seq(Bytes), NEW c \in WordChars, c \in Bytes, text' = Append(text, c),
         UNCHANGED << scores, query_tokens >>,
         Ended \subseteq Tokens(text), SumsAre(Ended),
         NEW i \in 1 .. Len(text) + 1,
         word' = SubSeq(text', i, Len(text) + 1), pending_connector' = NoByte, previous_char' = c,
         Tokens(text') = Ended \cup { << i, Len(text) + 1 >> }, << i, Len(text) + 1 >> \notin Ended
  PROVE  WordIsLast' /\ SumsAre(Ended)'
<1> DEFINE n == Len(text)
           new == << i, n + 1 >>
<1>1. /\ n \in Nat /\ text' \in Seq(Bytes) /\ Len(text') = n + 1 /\ DOMAIN text' = 1 .. n + 1
      /\ text'[n + 1] = c /\ n + 1 \in 1 .. n + 1
  OBVIOUS
<1> HIDE DEF n
<1>2. word' # << >> /\ Len(word') = (n + 1) - i + 1
  <2>1. i \in 1 .. n + 1 /\ i <= n + 1
    BY <1>1 DEF n
  <2>2. Len(SubSeq(text', i, n + 1)) = (n + 1) - i + 1
    BY <1>1, <2>1, WordAtType
  <2>3. Len(word') # 0 /\ Len(word') = (n + 1) - i + 1
    BY <1>1, <2>1, <2>2 DEF n
  <2> QED
    BY <2>3
<1>3. OpenToken' = new
  <2>1. OpenToken' = << (Len(text') - Len(word')) + 1, Len(text') >>
    BY DEF OpenToken
  <2>2. (Len(text') - Len(word')) + 1 = i
    BY <1>1, <1>2 DEF n
  <2> QED
    BY <1>1, <2>1, <2>2
<1>4. new[1] = i /\ new[2] = n + 1
  OBVIOUS
<1>5. Ended' = Ended
  <2>1. Ended' = Tokens(text') \ { new }
    BY <1>2, <1>3 DEF Ended
  <2> QED
    BY <2>1 DEF n
<1>6. SumsAre(Ended)'
  BY <1>5, SumsStay DEF SumsAre
<1> HIDE DEF new
<1>7. WordIsLast'
  <2>1. new \in Tokens(text')
    BY DEF new, n
  <2>2. LinkNext(text', n + 1)
    BY <1>1 DEF LinkNext, Part
  <2>3. word' = WordAt(text', new)
    BY <1>4 DEF WordAt, n
  <2> QED
    BY <1>1, <1>2, <1>3, <1>4, <2>1, <2>2, <2>3 DEF WordIsLast
<1> QED
  BY <1>6, <1>7

\* Where there is a word under way there is room for it.
LEMMA RoomForTheWord ==
  ASSUME Bm25Inv, ~finished, word # << >>
  PROVE  query_tokens < MaxQueryTokens
<1>1. /\ query_tokens \in Nat /\ Len(text) \in Nat /\ Len(text) <= MaxBytes /\ MaxBytes \in Nat
  BY Bm25Assumption DEF Bm25Inv, TypeOK
<1>2. 2 * query_tokens + 1 <= Len(text)
  BY <1>1 DEF Bm25Inv, BytesPaid
<1>3. 2 * query_tokens + 1 <= MaxBytes
  BY <1>1, <1>2
<1> QED
  BY <1>1, <1>3, RoomForAWord

\* A byte of a word.
LEMMA WordByteIsRegular ==
  ASSUME Bm25Inv, RegularInv, NEW c \in Bytes, ScoreChar(c), WordByte(c), Regular(text')
  PROVE  WordIsLast' /\ SumsAre(Ended)'
<1> DEFINE n == Len(text)
<1>1. /\ text \in Seq(Bytes) /\ text' = Append(text, c) /\ ~finished /\ c \in WordChars
      /\ pending_connector' = NoByte /\ previous_char' = c /\ n \in Nat /\ DOMAIN text = 1 .. n
      /\ word \in Seq(Bytes)
  BY DEF Bm25Inv, TypeOK, ScoreChar, WordByte
<1>2. WordIsLast /\ SumsAre(Ended)
  BY <1>1, RegularBefore DEF RegularInv
<1>3. Ended \subseteq Tokens(text)
  BY DEF Ended
<1>4. CASE word = << >>
  <2>1. /\ pending_connector = NoByte /\ word' = << c >> /\ UNCHANGED << scores, query_tokens >>
        /\ \A p \in DOMAIN text : ~ LinkNext(text, p)
    BY <1>2, <1>4 DEF WordIsLast, WordByte, scoreVars
  <2>2. Ended = Tokens(text)
    BY <1>4 DEF Ended
  <2>3. /\ Tokens(text') = Ended \cup { << n + 1, n + 1 >> } /\ << n + 1, n + 1 >> \notin Ended
    BY <1>1, <2>1, <2>2, WordBegins
  <2>4. SubSeq(text', n + 1, n + 1) = << c >>
    <3>1. SubSeq(text', n + 1, n + 1) = Append(SubSeq(text, n + 1, n), c)
      BY <1>1, WordAtAppend
    <3>2. SubSeq(text, n + 1, n) = << >>
      BY <1>1, SubSeqEmpty
    <3>3. Append(<< >>, c) = << c >>
      OBVIOUS
    <3> QED
      BY <3>1, <3>2, <3>3, Zenon
  <2>5. n + 1 \in 1 .. n + 1
    BY <1>1
  <2> QED
    BY <1>1, <1>2, <1>3, <2>1, <2>3, <2>4, <2>5, WordIsNow
<1>5. CASE word # << >>
  <2> DEFINE open == OpenToken
             i == open[1]
  <2>1. /\ open \in Tokens(text) /\ LinkNext(text, open[2]) /\ word = WordAt(text, open)
        /\ pending_connector # NoByte => pending_connector = text[n]
        /\ open[2] = IF pending_connector = NoByte THEN n ELSE n - 1
    BY <1>2, <1>5 DEF WordIsLast, OpenToken
  <2>2. i \in 1 .. n /\ open[2] \in 1 .. n /\ word = SubSeq(text, i, open[2])
    BY <1>1, <2>1, TokensApart DEF WordAt
  <2>3. Ended = Tokens(text) \ { open }
    BY <1>5 DEF Ended
  <2> HIDE DEF open
  <2>4. /\ Tokens(text') = Ended \cup { << i, n + 1 >> } /\ << i, n + 1 >> \notin Ended
    BY <1>1, <2>1, <2>3, WordGrows
  <2>5. word' = SubSeq(text', i, n + 1) /\ UNCHANGED << scores, query_tokens >>
    <3>1. i \in 1 .. n + 1 /\ i <= n
      BY <1>1, <2>2
    <3>2. /\ SubSeq(text', i, n + 1) = Append(SubSeq(text, i, n), c)
          /\ SubSeq(text, i, n) = Append(SubSeq(text, i, n - 1), text[n])
      BY <1>1, <3>1, WordAtAppend
    <3>3. CASE pending_connector = NoByte
      <4>1. word' = Append(word, c) /\ UNCHANGED << scores, query_tokens >>
        BY <3>3 DEF WordByte, scoreVars
      <4> QED
        BY <2>1, <2>2, <3>2, <3>3, <4>1
    <3>4. CASE pending_connector # NoByte
      <4>1. Connects(c)
        BY <1>1, <1>2, <1>5, <3>4, RegularConnects
      <4>2. word' = word \o << pending_connector, c >> /\ UNCHANGED << scores, query_tokens >>
        BY <3>4, <4>1 DEF WordByte, scoreVars
      <4>3. pending_connector \in Bytes
        BY <3>4 DEF Bm25Inv, TypeOK, Bytes
      <4>4. word \o << pending_connector, c >> = Append(Append(word, pending_connector), c)
        BY <1>1, <4>3
      <4> QED
        BY <2>1, <2>2, <3>2, <3>4, <4>2, <4>4
    <3> QED
      BY <3>3, <3>4
  <2>6. i \in 1 .. n + 1
    BY <1>1, <2>2
  <2> HIDE DEF i
  <2> QED
    BY <1>1, <1>2, <1>3, <2>4, <2>5, <2>6, WordIsNow
<1> QED
  BY <1>4, <1>5

\* A connector behind a word.
LEMMA ConnectorByteIsRegular ==
  ASSUME Bm25Inv, RegularInv, NEW c \in Bytes, ScoreChar(c), ConnectorByte(c), Regular(text')
  PROVE  WordIsLast' /\ SumsAre(Ended)'
<1> DEFINE n == Len(text)
<1>1. /\ text \in Seq(Bytes) /\ text' = Append(text, c) /\ ~finished /\ c \in Connectors
      /\ word # << >> /\ word' = word /\ pending_connector = NoByte /\ pending_connector' = c
      /\ previous_char' = previous_char /\ UNCHANGED << scores, query_tokens >>
  BY DEF Bm25Inv, TypeOK, ScoreChar, ConnectorByte, scoreVars
<1>2. WordIsLast /\ SumsAre(Ended)
  BY <1>1, RegularBefore DEF RegularInv
<1>3. c \notin WordChars /\ c # NoByte
  BY <1>1, Bm25Assumption
<1>4. Tokens(text') = Tokens(text)
  BY <1>1, <1>3, OtherAfter
<1>5. /\ n \in Nat /\ Len(text') = n + 1 /\ text'[n + 1] = c
      /\ \A p \in 1 .. n : text'[p] = text[p] /\ p \in DOMAIN text'
  BY <1>1
<1>6. OpenToken' = OpenToken /\ OpenToken[2] = n
  <2>1. /\ OpenToken' = << ((Len(text') - 1) - Len(word)) + 1, Len(text') - 1 >>
        /\ OpenToken = << (n - Len(word)) + 1, n >>
    BY <1>1, <1>3 DEF OpenToken
  <2>2. Len(text') - 1 = n
    BY <1>5
  <2> QED
    BY <2>1, <2>2
<1>7. Ended' = Ended
  BY <1>1, <1>4, <1>6 DEF Ended
<1>8. SumsAre(Ended)'
  <2>1. Ended \subseteq Tokens(text)
    BY DEF Ended
  <2> QED
    BY <1>1, <1>2, <1>7, <2>1, SumsStay DEF SumsAre
<1>9. /\ OpenToken \in Tokens(text) /\ word = WordAt(text, OpenToken)
      /\ previous_char = text[n] /\ Part(text, n)
  BY <1>1, <1>2, <1>6 DEF WordIsLast, LinkNext
<1>10. WordAt(text', OpenToken) = WordAt(text, OpenToken)
  <2>1. OpenToken[1] \in 1 .. Len(text) /\ OpenToken[2] \in 1 .. Len(text)
    BY <1>1, <1>9, TokensApart
  <2> HIDE DEF OpenToken
  <2> QED
    BY <1>1, <2>1, SamePart DEF WordAt
<1>11. n \in 1 .. n
  BY <1>1, <1>5, <1>9 DEF Part
<1>12. LinkNext(text', n)
  <2>1. n = Len(text') - 1 /\ text'[Len(text')] \in Connectors
    BY <1>1, <1>5
  <2>2. Part(text', n)
    BY <1>5, <1>9, <1>11 DEF Part
  <2> QED
    BY <2>1, <2>2 DEF LinkNext
<1>13. /\ OpenToken' \in Tokens(text') /\ LinkNext(text', OpenToken'[2])
       /\ word' = WordAt(text', OpenToken') /\ previous_char' = text'[OpenToken'[2]]
       /\ pending_connector' = text'[Len(text')] /\ word' # << >>
  BY <1>1, <1>4, <1>5, <1>6, <1>9, <1>10, <1>11, <1>12
<1>14. WordIsLast'
  BY <1>13 DEF WordIsLast
<1> QED
  BY <1>8, <1>14

LEMMA WeightsType ==
  /\ Ones \in [Seq(Bytes) -> Nat]
  /\ \A d \in Documents : Weights(d) \in [Seq(Bytes) -> Nat]
BY WeightType DEF Ones, Weights

\* The matched documents are those of the scores, on any text.
LEMMA MatchedStays ==
  ASSUME Bm25Inv, MatchedByScores, [Next]_vars
  PROVE  MatchedByScores'
<1>1. scores \in [Documents -> Nat] /\ query_tokens \in Nat /\ word \in Seq(Bytes)
  BY DEF Bm25Inv, TypeOK
<1>2. CASE UNCHANGED scoreVars
  BY <1>2 DEF scoreVars, MatchedByScores
<1>3. CASE ~finished /\ word # << >> /\ CountWord(word)
  <2>1. query_tokens < MaxQueryTokens
    BY <1>3, RoomForTheWord
  <2> QED
    BY <1>1, <1>3, <2>1, CountWordAdds
<1>4. ASSUME ~finished, EndWord
      PROVE  UNCHANGED scoreVars \/ (word # << >> /\ CountWord(word))
  BY <1>4 DEF EndWord
<1>5. ASSUME NEW c \in Bytes, ScoreChar(c)
      PROVE  MatchedByScores'
  <2>1. ~finished
    BY <1>5 DEF ScoreChar
  <2>2. CASE WordByte(c)
    <3>1. CASE word = << >>
      <4>1. pending_connector = NoByte
        BY <2>1, <3>1 DEF Bm25Inv, BytesPaid
      <4> QED
        BY <1>2, <2>2, <4>1 DEF WordByte
    <3>2. CASE word # << >>
      BY <1>2, <1>3, <2>1, <2>2, <3>2 DEF WordByte
    <3> QED
      BY <3>1, <3>2
  <2>3. CASE ConnectorByte(c)
    BY <1>2, <2>3 DEF ConnectorByte
  <2>4. CASE OtherByte(c)
    BY <1>2, <1>3, <1>4, <2>1, <2>4 DEF OtherByte
  <2> QED
    BY <1>5, <2>2, <2>3, <2>4 DEF ScoreChar
<1>6. CASE Finish
  BY <1>2, <1>3, <1>4, <1>6 DEF Finish
<1>7. CASE UNCHANGED vars
  BY <1>2, <1>7 DEF vars
<1> QED
  BY <1>5, <1>6, <1>7 DEF Next

\* The end of the word under way adds it to the others.
LEMMA EndWordAdds ==
  ASSUME Bm25Inv, ~finished, EndWord, MatchedByScores, WordIsLast, SumsAre(Ended)
  PROVE  /\ query_tokens' = Worth(Ones, text, Tokens(text))
         /\ \A d \in Documents : scores'[d] = Worth(Weights(d), text, Tokens(text))
<1>1. /\ scores \in [Documents -> Nat] /\ query_tokens \in Nat /\ word \in Seq(Bytes)
      /\ text \in Seq(Bytes)
  BY DEF Bm25Inv, TypeOK
<1>2. CASE word = << >>
  <2>1. Ended = Tokens(text)
    BY <1>2 DEF Ended
  <2>2. scores' = scores /\ query_tokens' = query_tokens
    BY <1>2 DEF EndWord, scoreVars
  <2> QED
    BY <2>1, <2>2 DEF SumsAre
<1>3. CASE word # << >>
  <2> DEFINE open == OpenToken
  <2>1. open \in Tokens(text) /\ word = WordAt(text, open) /\ Ended = Tokens(text) \ { open }
    BY <1>3 DEF WordIsLast, Ended
  <2> HIDE DEF open
  <2>2. query_tokens < MaxQueryTokens
    BY <1>3, RoomForTheWord
  <2>3. CountWord(word)
    BY <1>3 DEF EndWord
  <2>4. /\ \A d \in Documents : scores'[d] = scores[d] + Kept(Weights(d))[word]
        /\ query_tokens' = query_tokens + Kept(Ones)[word]
    BY <1>1, <2>2, <2>3, CountWordAdds
  <2>5. Ended \subseteq Tokens(text) /\ open \notin Ended /\ Tokens(text) = Ended \cup { open }
    BY <2>1
  <2>6. ASSUME NEW v \in [Seq(Bytes) -> Nat]
        PROVE  Worth(v, text, Tokens(text)) = Worth(v, text, Ended) + Kept(v)[word]
    <3>1. Worth(v, text, Ended \cup { open }) = Worth(v, text, Ended) + Kept(v)[WordAt(text, open)]
      <4>1. text \in Seq(Bytes) /\ Ended \subseteq Tokens(text) /\ open \in Tokens(text) /\ open \notin Ended
        BY <1>1, <2>1, <2>5
      <4> HIDE DEF Ended
      <4> QED
        BY <4>1, WorthOfOneMore, Zenon
    <3> QED
      BY <2>1, <2>5, <3>1
  <2> QED
    BY <2>4, <2>6, WeightsType DEF SumsAre
<1> QED
  BY <1>2, <1>3

\* A byte that ends the word.
LEMMA OtherByteIsRegular ==
  ASSUME Bm25Inv, RegularInv, NEW c \in Bytes, ScoreChar(c), OtherByte(c), Regular(text')
  PROVE  WordIsLast' /\ SumsAre(Ended)'
<1> DEFINE n == Len(text)
<1>1. /\ text \in Seq(Bytes) /\ text' = Append(text, c) /\ ~finished /\ c \notin WordChars
      /\ EndWord /\ word' = << >> /\ pending_connector' = NoByte
      /\ ~(c \in Connectors /\ word # << >> /\ pending_connector = NoByte)
  BY DEF Bm25Inv, TypeOK, ScoreChar, OtherByte, EndWord
<1>2. WordIsLast /\ SumsAre(Ended) /\ MatchedByScores
  BY <1>1, RegularBefore DEF RegularInv
<1>3. Tokens(text') = Tokens(text) /\ Ended' = Tokens(text)
  <2>1. Tokens(text') = Tokens(text)
    BY <1>1, OtherAfter
  <2> QED
    BY <1>1, <2>1 DEF Ended
<1>4. SumsAre(Ended)'
  <2>1. /\ query_tokens' = Worth(Ones, text, Tokens(text))
        /\ \A d \in Documents : scores'[d] = Worth(Weights(d), text, Tokens(text))
    BY <1>1, <1>2, EndWordAdds
  <2>2. \A v : Worth(v, text', Tokens(text)) = Worth(v, text, Tokens(text))
    BY <1>1, WorthStays
  <2> QED
    BY <1>3, <2>1, <2>2 DEF SumsAre
<1>5. ASSUME NEW p \in DOMAIN text', LinkNext(text', p)
      PROVE  FALSE
  <2>1. /\ n \in Nat /\ Len(text') = n + 1 /\ text'[n + 1] = c
        /\ DOMAIN text = 1 .. n /\ DOMAIN text' = 1 .. n + 1
        /\ \A q \in 1 .. n : text'[q] = text[q]
    BY <1>1
  <2>2. p # n + 1 /\ p = (n + 1) - 1 /\ c \in Connectors /\ text'[p] \in WordChars
    BY <1>1, <1>5, <2>1 DEF LinkNext, Part
  <2>3. p = n /\ n \in 1 .. n /\ text[n] \in WordChars
    <3>1. p \in 1 .. n + 1
      BY <1>5, <2>1
    <3>2. p = n /\ n \in 1 .. n
      <4>1. n \in Nat /\ p = (n + 1) - 1
        BY <2>1, <2>2
      <4> HIDE DEF n
      <4> QED
        BY <3>1, <4>1
    <3> QED
      BY <2>1, <2>2, <3>2
  <2>4. LinkNext(text, n)
    BY <2>1, <2>3 DEF LinkNext, Part
  <2>5. word # << >> /\ pending_connector # NoByte
    BY <1>1, <1>2, <2>1, <2>2, <2>3, <2>4 DEF WordIsLast
  <2>6. pending_connector = text[n] /\ pending_connector \in Connectors
    BY <1>2, <2>5 DEF WordIsLast, Bm25Inv, TypeOK
  <2> QED
    BY <2>3, <2>6, Bm25Assumption
<1> QED
  BY <1>1, <1>4, <1>5 DEF WordIsLast

LEMMA FinishIsRegular ==
  ASSUME Bm25Inv, RegularInv, Finish, Regular(text')
  PROVE  SumsAre(Tokens(text))'
<1>1. /\ text' = text /\ ~finished /\ EndWord
  BY DEF Finish
<1>2. WordIsLast /\ SumsAre(Ended) /\ MatchedByScores
  BY <1>1 DEF RegularInv
<1>3. /\ query_tokens' = Worth(Ones, text, Tokens(text))
      /\ \A d \in Documents : scores'[d] = Worth(Weights(d), text, Tokens(text))
  BY <1>1, <1>2, EndWordAdds
<1> QED
  BY <1>1, <1>3 DEF SumsAre

LEMMA InitRegularInv == Init => RegularInv
<1> SUFFICES ASSUME Init
             PROVE  RegularInv
  OBVIOUS
<1>1. /\ text = << >> /\ word = << >> /\ pending_connector = NoByte /\ ~finished /\ query_tokens = 0
      /\ scores = [d \in Documents |-> 0] /\ matched_documents = {} /\ DOMAIN text = {}
  BY DEF Init
<1>2. Tokens(text) = {} /\ Ended = {}
  BY <1>1 DEF Tokens, Ended
<1>3. SumsAre(Ended)
  BY <1>1, <1>2, WorthOfNone DEF SumsAre
<1>4. MatchedByScores
  <2>1. \A d \in Documents : scores[d] = 0
    BY <1>1
  <2> QED
    BY <1>1, <2>1 DEF MatchedByScores
<1> QED
  BY <1>1, <1>3, <1>4 DEF RegularInv, WordIsLast

LEMMA RegularInvStep == Bm25Inv /\ RegularInv /\ [Next]_vars => RegularInv'
<1> SUFFICES ASSUME Bm25Inv, RegularInv, [Next]_vars
             PROVE  RegularInv'
  OBVIOUS
<1>1. MatchedByScores'
  BY MatchedStays DEF RegularInv
<1>2. ASSUME NEW c \in Bytes, ScoreChar(c)
      PROVE  RegularInv'
  <2>1. finished' = FALSE /\ (WordByte(c) \/ ConnectorByte(c) \/ OtherByte(c))
    BY <1>2 DEF ScoreChar
  <2>2. Regular(text') => WordIsLast' /\ SumsAre(Ended)'
    BY <1>2, <2>1, WordByteIsRegular, ConnectorByteIsRegular, OtherByteIsRegular
  <2> QED
    BY <1>1, <2>1, <2>2 DEF RegularInv
<1>3. CASE Finish
  <2>1. finished' = TRUE
    BY <1>3 DEF Finish
  <2>2. Regular(text') => SumsAre(Tokens(text))'
    BY <1>3, FinishIsRegular
  <2> QED
    BY <1>1, <2>1, <2>2 DEF RegularInv
<1>4. CASE UNCHANGED vars
  <2>1. /\ scores' = scores /\ query_tokens' = query_tokens /\ text' = text /\ finished' = finished
        /\ word' = word /\ pending_connector' = pending_connector
        /\ previous_char' = previous_char
    BY <1>4 DEF vars, scoreVars, wordVars
  <2>2. OpenToken' = OpenToken /\ Tokens(text') = Tokens(text)
    BY <2>1 DEF OpenToken
  <2>3. Ended' = Ended /\ (Regular(text') <=> Regular(text)) /\ (WordIsLast' <=> WordIsLast)
    BY <2>1, <2>2 DEF Ended, WordIsLast
  <2>4. (SumsAre(Ended)' <=> SumsAre(Ended)) /\ (SumsAre(Tokens(text))' <=> SumsAre(Tokens(text)))
    BY <2>1, <2>2, <2>3 DEF SumsAre
  <2> QED
    BY <1>1, <2>1, <2>3, <2>4 DEF RegularInv
<1> QED
  BY <1>2, <1>3, <1>4 DEF Next

-----------------------------------------------------------------------------
(* BM25: the words that the regular expression finds. *)

\* A run of parts, as places in the text.
JoinedAt(t, i, j, parts, connector) ==
  /\ \A p \in i .. j : t[p] \in parts \cup { connector }
  /\ t[i] \in parts /\ t[j] \in parts
  /\ \A p \in i .. j - 1 : t[p] \in parts \/ t[p + 1] \in parts

LEMMA PartIsJoined ==
  ASSUME NEW t \in Seq(Bytes), NEW i \in 1 .. Len(t), NEW j \in i .. Len(t), NEW parts, NEW c
  PROVE  LET w == SubSeq(t, i, j) IN
         /\ IsJoined(w, parts, c) <=> JoinedAt(t, i, j, parts, c)
         /\ HasConnector(w, c) <=> \E p \in i .. j : t[p] = c
<1> DEFINE w == SubSeq(t, i, j)
           n == j - i + 1
<1>1. /\ w \in Seq(Bytes) /\ Len(w) = n /\ DOMAIN w = 1 .. n /\ n \in Nat /\ n >= 1
      /\ \A k \in 1 .. n : w[k] = t[i + k - 1]
  <2>1. j \in 1 .. Len(t) /\ i <= j /\ i \in Nat /\ j \in Nat
    OBVIOUS
  <2>2. w \in Seq(Bytes) /\ Len(w) = n /\ \A k \in 1 .. n : w[k] = t[i + k - 1]
    BY <2>1, WordAtType
  <2>3. DOMAIN w = 1 .. n
    BY <2>2
  <2>4. n \in Nat /\ n >= 1
    BY <2>1
  <2> QED
    BY <2>2, <2>3, <2>4
<1> HIDE DEF w
<1>2. /\ i \in Int /\ j \in Int
      /\ \A k \in 1 .. n : i + k - 1 \in i .. j
      /\ \A p \in i .. j : p - i + 1 \in 1 .. n /\ i + (p - i + 1) - 1 = p
      /\ \A k \in 1 .. n - 1 : /\ k \in 1 .. n /\ k + 1 \in 1 .. n
                               /\ i + k - 1 \in i .. j - 1
                               /\ i + (k + 1) - 1 = (i + k - 1) + 1
      /\ \A p \in i .. j - 1 : /\ p - i + 1 \in 1 .. n - 1 /\ p \in i .. j /\ p + 1 \in i .. j
                               /\ (p + 1) - i + 1 = (p - i + 1) + 1
      /\ 1 \in 1 .. n /\ n \in 1 .. n /\ i + 1 - 1 = i /\ i + n - 1 = j
  OBVIOUS
<1> HIDE DEF n
<1>3. \A p \in i .. j : w[p - i + 1] = t[p]
  BY <1>1, <1>2
<1>4. w[1] = t[i] /\ w[n] = t[j]
  BY <1>1, <1>2
<1>5. (\A k \in DOMAIN w : w[k] \in parts \cup { c })
        <=> (\A p \in i .. j : t[p] \in parts \cup { c })
  BY <1>1, <1>2, <1>3
<1>6. (\A k \in 1 .. n - 1 : w[k] \in parts \/ w[k + 1] \in parts)
        <=> (\A p \in i .. j - 1 : t[p] \in parts \/ t[p + 1] \in parts)
  <2>1. \A k \in 1 .. n - 1 : w[k] = t[i + k - 1] /\ w[k + 1] = t[(i + k - 1) + 1]
    BY <1>1, <1>2
  <2>2. \A p \in i .. j - 1 : w[p - i + 1] = t[p] /\ w[(p - i + 1) + 1] = t[p + 1]
    BY <1>2, <1>3
  <2> QED
    BY <1>2, <2>1, <2>2
<1>7. IsJoined(w, parts, c) <=> JoinedAt(t, i, j, parts, c)
  BY <1>1, <1>4, <1>5, <1>6 DEF IsJoined, JoinedAt
<1>8. HasConnector(w, c) <=> \E p \in i .. j : t[p] = c
  <2>1. \A k \in 1 .. n : w[k] = t[i + k - 1] /\ i + k - 1 \in i .. j
    BY <1>1, <1>2
  <2>2. \A p \in i .. j : w[p - i + 1] = t[p] /\ p - i + 1 \in 1 .. n
    BY <1>2, <1>3
  <2>3. HasConnector(w, c) <=> \E k \in 1 .. n : w[k] = c
    BY <1>1 DEF HasConnector
  <2> QED
    BY <2>1, <2>2, <2>3, Zenon
<1> QED
  BY <1>7, <1>8 DEF w

\* The three alternatives, as places.
LEMMA EndsAt ==
  ASSUME NEW t \in Seq(Bytes), NEW i \in 1 .. Len(t), NEW j \in i .. Len(t)
  PROVE  /\ j \in Ends(t, i, 1) <=> JoinedAt(t, i, j, Digits, Dot) /\ \E p \in i .. j : t[p] = Dot
         /\ j \in Ends(t, i, 2) <=>
              JoinedAt(t, i, j, WordChars, Underscore) /\ \E p \in i .. j : t[p] = Underscore
         /\ j \in Ends(t, i, 3) <=> JoinedAt(t, i, j, WordChars, Apostrophe)
<1>1. \A n : j \in Ends(t, i, n) <=> IsAlternative(n, SubSeq(t, i, j))
  BY DEF Ends
<1>2. \A w : /\ IsAlternative(1, w) <=> IsJoined(w, Digits, Dot) /\ HasConnector(w, Dot)
             /\ IsAlternative(2, w) <=> IsJoined(w, WordChars, Underscore) /\ HasConnector(w, Underscore)
             /\ IsAlternative(3, w) <=> IsJoined(w, WordChars, Apostrophe)
  BY DEF IsAlternative
<1> QED
  BY <1>1, <1>2, PartIsJoined

\* What an alternative finds is a chain of word bytes.
LEMMA EndsAreChains ==
  ASSUME NEW t \in Seq(Bytes), NEW i \in 1 .. Len(t), NEW n \in 1 .. 3, NEW j \in Ends(t, i, n)
  PROVE  j \in i .. Len(t) /\ Chain(t, i, j)
<1>1. j \in i .. Len(t)
  BY DEF Ends
<1>2. PICK parts, c : parts \subseteq WordChars /\ c \in Connectors /\ JoinedAt(t, i, j, parts, c)
  <2>1. Digits \subseteq WordChars
    BY DEF WordChars
  <2>2. Dot \in Connectors /\ Underscore \in Connectors /\ Apostrophe \in Connectors
    BY DEF Connectors
  <2>3. n = 1 \/ n = 2 \/ n = 3
    OBVIOUS
  <2> QED
    BY <1>1, <2>1, <2>2, <2>3, EndsAt
<1>3. /\ i \in Int /\ j \in Int /\ i <= j /\ i \in DOMAIN t /\ j \in DOMAIN t
      /\ \A k \in i .. j - 1 : k \in i .. j
  BY <1>1
<1>4. Part(t, i) /\ Part(t, j)
  BY <1>2, <1>3 DEF JoinedAt, Part
<1>5. \A k \in i .. j : t[k] \notin Delimiters
  BY <1>2, Bm25Assumption DEF JoinedAt
<1>6. \A k \in i .. j - 1 : t[k] \in WordChars \/ t[k + 1] \in WordChars
  BY <1>2 DEF JoinedAt
<1> QED
  BY <1>1, <1>3, <1>4, <1>5, <1>6 DEF Chain

\* The first alternative that matches, and its longest match.
LEMMA MatchEndIs ==
  ASSUME NEW t \in Seq(Bytes), NEW i \in 1 .. Len(t), NEW n \in 1 .. 3, Ends(t, i, n) # {},
         \A m \in 1 .. 3 : m < n => Ends(t, i, m) = {}
  PROVE  /\ MatchEnd(t, i) \in Ends(t, i, n)
         /\ \A j \in Ends(t, i, n) : j <= MatchEnd(t, i)
<1> DEFINE s == { m \in 1 .. 3 : Ends(t, i, m) # {} }
<1>1. Min(s) = n
  <2>1. n \in s /\ \A m \in s : n <= m
    OBVIOUS
  <2>2. \A x \in s : (\A y \in s : x <= y) => x = n
    BY <2>1
  <2> HIDE DEF s
  <2> QED
    BY <2>1, <2>2 DEF Min
<1> DEFINE e == Ends(t, i, n)
<1>2. MatchEnd(t, i) = Max(e)
  BY <1>1 DEF MatchEnd
<1>3. e \in SUBSET (1 .. Len(t)) /\ Len(t) \in Nat /\ e # {}
  BY DEF Ends
<1> HIDE DEF e
<1>4. Max(e) \in e /\ \A y \in e : Max(e) >= y
  BY <1>3, GreatestNumber
<1>5. \A y \in e : y \in Int
  BY <1>3
<1> QED
  BY <1>2, <1>4, <1>5 DEF e

LEMMA MatchEndPlace ==
  ASSUME NEW t \in Seq(Bytes), NEW i \in 1 .. Len(t),
         ~ \A n \in 1 .. 3 : Ends(t, i, n) = {}
  PROVE  MatchEnd(t, i) \in i .. Len(t)
<1>1. PICK n \in 1 .. 3 : Ends(t, i, n) # {} /\ \A m \in 1 .. 3 : m < n => Ends(t, i, m) = {}
  <2>1. CASE Ends(t, i, 1) # {}
    BY <2>1
  <2>2. CASE Ends(t, i, 1) = {} /\ Ends(t, i, 2) # {}
    BY <2>2
  <2>3. CASE Ends(t, i, 1) = {} /\ Ends(t, i, 2) = {}
    BY <2>3
  <2> QED
    BY <2>1, <2>2, <2>3
<1>2. MatchEnd(t, i) \in Ends(t, i, n)
  BY <1>1, MatchEndIs
<1> QED
  BY <1>2 DEF Ends

\* In a regular text the match is the word.
LEMMA MatchIsWord ==
  ASSUME NEW t \in Seq(Bytes), Regular(t), NEW i \in 1 .. Len(t), NEW j \in 1 .. Len(t),
         << i, j >> \in Tokens(t)
  PROVE  (\E n \in 1 .. 3 : Ends(t, i, n) # {}) /\ MatchEnd(t, i) = j
<1>1. /\ Len(t) \in Nat /\ DOMAIN t = 1 .. Len(t) /\ i <= j /\ j \in i .. Len(t)
      /\ Chain(t, i, j) /\ \A q \in 1 .. Len(t) : ~ Link(t, j, q)
  <2> DEFINE r == << i, j >>
  <2>1. r[1] = i /\ r[2] = j /\ r \in Tokens(t)
    OBVIOUS
  <2> HIDE DEF r
  <2>2. Chain(t, i, j) /\ i <= j
    BY <2>1, TokensApart
  <2>3. \A q \in DOMAIN t : ~ Link(t, j, q)
    BY <2>1 DEF Tokens
  <2> QED
    BY <2>2, <2>3, Places
<1>2. /\ t[i] \in WordChars /\ t[j] \in WordChars
      /\ \A k \in i .. j : t[k] \notin Delimiters
      /\ \A k \in i .. j - 1 : t[k] \in WordChars \/ t[k + 1] \in WordChars
  BY <1>1 DEF Chain, Part
<1>3. \A k \in i .. j : k \in 1 .. Len(t)
  BY <1>1
<1>4. \A k \in i .. j : t[k] \in WordChars \/ t[k] \in Connectors
  BY <1>2, <1>3, Places
<1>5. /\ \A a, b \in i .. j : t[a] \in Connectors /\ t[b] \in Connectors => t[a] = t[b]
      /\ (\E a \in i .. j : t[a] = Dot) => \A b \in i .. j : t[b] \notin Letters
  <2>1. ~ Within(t, i, j, Delimiters)
    BY <1>2 DEF Within
  <2>2. /\ \A a, b \in i .. j : t[a] \in Connectors /\ t[b] \in Connectors => t[a] = t[b]
        /\ Within(t, i, j, { Dot }) => ~ Within(t, i, j, Letters)
    BY <1>1, <2>1 DEF Regular
  <2> QED
    BY <2>2 DEF Within
<1>6. ASSUME NEW n \in 1 .. 3, NEW m \in Ends(t, i, n)
      PROVE  m \in i .. j
  <2>1. m \in i .. Len(t) /\ Chain(t, i, m)
    BY <1>6, EndsAreChains
  <2>2. CASE m <= j
    BY <1>1, <2>1, <2>2
  <2>3. CASE ~ (m <= j)
    <3>1. i \in Int /\ m \in Int /\ j \in i .. m /\ j # m
      BY <1>1, <2>1, <2>3
    <3>2. PICK q \in j + 1 .. m : Link(t, j, q)
      BY <1>2, <2>1, <3>1, ChainLinks
    <3>3. q \in 1 .. Len(t)
      BY <1>1, <2>1, <3>2
    <3> QED
      BY <1>1, <3>2, <3>3
  <2> QED
    BY <2>2, <2>3
<1>7. \A x \in WordChars : x \notin Letters => x \in Digits
  BY DEF WordChars
<1>8. \A x \in Connectors : x = Dot \/ x = Underscore \/ x = Apostrophe
  BY DEF Connectors
<1>9. Dot \in Connectors /\ Underscore \in Connectors /\ Apostrophe \in Connectors
  BY DEF Connectors
<1>10. \A x \in Digits : x \in WordChars
  BY DEF WordChars
<1>11. ASSUME NEW n \in 1 .. 3, j \in Ends(t, i, n), \A m \in 1 .. 3 : m < n => Ends(t, i, m) = {}
       PROVE  (\E m \in 1 .. 3 : Ends(t, i, m) # {}) /\ MatchEnd(t, i) = j
  <2>1. MatchEnd(t, i) \in Ends(t, i, n) /\ j <= MatchEnd(t, i)
    BY <1>11, MatchEndIs
  <2>2. MatchEnd(t, i) \in i .. j
    BY <1>6, <2>1
  <2> QED
    BY <1>1, <1>11, <2>1, <2>2
<1>12. i \in i .. j /\ j \in i .. j /\ \A k \in i .. j - 1 : k \in i .. j /\ k + 1 \in i .. j
  BY <1>1
<1>13. CASE \E a \in i .. j : t[a] = Dot
  <2>1. \A k \in i .. j : t[k] \in WordChars => t[k] \in Digits
    BY <1>5, <1>7, <1>13
  <2>2. \A k \in i .. j : t[k] \in Connectors => t[k] = Dot
    BY <1>5, <1>9, <1>13
  <2>3. JoinedAt(t, i, j, Digits, Dot)
    BY <1>2, <1>4, <1>12, <2>1, <2>2 DEF JoinedAt
  <2>4. j \in Ends(t, i, 1)
    BY <1>1, <1>13, <2>3, EndsAt
  <2> QED
    BY <1>11, <2>4
<1>14. (~ \E a \in i .. j : t[a] = Dot) => Ends(t, i, 1) = {}
  <2> SUFFICES ASSUME ~ \E a \in i .. j : t[a] = Dot, NEW m \in Ends(t, i, 1)
               PROVE  FALSE
    OBVIOUS
  <2>1. m \in i .. j /\ m \in i .. Len(t)
    BY <1>1, <1>6
  <2>2. PICK p \in i .. m : t[p] = Dot
    BY <2>1, EndsAt
  <2>3. p \in i .. j
    BY <1>1, <2>1
  <2> QED
    BY <2>2, <2>3
<1>15. (~ \E a \in i .. j : t[a] = Underscore) => Ends(t, i, 2) = {}
  <2> SUFFICES ASSUME ~ \E a \in i .. j : t[a] = Underscore, NEW m \in Ends(t, i, 2)
               PROVE  FALSE
    OBVIOUS
  <2>1. m \in i .. j /\ m \in i .. Len(t)
    BY <1>1, <1>6
  <2>2. PICK p \in i .. m : t[p] = Underscore
    BY <2>1, EndsAt
  <2>3. p \in i .. j
    BY <1>1, <2>1
  <2> QED
    BY <2>2, <2>3
<1>16. CASE ~ (\E a \in i .. j : t[a] = Dot) /\ \E a \in i .. j : t[a] = Underscore
  <2>2. \A k \in i .. j : t[k] \in Connectors => t[k] = Underscore
    BY <1>5, <1>9, <1>16
  <2>3. JoinedAt(t, i, j, WordChars, Underscore)
    BY <1>2, <1>4, <1>12, <2>2 DEF JoinedAt
  <2>4. j \in Ends(t, i, 2)
    BY <1>1, <1>16, <2>3, EndsAt
  <2>5. \A m \in 1 .. 3 : m < 2 => Ends(t, i, m) = {}
    BY <1>14, <1>16
  <2> QED
    BY <1>11, <2>4, <2>5
<1>17. CASE ~ (\E a \in i .. j : t[a] = Dot) /\ ~ (\E a \in i .. j : t[a] = Underscore)
  <2>2. \A k \in i .. j : t[k] \in Connectors => t[k] = Apostrophe
    BY <1>8, <1>17
  <2>3. JoinedAt(t, i, j, WordChars, Apostrophe)
    BY <1>2, <1>4, <1>12, <2>2 DEF JoinedAt
  <2>4. j \in Ends(t, i, 3)
    BY <1>1, <2>3, EndsAt
  <2>5. \A m \in 1 .. 3 : m < 3 => Ends(t, i, m) = {}
    BY <1>14, <1>15, <1>17
  <2> QED
    BY <1>11, <2>4, <2>5
<1> QED
  BY <1>13, <1>16, <1>17

-----------------------------------------------------------------------------
(* BM25: the words of the tokenizer, as sums. *)

Words == Seq(Seq(Bytes))
SeqWorth(v, s) == Total([i \in DOMAIN s |-> v[s[i]]], DOMAIN s)

LEMMA SeqWorthOfNone ==
  ASSUME NEW v
  PROVE  SeqWorth(v, << >>) = 0
<1> DEFINE s == << >>
<1>1. DOMAIN s = {}
  OBVIOUS
<1> HIDE DEF s
<1>2. [i \in DOMAIN s |-> v[s[i]]] = [i \in {} |-> 0]
  BY <1>1
<1>3. Total([i \in {} |-> 0], {}) = 0
  BY FS_EmptySet, TotalZero
<1>4. SeqWorth(v, s) = 0
  BY <1>1, <1>2, <1>3 DEF SeqWorth
<1> QED
  BY <1>4 DEF s

LEMMA SeqWorthType ==
  ASSUME NEW v \in [Seq(Bytes) -> Nat], NEW s \in Words
  PROVE  SeqWorth(v, s) \in Int
<1>1. DOMAIN s = 1 .. Len(s) /\ Len(s) \in Nat /\ \A i \in DOMAIN s : v[s[i]] \in Int
  BY DEF Words
<1>2. IsFiniteSet(DOMAIN s)
  BY <1>1, FS_Interval
<1>3. [i \in DOMAIN s |-> v[s[i]]] \in [DOMAIN s -> Int]
  BY <1>1
<1> QED
  BY <1>2, <1>3, TotalType DEF SeqWorth

\* One more at the end.
LEMMA SeqWorthAppend ==
  ASSUME NEW v \in [Seq(Bytes) -> Nat], NEW s \in Words, NEW w \in Seq(Bytes)
  PROVE  SeqWorth(v, Append(s, w)) = SeqWorth(v, s) + v[w]
<1> DEFINE n == Len(s)
           a == Append(s, w)
           f == [i \in DOMAIN a |-> v[a[i]]]
           h == [i \in DOMAIN s |-> v[s[i]]]
<1>1. /\ n \in Nat /\ DOMAIN s = 1 .. n /\ DOMAIN a = 1 .. n + 1 /\ a[n + 1] = w
      /\ \A i \in 1 .. n : a[i] = s[i] /\ s[i] \in Seq(Bytes)
  BY DEF Words
<1>2. /\ 1 .. n + 1 = (1 .. n) \cup { n + 1 } /\ n + 1 \notin 1 .. n
      /\ IsFiniteSet(1 .. n)
  <2>1. n \in Nat
    BY <1>1
  <2> HIDE DEF n
  <2>2. 1 .. n + 1 = (1 .. n) \cup { n + 1 } /\ n + 1 \notin 1 .. n
    BY <2>1
  <2>3. IsFiniteSet(1 .. n)
    BY <2>1, FS_Interval
  <2> QED
    BY <2>2, <2>3
<1> HIDE DEF n, a
<1>3. f \in [(1 .. n) \cup { n + 1 } -> Int] /\ f[n + 1] = v[w]
  <2>1. ASSUME NEW i \in (1 .. n) \cup { n + 1 }
        PROVE  v[a[i]] \in Int
    BY <1>1, <2>1
  <2>2. DOMAIN a = (1 .. n) \cup { n + 1 }
    BY <1>1, <1>2
  <2> QED
    BY <1>1, <2>1, <2>2
<1>4. h = [i \in 1 .. n |-> f[i]]
  <2>1. \A i \in 1 .. n : i \in DOMAIN a
    BY <1>1, <1>2
  <2>2. \A i \in 1 .. n : f[i] = v[s[i]]
    BY <1>1, <2>1
  <2> HIDE DEF f
  <2> QED
    BY <1>1, <2>2
<1>5. SeqWorth(v, a) = Total(f, (1 .. n) \cup { n + 1 }) /\ SeqWorth(v, s) = Total(h, 1 .. n)
  BY <1>1, <1>2 DEF SeqWorth
<1> HIDE DEF f, h
<1>6. Total(f, (1 .. n) \cup { n + 1 }) = Total([i \in 1 .. n |-> f[i]], 1 .. n) + f[n + 1]
  BY <1>2, <1>3, TotalOneMore
<1> QED
  BY <1>3, <1>4, <1>5, <1>6 DEF a

\* One more at the front.
LEMMA SeqWorthFront ==
  ASSUME NEW v \in [Seq(Bytes) -> Nat], NEW w \in Seq(Bytes), NEW s \in Words
  PROVE  SeqWorth(v, << w >> \o s) = v[w] + SeqWorth(v, s)
<1> DEFINE Claim(x) == SeqWorth(v, << w >> \o x) = v[w] + SeqWorth(v, x)
           Good == { n \in Nat : \A x \in Words : Len(x) = n => Claim(x) }
<1>1. 0 \in Good
  <2>1. ASSUME NEW x \in Words, Len(x) = 0
        PROVE  Claim(x)
    <3>1. x = << >>
      BY <2>1 DEF Words
    <3>2. << >> \in Words
      BY DEF Words
    <3>3. << w >> \o << >> = Append(<< >>, w)
      OBVIOUS
    <3>4. SeqWorth(v, Append(<< >>, w)) = SeqWorth(v, << >>) + v[w]
      BY <3>2, SeqWorthAppend
    <3>5. SeqWorth(v, << >>) = 0
      BY SeqWorthOfNone
    <3>6. v[w] \in Nat
      OBVIOUS
    <3> QED
      BY <3>1, <3>3, <3>4, <3>5, <3>6
  <2> QED
    BY <2>1
<1>2. ASSUME NEW n \in Good
      PROVE  n + 1 \in Good
  <2>1. ASSUME NEW x \in Words, Len(x) = n + 1
        PROVE  Claim(x)
    <3> DEFINE y == SubSeq(x, 1, n)
               z == x[n + 1]
    <3>0. n \in Nat
      OBVIOUS
    <3>1. y \in Words /\ Len(y) = n /\ z \in Seq(Bytes) /\ x = Append(y, z)
      <4>1. \A k \in 1 .. n + 1 : x[k] \in Seq(Bytes)
        BY <2>1 DEF Words
      <4>2. /\ y \in Words /\ Len(y) = n /\ \A k \in 1 .. n : y[k] = x[k]
        <5>1. \A k \in 1 .. n : x[k] \in Seq(Bytes)
          BY <3>0, <4>1
        <5>2. /\ SubSeq(x, 1, n) \in Seq(Seq(Bytes))
              /\ Len(SubSeq(x, 1, n)) = IF 1 <= n THEN n - 1 + 1 ELSE 0
              /\ \A k \in 1 .. n - 1 + 1 : SubSeq(x, 1, n)[k] = x[1 + k - 1]
          BY <3>0, <5>1, SubSeqProperties
        <5>3. (IF 1 <= n THEN n - 1 + 1 ELSE 0) = n /\ n - 1 + 1 = n
          BY <3>0
        <5>4. \A k \in 1 .. n : 1 + k - 1 = k
          BY <3>0
        <5> QED
          BY <5>2, <5>3, <5>4 DEF Words
      <4>3. z \in Seq(Bytes)
        BY <3>0, <4>1
      <4> HIDE DEF y
      <4>4. x = Append(y, x[n + 1])
        BY <2>1, <3>0, <4>2, <4>3 DEF Words
      <4> QED
        BY <4>2, <4>3, <4>4
    <3> HIDE DEF y, z
    <3>2. Claim(y)
      BY <3>1
    <3>3. << w >> \o y \in Words
      BY <3>1 DEF Words
    <3>4. << w >> \o Append(y, z) = Append(<< w >> \o y, z)
      BY <3>1 DEF Words
    <3>5. /\ SeqWorth(v, Append(<< w >> \o y, z)) = SeqWorth(v, << w >> \o y) + v[z]
          /\ SeqWorth(v, Append(y, z)) = SeqWorth(v, y) + v[z]
      BY <3>1, <3>3, SeqWorthAppend
    <3>6. v[w] \in Int /\ v[z] \in Int /\ SeqWorth(v, y) \in Int
      BY <3>1, SeqWorthType
    <3>7. SeqWorth(v, << w >> \o x) = SeqWorth(v, << w >> \o y) + v[z]
      BY <3>1, <3>4, <3>5, Zenon
    <3>8. SeqWorth(v, x) = SeqWorth(v, y) + v[z]
      BY <3>1, <3>5, Zenon
    <3> QED
      BY <3>2, <3>6, <3>7, <3>8
  <2> QED
    BY <2>1
<1>3. Good = Nat
  <2> HIDE DEF Good
  <2>1. Good \in SUBSET Nat
    BY DEF Good
  <2> QED
    BY <1>1, <1>2, <2>1, NumberInduction
<1>4. Len(s) \in Nat
  BY DEF Words
<1> QED
  BY <1>3, <1>4

-----------------------------------------------------------------------------
(* BM25: the words from a place on. *)

\* No two word bytes of one word on both sides of a place.
Free(t, k) == \A p, q \in DOMAIN t : Link(t, p, q) /\ p < k => q < k
Rest(t, k) == { r \in Tokens(t) : r[1] >= k }

\* Where there is no word byte there is no word.
LEMMA NoWordHere ==
  ASSUME NEW t \in Seq(Bytes), NEW k \in 1 .. Len(t), ~ Part(t, k)
  PROVE  /\ \A n \in 1 .. 3 : Ends(t, k, n) = {}
         /\ Free(t, k) => Free(t, k + 1) /\ Rest(t, k) = Rest(t, k + 1)
<1>1. \A n \in 1 .. 3 : Ends(t, k, n) = {}
  BY EndsAreChains DEF Chain
<1>2. ASSUME Free(t, k), NEW p \in DOMAIN t, NEW q \in DOMAIN t, Link(t, p, q), p < k + 1
      PROVE  q < k + 1
  <2>1. p # k /\ DOMAIN t = 1 .. Len(t) /\ Len(t) \in Nat
    BY <1>2, Places DEF Link
  <2>2. p < k
    BY <1>2, <2>1
  <2>3. q < k
    BY <1>2, <2>2 DEF Free
  <2> QED
    BY <2>1, <2>3
<1>3. ASSUME NEW r \in Tokens(t)
      PROVE  r[1] >= k <=> r[1] >= k + 1
  <2>1. r[1] \in 1 .. Len(t) /\ Part(t, r[1])
    BY TokensApart
  <2>2. r[1] # k
    BY <2>1
  <2> QED
    BY <2>1, <2>2
<1> QED
  BY <1>1, <1>2, <1>3 DEF Free, Rest

\* Where there is one, and none before it that goes on here, a word begins.
LEMMA WordHere ==
  ASSUME NEW t \in Seq(Bytes), NEW k \in 1 .. Len(t), Part(t, k), Free(t, k)
  PROVE  \E j \in k .. Len(t) :
           /\ << k, j >> \in Tokens(t) /\ Free(t, j + 1)
           /\ Rest(t, k) = Rest(t, j + 1) \cup { << k, j >> } /\ << k, j >> \notin Rest(t, j + 1)
<1>0. DOMAIN t = 1 .. Len(t) /\ Len(t) \in Nat
  BY Places
<1>1. \A p \in DOMAIN t : ~ Link(t, p, k)
  <2>1. ASSUME NEW p \in DOMAIN t, Link(t, p, k)
        PROVE  FALSE
    <3>1. p < k
      BY <1>0, <2>1 DEF Link
    <3>2. k < k
      BY <1>0, <2>1, <3>1 DEF Free
    <3> QED
      BY <3>2
  <2> QED
    BY <2>1
<1>2. PICK j \in k .. Len(t) : << k, j >> \in Tokens(t)
  BY <1>1, TokenBegins
<1> DEFINE x == << k, j >>
<1>3. x \in Tokens(t) /\ x[1] = k /\ x[2] = j
  BY <1>2
<1> HIDE DEF x
<1>4. /\ k <= j /\ j \in Nat /\ Part(t, j) /\ \A q \in DOMAIN t : ~ Link(t, j, q)
      /\ \A s \in Tokens(t) : (s[1] \in k .. j => s[1] = k) /\ (s[1] = k => s = x)
  <2>1. Part(t, j) /\ \A s \in Tokens(t) : (s[1] \in k .. j => s[1] = k) /\ (s[1] = k => s = x)
    BY <1>3, TokensApart
  <2>2. \A q \in DOMAIN t : ~ Link(t, j, q)
    BY <1>3 DEF Tokens
  <2> QED
    BY <2>1, <2>2
<1>5. ASSUME NEW p \in DOMAIN t, NEW q \in DOMAIN t, Link(t, p, q), p < j + 1
      PROVE  q < j + 1
  <2>1. /\ q = p + 1 \/ (q = p + 2 /\ t[p + 1] \in Connectors)
        /\ p \in Nat /\ q \in Nat /\ p # j /\ t[j] \in WordChars
    BY <1>0, <1>4, <1>5 DEF Link, Part
  <2>2. t[j] \notin Connectors
    BY <2>1, Bm25Assumption
  <2>3. p < j
    BY <1>4, <1>5, <2>1
  <2>4. q = j + 1 => p + 1 = j /\ q = p + 2
    BY <1>4, <2>1, <2>3
  <2> QED
    BY <1>4, <2>1, <2>2, <2>3, <2>4
<1>6. ASSUME NEW r \in Tokens(t)
      PROVE  r[1] >= k <=> (r[1] >= j + 1 \/ r = x)
  <2>1. r[1] \in 1 .. Len(t)
    BY TokensApart
  <2>2. CASE r[1] \in k .. j
    BY <1>3, <1>4, <2>2
  <2>3. CASE r[1] \notin k .. j
    <3>1. r # x
      BY <1>3, <1>4, <2>3
    <3> QED
      BY <1>4, <2>1, <2>3, <3>1
  <2> QED
    BY <2>2, <2>3
<1>7. ~ (x[1] >= j + 1)
  BY <1>3, <1>4
<1>8. /\ Free(t, j + 1) /\ Rest(t, k) = Rest(t, j + 1) \cup { x } /\ x \notin Rest(t, j + 1)
  <2>1. Free(t, j + 1)
    BY <1>5 DEF Free
  <2> QED
    BY <1>3, <1>6, <1>7, <2>1 DEF Rest
<1> QED
  BY <1>2, <1>8 DEF x

-----------------------------------------------------------------------------
(* BM25: the tokenizer. *)

\* Its recursion, one step over the function g of the words from each place on.
FromHere(t, g, i) ==
  IF i > Len(t) THEN << >>
  ELSE IF \A n \in 1 .. 3 : Ends(t, i, n) = {} THEN g[i + 1]
  ELSE LET w == SubSeq(t, i, MatchEnd(t, i)) IN
       (IF IsStopword(w) THEN << >> ELSE << w >>) \o g[MatchEnd(t, i) + 1]
From(t) == CHOOSE g : g = [i \in 1 .. Len(t) + 1 |-> FromHere(t, g, i)]

LEMMA TokenizeIsFrom ==
  ASSUME NEW t
  PROVE  TokenizeQuery(t) = From(t)[1]
  BY DEF TokenizeQuery, From, FromHere

\* It has a solution.
LEMMA FromExists ==
  ASSUME NEW t \in Seq(Bytes)
  PROVE  From(t) = [i \in 1 .. Len(t) + 1 |-> FromHere(t, From(t), i)]
<1> DEFINE n == Len(t)
           none(i) == \A m \in 1 .. 3 : Ends(t, i, m) = {}
           jump == [i \in 1 .. n |-> IF none(i) THEN i + 1 ELSE MatchEnd(t, i) + 1]
           w(i) == SubSeq(t, i, MatchEnd(t, i))
           piece(i) == IF none(i) \/ IsStopword(w(i)) THEN << >> ELSE << w(i) >>
           F == [x \in (1 .. n) \X Words |-> piece(x[1]) \o x[2]]
<1>0. n \in Nat
  OBVIOUS
<1>1. \A i \in 1 .. n : ~ none(i) => MatchEnd(t, i) \in i .. n
  BY MatchEndPlace
<1>2. jump \in [1 .. n -> 1 .. n + 1] /\ \A i \in 1 .. n : jump[i] > i
  <2> HIDE DEF n, none
  <2> QED
    BY <1>0, <1>1
<1>3. \A i \in 1 .. n : piece(i) \in Words
  <2>1. ASSUME NEW i \in 1 .. n
        PROVE  piece(i) \in Words
    <3>1. ~ none(i) => w(i) \in Seq(Bytes)
      <4>1. ~ none(i) => MatchEnd(t, i) \in 1 .. Len(t)
        BY <1>0, <1>1
      <4> QED
        BY <4>1, WordAtType
    <3> HIDE DEF w, none
    <3> QED
      BY <3>1 DEF Words
  <2> QED
    BY <2>1
<1>4. F \in [(1 .. n) \X Words -> Words]
  <2> HIDE DEF piece
  <2>1. \A x \in (1 .. n) \X Words : piece(x[1]) \o x[2] \in Words
    BY <1>3 DEF Words
  <2> QED
    BY <2>1
<1>5. << >> \in Words
  BY DEF Words
<1>6. PICK g \in [1 .. n + 1 -> Words] : Descends(g, F, << >>, jump, n)
  <2> HIDE DEF F, jump, n
  <2> QED
    BY <1>0, <1>2, <1>4, <1>5, DescentExists
<1>7. ASSUME NEW i \in 1 .. n + 1
      PROVE  g[i] = FromHere(t, g, i)
  <2>1. g[i] = IF i > n THEN << >> ELSE F[<< i, g[jump[i]] >>]
    <3> HIDE DEF F, jump, n
    <3> QED
      BY <1>6 DEF Descends
  <2>2. CASE i > n
    BY <2>1, <2>2 DEF FromHere
  <2>3. CASE ~ (i > n)
    <3>1. i \in 1 .. n /\ jump[i] \in 1 .. n + 1
      <4>1. i \in 1 .. n
        BY <1>0, <2>3
      <4> HIDE DEF jump
      <4> QED
        BY <1>2, <4>1
    <3>2. g[jump[i]] \in Words
      BY <3>1
    <3>3. F[<< i, g[jump[i]] >>] = piece(i) \o g[jump[i]]
      <4> HIDE DEF piece, jump
      <4> QED
        BY <3>1, <3>2
    <3>4. \A s \in Words : << >> \o s = s
      BY DEF Words
    <3>5. CASE none(i)
      <4>1. jump[i] = i + 1 /\ piece(i) = << >>
        BY <3>1, <3>5
      <4>2. g[i] = g[i + 1]
        BY <2>1, <2>3, <3>2, <3>3, <3>4, <4>1
      <4> QED
        BY <2>3, <3>5, <4>2 DEF FromHere
    <3>6. CASE ~ none(i)
      <4>1. /\ jump[i] = MatchEnd(t, i) + 1
            /\ piece(i) = IF IsStopword(w(i)) THEN << >> ELSE << w(i) >>
        BY <3>1, <3>6
      <4>2. g[i] = (IF IsStopword(w(i)) THEN << >> ELSE << w(i) >>) \o g[MatchEnd(t, i) + 1]
        BY <2>1, <2>3, <3>3, <4>1
      <4> QED
        BY <2>3, <3>6, <4>2 DEF FromHere
    <3> QED
      BY <3>5, <3>6
  <2> QED
    BY <2>2, <2>3
<1>8. g = [i \in 1 .. Len(t) + 1 |-> FromHere(t, g, i)]
  BY <1>7
<1> QED
  BY <1>8 DEF From

\* From the end backwards: the words from a place on are worth what the words
\* of the tokenizer from there on are worth.
LEMMA TokenizerFindsTheWords ==
  ASSUME NEW t \in Seq(Bytes), Regular(t), NEW v \in [Seq(Bytes) -> Nat]
  PROVE  /\ TokenizeQuery(t) \in Words
         /\ SeqWorth(v, TokenizeQuery(t)) = Worth(v, t, Tokens(t))
<1> DEFINE n == Len(t)
           g == From(t)
           Claim(k) == /\ g[k] \in Words
                       /\ Free(t, k) => SeqWorth(v, g[k]) = Worth(v, t, Rest(t, k))
           Good == { m \in Nat : \A k \in 1 .. n + 1 : k + m > n => Claim(k) }
<1>0. n \in Nat /\ \A k \in 1 .. n + 1 : g[k] = FromHere(t, g, k)
  <2>1. g = [i \in 1 .. n + 1 |-> FromHere(t, g, i)]
    BY FromExists
  <2> HIDE DEF g
  <2>2. \A k \in 1 .. n + 1 : g[k] = FromHere(t, g, k)
    BY <2>1
  <2> QED
    BY <2>2
<1>1. 0 \in Good
  <2>1. ASSUME NEW k \in 1 .. n + 1, k + 0 > n
        PROVE  Claim(k)
    <3>1. k > n
      BY <1>0, <2>1
    <3>2. g[k] = << >>
      BY <1>0, <3>1 DEF FromHere
    <3>3. Rest(t, k) = {}
      <4>1. \A r \in Tokens(t) : r[1] \in 1 .. n
        BY TokensApart
      <4> HIDE DEF n
      <4> QED
        BY <1>0, <3>1, <4>1 DEF Rest
    <3>4. SeqWorth(v, << >>) = 0 /\ Worth(v, t, {}) = 0 /\ << >> \in Words
      BY SeqWorthOfNone, WorthOfNone DEF Words
    <3> QED
      BY <3>2, <3>3, <3>4
  <2> QED
    BY <2>1
<1>2. ASSUME NEW m \in Good
      PROVE  m + 1 \in Good
  <2>0. m \in Nat /\ \A k \in 1 .. n + 1 : k + m > n => Claim(k)
    OBVIOUS
  <2> HIDE DEF Claim
  <2>1. ASSUME NEW k \in 1 .. n, k + m = n
        PROVE  Claim(k)
    <3>1. ~ (k > n) /\ k \in 1 .. n + 1
      BY <1>0
    <3>2. \A j \in k .. n : j + 1 \in 1 .. n + 1 /\ (j + 1) + m > n
      BY <1>0, <2>0, <2>1
    <3>3. \A j \in k .. n : Claim(j + 1)
      BY <2>0, <3>2
    <3>4. k \in k .. n
      BY <1>0
    <3>5. CASE ~ Part(t, k)
      <4>1. g[k] = g[k + 1]
        BY <1>0, <3>1, <3>5, NoWordHere DEF FromHere
      <4>2. Claim(k + 1)
        BY <3>3, <3>4
      <4>3. Free(t, k) => Free(t, k + 1) /\ Rest(t, k) = Rest(t, k + 1)
        BY <3>5, NoWordHere
      <4> HIDE DEF g
      <4> QED
        BY <4>1, <4>2, <4>3 DEF Claim
    <3>6. CASE Part(t, k)
      <4> DEFINE none == \A i \in 1 .. 3 : Ends(t, k, i) = {}
                 e == MatchEnd(t, k)
                 w == SubSeq(t, k, e)
      <4>1. CASE none
        <5>1. g[k] = g[k + 1] /\ g[k + 1] \in Words
          <6>1. g[k] = g[k + 1]
            BY <1>0, <3>1, <4>1 DEF FromHere
          <6> QED
            BY <3>3, <3>4, <6>1 DEF Claim
        <5>2. ~ Free(t, k)
          <6>1. ASSUME Free(t, k)
                PROVE  FALSE
            <7>1. PICK j \in k .. Len(t) : << k, j >> \in Tokens(t)
              BY <3>6, <6>1, WordHere
            <7>2. j \in 1 .. Len(t)
              BY <1>0, <7>1
            <7>3. \E i \in 1 .. 3 : Ends(t, k, i) # {}
              BY <7>1, <7>2, MatchIsWord
            <7> QED
              BY <4>1, <7>3
          <6> QED
            BY <6>1
        <5> QED
          BY <5>1, <5>2 DEF Claim
      <4>2. CASE ~ none
        <5>1. e \in k .. n
          BY <4>2, MatchEndPlace
        <5>2. g[k] = (IF IsStopword(w) THEN << >> ELSE << w >>) \o g[e + 1]
          BY <1>0, <3>1, <4>2 DEF FromHere
        <5>3. w \in Seq(Bytes)
          <6>1. e \in 1 .. Len(t)
            BY <1>0, <5>1
          <6> QED
            BY <6>1, WordAtType
        <5>4. Claim(e + 1)
          BY <3>3, <5>1
        <5>5. g[e + 1] \in Words
          BY <5>4 DEF Claim
        <5> HIDE DEF w, g, e
        <5>6. \A s \in Words : << >> \o s = s /\ << w >> \o s \in Words
          BY <5>3 DEF Words
        <5>7. g[k] \in Words
          BY <5>2, <5>5, <5>6
        <5>8. SeqWorth(v, g[k]) = Kept(v)[w] + SeqWorth(v, g[e + 1])
          <6>1. Kept(v)[w] = IF IsStopword(w) THEN 0 ELSE v[w]
            BY <5>3 DEF Kept
          <6>2. SeqWorth(v, g[e + 1]) \in Int
            BY <5>5, SeqWorthType
          <6>3. SeqWorth(v, << w >> \o g[e + 1]) = v[w] + SeqWorth(v, g[e + 1])
            BY <5>3, <5>5, SeqWorthFront
          <6>4. CASE IsStopword(w)
            <7>1. g[k] = g[e + 1]
              BY <5>2, <5>5, <5>6, <6>4
            <7> QED
              BY <6>1, <6>2, <6>4, <7>1
          <6>5. CASE ~ IsStopword(w)
            <7>1. g[k] = << w >> \o g[e + 1]
              BY <5>2, <6>5
            <7> QED
              BY <6>1, <6>3, <6>5, <7>1
          <6> QED
            BY <6>4, <6>5
        <5>9. ASSUME Free(t, k)
              PROVE  SeqWorth(v, g[k]) = Worth(v, t, Rest(t, k))
          <6>1. PICK j \in k .. Len(t) :
                  /\ << k, j >> \in Tokens(t) /\ Free(t, j + 1)
                  /\ Rest(t, k) = Rest(t, j + 1) \cup { << k, j >> } /\ << k, j >> \notin Rest(t, j + 1)
            BY <3>6, <5>9, WordHere
          <6>2. e = j
            <7>1. j \in 1 .. Len(t)
              BY <1>0, <6>1
            <7> QED
              BY <6>1, <7>1, MatchIsWord DEF e
          <6> DEFINE x == << k, e >>
          <6>3. WordAt(t, x) = w
            BY DEF WordAt, w
          <6>4. /\ x \in Tokens(t) /\ Free(t, e + 1) /\ Rest(t, k) = Rest(t, e + 1) \cup { x }
                /\ x \notin Rest(t, e + 1) /\ Rest(t, e + 1) \subseteq Tokens(t)
            BY <6>1, <6>2 DEF Rest
          <6> HIDE DEF x
          <6>5. Worth(v, t, Rest(t, k)) = Worth(v, t, Rest(t, e + 1)) + Kept(v)[w]
            BY <6>3, <6>4, WorthOfOneMore
          <6>6. SeqWorth(v, g[e + 1]) = Worth(v, t, Rest(t, e + 1))
            BY <5>4, <6>4 DEF Claim
          <6>7. SeqWorth(v, g[e + 1]) \in Int /\ Kept(v)[w] \in Nat
            <7>1. Kept(v)[w] \in Nat
              BY <5>3 DEF Kept
            <7> QED
              BY <5>5, <7>1, SeqWorthType
          <6> QED
            BY <5>8, <6>5, <6>6, <6>7
        <5> QED
          BY <5>7, <5>9 DEF Claim
      <4> QED
        BY <4>1, <4>2
    <3> QED
      BY <3>5, <3>6
  <2>2. ASSUME NEW k \in 1 .. n + 1, k + (m + 1) > n
        PROVE  Claim(k)
    <3>1. k + m > n \/ (k + m = n /\ k \in 1 .. n)
      BY <1>0, <2>0, <2>2
    <3> QED
      BY <2>0, <2>1, <3>1
  <2> QED
    BY <2>0, <2>2
<1>3. Good = Nat
  <2> HIDE DEF Good
  <2>1. Good \in SUBSET Nat
    BY DEF Good
  <2> QED
    BY <1>1, <1>2, <2>1, NumberInduction
<1>4. Claim(1)
  <2> HIDE DEF Claim
  <2>1. n \in Good
    BY <1>0, <1>3
  <2>2. 1 \in 1 .. n + 1 /\ 1 + n > n
    BY <1>0
  <2> QED
    BY <2>1, <2>2
<1>5. Free(t, 1) /\ Rest(t, 1) = Tokens(t)
  <2>1. \A p \in DOMAIN t : ~ (p < 1)
    BY Places
  <2>2. \A r \in Tokens(t) : r[1] >= 1
    BY TokensApart
  <2> QED
    BY <2>1, <2>2 DEF Free, Rest
<1> QED
  BY <1>4, <1>5, TokenizeIsFrom

\* The words of the tokenizer and their weights are those of the text.
LEMMA ReferenceSums ==
  ASSUME NEW t \in Seq(Bytes), Regular(t)
  PROVE  /\ Len(TokenizeQuery(t)) = Worth(Ones, t, Tokens(t))
         /\ FixedScores(t) = [d \in Documents |-> Worth(Weights(d), t, Tokens(t))]
<1> DEFINE tokens == TokenizeQuery(t)
           D == DOMAIN tokens
<1>1. tokens \in Words
  BY WeightsType, TokenizerFindsTheWords
<1>2. /\ D = 1 .. Len(tokens) /\ Len(tokens) \in Nat
      /\ \A i \in D : tokens[i] \in Seq(Bytes)
  <2> HIDE DEF tokens
  <2> QED
    BY <1>1 DEF Words
<1>3. IsFiniteSet(D) /\ Cardinality(D) = Len(tokens)
  <2> HIDE DEF tokens
  <2>1. IsFiniteSet(1 .. Len(tokens)) /\ Cardinality(1 .. Len(tokens)) = Len(tokens)
    <3>1. \A m \in Nat : IsFiniteSet(1 .. m) /\ Cardinality(1 .. m) = m
      <4>1. ASSUME NEW m \in Nat
            PROVE  IsFiniteSet(1 .. m) /\ Cardinality(1 .. m) = IF 1 > m THEN 0 ELSE m - 1 + 1
        BY FS_Interval
      <4> QED
        BY <4>1
    <3> QED
      BY <1>2, <3>1
  <2> QED
    BY <1>2, <2>1
<1>4. Len(tokens) = Worth(Ones, t, Tokens(t))
  <2>1. SeqWorth(Ones, tokens) = Worth(Ones, t, Tokens(t))
    BY WeightsType, TokenizerFindsTheWords
  <2> HIDE DEF tokens
  <2>2. \A i \in D : Ones[tokens[i]] = 1
    BY <1>2 DEF Ones
  <2>3. [i \in D |-> Ones[tokens[i]]] = [i \in D |-> 1]
    BY <2>2
  <2>4. SeqWorth(Ones, tokens) = Total([i \in D |-> 1], D)
    BY <2>3 DEF SeqWorth
  <2>5. Total([i \in D |-> 1], D) = Cardinality(D)
    BY <1>3, TotalOnes
  <2> QED
    BY <1>3, <2>1, <2>4, <2>5
<1>5. ASSUME NEW d \in Documents
      PROVE  FixedScores(t)[d] = Worth(Weights(d), t, Tokens(t))
  <2>1. SeqWorth(Weights(d), tokens) = Worth(Weights(d), t, Tokens(t))
    BY WeightsType, TokenizerFindsTheWords
  <2>2. FixedScores(t)[d] = Total([i \in D |-> WeightOf(tokens[i], d)], D)
    BY DEF FixedScores, Total
  <2> HIDE DEF tokens
  <2>3. \A i \in D : Weights(d)[tokens[i]] = WeightOf(tokens[i], d)
    BY <1>2 DEF Weights
  <2>4. [i \in D |-> Weights(d)[tokens[i]]] = [i \in D |-> WeightOf(tokens[i], d)]
    BY <2>3
  <2> QED
    BY <2>1, <2>2, <2>4 DEF SeqWorth
<1>6. FixedScores(t) = [d \in Documents |-> FixedScores(t)[d]]
  BY DEF FixedScores
<1>7. FixedScores(t) = [d \in Documents |-> Worth(Weights(d), t, Tokens(t))]
  BY <1>5, <1>6
<1> QED
  BY <1>4, <1>7

LEMMA RegularInvAgrees ==
  ASSUME TypeOK, RegularInv
  PROVE  RegularAgrees
<1> SUFFICES ASSUME finished, Regular(text)
             PROVE  AgreesWithReference
  BY DEF RegularAgrees
<1>1. text \in Seq(Bytes) /\ scores \in [Documents -> Nat]
  BY DEF TypeOK
<1>2. SumsAre(Tokens(text)) /\ MatchedByScores
  BY DEF RegularInv
<1>3. /\ Len(TokenizeQuery(text)) = Worth(Ones, text, Tokens(text))
      /\ FixedScores(text) = [d \in Documents |-> Worth(Weights(d), text, Tokens(text))]
  BY <1>1, ReferenceSums
<1>4. scores = [d \in Documents |-> scores[d]]
  BY <1>1
<1>5. scores = FixedScores(text)
  BY <1>2, <1>3, <1>4 DEF SumsAre
<1>6. matched_documents = Matched(text)
  BY <1>2, <1>5 DEF MatchedByScores, Matched
<1> QED
  BY <1>2, <1>3, <1>5, <1>6 DEF SumsAre, AgreesWithReference

\* On a text in which the connectors of a word are of one kind, and dots between
\* digits only, the stream comes to the words, the scores and the matches of the
\* tokenizer's regular expression (bm25_reference.py).
THEOREM RegularAgreesCorrect == Spec => []RegularAgrees
<1>1. Init => Bm25Inv /\ RegularInv
  BY InitBm25Inv, InitRegularInv
<1>2. (Bm25Inv /\ RegularInv) /\ [Next]_vars => (Bm25Inv /\ RegularInv)'
  BY StepBm25Inv, RegularInvStep
<1>3. Bm25Inv /\ RegularInv => RegularAgrees
  BY RegularInvAgrees DEF Bm25Inv
<1> QED
  BY <1>1, <1>2, <1>3, PTL DEF Spec

\* So do they in the classifier, next to the other signals
\* (xdp_classifier_score_char).
THEOREM ClassifierAgreesOnRegular == ClassifierSpec => []RegularAgrees
BY ClassifierRunsBm25, RegularAgreesCorrect, PTL

-----------------------------------------------------------------------------
(* The distilled model: its scores are the sums of the whole text. *)

\* What the trigrams of the text add to the score of a class.
Added(f, t, c) ==
  [i \in 3 .. SmallerOf(Len(t), PromptBytes) |->
     f.weights[Bucket(t[i - 2], t[i - 1], t[i])][c]]

LEMMA ReferenceScoreIs ==
  ASSUME NEW f, NEW t, NEW c
  PROVE  IntegerScore(f, t, c) =
           f.bias[c] + Total(Added(f, t, c), 3 .. SmallerOf(Len(t), PromptBytes))
  BY DEF IntegerScore, Added, Total

ScoreInv ==
  /\ distill.bytes_seen = SmallerOf(Len(text), PromptBytes)
  /\ distill.bytes_seen < PromptBytes /\ Len(text) >= 1 => distill.previous_1 = text[Len(text)]
  /\ distill.bytes_seen < PromptBytes /\ Len(text) >= 2 => distill.previous_2 = text[Len(text) - 1]
  /\ model # NoModel =>
       /\ distill.score \in [Classes -> Int]
       /\ \A c \in Classes : distill.score[c] = ReferenceScore(c)

LEMMA InitScoreInv == ClassifierInit => ScoreInv
<1> SUFFICES ASSUME ClassifierInit PROVE ScoreInv
  OBVIOUS
<1>1. /\ text = << >> /\ Len(text) = 0 /\ distill.bytes_seen = 0 /\ distill.score = model.bias
      /\ model \in LoadedFiles \cup { NoModel }
  BY DEF ClassifierInit, Init, NewDistill, LoadedFiles
<1>2. SmallerOf(Len(text), PromptBytes) = 0
  BY <1>1, DistillAssumption DEF SmallerOf
<1>3. ASSUME model # NoModel, NEW c \in Classes
      PROVE  distill.score[c] = ReferenceScore(c)
  <2>1. model.bias[c] \in Int
    BY <1>1, <1>3, LoadedFile
  <2>2. 3 .. 0 = {}
    OBVIOUS
  <2>3. Added(model, text, c) = [i \in {} |-> 0]
    BY <1>2, <2>2 DEF Added
  <2>4. Total([i \in {} |-> 0], {}) = 0
    BY FS_EmptySet, TotalZero
  <2>5. Total(Added(model, text, c), 3 .. SmallerOf(Len(text), PromptBytes)) = 0
    BY <1>2, <2>2, <2>3, <2>4
  <2> QED
    BY <1>1, <2>1, <2>5, ReferenceScoreIs DEF ReferenceScore
<1>4. model # NoModel => distill.score \in [Classes -> Int]
  BY <1>1, LoadedFile
<1> QED
  BY <1>1, <1>2, <1>3, <1>4 DEF ScoreInv

\* A byte adds its trigram, if the text has one and it is not too long.
LEMMA AddedAppend ==
  ASSUME NEW t \in Seq(Bytes), NEW b \in Bytes, NEW c \in Classes, model \in LoadedFiles
  PROVE  LET n == Len(t)
             last == SmallerOf(n, PromptBytes)
             u == Append(t, b)
         IN  /\ Added(model, t, c) \in [3 .. last -> Int]
             /\ n >= PromptBytes \/ n < 2 =>
                  Total(Added(model, u, c), 3 .. SmallerOf(Len(u), PromptBytes))
                    = Total(Added(model, t, c), 3 .. last)
             /\ n >= 2 /\ n < PromptBytes =>
                  Total(Added(model, u, c), 3 .. SmallerOf(Len(u), PromptBytes))
                    = Total(Added(model, t, c), 3 .. last) + model.weights[Bucket(t[n - 1], t[n], b)][c]
<1> DEFINE n == Len(t)
           u == Append(t, b)
           last == SmallerOf(n, PromptBytes)
           next == SmallerOf(n + 1, PromptBytes)
           W(x, i) == model.weights[Bucket(x[i - 2], x[i - 1], x[i])][c]
<1>1. /\ n \in Nat /\ u \in Seq(Bytes) /\ Len(u) = n + 1 /\ u[n + 1] = b
      /\ \A i \in 1 .. n : u[i] = t[i] /\ t[i] \in Bytes
      /\ \A i \in 1 .. n + 1 : u[i] \in Bytes
  OBVIOUS
<1>2. PromptBytes \in Nat /\ PromptBytes >= 2
  BY DistillAssumption
<1>3. \A x, y, z \in Bytes : model.weights[Bucket(x, y, z)][c] \in Int
  BY LoadedFile, PolicyAssumption
<1> HIDE DEF n, u
<1>4. /\ last \in Nat /\ last <= n /\ next \in Nat /\ next <= n + 1
      /\ n >= PromptBytes => last = PromptBytes /\ next = PromptBytes
      /\ n < PromptBytes => last = n /\ next = n + 1
  BY <1>1, <1>2 DEF SmallerOf
<1> HIDE DEF last, next
<1>5. /\ \A i \in 3 .. last : i \in 1 .. n /\ i - 1 \in 1 .. n /\ i - 2 \in 1 .. n
      /\ \A i \in 3 .. next : i \in 1 .. n + 1 /\ i - 1 \in 1 .. n + 1 /\ i - 2 \in 1 .. n + 1
  BY <1>1, <1>4
<1>6. /\ \A i \in 3 .. last : W(t, i) \in Int /\ W(u, i) = W(t, i)
      /\ \A i \in 3 .. next : W(u, i) \in Int
  <2>1. \A i \in 3 .. last : W(t, i) \in Int
    BY <1>1, <1>3, <1>5
  <2>2. \A i \in 3 .. last : W(u, i) = W(t, i)
    BY <1>1, <1>5
  <2>3. \A i \in 3 .. next : W(u, i) \in Int
    BY <1>1, <1>3, <1>5
  <2> QED
    BY <2>1, <2>2, <2>3
<1>7. Added(model, t, c) = [i \in 3 .. last |-> W(t, i)] /\ Added(model, u, c) = [i \in 3 .. next |-> W(u, i)]
  BY <1>1 DEF Added, last, next, n
<1>8. Added(model, t, c) \in [3 .. last -> Int] /\ Added(model, u, c) \in [3 .. next -> Int]
  <2> HIDE DEF W
  <2> QED
    BY <1>6, <1>7
<1>9. ASSUME n >= PromptBytes \/ n < 2
      PROVE  Total(Added(model, u, c), 3 .. next) = Total(Added(model, t, c), 3 .. last)
  <2>1. 3 .. next = 3 .. last
    BY <1>1, <1>2, <1>4, <1>9
  <2>2. Added(model, u, c) = Added(model, t, c)
    <3> HIDE DEF W
    <3> QED
      BY <1>6, <1>7, <2>1
  <2> QED
    BY <2>1, <2>2
<1>10. ASSUME n >= 2, n < PromptBytes
       PROVE  Total(Added(model, u, c), 3 .. next)
                = Total(Added(model, t, c), 3 .. last) + model.weights[Bucket(t[n - 1], t[n], b)][c]
  <2>1. last = n /\ next = n + 1
    BY <1>4, <1>10
  <2>2. 3 .. n + 1 = (3 .. n) \cup { n + 1 } /\ n + 1 \notin 3 .. n
    BY <1>1, <1>10
  <2>3. IsFiniteSet(3 .. n)
    BY <1>1, FS_Interval
  <2>4. Added(model, u, c)[n + 1] = model.weights[Bucket(t[n - 1], t[n], b)][c]
    <3>1. /\ n + 1 \in 3 .. next /\ (n + 1) - 1 = n /\ (n + 1) - 2 = n - 1
          /\ n \in 1 .. n /\ n - 1 \in 1 .. n
      BY <1>1, <1>10, <2>1
    <3>2. Added(model, u, c)[n + 1] = W(u, n + 1)
      <4> HIDE DEF W
      <4> QED
        BY <1>7, <3>1
    <3> QED
      BY <1>1, <3>1, <3>2
  <2>5. [i \in 3 .. n |-> Added(model, u, c)[i]] = Added(model, t, c)
    <3>1. \A i \in 3 .. n : i \in 3 .. next /\ i \in 3 .. last
      BY <1>1, <2>1
    <3> HIDE DEF W
    <3>2. \A i \in 3 .. n : Added(model, u, c)[i] = W(t, i)
      BY <1>6, <1>7, <3>1
    <3> QED
      BY <1>7, <2>1, <3>2
  <2>6. Added(model, u, c) \in [(3 .. n) \cup { n + 1 } -> Int]
    BY <1>8, <2>1, <2>2
  <2>7. Total(Added(model, u, c), (3 .. n) \cup { n + 1 })
          = Total([i \in 3 .. n |-> Added(model, u, c)[i]], 3 .. n) + Added(model, u, c)[n + 1]
    BY <2>2, <2>3, <2>6, TotalOneMore
  <2> QED
    BY <2>1, <2>2, <2>4, <2>5, <2>7
<1> QED
  BY <1>1, <1>8, <1>9, <1>10 DEF last, next, u, n

LEMMA ClassifyKeepsScoreInv ==
  ASSUME DistillInv, ScoreInv, text \in Seq(Bytes), NEW b \in Bytes, Classify(b)
  PROVE  ScoreInv'
<1> DEFINE n == Len(text)
           last == SmallerOf(n, PromptBytes)
<1>1. /\ text' = Append(text, b) /\ model' = model /\ distill' = DistillScore(model, distill, b)
  BY DEF Classify, ScoreChar
<1>2. /\ n \in Nat /\ Len(text') = n + 1 /\ text'[n + 1] = b
      /\ \A i \in 1 .. n : text'[i] = text[i]
  BY <1>1
<1>3. PromptBytes \in Nat /\ PromptBytes >= 2
  BY DistillAssumption
<1> HIDE DEF n
<1>4. /\ distill.bytes_seen = last
      /\ n >= PromptBytes => last = PromptBytes /\ SmallerOf(n + 1, PromptBytes) = PromptBytes
      /\ n < PromptBytes => last = n /\ SmallerOf(n + 1, PromptBytes) = n + 1
  BY <1>2, <1>3 DEF ScoreInv, SmallerOf, n
<1>5. ASSUME NEW c \in Classes
      PROVE  ReferenceScore(c)' =
               model.bias[c] + Total(Added(model, text', c), 3 .. SmallerOf(Len(text'), PromptBytes))
  <2>1. ReferenceScore(c)' = IntegerScore(model', text', c)
    BY DEF ReferenceScore
  <2> QED
    BY <1>1, <2>1, ReferenceScoreIs
<1>6. ASSUME NEW c \in Classes, model \in LoadedFiles
      PROVE  model.bias[c] \in Int /\ Total(Added(model, text, c), 3 .. last) \in Int
  <2>1. IsFiniteSet(3 .. last)
    <3>1. last \in Int
      BY <1>2, <1>3, <1>4
    <3> HIDE DEF last
    <3> QED
      BY <3>1, FS_Interval
  <2>2. Added(model, text, c) \in [3 .. last -> Int]
    BY <1>6, AddedAppend DEF n
  <2> QED
    BY <1>6, <2>1, <2>2, TotalType, LoadedFile
<1>7. model # NoModel => model \in LoadedFiles
  BY DEF DistillInv
<1>8. CASE n >= PromptBytes
  <2>1. distill' = distill
    BY <1>1, <1>3, <1>4, <1>8 DEF DistillScore
  <2>2. ASSUME model # NoModel, NEW c \in Classes
        PROVE  ReferenceScore(c)' = ReferenceScore(c)
    BY <1>1, <1>5, <1>7, <1>8, <2>2, AddedAppend, ReferenceScoreIs DEF ReferenceScore, n
  <2>3. distill'.bytes_seen = SmallerOf(Len(text'), PromptBytes) /\ ~ (distill'.bytes_seen < PromptBytes)
    BY <1>2, <1>3, <1>4, <1>8, <2>1
  <2> QED
    BY <1>1, <2>1, <2>2, <2>3 DEF ScoreInv
<1>9. CASE n < PromptBytes
  <2>1. /\ distill'.bytes_seen = n + 1 /\ distill'.previous_1 = b
        /\ distill'.previous_2 = distill.previous_1
        /\ distill'.score =
             IF n < 2 THEN distill.score
             ELSE [d \in Classes |->
                     Wrap(distill.score[d]
                       + model.weights[Bucket(distill.previous_2, distill.previous_1, b)][d])]
    BY <1>1, <1>2, <1>3, <1>4, <1>9 DEF DistillScore
  <2>2. /\ n >= 1 => distill.previous_1 = text[n] /\ n \in 1 .. n
        /\ n >= 2 => distill.previous_2 = text[n - 1]
    BY <1>2, <1>4, <1>9 DEF ScoreInv, n
  <2>3. /\ distill'.bytes_seen = SmallerOf(Len(text'), PromptBytes)
        /\ distill'.previous_1 = text'[Len(text')]
        /\ Len(text') >= 2 => distill'.previous_2 = text'[Len(text') - 1]
    <3>1. Len(text') - 1 = n /\ (Len(text') >= 2 => n >= 1)
      BY <1>2
    <3> QED
      BY <1>2, <1>4, <1>9, <2>1, <2>2, <3>1
  <2>4. ASSUME model # NoModel
        PROVE  /\ distill'.score \in [Classes -> Int]
               /\ \A c \in Classes : distill'.score[c] = ReferenceScore(c)'
    <3>1. model \in LoadedFiles /\ distill.score \in [Classes -> Int]
      BY <1>7, <2>4 DEF ScoreInv
    <3>2. CASE n < 2
      <4>1. ASSUME NEW c \in Classes
            PROVE  ReferenceScore(c)' = ReferenceScore(c)
        BY <1>1, <1>5, <3>1, <3>2, AddedAppend, ReferenceScoreIs DEF ReferenceScore, n
      <4> QED
        BY <2>1, <2>4, <3>1, <3>2, <4>1 DEF ScoreInv
    <3>3. CASE ~ (n < 2)
      <4> DEFINE w(c) == model.weights[Bucket(text[n - 1], text[n], b)][c]
      <4>1. n >= 2 /\ n - 1 \in 1 .. n /\ n \in 1 .. n
        BY <1>2, <3>3
      <4>2. distill'.score = [d \in Classes |-> Wrap(distill.score[d] + w(d))]
        BY <2>1, <2>2, <3>3, <4>1
      <4>3. ASSUME NEW c \in Classes
            PROVE  /\ Wrap(distill.score[c] + w(c)) \in Int
                   /\ Wrap(distill.score[c] + w(c)) = ReferenceScore(c)'
        <5>1. Bucket(text[n - 1], text[n], b) \in Buckets
          <6>1. text[n - 1] \in Bytes /\ text[n] \in Bytes
            BY <4>1 DEF n
          <6> QED
            BY <6>1, PolicyAssumption
        <5>2. w(c) \in Int /\ -MaxWeight <= w(c) /\ w(c) <= MaxWeight
          BY <3>1, <5>1, LoadedFile
        <5> HIDE DEF w
        <5>3. /\ distill.score[c] \in Int /\ InMargin(model, n, distill.score[c])
              /\ distill.score[c] = ReferenceScore(c)
          BY <1>4, <1>9, <2>4 DEF DistillInv, ScoreInv
        <5>4. Wrap(distill.score[c] + w(c)) = distill.score[c] + w(c)
          BY <1>2, <1>9, <3>1, <4>1, <5>2, <5>3, ByteStaysWithin
        <5>5. Total(Added(model, text', c), 3 .. SmallerOf(Len(text'), PromptBytes))
                = Total(Added(model, text, c), 3 .. last) + w(c)
          BY <1>1, <1>9, <3>1, <4>1, AddedAppend DEF n, w
        <5>6. /\ ReferenceScore(c)' =
                   model.bias[c] + Total(Added(model, text', c), 3 .. SmallerOf(Len(text'), PromptBytes))
              /\ ReferenceScore(c) = model.bias[c] + Total(Added(model, text, c), 3 .. last)
          BY <1>5, ReferenceScoreIs DEF ReferenceScore, n
        <5>7. model.bias[c] \in Int /\ Total(Added(model, text, c), 3 .. last) \in Int
          BY <1>6, <3>1
        <5> QED
          BY <5>2, <5>3, <5>4, <5>5, <5>6, <5>7
      <4> HIDE DEF w
      <4> QED
        BY <4>2, <4>3
    <3> QED
      BY <3>2, <3>3
  <2> QED
    BY <1>1, <2>3, <2>4 DEF ScoreInv
<1> QED
  BY <1>2, <1>3, <1>8, <1>9

LEMMA ScoreInvStep ==
  DistillInv /\ ScoreInv /\ JaccardInv /\ [ClassifierNext]_classifierVars => ScoreInv'
<1> SUFFICES ASSUME DistillInv, ScoreInv, JaccardInv, [ClassifierNext]_classifierVars PROVE ScoreInv'
  OBVIOUS
<1>1. ASSUME NEW b \in Bytes, Classify(b) PROVE ScoreInv'
  BY <1>1, ClassifyKeepsScoreInv DEF JaccardInv
<1>2. ASSUME UNCHANGED << text, model, distill >> PROVE ScoreInv'
  <2>1. \A c : ReferenceScore(c)' = ReferenceScore(c)
    BY <1>2 DEF ReferenceScore
  <2> QED
    BY <1>2, <2>1 DEF ScoreInv
<1>3. CASE Decide
  BY <1>2, <1>3 DEF Decide, Finish
<1>4. CASE Verdict
  BY <1>2, <1>4 DEF Verdict, vars
<1>5. CASE UNCHANGED classifierVars
  BY <1>2, <1>5 DEF classifierVars, vars
<1> QED
  BY <1>1, <1>3, <1>4, <1>5 DEF ClassifierNext

\* The first of the classes with the greatest score, either way.
LEMMA SameIntent ==
  ASSUME DistillInv, ScoreInv, model # NoModel
  PROVE  Intent(distill.score) = ReferenceIntent
<1> DEFINE s == distill.score
           best == { c \in Classes : \A d \in Classes : ReferenceScore(d) <= ReferenceScore(c) }
<1>1. s \in [Classes -> Int] /\ \A c \in Classes : s[c] = ReferenceScore(c)
  BY DEF ScoreInv
<1>2. Classes \subseteq Nat /\ Classes # {} /\ IsFiniteSet(Classes)
  <2>1. LastClass \in Nat
    BY DistillAssumption
  <2>2. IsFiniteSet(0 .. LastClass)
    BY <2>1, FS_Interval
  <2>3. 0 \in 0 .. LastClass /\ 0 .. LastClass \subseteq Nat
    BY <2>1
  <2> QED
    BY <2>2, <2>3 DEF Classes
<1>3. PICK top \in Classes : \A d \in Classes : s[d] <= s[top]
  BY <1>1, <1>2, GreatestOf
<1> HIDE DEF s
<1>4. best = { c \in Classes : \A d \in Classes : s[d] <= s[c] }
  BY <1>1
<1> HIDE DEF best
<1>5. top \in best /\ best \in SUBSET Nat
  BY <1>2, <1>3, <1>4
<1>6. PICK first \in best : \A c \in best : ~ (c < first)
  BY <1>5, LeastNumber
<1>7. first \in Classes /\ first \in Nat /\ \A c \in best : c \in Nat /\ first <= c
  BY <1>4, <1>5, <1>6
<1>8. Min(best) = first
  <2>1. \A x \in best : (\A y \in best : x <= y) => x = first
    BY <1>6, <1>7
  <2> QED
    BY <1>6, <1>7, <2>1 DEF Min
<1>9. Intent(s) = first
  <2> DEFINE IsIt(c) == \A d \in Classes : s[d] <= s[c] /\ (s[d] = s[c] => c <= d)
  <2>1. IsIt(first)
    <3>1. ASSUME NEW d \in Classes
          PROVE  s[d] <= s[first] /\ (s[d] = s[first] => first <= d)
      <4>1. s[d] <= s[first]
        BY <1>4, <1>6
      <4>2. s[d] = s[first] => d \in best
        BY <1>4, <1>6
      <4> QED
        BY <1>7, <4>1, <4>2
    <3> QED
      BY <3>1
  <2>2. ASSUME NEW c \in Classes, IsIt(c)
        PROVE  c = first
    <3>1. c \in best
      BY <1>4, <2>2
    <3>2. s[first] <= s[c] /\ s[c] <= s[first] /\ (s[first] = s[c] => c <= first)
      BY <1>7, <2>1, <2>2
    <3>3. s[first] = s[c]
      BY <1>1, <1>7, <3>2
    <3> QED
      BY <1>7, <3>1, <3>2, <3>3
  <2> QED
    BY <1>7, <2>1, <2>2 DEF Intent
<1> QED
  BY <1>8, <1>9 DEF ReferenceIntent, best, s

-----------------------------------------------------------------------------
(* The policy. *)

Matching(rules, matched) == { i \in DOMAIN rules : Holds(rules[i], matched) }
IsBest(rules, matched, i) ==
  /\ i \in Matching(rules, matched)
  /\ \A j \in Matching(rules, matched) : rules[j].priority <= rules[i].priority

\* The rule that xdp_jaccard_route and xdp_bm25_route take.
LEMMA BestRule ==
  ASSUME NEW subjects, NEW rules \in Rules(subjects), NEW matched
  PROVE  /\ \A i \in DOMAIN rules : rules[i].priority \in Nat /\ rules[i].route \in Routes
         /\ Matching(rules, matched) = {} => RoutePriority(rules, matched) = NoMatch
         /\ Matching(rules, matched) # {} =>
              \E i : /\ IsBest(rules, matched, i)
                     /\ RoutePriority(rules, matched) =
                          [route |-> rules[i].route, priority |-> rules[i].priority]
<1> DEFINE matching == Matching(rules, matched)
           best == { i \in matching : \A j \in matching : rules[j].priority <= rules[i].priority }
<1>1. /\ DOMAIN rules = 1 .. Len(rules) /\ Len(rules) \in Nat
      /\ \A i \in DOMAIN rules : rules[i].priority \in Nat /\ rules[i].route \in Routes
  <2> DEFINE R == [operator : Operators, of : (SUBSET subjects) \ { {} }, priority : Nat,
                   route : Routes]
  <2>1. \A r \in R : r.priority \in Nat /\ r.route \in Routes
    OBVIOUS
  <2>2. rules \in Seq(R)
    BY DEF Rules
  <2> HIDE DEF R
  <2>3. DOMAIN rules = 1 .. Len(rules) /\ Len(rules) \in Nat /\ \A i \in DOMAIN rules : rules[i] \in R
    BY <2>2
  <2> QED
    BY <2>1, <2>3
<1>2. RoutePriority(rules, matched) =
        IF matching = {} THEN NoMatch
        ELSE [route |-> rules[Max(best)].route, priority |-> rules[Max(best)].priority]
  BY DEF RoutePriority, Matching
<1>3. ASSUME matching # {}
      PROVE  \E i : /\ IsBest(rules, matched, i)
                    /\ RoutePriority(rules, matched) =
                         [route |-> rules[i].route, priority |-> rules[i].priority]
  <2> DEFINE f == [i \in matching |-> rules[i].priority]
  <2>0. matching \subseteq DOMAIN rules
    BY DEF Matching
  <2> HIDE DEF matching
  <2>1. IsFiniteSet(matching)
    <3>1. IsFiniteSet(1 .. Len(rules))
      BY <1>1, FS_Interval
    <3> QED
      BY <1>1, <2>0, <3>1, FS_Subset
  <2>2. f \in [matching -> Int]
    BY <1>1, <2>0
  <2>3. PICK i \in matching : \A j \in matching : f[j] <= f[i]
    <3> HIDE DEF f
    <3> QED
      BY <1>3, <2>1, <2>2, GreatestOf
  <2>4. \A j \in matching : rules[j].priority <= rules[i].priority
    BY <2>3
  <2>5. i \in best /\ best \subseteq matching
    BY <2>4
  <2>6. Max(best) \in best
    <3> DEFINE h == [k \in best |-> k]
    <3>1. IsFiniteSet(best)
      BY <2>1, <2>5, FS_Subset
    <3>2. best \subseteq Nat
      BY <1>1, <2>0, <2>5
    <3> HIDE DEF best
    <3>3. h \in [best -> Int] /\ best # {}
      BY <2>5, <3>2
    <3>4. \A k \in best : h[k] = k
      OBVIOUS
    <3> HIDE DEF h
    <3>5. PICK top \in best : \A k \in best : h[k] <= h[top]
      BY <3>1, <3>3, GreatestOf
    <3>6. top \in best /\ \A k \in best : top >= k
      BY <3>2, <3>4, <3>5
    <3> QED
      BY <3>6 DEF Max
  <2>7. /\ Max(best) \in matching
        /\ \A j \in matching : rules[j].priority <= rules[Max(best)].priority
    BY <2>6
  <2> QED
    BY <1>2, <1>3, <2>7 DEF IsBest, matching
<1> QED
  BY <1>1, <1>2, <1>3

\* The two methods together take a rule that the reference may take.
LEMMA PreferIsExpected ==
  ASSUME policy \in Policies
  PROVE  LET chosen == Prefer(RoutePriority(policy.ngram, ReferenceKeywords),
                              RoutePriority(policy.bm25, Matched(text)))
         IN  /\ ReferenceMatches = {} => chosen = "general"
             /\ ReferenceMatches # {} =>
                  chosen \in { r.route : r \in BestMatches } /\ chosen \in Routes
<1> DEFINE N == policy.ngram
           B == policy.bm25
           n == RoutePriority(N, ReferenceKeywords)
           b == RoutePriority(B, Matched(text))
           MN == Matching(N, ReferenceKeywords)
           MB == Matching(B, Matched(text))
           chosen == Prefer(n, b)
           IsTop(r) == r \in ReferenceMatches /\ \A s \in ReferenceMatches : s.priority <= r.priority
<1>1. /\ N \in Rules(Keywords) /\ B \in Rules(Documents)
  BY PolicyAssumption
<1>2. ReferenceMatches = { N[i] : i \in MN } \cup { B[i] : i \in MB }
  BY DEF ReferenceMatches, Matching
<1>3. MN \subseteq DOMAIN N /\ MB \subseteq DOMAIN B
  BY DEF Matching
<1> HIDE DEF N, B
<1>4. /\ \A i \in DOMAIN N : N[i].priority \in Nat /\ N[i].route \in Routes
      /\ MN = {} => n = NoMatch
      /\ MN # {} => \E i : IsBest(N, ReferenceKeywords, i)
                             /\ n = [route |-> N[i].route, priority |-> N[i].priority]
  BY <1>1, BestRule
<1>5. /\ \A i \in DOMAIN B : B[i].priority \in Nat /\ B[i].route \in Routes
      /\ MB = {} => b = NoMatch
      /\ MB # {} => \E i : IsBest(B, Matched(text), i)
                             /\ b = [route |-> B[i].route, priority |-> B[i].priority]
  BY <1>1, BestRule
<1> HIDE DEF n, b
<1>6. "general" \notin Routes
  BY DEF Routes
<1>7. NoMatch.route = "general" /\ NoMatch.priority = 0
  BY DEF NoMatch
<1>8. chosen = IF b.route # "general" /\ b.priority >= n.priority THEN b.route ELSE n.route
  BY DEF Prefer
<1>9. CASE MN = {} /\ MB = {}
  <2>1. ReferenceMatches = {}
    BY <1>2, <1>9
  <2>2. chosen = "general"
    BY <1>4, <1>5, <1>7, <1>8, <1>9
  <2> QED
    BY <2>1, <2>2 DEF n, b, N, B
<1>10. ASSUME MN # {} \/ MB # {}
       PROVE  ReferenceMatches # {} /\ \E r : IsTop(r) /\ chosen = r.route /\ r.route \in Routes
  <2>1. ASSUME NEW i, IsBest(N, ReferenceKeywords, i),
               n = [route |-> N[i].route, priority |-> N[i].priority],
               \A j \in MB : B[j].priority <= N[i].priority, chosen = n.route
        PROVE  IsTop(N[i]) /\ chosen = N[i].route /\ N[i].route \in Routes
    <3>1. i \in MN /\ \A j \in MN : N[j].priority <= N[i].priority
      BY <2>1 DEF IsBest
    <3>2. \A s \in ReferenceMatches : s.priority <= N[i].priority
      BY <1>2, <2>1, <3>1
    <3>3. N[i] \in ReferenceMatches /\ N[i].route \in Routes
      BY <1>2, <1>3, <1>4, <3>1
    <3> QED
      BY <2>1, <3>2, <3>3
  <2>2. ASSUME NEW i, IsBest(B, Matched(text), i),
               b = [route |-> B[i].route, priority |-> B[i].priority],
               \A j \in MN : N[j].priority <= B[i].priority, chosen = b.route
        PROVE  IsTop(B[i]) /\ chosen = B[i].route /\ B[i].route \in Routes
    <3>1. i \in MB /\ \A j \in MB : B[j].priority <= B[i].priority
      BY <2>2 DEF IsBest
    <3>2. \A s \in ReferenceMatches : s.priority <= B[i].priority
      BY <1>2, <2>2, <3>1
    <3>3. B[i] \in ReferenceMatches /\ B[i].route \in Routes
      BY <1>2, <1>3, <1>5, <3>1
    <3> QED
      BY <2>2, <3>2, <3>3
  <2>3. CASE MB = {}
    <3>1. PICK i : IsBest(N, ReferenceKeywords, i)
                     /\ n = [route |-> N[i].route, priority |-> N[i].priority]
      BY <1>4, <1>10, <2>3
    <3>2. chosen = n.route
      BY <1>5, <1>7, <1>8, <2>3
    <3>3. IsTop(N[i]) /\ chosen = N[i].route /\ N[i].route \in Routes
      BY <2>1, <2>3, <3>1, <3>2
    <3> QED
      BY <3>3
  <2>4. CASE MB # {} /\ MN = {}
    <3>1. PICK i : IsBest(B, Matched(text), i)
                     /\ b = [route |-> B[i].route, priority |-> B[i].priority]
      BY <1>5, <2>4
    <3>2. i \in DOMAIN B
      BY <1>3, <3>1 DEF IsBest
    <3>3. b.route # "general" /\ b.priority >= n.priority
      <4>1. b.route \in Routes /\ b.priority \in Nat
        BY <1>5, <3>1, <3>2
      <4>2. n.priority = 0
        BY <1>4, <1>7, <2>4
      <4> QED
        BY <1>6, <4>1, <4>2
    <3>4. chosen = b.route
      BY <1>8, <3>3
    <3>5. IsTop(B[i]) /\ chosen = B[i].route /\ B[i].route \in Routes
      BY <2>2, <2>4, <3>1, <3>4
    <3> QED
      BY <3>5
  <2>5. CASE MB # {} /\ MN # {}
    <3>1. PICK i : IsBest(N, ReferenceKeywords, i)
                     /\ n = [route |-> N[i].route, priority |-> N[i].priority]
      BY <1>4, <2>5
    <3>2. PICK j : IsBest(B, Matched(text), j)
                     /\ b = [route |-> B[j].route, priority |-> B[j].priority]
      BY <1>5, <2>5
    <3>3. /\ i \in MN /\ \A k \in MN : N[k].priority <= N[i].priority
          /\ j \in MB /\ \A k \in MB : B[k].priority <= B[j].priority
      BY <3>1, <3>2 DEF IsBest
    <3>4. /\ N[i].priority \in Nat /\ B[j].priority \in Nat
          /\ n.priority = N[i].priority /\ b.priority = B[j].priority
          /\ b.route \in Routes
          /\ \A k \in MN : N[k].priority \in Nat
          /\ \A k \in MB : B[k].priority \in Nat
      BY <1>3, <1>4, <1>5, <3>1, <3>2, <3>3
    <3>5. CASE b.priority >= n.priority
      <4>1. chosen = b.route
        BY <1>6, <1>8, <3>4, <3>5
      <4>2. \A k \in MN : N[k].priority <= B[j].priority
        BY <3>3, <3>4, <3>5
      <4>3. IsTop(B[j]) /\ chosen = B[j].route /\ B[j].route \in Routes
        BY <2>2, <3>2, <4>1, <4>2
      <4> QED
        BY <4>3
    <3>6. CASE ~ (b.priority >= n.priority)
      <4>1. chosen = n.route
        BY <1>8, <3>6
      <4>2. \A k \in MB : B[k].priority <= N[i].priority
        BY <3>3, <3>4, <3>6
      <4>3. IsTop(N[i]) /\ chosen = N[i].route /\ N[i].route \in Routes
        BY <2>1, <3>1, <4>1, <4>2
      <4> QED
        BY <4>3
    <3> QED
      BY <3>5, <3>6
  <2> QED
    BY <1>10, <2>3, <2>4, <2>5
<1>11. ASSUME MN # {} \/ MB # {}
       PROVE  /\ ReferenceMatches # {}
              /\ chosen \in { r.route : r \in BestMatches } /\ chosen \in Routes
  <2>1. PICK r : IsTop(r) /\ chosen = r.route /\ r.route \in Routes
    BY <1>10, <1>11
  <2>2. r \in BestMatches
    BY <2>1 DEF BestMatches
  <2> HIDE DEF chosen
  <2> QED
    BY <1>10, <1>11, <2>1, <2>2
<1> QED
  BY <1>9, <1>11 DEF n, b, N, B

\* The decision rules and the verdict have a backend for every route.
LEMMA BackendOfRoute ==
  ASSUME NEW r \in Routes \cup { "general" }
  PROVE  TargetSlot(ModelForRoute(r)) = IF r = "general" THEN "others" ELSE r
<1> DEFINE domain == IF r = "general" THEN "others" ELSE r
           D == << "coding", "math", "others", "qa", "writing" >>
           matching == { i \in DOMAIN DecisionRules : RuleMatches(DecisionRules[i], { domain }) }
<1>1. /\ DOMAIN DecisionRules = 1 .. 5
      /\ \A i \in 1 .. 5 : /\ DecisionRules[i].require_any = { D[i] }
                           /\ DecisionRules[i].require_all = {} /\ DecisionRules[i].reject_any = {}
                           /\ DecisionRules[i].model_id = i /\ DecisionRules[i].enabled
  <2>1. DOMAIN DecisionRules = 1 .. 5
    BY DEF DecisionRules
  <2>2. ASSUME NEW i \in 1 .. 5
        PROVE  DecisionRules[i] = DecisionRule(D[i], i)
    <3>1. i = 1 \/ i = 2 \/ i = 3 \/ i = 4 \/ i = 5
      BY <2>2
    <3> QED
      BY <3>1 DEF DecisionRules, SK_MODEL_CODING, SK_MODEL_MATH, SK_MODEL_OTHERS, SK_MODEL_QA,
                  SK_MODEL_WRITING
  <2> HIDE DEF D
  <2> QED
    BY <2>1, <2>2 DEF DecisionRule
<1>2. matching = { i \in 1 .. 5 : D[i] = domain }
  <2> HIDE DEF D, domain
  <2> QED
    BY <1>1 DEF RuleMatches
<1>3. PICK i \in 1 .. 5 : D[i] = domain /\ \A j \in 1 .. 5 : D[j] = domain => j = i
  <2>1. domain \in { "coding", "math", "others", "qa", "writing" }
    BY DEF Routes
  <2>2. \A j \in 1 .. 5 : j = 1 \/ j = 2 \/ j = 3 \/ j = 4 \/ j = 5
    OBVIOUS
  <2> HIDE DEF domain
  <2>3. /\ domain = "coding" => D[1] = domain /\ \A j \in 1 .. 5 : D[j] = domain => j = 1
        /\ domain = "math" => D[2] = domain /\ \A j \in 1 .. 5 : D[j] = domain => j = 2
        /\ domain = "others" => D[3] = domain /\ \A j \in 1 .. 5 : D[j] = domain => j = 3
        /\ domain = "qa" => D[4] = domain /\ \A j \in 1 .. 5 : D[j] = domain => j = 4
        /\ domain = "writing" => D[5] = domain /\ \A j \in 1 .. 5 : D[j] = domain => j = 5
    BY <2>2
  <2> HIDE DEF D
  <2> QED
    BY <2>1, <2>3
<1>4. matching = { i }
  <2> HIDE DEF D, domain, matching
  <2> QED
    BY <1>2, <1>3
<1>5. Min(matching) = i
  <2>1. i <= i
    OBVIOUS
  <2> HIDE DEF matching
  <2> QED
    BY <1>4, <2>1 DEF Min
<1>6. ModelForRoute(r) = i
  <2>1. ModelForRoute(r) = DecisionEval({ domain })
    BY DEF ModelForRoute
  <2>2. DecisionEval({ domain }) =
          IF matching = {} THEN XDP_MODEL_FALLBACK ELSE DecisionRules[Min(matching)].model_id
    BY DEF DecisionEval
  <2> HIDE DEF matching, domain
  <2> QED
    BY <1>1, <1>4, <1>5, <2>1, <2>2
<1>7. TargetSlot(i) = D[i]
  <2>1. i = 1 \/ i = 2 \/ i = 3 \/ i = 4 \/ i = 5
    OBVIOUS
  <2> QED
    BY <2>1 DEF TargetSlot, SK_MODEL_CODING, SK_MODEL_MATH, SK_MODEL_OTHERS, SK_MODEL_QA,
                SK_MODEL_WRITING
<1> HIDE DEF D
<1> QED
  BY <1>3, <1>6, <1>7

-----------------------------------------------------------------------------
(* The route and the backend. *)

\* What the parser leaves in sk_route_decisions.
Chosen ==
  LET intent == DistillRoute(model, distill)
      ngram == RoutePriority(policy.ngram, jaccard.matched)
      bm25 == Bm25RoutePriority(policy.bm25, matched_documents, overflow)
  IN  IF intent # "general" THEN intent ELSE Prefer(ngram, bm25)

RouteInv ==
  /\ policy \in Policies
  /\ route # NoRoute => finished /\ route = Chosen
  /\ backend # NoBackend => route # NoRoute /\ backend = TargetSlot(ModelForRoute(route))

LEMMA RouteInvStep == RouteInv /\ [ClassifierNext]_classifierVars => RouteInv'
<1> SUFFICES ASSUME RouteInv, [ClassifierNext]_classifierVars PROVE RouteInv'
  OBVIOUS
<1> USE DEF RouteInv
<1>1. ASSUME NEW b \in Bytes, Classify(b) PROVE RouteInv'
  BY <1>1 DEF Classify, ScoreChar
<1>2. CASE Decide
  <2>1. /\ ~finished /\ finished' /\ policy' = policy /\ backend' = backend /\ model' = model
        /\ distill' = distill
    BY <1>2 DEF Decide, Finish
  <2>2. route' = Chosen'
    BY <1>2, <2>1 DEF Decide, Chosen
  <2> QED
    BY <2>1, <2>2
<1>3. ASSUME UNCHANGED << vars, policy, model, jaccard, distill, route >>
      PROVE  /\ route' = route /\ Chosen' = Chosen /\ policy' = policy /\ finished' = finished
  BY <1>3 DEF vars, scoreVars, Chosen
<1>4. CASE Verdict
  BY <1>3, <1>4 DEF Verdict
<1>5. CASE UNCHANGED classifierVars
  BY <1>3, <1>5 DEF classifierVars
<1> QED
  BY <1>1, <1>2, <1>4, <1>5 DEF ClassifierNext

RouteInvs ==
  /\ Bm25Inv /\ RegularInv /\ DistillInv /\ JaccardInv /\ ScoreInv /\ RouteInv

LEMMA RouteInvsAgree == RouteInvs => RouteIsExpected
<1> SUFFICES ASSUME RouteInvs, backend # NoBackend, Regular(text), CountedKeywords = ReferenceKeywords
             PROVE  backend \in ExpectedRoutes
  BY DEF RouteIsExpected
<1>1. /\ Bm25Inv /\ RegularInv /\ DistillInv /\ JaccardInv /\ ScoreInv /\ RouteInv
  BY DEF RouteInvs
<1>2. /\ finished /\ route = Chosen /\ backend = TargetSlot(ModelForRoute(route)) /\ policy \in Policies
  BY <1>1 DEF RouteInv
<1>3. jaccard.matched = ReferenceKeywords
  BY <1>1, <1>2 DEF JaccardInv
<1>4. matched_documents = Matched(text) /\ ~overflow
  <2>1. RegularAgrees
    BY <1>1, RegularInvAgrees DEF Bm25Inv
  <2> QED
    BY <1>1, <1>2, <2>1 DEF RegularAgrees, AgreesWithReference, Bm25Inv, NoOverflow
<1> DEFINE chosen == Prefer(RoutePriority(policy.ngram, ReferenceKeywords),
                            RoutePriority(policy.bm25, Matched(text)))
           intent == DistillRoute(model, distill)
           best == { r.route : r \in BestMatches }
<1>5. route = IF intent # "general" THEN intent ELSE chosen
  BY <1>2, <1>3, <1>4 DEF Chosen, Bm25RoutePriority
<1>6. intent = IF model # NoModel /\ ReferenceIntent = CodingIntent THEN "coding"
               ELSE IF model # NoModel /\ ReferenceIntent = MathIntent THEN "math"
               ELSE "general"
  <2>1. model # NoModel => Intent(distill.score) = ReferenceIntent
    BY <1>1, SameIntent
  <2> QED
    BY <2>1, DistillAssumption DEF DistillRoute
<1>7. /\ ReferenceMatches = {} => chosen = "general"
      /\ ReferenceMatches # {} => chosen \in best /\ chosen \in Routes
  BY <1>2, PreferIsExpected
<1>8. ExpectedRoutes = IF model # NoModel /\ ReferenceIntent = CodingIntent THEN { "coding" }
                       ELSE IF model # NoModel /\ ReferenceIntent = MathIntent THEN { "math" }
                       ELSE IF ReferenceMatches = {} THEN { "others" } ELSE best
  BY DEF ExpectedRoutes
<1> HIDE DEF chosen, intent, best
<1>9. /\ "coding" \in Routes /\ "math" \in Routes /\ "general" \notin Routes
      /\ "coding" # "general" /\ "math" # "general"
  BY DEF Routes
<1>10. route \in Routes \cup { "general" }
  BY <1>5, <1>6, <1>7, <1>9
<1>11. backend = IF route = "general" THEN "others" ELSE route
  BY <1>2, <1>10, BackendOfRoute
<1> QED
  BY <1>5, <1>6, <1>7, <1>8, <1>9, <1>11

\* The backend that sk_router_verdict takes is that of the intent or of a matching
\* rule of the greatest priority, whatever the policy (with equal priorities
\* too), the model and the text: on a text where BM25 is regular and the trigrams
\* of single characters make no difference.
THEOREM RouteIsExpectedCorrect == ClassifierSpec => []RouteIsExpected
<1>1. ClassifierInit => RouteInvs
  <2>1. ClassifierInit => Init /\ RouteInv
    BY DEF ClassifierInit, RouteInv
  <2> QED
    BY <2>1, InitBm25Inv, InitRegularInv, InitDistillInv, InitJaccardInv, InitScoreInv DEF RouteInvs
<1>2. RouteInvs /\ [ClassifierNext]_classifierVars => RouteInvs'
  <2>1. [ClassifierNext]_classifierVars => [Next]_vars
    BY StepOfBm25
  <2> QED
    BY <2>1, StepBm25Inv, RegularInvStep, DistillInvStep, JaccardInvStep, ScoreInvStep, RouteInvStep
       DEF RouteInvs
<1> QED
  BY <1>1, <1>2, RouteInvsAgree, PTL DEF ClassifierSpec
=============================================================================
