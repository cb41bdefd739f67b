------------------------- MODULE ClassifierReference -------------------------
(***************************************************************************)
(* Where a request is to go: benchmarks/policy/jaccard_reference.py and    *)
(* benchmarks/policy/bm25_reference.py under the order of                  *)
(* benchmarks/routing_correctness/benchmark.py (expected_route), and the   *)
(* prediction of benchmarks/lora_distill/core.py, each over the whole text *)
(* at once.                                                                *)
(***************************************************************************)
EXTENDS Classifier, Bm25Reference

-----------------------------------------------------------------------------
(* jaccard_reference.py *)

\* The words of a text, by their first and last places.
WordRanges(t) ==
  { r \in (DOMAIN t) \X (DOMAIN t) :
      /\ r[1] <= r[2] /\ \A n \in r[1] .. r[2] : t[n] \in JaccardWordChars
      /\ r[1] > 1 => t[r[1] - 1] \notin JaccardWordChars
      /\ r[2] < Len(t) => t[r[2] + 1] \notin JaccardWordChars }

ReferenceWords == { SubSeq(text, r[1], r[2]) : r \in WordRanges(text) }

SmallerOf(m, n) == IF m < n THEN m ELSE n

\* The trigrams that two multisets have in common.
Common(left, right) ==
  LET least == [g \in Range(left) |-> SmallerOf(Times(g, left), Times(g, right))] IN
  MapThenSumSet(LAMBDA g : least[g], Range(left))

\* 1 - (diff / all)^2 of the multisets of trigrams is at least the threshold.
ReferenceSimilar(left, k) ==
  LET right == Grams(k.text)
      same == Common(left, right)
      all == Len(left) + Len(right) - same
  IN  /\ same > 0
      /\ 1000 * (all * all - (all - same) * (all - same)) >= k.threshold_milli * all * all

\* What the code counts of a word: of a single character it leaves out the
\* trigram with a space on either side.
Counted(w) ==
  IF Len(w) = 1 THEN << << Space, Space, w[1] >>, << w[1], Space, Space >> >> ELSE Grams(w)

\* The reference has no limit on words or text. MaxGrams and MaxTextGrams are the
\* program's, taken into the reference: what is above them is not compared.
Candidates ==
  { w \in ReferenceWords : Len(Counted(w)) <= MaxGrams } \cup
  { w \in { text } : w # << >> /\ Len(Counted(w)) <= MaxTextGrams }

ReferenceKeywords == { k \in Keywords : \E w \in Candidates : ReferenceSimilar(Grams(w), k) }
CountedKeywords == { k \in Keywords : \E w \in Candidates : ReferenceSimilar(Counted(w), k) }

-----------------------------------------------------------------------------
(* core.py: integer_scores and predict *)

IntegerScore(f, t, c) ==
  LET added == [i \in 3 .. SmallerOf(Len(t), PromptBytes) |->
                  f.weights[Bucket(t[i - 2], t[i - 1], t[i])][c]]
  IN  f.bias[c] + MapThenSumSet(LAMBDA i : added[i], DOMAIN added)

ReferenceScore(c) == IntegerScore(model, text, c)

ReferenceIntent ==
  Min({ c \in Classes : \A d \in Classes : ReferenceScore(d) <= ReferenceScore(c) })

-----------------------------------------------------------------------------
(* benchmark.py: expected_route *)

ReferenceMatches ==
  { policy.ngram[i] : i \in { j \in DOMAIN policy.ngram : Holds(policy.ngram[j], ReferenceKeywords) } }
  \cup
  { policy.bm25[i] : i \in { j \in DOMAIN policy.bm25 : Holds(policy.bm25[j], Matched(text)) } }

\* The rules one of which decides: expected_route takes the first match of a list
\* sorted by priority. Of equals the list has the first of the policy, and the
\* program takes the last.
BestMatches ==
  { r \in ReferenceMatches : \A s \in ReferenceMatches : s.priority <= r.priority }

\* The routes it may be, more than one only if rules of equal priority differ in
\* theirs. expected_route knows of no intent: that this goes first is taken from
\* the program (xdp_classifier_route).
ExpectedRoutes ==
  IF model # NoModel /\ ReferenceIntent = CodingIntent THEN { "coding" }
  ELSE IF model # NoModel /\ ReferenceIntent = MathIntent THEN { "math" }
  ELSE IF ReferenceMatches = {} THEN { "others" }
  ELSE { r.route : r \in BestMatches }

-----------------------------------------------------------------------------
(* Properties *)

\* The counting of trigrams as the characters come finds the keywords that the
\* similarity of whole words and of the whole text finds, but for the trigram
\* that a single character is short of.
JaccardAgrees == finished => jaccard.matched = CountedKeywords

\* "test_case_and_short_strings_use_auto_padding": a word that is a keyword
\* letter for letter matches it, at a threshold of 1.0 too.
ExactKeywordMatches == finished => { k \in Keywords : k.text \in Candidates } \subseteq jaccard.matched

\* The request goes where the references send it: the intent first, then a
\* matching rule of the greatest priority of either method; where the trigrams
\* of single characters make no difference.
RouteIsExpected ==
  backend # NoBackend /\ Regular(text) /\ CountedKeywords = ReferenceKeywords =>
    backend \in ExpectedRoutes
=============================================================================
