---------------------------- MODULE MCClassifier -----------------------------
(***************************************************************************)
(* Instances of Classifier for TLC. BM25: two letters and a digit, a hash  *)
(* that most words share, a word of the greatest length and a stop word.   *)
(* N-grams: a word with a trigram twice, a phrase, and a word that only    *)
(* the like match. A model whose scores reach their bound, and one whose   *)
(* header has another bound.                                               *)
(***************************************************************************)
EXTENDS ClassifierReference

MCLetters == { "a", "b" }
MCDigits == { "1" }
MCDelimiters == { " " }
MCDocuments == { 1, 2 }

MCHash(w) == IF w = << >> THEN 0 ELSE IF w[1] = "a" THEN 1 ELSE IF w[1] = "b" THEN 2 ELSE 3

MCTerms == {
  [hash |-> 1, token |-> << "a", "'", "b" >>, weights |-> << 2, 0 >>, stopword |-> FALSE],
  [hash |-> 2, token |-> << "b" >>, weights |-> << 0, 0 >>, stopword |-> TRUE],
  [hash |-> 3, token |-> << "1", ".", "1" >>, weights |-> << 1, 2 >>, stopword |-> FALSE] }

MCThreshold == << 3, 2 >>

Repeated == [text |-> << "a", "a", "a", "a" >>, threshold_milli |-> 1000]
Phrase == [text |-> << "a", " ", "b" >>, threshold_milli |-> 500]
Short == [text |-> << "b", "1" >>, threshold_milli |-> 400]
MCKeywords == { Repeated, Phrase, Short }
MCJaccardWordChars == { "a", "b", "1", "_" }

Rule(operator, of, priority, route_name) ==
  [operator |-> operator, of |-> of, priority |-> priority, route |-> route_name]
Mixed == [ngram |-> << Rule("AND", { Phrase, Short }, 4, "coding"),
                       Rule("OR", { Repeated }, 2, "qa") >>,
          bm25 |-> << Rule("OR", { 1, 2 }, 3, "writing"), Rule("NOR", { 2 }, 0, "math") >>]
\* One method, and both rules with the priority of a signal that has none given.
Single == [ngram |-> << Rule("OR", { Repeated, Short }, 0, "qa"), Rule("NOR", { Phrase }, 0, "math") >>,
           bm25 |-> << >>]
MCPolicies == { Mixed, Single }

Letter == [text |-> << "a" >>, threshold_milli |-> 1000]
LetterKeywords == { Letter }
LetterPolicies == { [ngram |-> << Rule("OR", { Letter }, 0, "qa") >>, bm25 |-> << >>] }

MCBuckets == { 0, 1 }
MCBucket(a, b, c) == IF c = "a" THEN 0 ELSE 1
MCWeights == [b \in MCBuckets |-> IF b = 0 THEN (0 :> 1 @@ 1 :> -1 @@ 2 :> 0)
                                           ELSE (0 :> 0 @@ 1 :> -1 @@ 2 :> 1)]
WithBias(bias) == [bias |-> bias, weights |-> MCWeights, score_bound |-> 7]
Good == WithBias(0 :> 4 @@ 1 :> 5 @@ 2 :> 5)
Wrong == WithBias(0 :> 4 @@ 1 :> 5 @@ 2 :> 7)
MCFiles == { Good, Wrong }
=============================================================================
