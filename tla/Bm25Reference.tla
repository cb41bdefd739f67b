---------------------------- MODULE Bm25Reference ----------------------------
(***************************************************************************)
(* What the BM25 signal is to compute: benchmarks/policy/bm25_reference.py *)
(* over the words of benchmarks/policy/vsr_bm25_tokenizer.py, whose        *)
(* regular expression is                                                   *)
(*   [0-9]+(?:\.[0-9]+)+ | [a-z0-9]+(?:_[a-z0-9]+)+                        *)
(*                       | [a-z0-9]+(?:'[a-z0-9]+)*                        *)
(***************************************************************************)
EXTENDS Bm25, FiniteSets, FiniteSetsExt, SequencesExt

\* A run of parts joined by single connectors.
IsJoined(w, parts, connector) ==
  /\ \A i \in DOMAIN w : w[i] \in parts \cup { connector }
  /\ w[1] \in parts /\ w[Len(w)] \in parts
  /\ \A i \in 1 .. Len(w) - 1 : w[i] \in parts \/ w[i + 1] \in parts

HasConnector(w, connector) == \E i \in DOMAIN w : w[i] = connector

IsAlternative(n, w) ==
  CASE n = 1 -> IsJoined(w, Digits, Dot) /\ HasConnector(w, Dot)
    [] n = 2 -> IsJoined(w, WordChars, Underscore) /\ HasConnector(w, Underscore)
    [] n = 3 -> IsJoined(w, WordChars, Apostrophe)

\* Where the matches of alternative n that start at i may end; an alternative
\* takes as much as it can, and the first that matches is taken.
Ends(t, i, n) == { j \in i .. Len(t) : IsAlternative(n, SubSeq(t, i, j)) }
MatchEnd(t, i) ==
  LET n == Min({ m \in 1 .. 3 : Ends(t, i, m) # {} }) IN Max(Ends(t, i, n))

TermsOf(w) == { t \in Terms : t.token = w }
IsStopword(w) == \E u \in TermsOf(w) : u.stopword

\* All matches, from left to right, but for the stop words.
TokenizeQuery(t) ==
  LET from[i \in 1 .. Len(t) + 1] ==
        IF i > Len(t) THEN << >>
        ELSE IF \A n \in 1 .. 3 : Ends(t, i, n) = {} THEN from[i + 1]
        ELSE LET w == SubSeq(t, i, MatchEnd(t, i)) IN
             (IF IsStopword(w) THEN << >> ELSE << w >>) \o from[MatchEnd(t, i) + 1]
  IN  from[1]

\* Of a word in a document; no two terms have the same word.
WeightOf(w, d) == IF TermsOf(w) = {} THEN 0 ELSE (CHOOSE u \in TermsOf(w) : TRUE).weights[d]

FixedScores(t) ==
  LET tokens == TokenizeQuery(t) IN
  [d \in Documents |->
     LET weight == [i \in DOMAIN tokens |-> WeightOf(tokens[i], d)] IN
     MapThenSumSet(LAMBDA i : weight[i], DOMAIN tokens)]

\* score > 0 and score >= threshold
Matched(t) ==
  { d \in Documents : FixedScores(t)[d] > 0 /\ FixedScores(t)[d] >= Threshold[d] }

\* The words in which the connectors are of one kind, and the dots between
\* digits only.
Within(t, i, j, S) == \E k \in i .. j : t[k] \in S
Regular(t) ==
  \A i, j \in DOMAIN t :
    i <= j /\ ~Within(t, i, j, Delimiters) =>
      /\ \A a, b \in i .. j : t[a] \in Connectors /\ t[b] \in Connectors => t[a] = t[b]
      /\ Within(t, i, j, { Dot }) => ~Within(t, i, j, Letters)

AgreesWithReference ==
  /\ query_tokens = Len(TokenizeQuery(text))
  /\ scores = FixedScores(text)
  /\ matched_documents = Matched(text)

-----------------------------------------------------------------------------
(* Properties *)

\* On regular texts the stream, with its hashes and its words of bounded
\* length, comes to the scores and the matches of the reference.
RegularAgrees == finished /\ Regular(text) => AgreesWithReference
=============================================================================
