------------------------------- MODULE Jaccard -------------------------------
(***************************************************************************)
(* The n-gram signal, bpf/stages/signals/xdp_jaccard_classifier.bpf.h: the *)
(* trigrams of every word, and those of the whole text, are counted        *)
(* against the keywords, and a keyword matches what is similar enough to   *)
(* it. A state of the signal is a record; the operators take one and       *)
(* return the next.                                                        *)
(*                                                                         *)
(* A keyword is its text and the threshold of its rule. The trigrams that  *)
(* a query has seen are kept in their order, where the code counts them in *)
(* a map under a random token. Characters are those after folding.         *)
(***************************************************************************)
EXTENDS Integers, Sequences, FiniteSets

CONSTANTS
  Keywords,             (* [text, threshold_milli]                          *)
  JaccardWordChars,     (* xdp_jaccard_word_char                            *)
  MaxGrams,             (* XDP_JACCARD_MAX_GRAMS, of a word                 *)
  MaxTextGrams          (* XDP_JACCARD_MAX_TEXT_GRAMS                       *)

Space == " "

\* The trigrams of a word with two spaces around it, as the generator counts
\* them.
Padded(w, i) == IF i \in 1 .. Len(w) THEN w[i] ELSE Space
Grams(w) ==
  [i \in 1 .. Len(w) + 2 |-> << Padded(w, i - 2), Padded(w, i - 1), Padded(w, i) >>]

Times(gram, grams) == Cardinality({ i \in DOMAIN grams : grams[i] = gram })

\* xdp_jaccard_gram_masks: whose trigram it is, as often as that.
GramMask(gram, occurrence) == { k \in Keywords : Times(gram, Grams(k.text)) >= occurrence }

-----------------------------------------------------------------------------
(* struct xdp_jaccard_query, with the characters that its next trigram     *)
(* begins with. "same" are the intersections with the keywords.            *)

NewQuery == [seen |-> << >>, same |-> [k \in Keywords |-> 0], overflow |-> FALSE,
             previous |-> Space, last |-> Space, length |-> 0]

ResetQuery(q) == [NewQuery EXCEPT !.previous = q.previous, !.last = q.last]

AddGram_NoOccurrence(q, gram, limit) ==
  IF Len(q.seen) >= limit THEN [q EXCEPT !.overflow = TRUE]
  ELSE LET owners == GramMask(gram, 1) IN
       [q EXCEPT !.seen = Append(@, gram),
                 !.same = [k \in Keywords |-> @[k] + IF k \in owners THEN 1 ELSE 0]]

AddGram(q, gram, limit) ==
  IF Len(q.seen) >= limit THEN [q EXCEPT !.overflow = TRUE]
  ELSE LET owners == GramMask(gram, Times(gram, q.seen) + 1) IN
       [q EXCEPT !.seen = Append(@, gram),
                 !.same = [k \in Keywords |-> @[k] + IF k \in owners THEN 1 ELSE 0]]

Push(q, c, limit) ==
  LET gram == IF q.length = 0 THEN << Space, Space, c >>
              ELSE IF q.length = 1 THEN << Space, q.last, c >>
              ELSE << q.previous, q.last, c >>
  IN  [AddGram(q, gram, limit) EXCEPT
         !.previous = IF q.length = 0 THEN @ ELSE q.last, !.last = c, !.length = @ + 1]

\* The trigrams of the padding at the end.
Close(q, limit) ==
  LET first == IF q.length = 1 THEN q
               ELSE AddGram(q, << q.previous, q.last, Space >>, limit)
  IN  AddGram(first, << q.last, Space, Space >>, limit)

\* The warp-2 similarity in thousandths, without the division.
Similar(same, total, keyword) ==
  LET all == total + (Len(keyword.text) + 2) - same
      diff == all - same
  IN  /\ same # 0
      /\ (all * all - diff * diff) * 1000 >= all * all * keyword.threshold_milli

MatchQuery(q) ==
  IF q.overflow THEN {} ELSE { k \in Keywords : Similar(q.same[k], Len(q.seen), k) }

-----------------------------------------------------------------------------
(* struct xdp_jaccard_state *)

NewJaccard == [matched |-> {}, word |-> NewQuery, full |-> NewQuery]

FinishWord(s) ==
  IF s.word.length = 0 THEN s
  ELSE LET closed == Close(s.word, MaxGrams) IN
       [s EXCEPT !.word = closed, !.matched = @ \cup MatchQuery(closed)]

\* xdp_jaccard_score_codepoint
JaccardScore(s, c) ==
  LET pushed == [s EXCEPT !.full = Push(@, c, MaxTextGrams)] IN
  IF c \in JaccardWordChars
    THEN [pushed EXCEPT !.word = Push(@, c, MaxGrams)]
    ELSE [FinishWord(pushed) EXCEPT !.word = ResetQuery(@)]

JaccardFinish(s) ==
  LET done == FinishWord(s)
      closed == Close(done.full, MaxTextGrams)
  IN  IF done.full.length = 0 THEN done
      ELSE [done EXCEPT !.full = closed, !.matched = @ \cup MatchQuery(closed)]
=============================================================================
