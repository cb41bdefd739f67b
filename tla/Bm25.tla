-------------------------------- MODULE Bm25 ---------------------------------
(***************************************************************************)
(* The BM25 signal, bpf/stages/signals/xdp_bm25_classifier.bpf.h: a text   *)
(* arrives byte by byte, is cut into words, and every word adds its        *)
(* weights to the scores of the keyword documents.                         *)
(*                                                                         *)
(* The words of the policy are in a table that is looked up by a 32-bit    *)
(* hash, which other words share; the word itself is kept up to            *)
(* MaxTokenBytes bytes for comparison. Case folding is not modelled: the   *)
(* bytes are those after xdp_bm25_lower.                                   *)
(***************************************************************************)
EXTENDS Integers, Sequences

CONSTANTS
  Letters, Digits,      (* xdp_bm25_word_char                              *)
  Apostrophe, Dot, Underscore,
  Delimiters,           (* every other byte, those of other scripts too    *)
  Documents,
  Terms,                (* xdp_bm25_terms: [hash, token, weights, stopword] *)
  Hash(_),              (* FNV-1a of a word                                *)
  Threshold,            (* [Documents -> Nat]                              *)
  MaxTermWeight,        (* MAX_FIXED_TERM_WEIGHT                           *)
  MaxTokenBytes,        (* XDP_BM25_MAX_TOKEN_BYTES                        *)
  MaxBytes              (* XDP_MAX_STREAM_REQUEST_BYTES                    *)

Connectors == { Apostrophe, Dot, Underscore }
WordChars == Letters \cup Digits
Bytes == WordChars \cup Connectors \cup Delimiters

NoByte == "none"

\* What generate_bm25_policy_header.py makes sure of.
ASSUME Bm25Assumption ==
  /\ WordChars \cap Connectors = {} /\ WordChars \cap Delimiters = {}
  /\ Connectors \cap Delimiters = {} /\ NoByte \notin Connectors
  /\ MaxTokenBytes \in Nat /\ MaxBytes \in Nat
  /\ Threshold \in [Documents -> Nat]
  /\ MaxTermWeight \in Nat /\ \A t \in Terms : t.weights \in [Documents -> 0 .. MaxTermWeight]
  /\ \A t \in Terms : Len(t.token) <= MaxTokenBytes /\ t.hash = Hash(t.token)
  /\ \A t, u \in Terms : t.hash = u.hash => t = u

\* XDP_BM25_MAX_QUERY_TOKENS
MaxQueryTokens == (MaxBytes + 1) \div 2

VARIABLES
  \* struct xdp_bm25_state. "word" stands for the hash, the token as far as it
  \* is kept, token_length, token_overflow and in_word.
  scores, query_tokens, matched_documents, overflow,
  word, pending_connector, previous_char,
  \* the bytes so far, and whether the request is at its end (history)
  text, finished

wordVars == << word, pending_connector, previous_char >>
scoreVars == << scores, query_tokens, matched_documents, overflow >>
vars == << scoreVars, wordVars, text, finished >>

Init ==
  /\ scores = [d \in Documents |-> 0] /\ query_tokens = 0
  /\ matched_documents = {} /\ overflow = FALSE
  /\ word = << >> /\ pending_connector = NoByte /\ previous_char = NoByte
  /\ text = << >> /\ finished = FALSE

-----------------------------------------------------------------------------
(* xdp_bm25_finish_word *)

\* The term that the hash leads to, if it is the word and not only hashed like
\* it. A word that is too long to be kept is equal to none.
Exact_HashOnly(w) == { t \in Terms : t.hash = Hash(w) }

Exact(w) ==
  { t \in Terms : t.hash = Hash(w) /\ Len(w) <= MaxTokenBytes /\ t.token = w }

AddWeights(t) ==
  /\ scores' = [d \in Documents |-> scores[d] + t.weights[d]]
  /\ matched_documents' = matched_documents \cup
       { d \in Documents : t.weights[d] # 0 /\ scores[d] + t.weights[d] >= Threshold[d] }

CountWord(w) ==
  IF \E t \in Exact(w) : t.stopword THEN UNCHANGED scoreVars
  ELSE IF query_tokens >= MaxQueryTokens
    THEN overflow' = TRUE /\ UNCHANGED << scores, query_tokens, matched_documents >>
    ELSE /\ query_tokens' = query_tokens + 1 /\ UNCHANGED overflow
         /\ IF Exact(w) = {} THEN UNCHANGED << scores, matched_documents >>
            ELSE \E t \in Exact(w) : AddWeights(t)

EndWord_KeepsWord ==
  /\ IF word = << >> THEN UNCHANGED scoreVars ELSE CountWord(word)
  /\ pending_connector' = NoByte /\ previous_char' = NoByte /\ UNCHANGED word

EndWord ==
  /\ IF word = << >> THEN UNCHANGED scoreVars ELSE CountWord(word)
  /\ word' = << >> /\ pending_connector' = NoByte /\ previous_char' = NoByte

-----------------------------------------------------------------------------
(* xdp_bm25_score_char *)

\* A connector belongs to the word when a word byte follows, and a dot only
\* between two digits.
Connects(c) ==
  pending_connector = Dot => previous_char \in Digits /\ c \in Digits

WordByte(c) ==
  /\ c \in WordChars
  /\ pending_connector' = NoByte /\ previous_char' = c
  /\ IF pending_connector = NoByte
       THEN word' = Append(word, c) /\ UNCHANGED scoreVars
     ELSE IF Connects(c)
       THEN word' = word \o << pending_connector, c >> /\ UNCHANGED scoreVars
       ELSE word' = << c >> /\ CountWord(word)

ConnectorByte_RemembersIt(c) ==
  /\ c \in Connectors /\ word # << >> /\ pending_connector = NoByte
  /\ pending_connector' = c /\ previous_char' = c
  /\ UNCHANGED << scoreVars, word >>

ConnectorByte(c) ==
  /\ c \in Connectors /\ word # << >> /\ pending_connector = NoByte
  /\ pending_connector' = c
  /\ UNCHANGED << scoreVars, word, previous_char >>

OtherByte(c) ==
  /\ c \notin WordChars
  /\ ~(c \in Connectors /\ word # << >> /\ pending_connector = NoByte)
  /\ EndWord

ScoreChar(c) ==
  /\ ~finished /\ Len(text) < MaxBytes
  /\ text' = Append(text, c) /\ UNCHANGED finished
  /\ WordByte(c) \/ ConnectorByte(c) \/ OtherByte(c)

\* xdp_classifier_finish
Finish ==
  /\ ~finished /\ finished' = TRUE /\ EndWord /\ UNCHANGED text

Next == (\E c \in Bytes : ScoreChar(c)) \/ Finish

Spec == Init /\ [][Next]_vars

-----------------------------------------------------------------------------
(* Properties *)

\* The type invariant.
TypeOK ==
  /\ scores \in [Documents -> Nat] /\ query_tokens \in Nat
  /\ matched_documents \in SUBSET Documents /\ overflow \in BOOLEAN
  /\ word \in Seq(Bytes) /\ text \in Seq(Bytes) /\ Len(text) <= MaxBytes
  /\ pending_connector \in Connectors \cup { NoByte }
  /\ previous_char \in WordChars \cup { NoByte } /\ finished \in BOOLEAN

\* The comment at XDP_BM25_MAX_QUERY_TOKENS: no request has more words than
\* that, so that the signal is never given up and no score passes the bound of
\* a signed 64-bit integer that the generator derives from it.
NoOverflow ==
  /\ ~overflow /\ query_tokens <= MaxQueryTokens
  /\ \A d \in Documents : scores[d] <= MaxTermWeight * query_tokens
=============================================================================
