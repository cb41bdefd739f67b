----------------------------- MODULE JsonContent -----------------------------
(***************************************************************************)
(* The text of a request: the content scan of the BPF stream parser        *)
(* (scan_content_callback in bpf/programs/sk_router.bpf.c) finds the first *)
(* "content" of a JSON body that is a string, undoes its escapes, and      *)
(* hands the text to the signals as UTF-8, byte by byte. The n-gram signal *)
(* reads code points from it (Utf8).                                       *)
(*                                                                         *)
(* A body is what it consists of and what the client meant by it: "prompt" *)
(* are the code points of the content, lone surrogates included, and "at"  *)
(* is after how many bytes each of them begins and the last one ends.      *)
(* "form" is "exact" when the content is Unicode text in JSON, "json" when *)
(* it is JSON with lone surrogates of one kind, and "other" when it is not *)
(* JSON or has a high and a low surrogate that are apart.                  *)
(***************************************************************************)
EXTENDS Utf8

CONSTANTS Bodies     (* [json, prompt, at, form] *)

Bytes == 0 .. 255
Quote == 34
Backslash == 92
KeyChars == << 34, 99, 111, 110, 116, 101, 110, 116, 34, 58 >>   (* "content": *)

HexDigits == 48 .. 57 \cup 97 .. 102 \cup 65 .. 70
ContentHexValue(c) ==
  IF c \in 48 .. 57 THEN c - 48 ELSE IF c \in 97 .. 102 THEN c - 87 ELSE c - 55

-----------------------------------------------------------------------------
(* What a client sends. *)

\* The escape \uXXXX of a number.
IsEscape(s, v) ==
  /\ Len(s) = 6 /\ s[1] = Backslash /\ s[2] = 117 /\ \A k \in 3 .. 6 : s[k] \in HexDigits
  /\ v = ContentHexValue(s[3]) * 4096 + ContentHexValue(s[4]) * 256
           + ContentHexValue(s[5]) * 16 + ContentHexValue(s[6])

\* The escapes of one letter, with what they stand for.
ShortEscapes ==
  { << Quote, Quote >>, << Backslash, Backslash >>, << 47, 47 >>, << 98, 8 >>,
    << 102, 12 >>, << 110, 10 >>, << 114, 13 >>, << 116, 9 >> }

\* The forms of a character in a JSON string: its UTF-8, a short escape, an
\* escape, or those of the two halves of a pair.
StandsFor(s, c) ==
  \/ ~High(c) /\ ~Low(c) /\ c \notin { Quote, Backslash } /\ s = ScoreCodepoint(c)
  \/ \E e \in ShortEscapes : s = << Backslash, e[1] >> /\ c = e[2]
  \/ IsEscape(s, c)
  \/ /\ Len(s) = 12 /\ c >= 65536
     /\ IsEscape(SubSeq(s, 1, 6), 55296 + (c - 65536) \div 1024)
     /\ IsEscape(SubSeq(s, 7, 12), 56320 + ((c - 65536) % 1024))

\* The key at i, and after blanks a quote at j: there a content begins.
Opens(s, i, j) ==
  /\ i + Len(KeyChars) <= j /\ \A k \in 1 .. Len(KeyChars) : s[i + k - 1] = KeyChars[k]
  /\ \A k \in i + Len(KeyChars) .. j - 1 : s[k] \in { 32, 9 }
  /\ s[j] = Quote

\* A member of an object begins after a brace, a comma or white space.
BeginsMember(s, i) == i > 1 => s[i - 1] \in { 123, 44, 32, 9, 10, 13 }

\* The first content of the body is the prompt, or the body has none.
Encodes(b) ==
  IF b.at = << >>
    THEN b.prompt = << >> /\ \A i, j \in DOMAIN b.json : ~Opens(b.json, i, j)
  ELSE
    /\ \E i \in DOMAIN b.json : Opens(b.json, i, b.at[1]) /\ BeginsMember(b.json, i)
    /\ \A i, j \in DOMAIN b.json : Opens(b.json, i, j) => b.at[1] <= j
    /\ Len(b.at) = Len(b.prompt) + 1 /\ b.at \in Seq(1 .. Len(b.json) - 1)
    /\ \A k \in DOMAIN b.prompt :
         StandsFor(SubSeq(b.json, b.at[k] + 1, b.at[k + 1]), b.prompt[k])
    /\ b.json[b.at[Len(b.at)] + 1] = Quote

Has(b, kind(_)) == \E k \in DOMAIN b.prompt : kind(b.prompt[k])

ASSUME ContentAssumption ==
  \A b \in Bodies :
    /\ b.json \in Seq(Bytes) /\ b.prompt \in Seq(0 .. MaxPoint)
    /\ b.form \in { "exact", "json", "other" }
    /\ b.form # "other" => Encodes(b) /\ ~(Has(b, High) /\ Has(b, Low))
    /\ b.form = "exact" => ~Has(b, High) /\ ~Has(b, Low)

VARIABLES
  body, pos,          (* the request's body, and how much of it was looked at *)
  \* struct sk_http_flow_state
  content_key_pos, waiting_for_quote, in_content, escaped,
  unicode_remaining, unicode_value, unicode_high_surrogate,
  \* what went to the signals (history), and what the n-gram signal read
  scored, reader,
  ended

keyVars == << content_key_pos, waiting_for_quote, in_content >>
escapeVars == << escaped, unicode_remaining, unicode_value, unicode_high_surrogate >>
outVars == << scored, reader >>
vars == << body, pos, keyVars, escapeVars, outVars, ended >>

NoSurrogate == 0

Init ==
  /\ body \in Bodies /\ pos = 0 /\ ended = FALSE
  /\ content_key_pos = 0 /\ waiting_for_quote = FALSE /\ in_content = FALSE
  /\ escaped = FALSE /\ unicode_remaining = 0 /\ unicode_value = 0
  /\ unicode_high_surrogate = NoSurrogate
  /\ scored = << >> /\ reader = NewReader

-----------------------------------------------------------------------------
Byte == body.json[pos + 1]

\* There is a next byte.
Take ==
  /\ ~ended /\ pos < Len(body.json)
  /\ pos' = pos + 1 /\ UNCHANGED body

\* xdp_classifier_score_char, for each of the bytes.
Score(bytes) == scored' = scored \o bytes /\ reader' = ReadBytes(reader, bytes)

KeyByte ==
  /\ Take /\ ~in_content /\ ~waiting_for_quote
  /\ IF Byte = KeyChars[content_key_pos + 1]
       THEN /\ content_key_pos' = (content_key_pos + 1) % Len(KeyChars)
            /\ waiting_for_quote' = (content_key_pos' = 0)
       ELSE /\ content_key_pos' = IF Byte = Quote THEN 1 ELSE 0
            /\ UNCHANGED waiting_for_quote
  /\ UNCHANGED << in_content, escapeVars, outVars, ended >>

\* The value is a string, after blanks, or the search goes on.
WaitingByte ==
  /\ Take /\ ~in_content /\ waiting_for_quote
  /\ in_content' = (Byte = Quote) /\ waiting_for_quote' = (Byte \in { 32, 9 })
  /\ UNCHANGED << content_key_pos, escapeVars, outVars, ended >>

InText == in_content /\ ~escaped /\ unicode_remaining = 0

Kept == unicode_high_surrogate # NoSurrogate
BlankForKept == IF Kept THEN << Blank >> ELSE << >>

PlainByte_FlushesHigh ==
  /\ Take /\ InText /\ Byte \notin { Backslash, Quote }
  /\ Score(BlankForKept \o << Byte >>)
  /\ UNCHANGED << keyVars, escapeVars, ended >>

PlainByte ==
  /\ Take /\ InText /\ Byte \notin { Backslash, Quote }
  /\ Score(<< Byte >>)
  /\ UNCHANGED << keyVars, escapeVars, ended >>

BeginEscape ==
  /\ Take /\ InText /\ Byte = Backslash
  /\ escaped' = TRUE
  /\ UNCHANGED << keyVars, unicode_remaining, unicode_value,
                  unicode_high_surrogate, outVars, ended >>

\* The quote that closes the content ends the loop; a high surrogate that is
\* still kept is forgotten with the flow.
EndOfContent ==
  /\ Take /\ InText /\ Byte = Quote
  /\ ended' = TRUE /\ reader' = ReadEnd(reader)
  /\ UNCHANGED << keyVars, escapeVars, scored >>

EndOfBody ==
  /\ ~ended /\ pos = Len(body.json)
  /\ ended' = TRUE /\ reader' = ReadEnd(reader)
  /\ UNCHANGED << body, pos, keyVars, escapeVars, scored >>

-----------------------------------------------------------------------------
(* Escapes *)

\* b, f, n, r and t; the others stand for themselves or for nothing.
Unescape ==
  CASE Byte \in { Quote, Backslash, 47 } -> Byte
    [] Byte = 98  -> 8
    [] Byte = 102 -> 12
    [] Byte = 110 -> 10
    [] Byte = 114 -> 13
    [] Byte = 116 -> 9
    [] OTHER   -> Blank

EscapedByte_FiveDigits ==
  /\ Take /\ in_content /\ escaped /\ unicode_remaining = 0
  /\ escaped' = FALSE
  /\ IF Byte = 117
       THEN unicode_remaining' = 5 /\ unicode_value' = 0 /\ UNCHANGED outVars
       ELSE Score(<< Unescape >>) /\ UNCHANGED << unicode_remaining, unicode_value >>
  /\ UNCHANGED << keyVars, unicode_high_surrogate, ended >>

EscapedByte ==
  /\ Take /\ in_content /\ escaped /\ unicode_remaining = 0
  /\ escaped' = FALSE
  /\ IF Byte = 117
       THEN unicode_remaining' = 4 /\ unicode_value' = 0 /\ UNCHANGED outVars
       ELSE Score(<< Unescape >>) /\ UNCHANGED << unicode_remaining, unicode_value >>
  /\ UNCHANGED << keyVars, unicode_high_surrogate, ended >>

BadHex ==
  /\ Take /\ in_content /\ unicode_remaining > 0 /\ Byte \notin HexDigits
  /\ unicode_remaining' = 0 /\ unicode_value' = 0
  /\ Score(<< Blank >>)
  /\ UNCHANGED << keyVars, escaped, unicode_high_surrogate, ended >>

\* The \u escape that ends in Byte.
Value == (unicode_value * 16 + ContentHexValue(Byte)) % 65536

HexDigit ==
  /\ Take /\ in_content /\ unicode_remaining > 1 /\ Byte \in HexDigits
  /\ unicode_remaining' = unicode_remaining - 1 /\ unicode_value' = Value
  /\ UNCHANGED << keyVars, escaped, unicode_high_surrogate, outVars, ended >>

Combine(high, low) == 65536 + (high - 55296) * 1024 + (low - 56320)

Decoded ==
  IF High(Value) THEN BlankForKept
  ELSE IF Low(Value) /\ Kept
    THEN ScoreCodepoint(Combine(unicode_high_surrogate, Value))
  ELSE IF Low(Value) THEN BlankForKept \o << Blank >>
  ELSE BlankForKept \o ScoreCodepoint(Value)

LastHexDigit_KeepsHigh ==
  /\ Take /\ in_content /\ unicode_remaining = 1 /\ Byte \in HexDigits
  /\ unicode_remaining' = 0 /\ unicode_value' = 0
  /\ unicode_high_surrogate' =
       IF High(Value) THEN Value ELSE unicode_high_surrogate
  /\ Score(Decoded)
  /\ UNCHANGED << keyVars, escaped, ended >>

\* A high surrogate is kept for the next \u escape, whatever comes in between.
LastHexDigit ==
  /\ Take /\ in_content /\ unicode_remaining = 1 /\ Byte \in HexDigits
  /\ unicode_remaining' = 0 /\ unicode_value' = 0
  /\ unicode_high_surrogate' =
       IF High(Value) THEN Value ELSE NoSurrogate
  /\ Score(Decoded)
  /\ UNCHANGED << keyVars, escaped, ended >>

-----------------------------------------------------------------------------
ScanByte ==
  \/ KeyByte \/ WaitingByte
  \/ PlainByte \/ BeginEscape \/ EndOfContent
  \/ EscapedByte \/ BadHex \/ HexDigit \/ LastHexDigit

Ended == ended /\ UNCHANGED vars

Next == ScanByte \/ EndOfBody \/ Ended

Spec == Init /\ [][Next]_vars

-----------------------------------------------------------------------------
(* Properties *)

Sixteens == << 1, 16, 256, 4096, 65536 >>

\* The type invariant: what is scored are bytes and what is read from them are
\* code points, the value of an escape has as many digits as were read, and a
\* surrogate that is kept is a high one.
TypeOK ==
  /\ pos \in 0 .. Len(body.json)
  /\ content_key_pos \in 0 .. Len(KeyChars) - 1
  /\ { waiting_for_quote, in_content, escaped, ended } \subseteq BOOLEAN
  /\ unicode_remaining \in 0 .. 4
  /\ unicode_value \in 0 .. Sixteens[5 - unicode_remaining] - 1
  /\ High(unicode_high_surrogate) \/ unicode_high_surrogate = NoSurrogate
  /\ scored \in Seq(Bytes)
  /\ reader.remaining \in 0 .. 3 /\ reader.points \in Seq(0 .. MaxPoint)

\* The characters of a text that are not in S.
Without(text, S) ==
  LET left[i \in 0 .. Len(text)] ==
        IF i = 0 THEN << >>
        ELSE IF text[i] \in S THEN left[i - 1]
        ELSE Append(left[i - 1], text[i])
  IN  left[Len(text)]
Surrogates == 55296 .. 57343

\* The signals see the prompt, however the client escaped it and whatever
\* members come before it: character by character when it is Unicode text, and
\* otherwise with blanks for lone surrogates, at the latest place where the
\* parser can tell.
PromptIsScored ==
  /\ ended /\ body.form = "exact" => reader.points = body.prompt
  /\ ended /\ body.form = "json" =>
       Without(reader.points, { Blank }) = Without(body.prompt, { Blank } \cup Surrogates)

\* Of any body, also of one that is no JSON, no more bytes are scored than were
\* read after the key and the quote: the bound on the words of a request
\* (XDP_BM25_MAX_QUERY_TOKENS) is derived from its bytes.
ScoredWithinRead == scored # << >> => Len(scored) <= pos - Len(KeyChars) - 1
=============================================================================
