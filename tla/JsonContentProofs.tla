-------------------------- MODULE JsonContentProofs --------------------------
(***************************************************************************)
(* Proofs about JsonContent, for every body: no more bytes are scored than *)
(* were read, what is scored are bytes, from which the n-gram signal reads *)
(* code points, and those are the client's prompt, in whatever forms its   *)
(* characters were sent and after whatever members.                        *)
(***************************************************************************)
EXTENDS JsonContent, SequenceTheorems, Totals

\* What an escape that is under way, and a high surrogate that is kept, have
\* read without having scored anything.
EscapeRead == IF unicode_remaining > 0 THEN 6 - unicode_remaining
              ELSE IF escaped THEN 1 ELSE 0
HighRead == IF unicode_high_surrogate # NoSurrogate THEN 6 ELSE 0

\* The inductive invariant: before the content nothing is scored and the key
\* takes its bytes; in it, what is scored was read, and read by no escape that
\* is still open.
InContent ==
  Len(scored) + EscapeRead + HighRead + Len(KeyChars) + 1 <= pos

BeforeContent ==
  /\ scored = << >> /\ ~escaped /\ unicode_remaining = 0
  /\ unicode_high_surrogate = NoSurrogate
  /\ content_key_pos <= pos
  /\ waiting_for_quote => Len(KeyChars) <= pos

Types ==
  /\ body.json \in Seq(Nat) /\ pos \in Nat
  /\ content_key_pos \in 0 .. Len(KeyChars) - 1
  /\ unicode_remaining \in 0 .. 4 /\ unicode_value \in Nat
  /\ unicode_high_surrogate \in Nat
  /\ High(unicode_high_surrogate) \/ unicode_high_surrogate = NoSurrogate
  /\ escaped => unicode_remaining = 0
  /\ scored \in Seq(Nat)

Inv ==
  /\ Types
  /\ in_content => InContent
  /\ ~in_content => BeforeContent

-----------------------------------------------------------------------------
\* The key has ten bytes.
LEMMA KeyLength == Len(KeyChars) = 10
BY DEF KeyChars

\* A code point has as many bytes as UTF-8 gives it, three without a pair.
Basic(v) == v <= 65535

LEMMA CodepointLength ==
  ASSUME NEW v \in Nat
  PROVE  /\ ScoreCodepoint(v) \in Seq(Nat)
         /\ Len(ScoreCodepoint(v)) <= 4
         /\ Basic(v) => Len(ScoreCodepoint(v)) <= 3
<1> USE DEF ScoreCodepoint, Continuation, Blank, MaxPoint, Basic
<1>1. /\ v \div 64 \in Nat /\ v \div 4096 \in Nat /\ v \div 262144 \in Nat
      /\ Continuation(v, 1) \in Nat /\ Continuation(v, 64) \in Nat
      /\ Continuation(v, 4096) \in Nat
  OBVIOUS
<1>2. CASE v <= 127
  BY <1>2
<1>3. CASE v > 127 /\ v <= 2047
  BY <1>1, <1>3
<1>4. CASE v > 2047 /\ v <= 65535
  BY <1>1, <1>4
<1>5. CASE v > 65535
  BY <1>1, <1>5
<1> QED
  BY <1>2, <1>3, <1>4, <1>5

\* A value of a \u escape fits in sixteen bits.
LEMMA ValueRange ==
  ASSUME Types, Byte \in Nat, Byte \in HexDigits
  PROVE  Value \in Nat /\ Value <= 65535
<1> DEFINE n == unicode_value * 16 + ContentHexValue(Byte)
<1>1. ContentHexValue(Byte) \in Nat
  BY DEF ContentHexValue, HexDigits
<1>2. n \in Nat
  BY <1>1 DEF Types
<1>3. Value = n % 65536
  BY DEF Value
<1> HIDE DEF n
<1> QED
  BY <1>2, <1>3

\* What an escape scores once its last digit is there.
LEMMA DecodedLength ==
  ASSUME Types, Byte \in Nat, Byte \in HexDigits
  PROVE  /\ Decoded \in Seq(Nat)
         /\ Len(Decoded) <= 4
         /\ High(Value) /\ unicode_high_surrogate = NoSurrogate => Len(Decoded) = 0
         /\ unicode_high_surrogate = NoSurrogate => Len(Decoded) <= 3
<1> USE DEF Kept
<1>1. Value \in Nat /\ Value <= 65535
  BY ValueRange DEF Types
<1>2. /\ BlankForKept \in Seq(Nat) /\ Len(BlankForKept) <= 1
      /\ unicode_high_surrogate = NoSurrogate => Len(BlankForKept) = 0
  BY DEF BlankForKept, Blank
<1>3. CASE High(Value)
  <2>1. Decoded = BlankForKept
    BY <1>3 DEF Decoded
  <2> QED
    BY <1>2, <2>1
<1>4. CASE Low(Value) /\ unicode_high_surrogate # NoSurrogate
  <2>1. ~High(Value)
    BY <1>1, <1>4 DEF High, Low
  <2> DEFINE point == Combine(unicode_high_surrogate, Value)
  <2>2. point \in Nat
    BY <1>1, <1>4 DEF Combine, Types, High, Low
  <2>3. Decoded = ScoreCodepoint(point)
    BY <1>4, <2>1 DEF Decoded
  <2> HIDE DEF point
  <2>4. ScoreCodepoint(point) \in Seq(Nat) /\ Len(ScoreCodepoint(point)) <= 4
    BY <2>2, CodepointLength, Zenon
  <2>5. Decoded \in Seq(Nat) /\ Len(Decoded) <= 4
    BY <2>3, <2>4, Zenon
  <2> QED
    BY <1>4, <2>1, <2>5
<1>5. CASE Low(Value) /\ unicode_high_surrogate = NoSurrogate
  <2>1. ~High(Value)
    BY <1>1, <1>5 DEF High, Low
  <2>2. Decoded = BlankForKept \o << Blank >>
    BY <1>5, <2>1 DEF Decoded
  <2>3. << Blank >> \in Seq(Nat) /\ Len(<< Blank >>) = 1
    BY DEF Blank
  <2>4. Decoded \in Seq(Nat) /\ Len(Decoded) = Len(BlankForKept) + 1
    BY <1>2, <2>2, <2>3
  <2> QED
    BY <1>2, <1>5, <2>1, <2>4
<1>6. CASE ~High(Value) /\ ~Low(Value)
  <2> DEFINE bytes == ScoreCodepoint(Value)
  <2>1. Value \in Nat /\ Basic(Value)
    BY <1>1 DEF Basic
  <2>2. bytes \in Seq(Nat) /\ Len(bytes) <= 3
    BY <2>1, CodepointLength, Zenon
  <2>3. Decoded = BlankForKept \o bytes
    BY <1>6 DEF Decoded
  <2> HIDE DEF bytes
  <2>4. Decoded \in Seq(Nat) /\ Len(Decoded) = Len(BlankForKept) + Len(bytes)
    BY <1>2, <2>2, <2>3
  <2> QED
    BY <1>2, <1>6, <2>2, <2>4
<1> QED
  BY <1>3, <1>4, <1>5, <1>6

-----------------------------------------------------------------------------
\* What a step takes is a byte of the body.
LEMMA TakesByte == Types /\ Take => Byte \in Nat
BY DEF Types, Take, Byte

\* Before the content: the key and the blanks take their bytes.
LEMMA BeforeStep ==
  ASSUME Inv, KeyByte \/ WaitingByte
  PROVE  Inv'
<1>1. Byte \in Nat
  BY TakesByte DEF KeyByte, WaitingByte, Inv
<1> USE DEF Take, keyVars, escapeVars, outVars
<1>2. CASE KeyByte
  <2>1. content_key_pos \in 0 .. 9
    BY KeyLength DEF Inv, Types
  <2>2. /\ (content_key_pos + 1) % 10 \in 0 .. 9
        /\ (content_key_pos + 1) % 10 <= content_key_pos + 1
        /\ (content_key_pos + 1) % 10 = 0 => content_key_pos = 9
    BY <2>1
  <2>3. /\ ~in_content /\ ~in_content' /\ Types /\ BeforeContent /\ pos' = pos + 1
        /\ UNCHANGED << body, escaped, unicode_remaining, unicode_value,
                        unicode_high_surrogate, scored >>
    BY <1>2 DEF KeyByte, Inv
  <2>4. content_key_pos' = (content_key_pos + 1) % 10 \/ content_key_pos' = 0
          \/ (content_key_pos' = 1 /\ waiting_for_quote' = waiting_for_quote)
    BY <1>2, KeyLength DEF KeyByte
  <2>5. Types'
    BY <2>1, <2>2, <2>3, <2>4, KeyLength DEF Types, High
  <2>6. waiting_for_quote' => 10 <= pos'
    <3>1. CASE UNCHANGED waiting_for_quote
      BY <2>3, <3>1, KeyLength DEF BeforeContent, Types
    <3>2. CASE content_key_pos' = (content_key_pos + 1) % 10
               /\ waiting_for_quote' = (content_key_pos' = 0)
      <4>1. waiting_for_quote' => content_key_pos = 9
        BY <2>2, <3>2
      <4> QED
        BY <2>3, <4>1 DEF BeforeContent, Types
    <3> QED
      BY <1>2, <3>1, <3>2, KeyLength DEF KeyByte
  <2> QED
    BY <2>1, <2>2, <2>3, <2>4, <2>5, <2>6, KeyLength DEF Inv, Types, BeforeContent
<1>3. CASE WaitingByte
  BY <1>1, <1>3, KeyLength
     DEF WaitingByte, Inv, Types, InContent, BeforeContent, EscapeRead, HighRead, High, NoSurrogate
<1> QED
  BY <1>2, <1>3

\* In the content: every action scores at most what it and the escape that it
\* ends have read.
LEMMA ContentStep ==
  ASSUME Inv, PlainByte \/ BeginEscape \/ EndOfContent \/ EscapedByte \/ BadHex
                \/ HexDigit \/ LastHexDigit
  PROVE  Inv'
<1>1. Byte \in Nat
  BY TakesByte DEF PlainByte, BeginEscape, EndOfContent, EscapedByte, BadHex,
                   HexDigit, LastHexDigit, Inv
<1> USE DEF Take, keyVars, escapeVars, outVars, Score, Blank
<1>2. Types /\ InContent /\ in_content /\ in_content'
  BY DEF PlainByte, BeginEscape, EndOfContent, EscapedByte, BadHex,
         HexDigit, LastHexDigit, Inv, InText
<1>3. CASE PlainByte
  BY <1>1, <1>2, <1>3, KeyLength
     DEF PlainByte, InText, Inv, Types, InContent, EscapeRead, HighRead, High
<1>4. CASE BeginEscape
  BY <1>1, <1>2, <1>4, KeyLength
     DEF BeginEscape, InText, Inv, Types, InContent, EscapeRead, HighRead, High
<1>5. CASE EndOfContent
  BY <1>1, <1>2, <1>5, KeyLength
     DEF EndOfContent, InText, Inv, Types, InContent, EscapeRead, HighRead, High
<1>6. CASE EscapedByte
  <2>1. Unescape \in Nat
    BY <1>1 DEF Unescape
  <2>2. scored \o << Unescape >> \in Seq(Nat) /\ Len(scored \o << Unescape >>) = Len(scored) + 1
    BY <1>2, <2>1 DEF Types
  <2>3. /\ escaped /\ ~escaped' /\ unicode_remaining = 0 /\ pos' = pos + 1
        /\ UNCHANGED << body, content_key_pos, unicode_high_surrogate, in_content >>
    BY <1>6 DEF EscapedByte
  <2>4. CASE Byte = 117
    <3>1. unicode_remaining' = 4 /\ unicode_value' = 0 /\ UNCHANGED scored
      BY <1>6, <2>4 DEF EscapedByte
    <3> QED
      BY <1>2, <2>3, <3>1, KeyLength DEF Inv, Types, InContent, EscapeRead, HighRead, High
  <2>5. CASE Byte # 117
    <3>1. unicode_remaining' = 0 /\ UNCHANGED unicode_value /\ scored' = scored \o << Unescape >>
      BY <1>6, <2>3, <2>5 DEF EscapedByte
    <3> QED
      BY <1>2, <2>2, <2>3, <3>1, KeyLength DEF Inv, Types, InContent, EscapeRead, HighRead, High
  <2> QED
    BY <2>4, <2>5
<1>7. CASE BadHex
  BY <1>1, <1>2, <1>7, KeyLength
     DEF BadHex, Inv, Types, InContent, EscapeRead, HighRead, High
<1>8. CASE HexDigit
  <2>1. Value \in Nat
    BY <1>1, <1>2, <1>8, ValueRange DEF HexDigit, Types
  <2>2. /\ unicode_remaining \in 2 .. 4 /\ unicode_remaining' = unicode_remaining - 1
        /\ unicode_value' = Value /\ pos' = pos + 1
        /\ UNCHANGED << body, content_key_pos, unicode_high_surrogate, in_content, escaped, scored >>
    BY <1>2, <1>8 DEF HexDigit, Types
  <2>3. Types'
    BY <1>2, <2>1, <2>2, KeyLength DEF Types, High
  <2>4. InContent'
    <3>1. EscapeRead' = EscapeRead + 1
      BY <1>2, <2>2 DEF Types, EscapeRead
    <3>2. HighRead' = HighRead /\ HighRead \in Nat /\ EscapeRead \in Nat
      BY <1>2, <2>2 DEF Types, HighRead, EscapeRead
    <3> QED
      BY <1>2, <2>2, <3>1, <3>2, KeyLength DEF Types, InContent
  <2> QED
    BY <1>2, <2>3, <2>4 DEF Inv
<1>9. CASE LastHexDigit
  <2>1. /\ Value \in Nat
        /\ Decoded \in Seq(Nat)
        /\ Len(Decoded) <= 4
        /\ High(Value) /\ unicode_high_surrogate = NoSurrogate => Len(Decoded) = 0
        /\ unicode_high_surrogate = NoSurrogate => Len(Decoded) <= 3
    BY <1>1, <1>2, <1>9, ValueRange, DecodedLength DEF LastHexDigit
  <2>2. /\ scored' = scored \o Decoded /\ scored' \in Seq(Nat)
        /\ Len(scored') = Len(scored) + Len(Decoded)
    BY <1>2, <1>9, <2>1 DEF LastHexDigit, Types
  <2>3. /\ unicode_remaining = 1 /\ unicode_remaining' = 0 /\ unicode_value' = 0 /\ pos' = pos + 1
        /\ unicode_high_surrogate' = (IF High(Value) THEN Value ELSE NoSurrogate)
        /\ UNCHANGED << body, content_key_pos, escaped >>
    BY <1>9 DEF LastHexDigit
  <2>4. Types'
    BY <1>2, <2>1, <2>2, <2>3, KeyLength DEF Types, High, NoSurrogate
  <2>5. Len(scored) + 5 + HighRead + 11 <= pos
    BY <1>2, <1>9, KeyLength DEF LastHexDigit, InContent, EscapeRead, Types, HighRead
  <2>6. EscapeRead' = 0
    BY <1>2, <1>9 DEF LastHexDigit, EscapeRead, Types
  <2>7. Len(Decoded) + HighRead' <= HighRead + 6
    <3>1. CASE High(Value)
      BY <2>1, <2>2, <2>3, <3>1 DEF HighRead, NoSurrogate, High
    <3>2. CASE ~High(Value)
      BY <2>1, <2>2, <2>3, <3>2 DEF HighRead, NoSurrogate
    <3> QED
      BY <3>1, <3>2
  <2>8. InContent'
    <3>1. HighRead \in Nat /\ HighRead' \in Nat
      BY DEF HighRead
    <3> QED
      BY <1>2, <1>9, <2>1, <2>2, <2>5, <2>6, <2>7, <3>1, KeyLength DEF LastHexDigit, InContent, Types
  <2> QED
    BY <1>2, <2>4, <2>8 DEF Inv
<1> QED
  BY <1>3, <1>4, <1>5, <1>6, <1>7, <1>8, <1>9

-----------------------------------------------------------------------------
\* The flow of a new connection has seen no byte.
LEMMA Initial == Init => Inv
<1> SUFFICES ASSUME Init PROVE Inv
  OBVIOUS
<1>1. body.json \in Seq(Bytes)
  BY ContentAssumption DEF Init
<1>2. Bytes \subseteq Nat
  BY DEF Bytes
<1>3. body.json \in Seq(Nat)
  BY <1>1, <1>2, SeqMonotonic
<1> QED
  BY <1>3, KeyLength DEF Init, Inv, Types, BeforeContent, NoSurrogate

\* Every step preserves the invariant; only the scan of a byte changes it.
LEMMA Preserved == Inv /\ [Next]_vars => Inv'
<1> SUFFICES ASSUME Inv, [Next]_vars PROVE Inv'
  OBVIOUS
<1>1. CASE ScanByte
  BY <1>1, BeforeStep, ContentStep DEF ScanByte
<1>2. CASE EndOfBody \/ Ended \/ UNCHANGED vars
  <2>1. UNCHANGED << body, pos, content_key_pos, waiting_for_quote, in_content, escaped,
                     unicode_remaining, unicode_value, unicode_high_surrogate, scored >>
    BY <1>2 DEF EndOfBody, Ended, vars, keyVars, escapeVars, outVars
  <2>2. Types' = Types /\ InContent' = InContent /\ BeforeContent' = BeforeContent
    BY <2>1 DEF Types, InContent, BeforeContent, EscapeRead, HighRead, High
  <2> QED
    BY <2>1, <2>2 DEF Inv
<1> QED
  BY <1>1, <1>2 DEF Next

\* However a body is escaped, and whether or not it is JSON, the parser scores
\* no more bytes than it has read of the content, so that a request is too
\* short to pass the limits that are derived from its length.
THEOREM ScoredWithinReadCorrect == Spec => []ScoredWithinRead
<1>1. Inv => ScoredWithinRead
  <2> SUFFICES ASSUME Inv, scored # << >> PROVE Len(scored) <= pos - Len(KeyChars) - 1
    BY DEF ScoredWithinRead
  <2>1. InContent /\ Types
    BY DEF Inv, BeforeContent
  <2>2. Len(scored) \in Nat /\ pos \in Nat /\ EscapeRead \in Nat /\ HighRead \in Nat
    BY <2>1 DEF Types, EscapeRead, HighRead, High
  <2> QED
    BY <2>1, <2>2, KeyLength DEF InContent
<1> QED
  BY <1>1, Initial, Preserved, PTL DEF Spec

-----------------------------------------------------------------------------
(* The reader of the n-gram signal. *)

Points == 0 .. MaxPoint

\* The last code point, as a bound.
LEMMA LastPoint == MaxPoint \in Nat /\ 1114111 <= MaxPoint /\ MaxPoint <= 1114111
  BY SMT DEF MaxPoint

Readers == [remaining : 0 .. 3, value : Nat, min : Nat, points : Seq(Points)]

\* A character is passed on.
LEMMA PassedOn ==
  ASSUME NEW r \in Readers, NEW c \in Points
  PROVE  Pass(r, c) \in Readers
<1>1. Append(r.points, c) \in Seq(Points) /\ 0 \in 0 .. 3 /\ 0 \in Nat
  BY DEF Readers
<1>2. Pass(r, c) = [r EXCEPT !.points = Append(r.points, c), !.remaining = 0, !.value = 0]
  BY DEF Pass
<1> QED
  BY <1>1, <1>2 DEF Readers

\* One more byte.
LEMMA ByteIsRead ==
  ASSUME NEW r \in Readers, NEW byte \in Bytes
  PROVE  ReadByte(r, byte) \in Readers
<1>1. byte \in 0 .. 255 /\ r.value \in Nat /\ r.min \in Nat /\ r.remaining \in 0 .. 3
  BY DEF Bytes, Readers
<1>2. Blank \in Points /\ (byte < 128 => byte \in Points)
  BY <1>1, LastPoint DEF Blank, Points
<1>3. CASE r.remaining = 0
  <2>1. \A bits \in Nat, min \in Nat, n \in 0 .. 3 : Lead(r, bits, min, n) \in Readers
    BY DEF Lead, Readers
  <2>2. CASE byte < 128
    <3>1. ReadByte(r, byte) = Pass(r, byte)
      BY <1>3, <2>2 DEF ReadByte, FirstByte
    <3> QED
      BY <1>2, <2>2, <3>1, PassedOn
  <2>3. CASE byte \in 192 .. 247
    <3>1. \/ ReadByte(r, byte) = Lead(r, byte - 192, 128, 1) /\ byte - 192 \in Nat
          \/ ReadByte(r, byte) = Lead(r, byte - 224, 2048, 2) /\ byte - 224 \in Nat
          \/ ReadByte(r, byte) = Lead(r, byte - 240, 65536, 3) /\ byte - 240 \in Nat
      BY <1>3, <2>3 DEF ReadByte, FirstByte
    <3>2. 128 \in Nat /\ 2048 \in Nat /\ 65536 \in Nat /\ 1 \in 0 .. 3 /\ 2 \in 0 .. 3 /\ 3 \in 0 .. 3
      OBVIOUS
    <3> QED
      BY <2>1, <3>1, <3>2
  <2>4. CASE byte >= 128 /\ byte \notin 192 .. 247
    <3>1. ReadByte(r, byte) = Pass(r, Blank)
      BY <1>1, <1>3, <2>4 DEF ReadByte, FirstByte
    <3> QED
      BY <1>2, <3>1, PassedOn
  <2> QED
    BY <1>1, <2>2, <2>3, <2>4
<1>4. CASE r.remaining # 0
  <2>1. PICK value \in Nat : value = r.value * 64 + (byte % 64)
    <3>1. \A v \in Nat, b \in 0 .. 255 : v * 64 + (b % 64) \in Nat
      OBVIOUS
    <3> QED
      BY <1>1, <3>1
  <2>2. CASE byte \notin 128 .. 191
    <3>1. Pass(r, Blank) \in Readers
      BY <1>2, PassedOn
    <3>2. ReadByte(r, byte) = IF byte < 128 THEN Pass(Pass(r, Blank), byte) ELSE Pass(r, Blank)
      BY <1>4, <2>2 DEF ReadByte, NextByte
    <3>3. byte < 128 => Pass(Pass(r, Blank), byte) \in Readers
      <4>1. PICK u \in Readers : u = Pass(r, Blank)
        BY <3>1
      <4>2. byte < 128 => Pass(u, byte) \in Readers
        BY <1>2, PassedOn
      <4> QED
        BY <4>1, <4>2
    <3> QED
      BY <3>1, <3>2, <3>3
  <2>3. CASE byte \in 128 .. 191 /\ r.remaining > 1
    <3>1. PICK n \in 0 .. 3 : n = r.remaining - 1
      BY <1>1, <2>3
    <3>2. ReadByte(r, byte) = [r EXCEPT !.value = value, !.remaining = n]
      BY <1>4, <2>1, <2>3, <3>1 DEF ReadByte, NextByte
    <3> QED
      BY <3>2 DEF Readers
  <2>4. CASE byte \in 128 .. 191 /\ ~ (r.remaining > 1)
    <3>1. Accepted(r, value) \in Points
      BY <1>1, <1>2, LastPoint DEF Accepted, Points
    <3>2. ReadByte(r, byte) = Pass(r, Accepted(r, value))
      BY <1>4, <2>1, <2>4 DEF ReadByte, NextByte
    <3> QED
      BY <3>1, <3>2, PassedOn
  <2> QED
    BY <2>2, <2>3, <2>4
<1> QED
  BY <1>3, <1>4

\* The end of the text.
LEMMA ReadEndTyped ==
  ASSUME NEW r \in Readers
  PROVE  ReadEnd(r) \in Readers
<1>1. Blank \in Points
  BY LastPoint DEF Blank, Points
<1> QED
  BY <1>1, PassedOn DEF ReadEnd

\* The recursion of FoldLeft over the bytes of q, from r.
ReadSets(r, q) ==
  CHOOSE g : g = [s \in SUBSET DOMAIN q |->
                    IF s = {} THEN r ELSE ReadByte(g[s \ { Max(s) }], q[Max(s)])]

LEMMA FoldIsReadSets ==
  ASSUME NEW r, NEW q
  PROVE  ReadBytes(r, q) = ReadSets(r, q)[DOMAIN q]
  BY DEF ReadBytes, FoldLeft, MapThenFoldSet, ReadSets

\* The reader after each of the bytes.
Reads(t, r, q) == t[0] = r /\ \A k \in 1 .. Len(q) : t[k] = ReadByte(t[k - 1], q[k])

LEMMA BytesAreReads ==
  ASSUME NEW r \in Readers, NEW q \in Seq(Bytes)
  PROVE  \E t \in [0 .. Len(q) -> Readers] : Reads(t, r, q) /\ ReadBytes(r, q) = t[Len(q)]
<1> DEFINE n == Len(q)
           c == ReadSets(r, q)
           F == [x \in Readers \X (1 .. n) |-> ReadByte(x[1], q[x[2]])]
           Good == { k \in 0 .. n : c[1 .. k] \in Readers }
<1>1. n \in Nat /\ DOMAIN q = 1 .. n /\ \A k \in 1 .. n : q[k] \in Bytes
  OBVIOUS
<1>2. F \in [Readers \X (1 .. n) -> Readers]
  <2>1. ASSUME NEW x \in Readers \X (1 .. n)
        PROVE  ReadByte(x[1], q[x[2]]) \in Readers
    BY <1>1, ByteIsRead
  <2> QED
    BY <2>1
<1>3. \A g \in Readers, k \in 1 .. n : F[<< g, k >>] = ReadByte(g, q[k])
  OBVIOUS
<1> HIDE DEF n, F
<1>4. PICK g \in [SUBSET (1 .. n) -> Readers] : Unrolls(g, F, r, n)
  BY <1>1, <1>2, FoldExists
<1>5. ASSUME NEW s \in SUBSET (1 .. n), s # {}
      PROVE  F[<< g[s \ { Max(s) }], Max(s) >>] = ReadByte(g[s \ { Max(s) }], q[Max(s)])
  <2>1. Max(s) \in 1 .. n
    BY <1>1, <1>5, GreatestNumber
  <2>2. g[s \ { Max(s) }] \in Readers
    OBVIOUS
  <2> QED
    BY <1>3, <2>1, <2>2
<1>6. g = [s \in SUBSET (1 .. n) |-> IF s = {} THEN r ELSE ReadByte(g[s \ { Max(s) }], q[Max(s)])]
  BY <1>4, <1>5 DEF Unrolls
<1>7. c = [s \in SUBSET (1 .. n) |-> IF s = {} THEN r ELSE ReadByte(c[s \ { Max(s) }], q[Max(s)])]
  BY <1>1, <1>6 DEF ReadSets
<1> HIDE DEF c
<1>8. 0 \in Good
  <2>1. 1 .. 0 = {} /\ c[{}] = r
    BY <1>7
  <2> QED
    BY <1>1, <2>1
<1>9. ASSUME NEW k \in 1 .. n, k - 1 \in Good
      PROVE  k \in Good
  <2>1. (1 .. k) \in SUBSET (1 .. n) /\ k \in Nat /\ k >= 1
    BY <1>1
  <2>2. Max(1 .. k) = k /\ (1 .. k) # {} /\ (1 .. k) \ {k} = 1 .. (k - 1)
    BY <2>1, LastOfPrefix
  <2>3. c[1 .. k] = ReadByte(c[(1 .. k) \ { Max(1 .. k) }], q[Max(1 .. k)])
    BY <1>7, <2>1, <2>2
  <2>4. c[1 .. k] = ReadByte(c[1 .. (k - 1)], q[k])
    BY <2>2, <2>3
  <2>5. c[1 .. (k - 1)] \in Readers
    BY <1>9
  <2>6. c[1 .. k] \in Readers
    BY <1>1, <2>4, <2>5, ByteIsRead
  <2> QED
    BY <1>1, <2>6
<1>10. Good = 0 .. n
  <2>1. Good \in SUBSET (0 .. n)
    OBVIOUS
  <2> HIDE DEF Good
  <2> QED
    BY <1>1, <1>8, <1>9, <2>1, Along
<1> DEFINE t == [k \in 0 .. n |-> c[1 .. k]]
<1>11. t \in [0 .. n -> Readers]
  BY <1>10
<1>12. t[0] = r
  <2>1. c[{}] = r
    BY <1>7
  <2>2. 1 .. 0 = {} /\ 0 \in 0 .. n
    BY <1>1
  <2> QED
    BY <2>1, <2>2
<1>13. ASSUME NEW k \in 1 .. n
       PROVE  t[k] = ReadByte(t[k - 1], q[k])
  <2>1. k \in 0 .. n /\ k - 1 \in 0 .. n /\ (1 .. k) \in SUBSET (1 .. n) /\ k \in Nat /\ k >= 1
    BY <1>1
  <2>2. Max(1 .. k) = k /\ (1 .. k) # {} /\ (1 .. k) \ {k} = 1 .. (k - 1)
    BY <2>1, LastOfPrefix
  <2>3. c[1 .. k] = ReadByte(c[(1 .. k) \ { Max(1 .. k) }], q[Max(1 .. k)])
    BY <1>7, <2>1, <2>2
  <2> QED
    BY <2>1, <2>2, <2>3
<1>14. ReadBytes(r, q) = t[n]
  BY <1>1, FoldIsReadSets DEF c
<1> HIDE DEF t
<1>15. Reads(t, r, q)
  BY <1>12, <1>13 DEF Reads, n
<1> QED
  BY <1>11, <1>14, <1>15 DEF n

\* All the bytes of a character, or of several.
LEMMA BytesAreRead ==
  ASSUME NEW r \in Readers, NEW q \in Seq(Bytes)
  PROVE  ReadBytes(r, q) \in Readers
<1>1. PICK t \in [0 .. Len(q) -> Readers] : ReadBytes(r, q) = t[Len(q)]
  BY BytesAreReads
<1>2. Len(q) \in 0 .. Len(q)
  <2>1. Len(q) \in Nat
    OBVIOUS
  <2> QED
    BY <2>1
<1> QED
  BY <1>1, <1>2

-----------------------------------------------------------------------------
(* Bytes, and the types. *)

\* A code point is written in bytes.
LEMMA CodepointBytes ==
  ASSUME NEW v \in Points
  PROVE  ScoreCodepoint(v) \in Seq(Bytes)
<1> USE DEF Bytes
<1>1. v \in Nat /\ v <= 1114111
  BY LastPoint DEF Points
<1>2. \A unit \in { 1, 64, 4096 } : Continuation(v, unit) \in Bytes
  <2>1. \A n \in Nat : 128 + (n % 64) \in 0 .. 255
    OBVIOUS
  <2>2. v \div 1 \in Nat /\ v \div 64 \in Nat /\ v \div 4096 \in Nat
    BY <1>1
  <2>3. \A unit \in { 1, 64, 4096 } : v \div unit \in Nat
    BY <2>2
  <2> QED
    BY <2>1, <2>3 DEF Continuation
<1>3. CASE v <= 127
  <2>1. ScoreCodepoint(v) = << v >> /\ v \in Bytes
    BY <1>1, <1>3 DEF ScoreCodepoint
  <2> QED
    BY <2>1
<1>4. CASE v > 127 /\ v <= 2047
  <2>1. /\ ScoreCodepoint(v) = << 192 + v \div 64, Continuation(v, 1) >>
        /\ 192 + v \div 64 \in Bytes
    BY <1>1, <1>4 DEF ScoreCodepoint
  <2> QED
    BY <1>2, <2>1
<1>5. CASE v > 2047 /\ v <= 65535
  <2>1. /\ ScoreCodepoint(v) = << 224 + v \div 4096, Continuation(v, 64), Continuation(v, 1) >>
        /\ 224 + v \div 4096 \in Bytes
    BY <1>1, <1>5 DEF ScoreCodepoint
  <2> QED
    BY <1>2, <2>1
<1>6. CASE v > 65535
  <2>1. v <= MaxPoint
    BY <1>1, LastPoint
  <2>2. ScoreCodepoint(v) = << 240 + v \div 262144, Continuation(v, 4096), Continuation(v, 64),
                               Continuation(v, 1) >>
    BY <1>1, <1>6, <2>1 DEF ScoreCodepoint
  <2>3. 240 + v \div 262144 \in Bytes
    BY <1>1, <1>6
  <2> QED
    BY <1>2, <2>2, <2>3
<1> QED
  BY <1>1, <1>3, <1>4, <1>5, <1>6

\* An escape is decoded to bytes: a pair of surrogates never passes the last
\* code point.
LEMMA DecodedBytes ==
  ASSUME Types, Byte \in Nat, Byte \in HexDigits
  PROVE  Decoded \in Seq(Bytes)
<1>1. Value \in Nat /\ Value <= 65535
  BY ValueRange
<1>2. BlankForKept \in Seq(Bytes) /\ BlankForKept \o << Blank >> \in Seq(Bytes)
  <2>1. << Blank >> \in Seq(Bytes) /\ << >> \in Seq(Bytes)
    BY DEF Blank, Bytes
  <2>2. BlankForKept \in Seq(Bytes)
    BY <2>1 DEF BlankForKept
  <2> QED
    BY <2>1, <2>2, ConcatProperties
<1>3. CASE High(Value)
  BY <1>2, <1>3 DEF Decoded
<1>4. CASE ~ High(Value) /\ Low(Value) /\ Kept
  <2>1. /\ unicode_high_surrogate \in 55296 .. 56319
        /\ Value \in 56320 .. 57343
    BY <1>1, <1>4 DEF Types, High, Low, Kept
  <2>2. PICK point \in Points : point = Combine(unicode_high_surrogate, Value)
    <3>1. PICK high \in Nat, low \in Nat :
            /\ high = unicode_high_surrogate /\ high >= 55296 /\ high <= 56319
            /\ low = Value /\ low >= 56320 /\ low <= 57343
      BY <2>1
    <3>2. Combine(high, low) \in Nat /\ Combine(high, low) <= 1114111
      BY <3>1 DEF Combine
    <3>3. Combine(high, low) \in Points
      BY <3>2, LastPoint DEF Points
    <3> QED
      BY <3>1, <3>3
  <2>3. Decoded = ScoreCodepoint(point)
    BY <1>4, <2>2 DEF Decoded
  <2> QED
    BY <2>3, CodepointBytes
<1>5. CASE ~ High(Value) /\ Low(Value) /\ ~ Kept
  BY <1>2, <1>5 DEF Decoded
<1>6. CASE ~ High(Value) /\ ~ Low(Value)
  <2>1. PICK bytes \in Seq(Bytes) : bytes = ScoreCodepoint(Value)
    <3>1. Value \in Points
      BY <1>1, LastPoint DEF Points
    <3> QED
      BY <3>1, CodepointBytes
  <2>2. PICK blanks \in Seq(Bytes) : blanks = BlankForKept
    BY <1>2
  <2>3. Decoded = blanks \o bytes
    BY <1>6, <2>1, <2>2 DEF Decoded
  <2>4. blanks \o bytes \in Seq(Bytes)
    BY ConcatProperties
  <2> QED
    BY <2>3, <2>4
<1> QED
  BY <1>3, <1>4, <1>5, <1>6

\* The types that Inv does not have.
Written ==
  /\ body \in Bodies /\ pos <= Len(body.json)
  /\ scored \in Seq(Bytes) /\ reader \in Readers

Flags == waiting_for_quote \in BOOLEAN /\ in_content \in BOOLEAN
         /\ escaped \in BOOLEAN /\ ended \in BOOLEAN

DigitsRead == unicode_value \in 0 .. Sixteens[5 - unicode_remaining] - 1

TypeInv == Inv /\ Written /\ Flags /\ DigitsRead

\* What a step takes is a byte.
LEMMA TakenIsByte ==
  ASSUME Types, Written, Take
  PROVE  Byte \in Bytes /\ body' = body /\ pos' <= Len(body'.json)
<1>1. /\ body.json \in Seq(Bytes) /\ Len(body.json) \in Nat
      /\ pos < Len(body.json) /\ pos' = pos + 1 /\ body' = body /\ pos \in Nat
  BY ContentAssumption DEF Types, Written, Take
<1>2. pos + 1 \in 1 .. Len(body.json)
  BY <1>1
<1> QED
  BY <1>1, <1>2 DEF Byte

\* Bytes that are scored are read.
LEMMA ScoreIsWritten ==
  ASSUME Written, NEW bytes \in Seq(Bytes), Score(bytes), UNCHANGED body, pos' <= Len(body'.json)
  PROVE  Written'
<1>1. scored' = scored \o bytes /\ reader' = ReadBytes(reader, bytes)
  BY DEF Score
<1>2. scored \o bytes \in Seq(Bytes)
  BY ConcatProperties DEF Written
<1>3. ReadBytes(reader, bytes) \in Readers
  BY BytesAreRead DEF Written
<1> QED
  BY <1>1, <1>2, <1>3 DEF Written

\* Each byte keeps what is written.
LEMMA WrittenStep ==
  ASSUME TypeInv, ScanByte
  PROVE  Written'
<1>1. Types /\ Written
  BY DEF TypeInv, Inv
<1>2. Take
  BY DEF ScanByte, KeyByte, WaitingByte, PlainByte, BeginEscape, EndOfContent, EscapedByte,
         BadHex, HexDigit, LastHexDigit
<1>3. Byte \in Bytes /\ body' = body /\ pos' <= Len(body'.json) /\ Byte \in Nat
  <2>1. Byte \in Bytes /\ body' = body /\ pos' <= Len(body'.json)
    BY <1>1, <1>2, TakenIsByte
  <2> QED
    BY <2>1 DEF Bytes
<1>4. CASE KeyByte \/ WaitingByte \/ BeginEscape \/ HexDigit
  BY <1>1, <1>3, <1>4 DEF KeyByte, WaitingByte, BeginEscape, HexDigit, outVars, Written
<1>5. CASE PlainByte
  <2>1. << Byte >> \in Seq(Bytes) /\ Score(<< Byte >>)
    BY <1>3, <1>5 DEF PlainByte
  <2> QED
    BY <1>1, <1>3, <2>1, ScoreIsWritten
<1>6. CASE EndOfContent
  BY <1>1, <1>3, <1>6, ReadEndTyped DEF EndOfContent, Written
<1>7. CASE EscapedByte
  <2>1. CASE Byte = 117
    BY <1>1, <1>3, <1>7, <2>1 DEF EscapedByte, outVars, Written
  <2>2. CASE Byte # 117
    <3>1. Unescape \in Bytes
      BY <1>3 DEF Unescape, Bytes, Blank, Quote, Backslash
    <3>2. << Unescape >> \in Seq(Bytes) /\ Score(<< Unescape >>)
      BY <1>7, <2>2, <3>1 DEF EscapedByte
    <3> QED
      BY <1>1, <1>3, <3>2, ScoreIsWritten
  <2> QED
    BY <2>1, <2>2
<1>8. CASE BadHex
  <2>1. << Blank >> \in Seq(Bytes) /\ Score(<< Blank >>)
    BY <1>8 DEF BadHex, Blank, Bytes
  <2> QED
    BY <1>1, <1>3, <2>1, ScoreIsWritten
<1>9. CASE LastHexDigit
  <2>1. Decoded \in Seq(Bytes) /\ Score(Decoded)
    BY <1>1, <1>3, <1>9, DecodedBytes DEF LastHexDigit
  <2> QED
    BY <1>1, <1>3, <2>1, ScoreIsWritten
<1> QED
  BY <1>4, <1>5, <1>6, <1>7, <1>8, <1>9 DEF ScanByte

\* Each byte keeps the flags.
LEMMA FlagsStep ==
  ASSUME TypeInv, ScanByte
  PROVE  Flags'
<1>1. Flags
  BY DEF TypeInv
<1>2. CASE KeyByte
  <2>1. (content_key_pos' = 0) \in BOOLEAN
    OBVIOUS
  <2>2. waiting_for_quote' \in BOOLEAN
    BY <1>1, <1>2, <2>1 DEF KeyByte, Flags
  <2> QED
    BY <1>1, <1>2, <2>2 DEF KeyByte, Flags, escapeVars
<1>3. CASE WaitingByte
  <2>1. (Byte = Quote) \in BOOLEAN /\ (Byte \in { 32, 9 }) \in BOOLEAN
    OBVIOUS
  <2>2. in_content' = (Byte = Quote) /\ waiting_for_quote' = (Byte \in { 32, 9 })
        /\ escaped' = escaped /\ ended' = ended
    BY <1>3 DEF WaitingByte, escapeVars
  <2>3. in_content' \in BOOLEAN /\ waiting_for_quote' \in BOOLEAN
    BY <2>1, <2>2
  <2> QED
    BY <1>1, <2>2, <2>3 DEF Flags
<1>4. CASE PlainByte \/ BeginEscape \/ EndOfContent
  BY <1>1, <1>4 DEF PlainByte, BeginEscape, EndOfContent, Flags, keyVars, escapeVars
<1>5. CASE EscapedByte \/ BadHex \/ HexDigit \/ LastHexDigit
  BY <1>1, <1>5 DEF EscapedByte, BadHex, HexDigit, LastHexDigit, Flags, keyVars
<1> QED
  BY <1>2, <1>3, <1>4, <1>5 DEF ScanByte

\* A value of n digits is less than 16^n.
LEMMA DigitsStep ==
  ASSUME TypeInv, ScanByte
  PROVE  DigitsRead'
<1>1. Types /\ DigitsRead
  BY DEF TypeInv, Inv
<1>2. unicode_remaining \in 0 .. 4 /\ unicode_value \in Nat
  BY <1>1 DEF Types
<1>3. /\ Sixteens[1] = 1 /\ Sixteens[2] = 16 /\ Sixteens[3] = 256
      /\ Sixteens[4] = 4096 /\ Sixteens[5] = 65536
  BY DEF Sixteens
<1>4. CASE UNCHANGED << unicode_remaining, unicode_value >>
  BY <1>1, <1>4 DEF DigitsRead
<1>5. CASE unicode_remaining' \in { 0, 4 } /\ unicode_value' = 0
  BY <1>3, <1>5 DEF DigitsRead
<1>6. CASE HexDigit
  <2>1. /\ unicode_remaining \in 2 .. 4 /\ unicode_remaining' = unicode_remaining - 1
        /\ unicode_value' = Value /\ Byte \in HexDigits
    BY <1>2, <1>6 DEF HexDigit
  <2>2. PICK d \in 0 .. 15 : d = ContentHexValue(Byte)
    BY <2>1 DEF ContentHexValue, HexDigits
  <2>3. Value = (unicode_value * 16 + d) % 65536
    BY <2>2 DEF Value
  <2>4. \A n \in Nat : n <= 65535 => n % 65536 = n
    OBVIOUS
  <2>5. CASE unicode_remaining = 4
    BY <1>1, <1>2, <1>3, <2>1, <2>3, <2>4, <2>5 DEF DigitsRead
  <2>6. CASE unicode_remaining = 3
    BY <1>1, <1>2, <1>3, <2>1, <2>3, <2>4, <2>6 DEF DigitsRead
  <2>7. CASE unicode_remaining = 2
    BY <1>1, <1>2, <1>3, <2>1, <2>3, <2>4, <2>7 DEF DigitsRead
  <2> QED
    BY <2>1, <2>5, <2>6, <2>7
<1>7. CASE KeyByte \/ WaitingByte \/ PlainByte \/ BeginEscape \/ EndOfContent
  BY <1>4, <1>7 DEF KeyByte, WaitingByte, PlainByte, BeginEscape, EndOfContent, escapeVars
<1>8. CASE EscapedByte
  BY <1>4, <1>5, <1>8 DEF EscapedByte
<1>9. CASE BadHex \/ LastHexDigit
  BY <1>5, <1>9 DEF BadHex, LastHexDigit
<1> QED
  BY <1>6, <1>7, <1>8, <1>9 DEF ScanByte

\* The invariant of the types.
LEMMA TypesInitial == Init => TypeInv
<1> SUFFICES ASSUME Init PROVE TypeInv
  OBVIOUS
<1>1. Inv
  BY Initial
<1>2. reader \in Readers
  BY DEF Init, NewReader, Readers, Points
<1>3. Written
  <2>1. body.json \in Seq(Bytes)
    BY ContentAssumption DEF Init
  <2>2. Len(body.json) \in Nat
    BY <2>1
  <2> QED
    BY <1>2, <2>2 DEF Init, Written
<1>4. Flags
  BY DEF Init, Flags
<1>5. DigitsRead
  BY DEF Init, DigitsRead, Sixteens
<1> QED
  BY <1>1, <1>3, <1>4, <1>5 DEF TypeInv

LEMMA TypesPreserved == TypeInv /\ [Next]_vars => TypeInv'
<1> SUFFICES ASSUME TypeInv, [Next]_vars PROVE TypeInv'
  OBVIOUS
<1>1. Inv'
  BY Preserved DEF TypeInv
<1>2. CASE ScanByte
  BY <1>1, <1>2, WrittenStep, FlagsStep, DigitsStep DEF TypeInv
<1>3. CASE EndOfBody
  <2>1. Written'
    BY <1>3, ReadEndTyped DEF EndOfBody, TypeInv, Written
  <2>2. Flags' /\ DigitsRead'
    BY <1>3 DEF EndOfBody, TypeInv, Flags, DigitsRead, keyVars, escapeVars
  <2> QED
    BY <1>1, <2>1, <2>2 DEF TypeInv
<1>4. CASE UNCHANGED vars
  BY <1>1, <1>4 DEF TypeInv, Written, Flags, DigitsRead, vars, keyVars, escapeVars, outVars
<1> QED
  BY <1>2, <1>3, <1>4 DEF Next, Ended

\* Whatever the body is, what goes to the signals are bytes, what the n-gram
\* signal reads from them are code points, a surrogate that is kept is a high
\* one, and the value of an escape has the digits that were read.
THEOREM ContentTypes == Spec => []TypeOK
<1>1. TypeInv => TypeOK
  BY DEF TypeInv, Inv, Types, Written, Flags, DigitsRead, TypeOK, Readers, Points
<1> QED
  BY <1>1, TypesInitial, TypesPreserved, PTL DEF Spec

-----------------------------------------------------------------------------
(* The prompt. *)

Meant == body.form # "other"
HasContent == body.at # << >>
Count == Len(body.prompt)

\* The bytes of a character, and where the content begins.
Piece(i) == SubSeq(body.json, body.at[i] + 1, body.at[i + 1])
Start == body.at[1]

\* The key as far as it was found, and the blanks after it.
KeySeen ==
  IF waiting_for_quote
    THEN /\ content_key_pos = 0
         /\ \E i \in DOMAIN body.json :
              /\ i + Len(KeyChars) <= pos + 1
              /\ \A k \in 1 .. Len(KeyChars) : body.json[i + k - 1] = KeyChars[k]
              /\ \A k \in i + Len(KeyChars) .. pos : body.json[k] \in { 32, 9 }
    ELSE \A k \in 1 .. content_key_pos : body.json[pos - content_key_pos + k] = KeyChars[k]

\* The key that the content has is not missed.
KeyFollowed ==
  \A i \in DOMAIN body.json :
    Opens(body.json, i, Start) /\ BeginsMember(body.json, i) /\ i <= pos =>
      IF pos - i < Len(KeyChars) - 1
        THEN ~waiting_for_quote /\ content_key_pos = pos - i + 1
        ELSE waiting_for_quote

BeforeKey ==
  /\ reader = NewReader /\ KeySeen
  /\ Meant /\ HasContent => pos < Start /\ KeyFollowed

\* The points are the first k characters, and those went to the signals.
Tells(points, k) ==
  /\ body.form = "exact" => points = SubSeq(body.prompt, 1, k)
  /\ body.form = "json" =>
       Without(points, { Blank })
         = Without(SubSeq(body.prompt, 1, k), { Blank } \cup Surrogates)
Told(k) == Tells(reader.points, k)

AtRest == ~escaped /\ unicode_remaining = 0
KeptWasAlone(k) == Kept => \E j \in 1 .. k : High(body.prompt[j])

\* The escape of v after k of its bytes.
InEscape(v, k) ==
  /\ reader.remaining = 0
  /\ IF k = 1 THEN escaped /\ unicode_remaining = 0
     ELSE ~escaped /\ unicode_remaining = 6 - k /\ unicode_value = v \div Sixteens[7 - k]

\* The reader has all but m bytes of c, which has n.
Units == << 64, 4096, 262144 >>
Least == << 0, 128, 2048, 65536 >>
Reading(r, c, m, n) ==
  r.remaining = m /\ r.value = c \div Units[m] /\ r.min = Least[n]

HighHalf(c) == 55296 + (c - 65536) \div 1024
LowHalf(c) == 56320 + ((c - 65536) % 1024)

IsRaw(s, c) == ~High(c) /\ ~Low(c) /\ c \notin { Quote, Backslash } /\ s = ScoreCodepoint(c)
IsShort(s, c) == \E e \in ShortEscapes : s = << Backslash, e[1] >> /\ c = e[2]
IsPair(s, c) ==
  /\ Len(s) = 12 /\ c >= 65536
  /\ IsEscape(SubSeq(s, 1, 6), HighHalf(c)) /\ IsEscape(SubSeq(s, 7, 12), LowHalf(c))

\* k of the bytes of character i were read, and not all.
InCharacter(i, k) ==
  LET s == Piece(i)
      c == body.prompt[i]
  IN  \/ IsRaw(s, c) /\ AtRest /\ Reading(reader, c, Len(s) - k, Len(s)) /\ KeptWasAlone(i - 1)
      \/ IsShort(s, c) /\ InEscape(c, 1) /\ KeptWasAlone(i - 1)
      \/ IsEscape(s, c) /\ InEscape(c, k) /\ KeptWasAlone(i - 1)
      \/ IsPair(s, c) /\ k < 6 /\ InEscape(HighHalf(c), k) /\ KeptWasAlone(i - 1)
      \/ IsPair(s, c) /\ k = 6 /\ AtRest /\ reader.remaining = 0 /\ unicode_high_surrogate = HighHalf(c)
      \/ IsPair(s, c) /\ k > 6 /\ InEscape(LowHalf(c), k - 6) /\ unicode_high_surrogate = HighHalf(c)

Within(i) ==
  /\ body.at[i] <= pos /\ Told(i - 1)
  /\ i = Count + 1 => pos = body.at[i]
  /\ i # Count + 1 => pos < body.at[i + 1]
  /\ pos = body.at[i] => AtRest /\ reader.remaining = 0 /\ KeptWasAlone(i - 1)
  /\ pos # body.at[i] => InCharacter(i, pos - body.at[i])

PromptInv ==
  /\ ~ended /\ ~in_content => BeforeKey
  /\ ~ended /\ in_content /\ Meant => HasContent /\ \E i \in 1 .. Count + 1 : Within(i)
  /\ ended /\ Meant => Told(Count)

-----------------------------------------------------------------------------
(* Texts without some of their characters. *)

\* How many characters were looked at, with what is left of them.
LeftOf(text, S) ==
  CHOOSE left : left = [i \in 0 .. Len(text) |->
                          IF i = 0 THEN << >>
                          ELSE IF text[i] \in S THEN left[i - 1]
                          ELSE Append(left[i - 1], text[i])]

LEMMA WithoutIsLeftOf ==
  ASSUME NEW text, NEW S
  PROVE  Without(text, S) = LeftOf(text, S)[Len(text)]
BY DEF Without, LeftOf

\* The recursion of Without has its solution.
LEMMA LeftUnfolds ==
  ASSUME NEW T, NEW text \in Seq(T), NEW S
  PROVE  /\ LeftOf(text, S)[0] = << >>
         /\ \A i \in 1 .. Len(text) :
              LeftOf(text, S)[i] = IF text[i] \in S THEN LeftOf(text, S)[i - 1]
                                   ELSE Append(LeftOf(text, S)[i - 1], text[i])
<1> DEFINE n == Len(text)
           F == [x \in Seq(T) \X (1 .. n) |->
                   IF text[x[2]] \in S THEN x[1] ELSE Append(x[1], text[x[2]])]
           L == LeftOf(text, S)
           V == Seq(T)
<1>1. n \in Nat /\ \A i \in 1 .. n : text[i] \in T
  OBVIOUS
<1>2. F \in [Seq(T) \X (1 .. n) -> Seq(T)]
  <2>1. ASSUME NEW x \in Seq(T) \X (1 .. n)
        PROVE  (IF text[x[2]] \in S THEN x[1] ELSE Append(x[1], text[x[2]])) \in Seq(T)
    <3>1. x[1] \in Seq(T) /\ text[x[2]] \in T
      BY <1>1
    <3> QED
      BY <3>1
  <2> QED
    BY <2>1
<1>3. \A s \in Seq(T), i \in 1 .. n :
        F[<< s, i >>] = IF text[i] \in S THEN s ELSE Append(s, text[i])
  OBVIOUS
<1>4. << >> \in V /\ F \in [V \X (1 .. n) -> V]
  BY <1>2
<1> HIDE DEF n, F, V
<1>5. PICK a \in [0 .. n -> V] : Ascends(a, F, << >>, n)
  BY <1>1, <1>4, AscentExists
<1>6. \A i \in 1 .. n : a[i - 1] \in Seq(T)
  <2>1. \A i \in 1 .. n : i - 1 \in 0 .. n
    BY <1>1
  <2> QED
    BY <2>1 DEF V
<1>7. a = [i \in 0 .. n |-> IF i = 0 THEN << >>
                            ELSE IF text[i] \in S THEN a[i - 1] ELSE Append(a[i - 1], text[i])]
  <2>1. ASSUME NEW i \in 0 .. n
        PROVE  a[i] = IF i = 0 THEN << >>
                      ELSE IF text[i] \in S THEN a[i - 1] ELSE Append(a[i - 1], text[i])
    <3>1. i = 0 \/ i \in 1 .. n
      BY <1>1
    <3> QED
      BY <1>3, <1>5, <1>6, <3>1 DEF Ascends
  <2> QED
    BY <2>1
<1>8. L = [i \in 0 .. n |-> IF i = 0 THEN << >>
                            ELSE IF text[i] \in S THEN L[i - 1] ELSE Append(L[i - 1], text[i])]
  BY <1>7 DEF LeftOf, n
<1> HIDE DEF L
<1>9. 0 \in 0 .. n /\ \A i \in 1 .. n : i \in 0 .. n /\ i # 0
  BY <1>1
<1>10. L[0] = << >> /\ \A i \in 1 .. n :
         L[i] = IF text[i] \in S THEN L[i - 1] ELSE Append(L[i - 1], text[i])
  BY <1>8, <1>9
<1> QED
  BY <1>10 DEF L, n

\* Of no characters none are left.
LEMMA WithoutNone ==
  ASSUME NEW S
  PROVE  Without(<< >>, S) = << >>
<1>1. << >> \in Seq({}) /\ Len(<< >>) = 0
  OBVIOUS
<1> QED
  BY <1>1, WithoutIsLeftOf, LeftUnfolds

\* One more character is left, or it is not.
LEMMA WithoutOneMore ==
  ASSUME NEW T, NEW text \in Seq(T), NEW c \in T, NEW S
  PROVE  Without(Append(text, c), S) =
           IF c \in S THEN Without(text, S) ELSE Append(Without(text, S), c)
<1> DEFINE n == Len(text)
           more == Append(text, c)
           L == LeftOf(text, S)
           M == LeftOf(more, S)
           Good == { i \in 0 .. n : M[i] = L[i] }
<1>1. /\ n \in Nat /\ more \in Seq(T) /\ Len(more) = n + 1 /\ more[n + 1] = c
      /\ \A i \in 1 .. n : more[i] = text[i]
  OBVIOUS
<1>2. /\ L[0] = << >>
      /\ \A i \in 1 .. n : L[i] = IF text[i] \in S THEN L[i - 1] ELSE Append(L[i - 1], text[i])
  BY LeftUnfolds
<1> HIDE DEF more
<1>3. /\ M[0] = << >>
      /\ \A i \in 1 .. n + 1 : M[i] = IF more[i] \in S THEN M[i - 1] ELSE Append(M[i - 1], more[i])
  BY <1>1, LeftUnfolds
<1> HIDE DEF n, L, M
<1>4. Good = 0 .. n
  <2>1. 0 \in Good
    BY <1>1, <1>2, <1>3
  <2>2. ASSUME NEW i \in 1 .. n, i - 1 \in Good
        PROVE  i \in Good
    <3>1. i \in 1 .. n + 1 /\ i \in 0 .. n
      BY <1>1
    <3> QED
      BY <1>1, <1>2, <1>3, <2>2, <3>1
  <2>3. Good \in SUBSET (0 .. n)
    OBVIOUS
  <2> HIDE DEF Good
  <2> QED
    BY <1>1, <2>1, <2>2, <2>3, Along
<1>5. M[n + 1] = IF c \in S THEN L[n] ELSE Append(L[n], c)
  <2>1. n + 1 \in 1 .. n + 1 /\ (n + 1) - 1 = n /\ n \in Good
    BY <1>1, <1>4
  <2> QED
    BY <1>1, <1>3, <2>1
<1> QED
  BY <1>1, <1>5, WithoutIsLeftOf DEF n, L, M, more

-----------------------------------------------------------------------------
(* What the n-gram signal reads of a character. *)

\* One byte, or none.
LEMMA ReadOne ==
  ASSUME NEW r \in Readers, NEW b \in Bytes
  PROVE  ReadBytes(r, << b >>) = ReadByte(r, b)
<1>1. << b >> \in Seq(Bytes) /\ Len(<< b >>) = 1 /\ << b >>[1] = b
  OBVIOUS
<1> DEFINE q == << b >>
<1> HIDE DEF q
<1>2. PICK t \in [0 .. Len(q) -> Readers] : Reads(t, r, q) /\ ReadBytes(r, q) = t[Len(q)]
  BY <1>1, BytesAreReads DEF q
<1>3. t[0] = r /\ t[1] = ReadByte(t[0], b)
  BY <1>1, <1>2 DEF Reads, q
<1> QED
  BY <1>1, <1>2, <1>3 DEF q

LEMMA ReadNone ==
  ASSUME NEW r \in Readers
  PROVE  ReadBytes(r, << >>) = r
<1>1. << >> \in Seq(Bytes) /\ Len(<< >>) = 0
  OBVIOUS
<1>2. PICK t \in [0 .. Len(<< >>) -> Readers] : Reads(t, r, << >>) /\ ReadBytes(r, << >>) = t[Len(<< >>)]
  BY <1>1, BytesAreReads
<1> QED
  BY <1>1, <1>2 DEF Reads

\* A byte, and then others.
LEMMA ReadOneMore ==
  ASSUME NEW r \in Readers, NEW b \in Bytes, NEW s \in Seq(Bytes)
  PROVE  ReadBytes(r, << b >> \o s) = ReadBytes(ReadByte(r, b), s)
<1> DEFINE q == << b >> \o s
           n == Len(s)
           u == ReadByte(r, b)
<1>1. /\ n \in Nat /\ q \in Seq(Bytes) /\ Len(q) = n + 1 /\ q[1] = b
      /\ \A k \in 1 .. n : q[k + 1] = s[k]
  <2>1. << b >> \in Seq(Bytes) /\ Len(<< b >>) = 1 /\ << b >>[1] = b /\ n \in Nat
    OBVIOUS
  <2>2. /\ q \in Seq(Bytes) /\ Len(q) = 1 + n
        /\ \A k \in 1 .. 1 + n : q[k] = IF k <= 1 THEN << b >>[k] ELSE s[k - 1]
    BY <2>1, ConcatProperties
  <2> HIDE DEF q
  <2>3. ASSUME NEW k \in 1 .. n
        PROVE  q[k + 1] = s[k]
    BY <2>1, <2>2
  <2> QED
    BY <2>1, <2>2, <2>3
<1>2. u \in Readers
  BY ByteIsRead
<1> HIDE DEF q, u
<1>3. PICK t \in [0 .. Len(q) -> Readers] : Reads(t, r, q) /\ ReadBytes(r, q) = t[Len(q)]
  BY <1>1, BytesAreReads
<1>4. PICK v \in [0 .. Len(s) -> Readers] : Reads(v, u, s) /\ ReadBytes(u, s) = v[Len(s)]
  BY <1>2, BytesAreReads
<1> DEFINE Good == { k \in 0 .. n : t[k + 1] = v[k] }
<1>5. Good = 0 .. n
  <2>1. 0 \in Good
    <3>1. 1 \in 1 .. Len(q) /\ 1 - 1 = 0 /\ 0 \in 0 .. n /\ 0 + 1 = 1
      BY <1>1
    <3>2. t[1] = ReadByte(t[0], b)
      BY <1>1, <1>3, <3>1 DEF Reads
    <3> QED
      BY <1>3, <1>4, <3>1, <3>2 DEF Reads, u
  <2>2. ASSUME NEW k \in 1 .. n, k - 1 \in Good
        PROVE  k \in Good
    <3>1. k + 1 \in 1 .. Len(q) /\ (k + 1) - 1 = k /\ (k - 1) + 1 = k /\ k \in 0 .. n
      BY <1>1
    <3>2. t[k + 1] = ReadByte(t[k], s[k])
      BY <1>1, <1>3, <3>1 DEF Reads
    <3>3. v[k] = ReadByte(v[k - 1], s[k])
      BY <1>4 DEF Reads, n
    <3>4. t[k] = v[k - 1]
      BY <2>2, <3>1
    <3> QED
      BY <3>1, <3>2, <3>3, <3>4
  <2>3. Good \in SUBSET (0 .. n)
    OBVIOUS
  <2> HIDE DEF Good
  <2> QED
    BY <1>1, <2>1, <2>2, <2>3, Along
<1>6. n \in Good /\ Len(q) = n + 1
  BY <1>1, <1>5
<1> QED
  BY <1>3, <1>4, <1>6 DEF q, u, n

\* A code point is its upper bits and six more.
LEMMA SixBits ==
  ASSUME NEW c \in Nat
  PROVE  /\ (c \div 64) * 64 + (Continuation(c, 1) % 64) = c
         /\ (c \div 4096) * 64 + (Continuation(c, 64) % 64) = c \div 64
         /\ (c \div 262144) * 64 + (Continuation(c, 4096) % 64) = c \div 4096
         /\ \A unit \in { 1, 64, 4096 } : Continuation(c, unit) \in 128 .. 191
<1>1. c \div 1 = c /\ c \div 64 \in Nat /\ c \div 4096 \in Nat
  OBVIOUS
<1>2. \A d \in Nat : (128 + (d % 64)) % 64 = d % 64 /\ 128 + (d % 64) \in 128 .. 191
  OBVIOUS
<1>3. (c \div 64) * 64 + (c % 64) = c
  OBVIOUS
<1>4. (c \div 4096) * 64 + ((c \div 64) % 64) = c \div 64
  OBVIOUS
<1>5. (c \div 262144) * 64 + ((c \div 4096) % 64) = c \div 4096
  OBVIOUS
<1> QED
  BY <1>1, <1>2, <1>3, <1>4, <1>5 DEF Continuation

\* What is no surrogate.
Scalars == { c \in Points : ~High(c) /\ ~Low(c) }

\* The lead byte of a character that has n, and the one after k others.
LeadForm(b, n, c) ==
  \/ n = 1 /\ c < 128 /\ b = c
  \/ n = 2 /\ c >= 128 /\ c < 2048 /\ b = 192 + c \div 64
  \/ n = 3 /\ c >= 2048 /\ c < 65536 /\ b = 224 + c \div 4096
  \/ n = 4 /\ c >= 65536 /\ b = 240 + c \div 262144

Places == << 1, 64, 4096 >>
TailForm(b, k, n, c) ==
  n \in 2 .. 4 /\ c >= Least[n] /\ k \in 1 .. n - 1 /\ b = Continuation(c, Places[n - k])

LEMMA CodepointForms ==
  ASSUME NEW c \in Points
  PROVE  /\ LeadForm(ScoreCodepoint(c)[1], Len(ScoreCodepoint(c)), c)
         /\ \A k \in 1 .. Len(ScoreCodepoint(c)) - 1 :
              TailForm(ScoreCodepoint(c)[k + 1], k, Len(ScoreCodepoint(c)), c)
<1> USE DEF LeadForm, TailForm, Least, Places
<1>1. c \in Nat /\ c <= MaxPoint
  BY LastPoint DEF Points
<1>2. CASE c <= 127
  BY SMT, <1>1, <1>2 DEF ScoreCodepoint
<1>3. CASE c > 127 /\ c <= 2047
  BY SMT, <1>1, <1>3 DEF ScoreCodepoint
<1>4. CASE c > 2047 /\ c <= 65535
  BY SMT, <1>1, <1>4 DEF ScoreCodepoint
<1>5. CASE c > 65535
  BY SMT, <1>1, <1>5 DEF ScoreCodepoint
<1> QED
  BY SMT, <1>1, <1>2, <1>3, <1>4, <1>5

\* The reader after k bytes of c, which has n.
AfterByte(u, r, c, k, n) ==
  IF k = n THEN u.remaining = 0 /\ u.points = Append(r.points, c)
  ELSE Reading(u, c, n - k, n) /\ u.points = r.points

LEMMA PassedPoints ==
  ASSUME NEW r \in Readers, NEW c
  PROVE  Pass(r, c).remaining = 0 /\ Pass(r, c).points = Append(r.points, c)
BY DEF Pass, Readers

LEMMA FirstByteForms ==
  ASSUME NEW r, NEW b
  PROVE  \/ b < 128 /\ FirstByte(r, b) = Pass(r, b)
         \/ b \in 192 .. 223 /\ FirstByte(r, b) = Lead(r, b - 192, 128, 1)
         \/ b \in 224 .. 239 /\ FirstByte(r, b) = Lead(r, b - 224, 2048, 2)
         \/ b \in 240 .. 247 /\ FirstByte(r, b) = Lead(r, b - 240, 65536, 3)
         \/ /\ ~(b < 128) /\ b \notin 192 .. 223 /\ b \notin 224 .. 239 /\ b \notin 240 .. 247
            /\ FirstByte(r, b) = Pass(r, Blank)
BY DEF FirstByte

\* The lead byte of a character, or all of it.
LEMMA LeadIsRead ==
  ASSUME NEW r \in Readers, r.remaining = 0, NEW c \in Scalars, NEW b, NEW n, LeadForm(b, n, c)
  PROVE  AfterByte(ReadByte(r, b), r, c, 1, n)
<1> DEFINE u == ReadByte(r, b)
<1>1. c \in Nat /\ c <= 1114111
  BY LastPoint DEF Scalars, Points
<1>2. \A bits, min, m : /\ Lead(r, bits, min, m).remaining = m /\ Lead(r, bits, min, m).value = bits
                        /\ Lead(r, bits, min, m).min = min /\ Lead(r, bits, min, m).points = r.points
  BY SMT DEF Lead, Readers
<1>3. u = FirstByte(r, b)
  BY DEF ReadByte
<1> HIDE DEF u
<1>4. /\ Units[1] = 64 /\ Units[2] = 4096 /\ Units[3] = 262144
      /\ Least[2] = 128 /\ Least[3] = 2048 /\ Least[4] = 65536
  BY SMT DEF Units, Least
<1>5. CASE n = 1 /\ c < 128 /\ b = c
  <2>1. u = Pass(r, c)
    BY SMT, <1>1, <1>3, <1>5, FirstByteForms
  <2> QED
    BY SMT, <1>5, <2>1, PassedPoints DEF AfterByte, u
<1>6. CASE n = 2 /\ c >= 128 /\ c < 2048 /\ b = 192 + c \div 64
  <2>1. PICK d \in 0 .. 31 : d = c \div 64
    BY SMT, <1>1, <1>6
  <2>2. u = Lead(r, d, 128, 1)
    BY SMT, <1>3, <1>6, <2>1, FirstByteForms
  <2> QED
    BY SMT, <1>2, <1>4, <1>6, <2>1, <2>2 DEF Reading, AfterByte, u
<1>7. CASE n = 3 /\ c >= 2048 /\ c < 65536 /\ b = 224 + c \div 4096
  <2>1. PICK d \in 0 .. 15 : d = c \div 4096
    BY SMT, <1>1, <1>7
  <2>2. u = Lead(r, d, 2048, 2)
    BY SMT, <1>3, <1>7, <2>1, FirstByteForms
  <2> QED
    BY SMT, <1>2, <1>4, <1>7, <2>1, <2>2 DEF Reading, AfterByte, u
<1>8. CASE n = 4 /\ c >= 65536 /\ b = 240 + c \div 262144
  <2>1. PICK d \in 0 .. 7 : d = c \div 262144
    BY SMT, <1>1, <1>8
  <2>2. u = Lead(r, d, 65536, 3)
    BY SMT, <1>3, <1>8, <2>1, FirstByteForms
  <2> QED
    BY SMT, <1>2, <1>4, <1>8, <2>1, <2>2 DEF Reading, AfterByte, u
<1> QED
  BY SMT, <1>5, <1>6, <1>7, <1>8 DEF LeadForm

\* Another byte of the character.
LEMMA NextIsRead ==
  ASSUME NEW r \in Readers, NEW c \in Scalars, NEW b, NEW k, NEW n \in 2 .. 4,
         TailForm(b, k, n, c), Reading(r, c, n - k, n)
  PROVE  AfterByte(ReadByte(r, b), r, c, k + 1, n)
<1> DEFINE u == ReadByte(r, b)
           value == r.value * 64 + (b % 64)
<1>1. c \in Nat /\ c <= MaxPoint /\ ~High(c) /\ ~Low(c)
  BY SMT, LastPoint DEF Scalars, Points
<1>2. /\ Units[1] = 64 /\ Units[2] = 4096 /\ Units[3] = 262144
      /\ Least[2] = 128 /\ Least[3] = 2048 /\ Least[4] = 65536
      /\ Places[1] = 1 /\ Places[2] = 64 /\ Places[3] = 4096
  BY SMT DEF Units, Least, Places
<1>3. PICK m \in 1 .. 3 : m = n - k
  BY SMT DEF TailForm
<1>4. c >= Least[n] /\ b = Continuation(c, Places[m]) /\ k = n - m
  BY SMT, <1>3 DEF TailForm
<1>5. r.remaining = m /\ r.value = c \div Units[m] /\ r.min = Least[n]
  BY SMT, <1>3 DEF Reading
<1>6. b \in 128 .. 191 /\ value = IF m = 1 THEN c ELSE c \div Units[m - 1]
  <2>1. /\ (c \div 64) * 64 + (Continuation(c, 1) % 64) = c
        /\ (c \div 4096) * 64 + (Continuation(c, 64) % 64) = c \div 64
        /\ (c \div 262144) * 64 + (Continuation(c, 4096) % 64) = c \div 4096
        /\ Continuation(c, 1) \in 128 .. 191 /\ Continuation(c, 64) \in 128 .. 191
        /\ Continuation(c, 4096) \in 128 .. 191
    BY SMT, <1>1, SixBits
  <2>2. CASE m = 1
    BY SMT, <1>2, <1>4, <1>5, <2>1, <2>2
  <2>3. CASE m = 2
    BY SMT, <1>2, <1>4, <1>5, <2>1, <2>3
  <2>4. CASE m = 3
    BY SMT, <1>2, <1>4, <1>5, <2>1, <2>4
  <2> QED
    BY SMT, <2>2, <2>3, <2>4
<1>7. u = IF m > 1 THEN [r EXCEPT !.value = value, !.remaining = m - 1]
          ELSE Pass(r, Accepted(r, value))
  BY SMT, <1>5, <1>6 DEF ReadByte, NextByte
<1> HIDE DEF value, u
<1>8. CASE m = 1
  <2>1. Least[n] \in Nat
    BY SMT, <1>2
  <2>2. ~ (c < r.min) /\ ~ (c > MaxPoint)
    BY SMT, <1>1, <1>4, <1>5, <2>1, LastPoint
  <2>3. Accepted(r, value) = c
    BY <1>1, <1>6, <1>8, <2>2 DEF Accepted
  <2>4. u = Pass(r, c)
    BY SMT, <1>7, <1>8, <2>3
  <2> QED
    BY SMT, <1>4, <1>8, <2>4, PassedPoints DEF AfterByte, u
<1>9. CASE m > 1
  <2>1. u = [r EXCEPT !.value = c \div Units[m - 1], !.remaining = m - 1]
    <3>1. m # 1
      BY <1>9
    <3> QED
      BY <1>6, <1>7, <1>9, <3>1, Zenon
  <2>2. /\ u.remaining = m - 1 /\ u.value = c \div Units[m - 1] /\ u.min = Least[n]
        /\ u.points = r.points
    BY SMT, <1>5, <2>1 DEF Readers
  <2>3. n - (k + 1) = m - 1 /\ k + 1 # n
    BY SMT, <1>4, <1>9
  <2> QED
    BY SMT, <2>2, <2>3 DEF Reading, AfterByte, u
<1> QED
  BY SMT, <1>8, <1>9

\* All the bytes of a character.
LEMMA CharacterIsRead ==
  ASSUME NEW r \in Readers, r.remaining = 0, NEW c \in Scalars
  PROVE  /\ ReadBytes(r, ScoreCodepoint(c)).remaining = 0
         /\ ReadBytes(r, ScoreCodepoint(c)).points = Append(r.points, c)
<1> DEFINE s == ScoreCodepoint(c)
           n == Len(s)
<1>1. c \in Points
  BY DEF Scalars
<1>2. s \in Seq(Bytes)
  BY <1>1, CodepointBytes
<1>3. LeadForm(s[1], n, c) /\ \A k \in 1 .. n - 1 : TailForm(s[k + 1], k, n, c)
  BY <1>1, CodepointForms
<1>4. n \in 1 .. 4
  BY <1>3 DEF LeadForm
<1> HIDE DEF s
<1>5. PICK t \in [0 .. Len(s) -> Readers] : Reads(t, r, s) /\ ReadBytes(r, s) = t[Len(s)]
  BY <1>2, BytesAreReads
<1> DEFINE Good == { k \in 0 .. n : k > 0 => AfterByte(t[k], r, c, k, n) }
<1>6. ASSUME NEW k \in 1 .. n, k - 1 \in Good
      PROVE  k \in Good
  <2>1. t[k] = ReadByte(t[k - 1], s[k]) /\ t[0] = r
    BY <1>5 DEF Reads
  <2>2. CASE k = 1
    <3>1. AfterByte(t[1], r, c, 1, n)
      BY <1>3, <2>1, <2>2, LeadIsRead
    <3> QED
      BY <1>4, <2>2, <3>1
  <2>3. CASE k # 1
    <3>1. PICK m \in 1 .. 3 : m = k - 1 /\ m \in 1 .. n - 1 /\ n \in 2 .. 4
      BY <1>4, <2>3
    <3>2. PICK u \in Readers : u = t[m]
      BY <3>1
    <3>3. AfterByte(u, r, c, m, n)
      BY <1>6, <3>1, <3>2
    <3>4. Reading(u, c, n - m, n) /\ u.points = r.points
      BY <3>1, <3>3 DEF AfterByte
    <3>5. TailForm(s[m + 1], m, n, c)
      BY <1>3, <3>1
    <3>6. AfterByte(ReadByte(u, s[m + 1]), u, c, m + 1, n)
      BY <3>1, <3>4, <3>5, NextIsRead
    <3>7. k = m + 1
      BY <3>1
    <3>8. AfterByte(t[k], u, c, k, n)
      BY <2>1, <3>1, <3>2, <3>6, <3>7
    <3> QED
      BY <3>4, <3>8 DEF AfterByte
  <2> QED
    BY <2>2, <2>3
<1>7. Good = 0 .. n
  <2>1. Good \in SUBSET (0 .. n) /\ 0 \in Good /\ n \in Nat
    BY <1>4
  <2> HIDE DEF Good
  <2> QED
    BY <1>6, <2>1, Along
<1>8. AfterByte(t[n], r, c, n, n)
  BY <1>4, <1>7
<1> QED
  BY <1>5, <1>8 DEF AfterByte, s

-----------------------------------------------------------------------------
(* What the client sent. *)

\* The prompt, and where the content is.
LEMMA Described ==
  ASSUME TypeInv, Meant
  PROVE  /\ Encodes(body) /\ ~(Has(body, High) /\ Has(body, Low))
         /\ body.form = "exact" => ~Has(body, High) /\ ~Has(body, Low)
         /\ body.form = "exact" \/ body.form = "json"
         /\ body.json \in Seq(Bytes) /\ body.prompt \in Seq(Points)
         /\ Count \in Nat /\ \A i \in 1 .. Count : body.prompt[i] \in Points
<1>1. body \in Bodies
  BY DEF TypeInv, Written
<1>2. /\ body.json \in Seq(Bytes) /\ body.prompt \in Seq(Points)
      /\ body.form \in { "exact", "json", "other" }
  BY <1>1, ContentAssumption DEF Points
<1>3. Encodes(body) /\ ~(Has(body, High) /\ Has(body, Low))
  BY <1>1, ContentAssumption, Zenon DEF Meant
<1>4. body.form = "exact" => ~Has(body, High) /\ ~Has(body, Low)
  BY <1>1, ContentAssumption, Zenon
<1> QED
  BY <1>2, <1>3, <1>4 DEF Meant, Count

LEMMA ContentPlaces ==
  ASSUME TypeInv, Meant, HasContent
  PROVE  /\ body.at \in Seq(1 .. Len(body.json) - 1) /\ Len(body.at) = Count + 1
         /\ \A i \in 1 .. Count + 1 : body.at[i] \in 1 .. Len(body.json) - 1
         /\ Start \in 1 .. Len(body.json) - 1
         /\ \A i \in 1 .. Count : StandsFor(Piece(i), body.prompt[i])
         /\ body.json[body.at[Count + 1] + 1] = Quote
<1>1. /\ Len(body.at) = Len(body.prompt) + 1 /\ body.at \in Seq(1 .. Len(body.json) - 1)
      /\ \A k \in DOMAIN body.prompt :
           StandsFor(SubSeq(body.json, body.at[k] + 1, body.at[k + 1]), body.prompt[k])
      /\ body.json[body.at[Len(body.at)] + 1] = Quote
  BY Described DEF HasContent, Encodes
<1>2. Count \in Nat /\ DOMAIN body.prompt = 1 .. Count
  BY Described DEF Count
<1>3. \A i \in 1 .. Count + 1 : body.at[i] \in 1 .. Len(body.json) - 1
  BY <1>1 DEF Count
<1>4. 1 \in 1 .. Count + 1
  BY <1>2
<1> QED
  BY <1>1, <1>2, <1>3, <1>4 DEF Count, Piece, Start

\* No character is without bytes.
LEMMA NotEmpty ==
  ASSUME NEW s \in Seq(Bytes), NEW c \in Points, StandsFor(s, c)
  PROVE  Len(s) > 0
<1>1. CASE s = ScoreCodepoint(c)
  BY <1>1, CodepointForms DEF LeadForm
<1>2. CASE \E e \in ShortEscapes : s = << Backslash, e[1] >>
  BY <1>2
<1>3. CASE Len(s) = 6
  BY <1>3
<1>4. CASE Len(s) = 12
  BY <1>4
<1> QED
  <2>1. \/ s = ScoreCodepoint(c) \/ \E e \in ShortEscapes : s = << Backslash, e[1] >>
        \/ Len(s) = 6 \/ Len(s) = 12
    BY DEF StandsFor, IsEscape
  <2> QED
    BY <1>1, <1>2, <1>3, <1>4, <2>1

\* The bytes of a character are next to each other.
LEMMA PieceBytes ==
  ASSUME TypeInv, Meant, HasContent, NEW i \in 1 .. Count
  PROVE  /\ body.at[i] \in Nat /\ body.at[i + 1] \in Nat /\ body.at[i] < body.at[i + 1]
         /\ body.at[i + 1] < Len(body.json)
         /\ Len(Piece(i)) = body.at[i + 1] - body.at[i]
         /\ Piece(i) \in Seq(Bytes)
         /\ \A k \in 1 .. Len(Piece(i)) : Piece(i)[k] = body.json[body.at[i] + k]
         /\ StandsFor(Piece(i), body.prompt[i]) /\ body.prompt[i] \in Points
<1>1. /\ StandsFor(Piece(i), body.prompt[i]) /\ body.prompt[i] \in Points
      /\ body.json \in Seq(Bytes)
  BY Described, ContentPlaces
<1>2. PICK m \in 1 .. Len(body.json) - 1, n \in 1 .. Len(body.json) - 1 :
        m = body.at[i] /\ n = body.at[i + 1]
  <2>1. i \in 1 .. Count + 1 /\ i + 1 \in 1 .. Count + 1
    BY Described
  <2> QED
    BY <2>1, ContentPlaces
<1>3. Len(body.json) \in Nat /\ \A k \in 1 .. Len(body.json) : body.json[k] \in Bytes
  BY <1>1
<1> DEFINE s == SubSeq(body.json, m + 1, n)
<1>4. /\ s \in Seq(Bytes) /\ Len(s) = IF m + 1 <= n THEN n - (m + 1) + 1 ELSE 0
      /\ \A k \in 1 .. n - (m + 1) + 1 : s[k] = body.json[m + 1 + k - 1]
  <2>1. m + 1 \in Int /\ n \in Int /\ \A k \in m + 1 .. n : body.json[k] \in Bytes
    BY <1>3
  <2> QED
    BY <2>1, SubSeqProperties
<1>5. Piece(i) = s
  BY <1>2 DEF Piece
<1> HIDE DEF s
<1>6. Len(s) > 0
  BY <1>1, <1>4, <1>5, NotEmpty
<1>7. m < n /\ Len(s) = n - m /\ m \in Nat /\ n \in Nat /\ n < Len(body.json)
  BY <1>3, <1>4, <1>6
<1>8. \A k \in 1 .. Len(s) : s[k] = body.json[m + k]
  <2>1. ASSUME NEW k \in 1 .. Len(s)
        PROVE  s[k] = body.json[m + k]
    <3>1. k \in 1 .. n - (m + 1) + 1 /\ m + 1 + k - 1 = m + k
      BY <1>7
    <3> QED
      BY <1>4, <3>1
  <2> QED
    BY <2>1
<1> QED
  BY <1>1, <1>2, <1>4, <1>5, <1>7, <1>8

\* A surrogate in the prompt is a lone one: then the text is not Unicode, and
\* there are none of the other kind.
LEMMA Lone ==
  ASSUME TypeInv, Meant, NEW i \in 1 .. Count, NEW c, c = body.prompt[i]
  PROVE  /\ High(c) \/ Low(c) => body.form = "json"
         /\ KeptWasAlone(i - 1) /\ Kept => body.form = "json" /\ ~Low(c)
<1>1. /\ ~(Has(body, High) /\ Has(body, Low))
      /\ body.form = "exact" => ~Has(body, High) /\ ~Has(body, Low)
      /\ body.form = "exact" \/ body.form = "json"
      /\ Count \in Nat /\ DOMAIN body.prompt = 1 .. Count
  BY Described DEF Count
<1>2. (High(c) => Has(body, High)) /\ (Low(c) => Has(body, Low))
  BY <1>1, Zenon DEF Has
<1>3. KeptWasAlone(i - 1) /\ Kept => Has(body, High)
  <2>1. ASSUME KeptWasAlone(i - 1), Kept
        PROVE  \E j \in DOMAIN body.prompt : High(body.prompt[j])
    <3>1. PICK j \in 1 .. i - 1 : High(body.prompt[j])
      BY <2>1 DEF KeptWasAlone
    <3>2. j \in 1 .. Count
      BY <1>1
    <3> QED
      BY <1>1, <3>1, <3>2
  <2> QED
    BY <2>1, Zenon DEF Has
<1> QED
  BY <1>1, <1>2, <1>3, Zenon

\* The same text, but for blanks where it is not Unicode.
Same(p, q) ==
  /\ body.form = "exact" => q = p
  /\ Without(q, { Blank }) = Without(p, { Blank })

\* One more character of the prompt.
LEMMA PromptPrefix ==
  ASSUME TypeInv, Meant, NEW i \in 1 .. Count
  PROVE  /\ SubSeq(body.prompt, 1, i - 1) \in Seq(Points)
         /\ SubSeq(body.prompt, 1, i) = Append(SubSeq(body.prompt, 1, i - 1), body.prompt[i])
<1>1. body.prompt \in Seq(Points) /\ Len(body.prompt) \in Nat /\ i \in 1 .. Len(body.prompt)
  BY Described DEF Count
<1> DEFINE p == body.prompt
<1> HIDE DEF p
<1>2. p \in Seq(Points) /\ i \in 1 .. Len(p) /\ Len(p) \in Nat
  BY <1>1 DEF p
<1>3. SubSeq(p, 1, i - 1) \in Seq(Points)
  <2>1. 1 \in Int /\ i - 1 \in Int /\ \A k \in 1 .. i - 1 : p[k] \in Points
    BY <1>2
  <2> QED
    BY <2>1, SubSeqProperties
<1>4. SubSeq(p, 1, i) = SubSeq(p, 1, i - 1) \o << p[i] >>
  <2>1. 1 \in 1 .. Len(p) /\ i \in 1 .. Len(p)
    BY <1>2
  <2> QED
    BY <1>2, <2>1, SubSeqRecursiveSecond
<1>5. p[i] \in Points
  BY <1>2
<1>6. Append(SubSeq(p, 1, i - 1), p[i]) = SubSeq(p, 1, i - 1) \o << p[i] >>
  BY <1>3, <1>5, AppendIsConcat
<1> QED
  BY <1>3, <1>4, <1>6 DEF p

\* What is left of the text with one more.
LEMMA PointsWithout ==
  \A S : \A t \in Seq(Points), c \in Points :
    /\ c \in S => Without(Append(t, c), S) = Without(t, S)
    /\ c \notin S => Without(Append(t, c), S) = Append(Without(t, S), c)
BY WithoutOneMore

LEMMA SurrogatesAre == \A c \in Nat : c \in Surrogates <=> High(c) \/ Low(c)
BY DEF Surrogates, High, Low

\* A character more is told.
LEMMA TellsMore ==
  ASSUME TypeInv, Meant, NEW i \in 1 .. Count, NEW c, c = body.prompt[i],
         NEW p \in Seq(Points), Tells(p, i - 1), NEW q \in Seq(Points), Same(p, q)
  PROVE  /\ c \in Scalars => Tells(Append(q, c), i)
         /\ High(c) \/ Low(c) => Tells(q, i)
<1> DEFINE t == SubSeq(body.prompt, 1, i - 1)
           B == { Blank }
           S == { Blank } \cup Surrogates
<1>1. t \in Seq(Points) /\ SubSeq(body.prompt, 1, i) = Append(t, c) /\ c \in Points
  BY Described, PromptPrefix
<1>2. /\ body.form = "exact" => p = t
      /\ body.form = "json" => Without(p, B) = Without(t, S)
  BY DEF Tells
<1>3. (body.form = "exact" => q = p) /\ Without(q, B) = Without(p, B)
  BY DEF Same
<1>4. c \in Nat /\ \A x : (x \in B <=> x = Blank) /\ (x \in S <=> x = Blank \/ x \in Surrogates)
  BY <1>1, LastPoint DEF Points
<1> HIDE DEF t, B, S
<1>5. /\ c \in B => Without(Append(q, c), B) = Without(q, B)
      /\ c \notin B => Without(Append(q, c), B) = Append(Without(q, B), c)
  BY <1>1, PointsWithout, Zenon
<1>6. /\ c \in S => Without(Append(t, c), S) = Without(t, S)
      /\ c \notin S => Without(Append(t, c), S) = Append(Without(t, S), c)
  BY <1>1, PointsWithout, Zenon
<1>7. ASSUME c \in Scalars
      PROVE  Tells(Append(q, c), i)
  <2>1. c \notin Surrogates
    BY <1>4, <1>7, SurrogatesAre, Zenon DEF Scalars
  <2>2. body.form = "json" => Without(Append(q, c), B) = Without(Append(t, c), S)
    BY <1>2, <1>3, <1>4, <1>5, <1>6, <2>1
  <2> QED
    BY <1>1, <1>2, <1>3, <2>2 DEF Tells, B, S
<1>8. ASSUME High(c) \/ Low(c)
      PROVE  Tells(q, i)
  <2>1. body.form # "exact"
    BY <1>8, Lone
  <2>2. c \in Surrogates
    BY <1>4, <1>8, SurrogatesAre, Zenon
  <2>3. body.form = "json" => Without(q, B) = Without(Append(t, c), S)
    BY <1>2, <1>3, <1>4, <1>6, <2>2
  <2> QED
    BY <1>1, <2>1, <2>3 DEF Tells, B, S
<1> QED
  BY <1>7, <1>8

\* Blanks are none of it.
LEMMA SameBlank ==
  ASSUME body.form # "exact", NEW p \in Seq(Points)
  PROVE  Same(p, Append(p, Blank)) /\ Append(p, Blank) \in Seq(Points)
<1>1. Blank \in Points
  BY LastPoint DEF Blank, Points
<1>2. Without(Append(p, Blank), { Blank }) = Without(p, { Blank })
  BY <1>1, WithoutOneMore
<1> QED
  BY <1>1, <1>2 DEF Same

LEMMA SameAgain ==
  ASSUME NEW p, NEW q, NEW k, Same(p, q), Tells(p, k)
  PROVE  Same(p, p) /\ Tells(q, k)
BY DEF Same, Tells

-----------------------------------------------------------------------------
(* What the parser does with a byte of the content. *)

\* The state decides with the byte which action takes it.
LEMMA ByteIsTaken ==
  ASSUME TypeInv, ScanByte, in_content
  PROVE  /\ AtRest /\ Byte \notin { Backslash, Quote } => PlainByte
         /\ AtRest /\ Byte = Backslash => BeginEscape
         /\ AtRest /\ Byte = Quote => EndOfContent
         /\ escaped /\ unicode_remaining = 0 => EscapedByte
         /\ unicode_remaining > 1 /\ Byte \in HexDigits => HexDigit
         /\ unicode_remaining = 1 /\ Byte \in HexDigits => LastHexDigit
<1>1. unicode_remaining \in 0 .. 4 /\ (escaped => unicode_remaining = 0) /\ Quote # Backslash
  BY DEF TypeInv, Inv, Types, Quote, Backslash
<1>2. ~KeyByte /\ ~WaitingByte
  BY DEF KeyByte, WaitingByte
<1>3. PlainByte => AtRest /\ Byte \notin { Backslash, Quote }
  BY DEF PlainByte, InText, AtRest
<1>4. BeginEscape => AtRest /\ Byte = Backslash
  BY DEF BeginEscape, InText, AtRest
<1>5. EndOfContent => AtRest /\ Byte = Quote
  BY DEF EndOfContent, InText, AtRest
<1>6. EscapedByte => escaped /\ unicode_remaining = 0
  BY DEF EscapedByte
<1>7. BadHex => unicode_remaining > 0 /\ Byte \notin HexDigits
  BY DEF BadHex
<1>8. HexDigit => unicode_remaining > 1
  BY DEF HexDigit
<1>9. LastHexDigit => unicode_remaining = 1
  BY DEF LastHexDigit
<1> QED
  BY <1>1, <1>2, <1>3, <1>4, <1>5, <1>6, <1>7, <1>8, <1>9 DEF ScanByte, AtRest

\* The digits of an escape: each makes the value that the parser has of it.
DigitsAre(v, d, e, f, g) ==
  /\ v \in Nat /\ v \div 65536 = 0
  /\ ((v \div 65536) * 16 + d) % 65536 = v \div 4096
  /\ ((v \div 4096) * 16 + e) % 65536 = v \div 256
  /\ ((v \div 256) * 16 + f) % 65536 = v \div 16
  /\ ((v \div 16) * 16 + g) % 65536 = v

Spells(v, d, e, f, g) == v = d * 4096 + e * 256 + f * 16 + g

LEMMA FourDigits ==
  ASSUME NEW d \in 0 .. 15, NEW e \in 0 .. 15, NEW f \in 0 .. 15, NEW g \in 0 .. 15,
         NEW v, Spells(v, d, e, f, g)
  PROVE  DigitsAre(v, d, e, f, g)
<1> USE DEF Spells
<1>1. v \in Nat /\ v <= 65535
  BY SMT
<1>2. v \div 65536 = 0
  BY SMT, <1>1
<1>3. v \div 4096 = d
  BY SMT, <1>1
<1>4. v \div 256 = d * 16 + e
  BY SMT, <1>1
<1>5. v \div 16 = d * 256 + e * 16 + f
  BY SMT, <1>1
<1>6. \A n \in Nat : n <= 65535 => n % 65536 = n
  BY SMT
<1>7. ((v \div 65536) * 16 + d) % 65536 = v \div 4096
  BY SMT, <1>2, <1>3, <1>6
<1>8. ((v \div 4096) * 16 + e) % 65536 = v \div 256
  BY SMT, <1>3, <1>4, <1>6
<1>9. ((v \div 256) * 16 + f) % 65536 = v \div 16
  BY SMT, <1>4, <1>5, <1>6
<1>10. ((v \div 16) * 16 + g) % 65536 = v
  BY SMT, <1>1, <1>5, <1>6
<1> QED
  BY SMT, <1>1, <1>2, <1>7, <1>8, <1>9, <1>10 DEF DigitsAre

LEMMA EscapeDigits ==
  ASSUME NEW s, NEW v, IsEscape(s, v)
  PROVE  DigitsAre(v, ContentHexValue(s[3]), ContentHexValue(s[4]), ContentHexValue(s[5]),
                   ContentHexValue(s[6]))
<1>1. \A b \in HexDigits : ContentHexValue(b) \in 0 .. 15
  BY DEF HexDigits, ContentHexValue
<1>2. s[3] \in HexDigits /\ s[4] \in HexDigits /\ s[5] \in HexDigits /\ s[6] \in HexDigits
  BY DEF IsEscape
<1>3. /\ ContentHexValue(s[3]) \in 0 .. 15 /\ ContentHexValue(s[4]) \in 0 .. 15
      /\ ContentHexValue(s[5]) \in 0 .. 15 /\ ContentHexValue(s[6]) \in 0 .. 15
  BY <1>1, <1>2
<1>4. PICK d \in 0 .. 15, e \in 0 .. 15, f \in 0 .. 15, g \in 0 .. 15 :
        /\ d = ContentHexValue(s[3]) /\ e = ContentHexValue(s[4])
        /\ f = ContentHexValue(s[5]) /\ g = ContentHexValue(s[6])
  BY <1>3
<1>5. Spells(v, d, e, f, g)
  BY <1>4 DEF IsEscape, Spells
<1>6. DigitsAre(v, d, e, f, g)
  BY <1>5, FourDigits
<1> QED
  BY <1>4, <1>6

\* Nothing goes to the signals.
Quiet ==
  UNCHANGED << body, reader, unicode_high_surrogate, in_content, ended >> /\ pos' = pos + 1

\* A byte of an escape, and the last one.
LEMMA EscapeStep ==
  ASSUME TypeInv, ScanByte, in_content, NEW s, NEW v, IsEscape(s, v),
         NEW k \in 0 .. 5, Byte = s[k + 1],
         k = 0 => AtRest /\ reader.remaining = 0, k > 0 => InEscape(v, k)
  PROVE  /\ k < 5 => InEscape(v, k + 1)' /\ Quiet
         /\ k = 5 => LastHexDigit /\ Value = v /\ reader.remaining = 0
<1>1. /\ s[1] = Backslash /\ s[2] = 117 /\ \A m \in 3 .. 6 : s[m] \in HexDigits
  BY DEF IsEscape
<1>2. /\ Sixteens[2] = 16 /\ Sixteens[3] = 256 /\ Sixteens[4] = 4096 /\ Sixteens[5] = 65536
  BY DEF Sixteens
<1>3. DigitsAre(v, ContentHexValue(s[3]), ContentHexValue(s[4]), ContentHexValue(s[5]),
                ContentHexValue(s[6]))
  BY EscapeDigits
<1>4. CASE k = 0
  <2>1. BeginEscape /\ AtRest /\ reader.remaining = 0
    BY <1>1, <1>4, ByteIsTaken
  <2> QED
    BY <1>4, <2>1 DEF BeginEscape, AtRest, Take, keyVars, outVars, Quiet, InEscape
<1>5. CASE k = 1
  <2>1. escaped /\ unicode_remaining = 0 /\ reader.remaining = 0
    BY <1>5 DEF InEscape
  <2>2. EscapedByte /\ Byte = 117
    BY <1>1, <1>5, <2>1, ByteIsTaken
  <2>3. unicode_remaining' = 4 /\ unicode_value' = 0 /\ ~escaped' /\ Quiet
    BY <2>2 DEF EscapedByte, Take, keyVars, outVars, Quiet
  <2> QED
    BY <1>2, <1>3, <1>5, <2>1, <2>3 DEF InEscape, Quiet, DigitsAre
<1>6. CASE k \in 2 .. 4
  <2>1. /\ ~escaped /\ unicode_remaining = 6 - k /\ unicode_value = v \div Sixteens[7 - k]
        /\ reader.remaining = 0 /\ Byte \in HexDigits
    BY <1>1, <1>6 DEF InEscape
  <2>2. HexDigit
    BY <1>6, <2>1, ByteIsTaken
  <2>3. unicode_remaining' = 5 - k /\ unicode_value' = Value /\ ~escaped' /\ Quiet
    BY <1>6, <2>1, <2>2 DEF HexDigit, Take, keyVars, outVars, Quiet
  <2>4. Value = v \div Sixteens[6 - k]
    <3>1. Value = ((v \div Sixteens[7 - k]) * 16 + ContentHexValue(s[k + 1])) % 65536
      BY <2>1 DEF Value
    <3>2. CASE k = 2
      BY <1>2, <1>3, <3>1, <3>2 DEF DigitsAre
    <3>3. CASE k = 3
      BY <1>2, <1>3, <3>1, <3>3 DEF DigitsAre
    <3>4. CASE k = 4
      BY <1>2, <1>3, <3>1, <3>4 DEF DigitsAre
    <3> QED
      BY <1>6, <3>2, <3>3, <3>4
  <2> QED
    BY <1>6, <2>1, <2>3, <2>4 DEF InEscape, Quiet
<1>7. CASE k = 5
  <2>1. /\ ~escaped /\ unicode_remaining = 1 /\ unicode_value = v \div 16
        /\ reader.remaining = 0 /\ Byte = s[6] /\ Byte \in HexDigits
    BY <1>1, <1>2, <1>7 DEF InEscape
  <2>2. LastHexDigit
    BY <2>1, ByteIsTaken
  <2>3. Value = v
    BY <1>3, <2>1 DEF Value, DigitsAre
  <2> QED
    BY <1>7, <2>1, <2>2, <2>3
<1> QED
  BY <1>4, <1>5, <1>6, <1>7

-----------------------------------------------------------------------------
(* A byte of a character. *)

\* Before it: k bytes of character i were read, and the next is one of it.
At(i, k, s, c) ==
  /\ TypeInv /\ Meant /\ HasContent /\ in_content /\ ~ended
  /\ i \in 1 .. Count /\ s = Piece(i) /\ c = body.prompt[i]
  /\ k \in Nat /\ k < Len(s) /\ k = pos - body.at[i] /\ Byte = s[k + 1] /\ Told(i - 1)

\* After it: in the character, or at its end.
Inside(i, k) == Told(i - 1) /\ InCharacter(i, k)
Behind(i) == Told(i) /\ AtRest /\ reader.remaining = 0 /\ KeptWasAlone(i)

Moved(i, k, s) ==
  /\ k + 1 < Len(s) => Inside(i, k + 1)'
  /\ k + 1 = Len(s) => Behind(i)'

Kind(s, c) == IsRaw(s, c) \/ IsShort(s, c) \/ IsEscape(s, c) \/ IsPair(s, c)

LEMMA AtFacts ==
  ASSUME NEW i, NEW k, NEW s, NEW c, At(i, k, s, c)
  PROVE  /\ s \in Seq(Bytes) /\ Len(s) \in Nat /\ c \in Points /\ Kind(s, c)
         /\ i \in 1 .. Count /\ Count \in Nat /\ reader \in Readers /\ reader.points \in Seq(Points)
         /\ Tells(reader.points, i - 1) /\ k + 1 \in 1 .. Len(s)
<1>1. TypeInv /\ Meant /\ HasContent /\ i \in 1 .. Count /\ s = Piece(i) /\ c = body.prompt[i]
      /\ k \in Nat /\ k < Len(s) /\ Told(i - 1)
  BY DEF At
<1>2. Count \in Nat
  BY <1>1, Described
<1>3. s \in Seq(Bytes) /\ c \in Points /\ StandsFor(s, c)
  BY <1>1, PieceBytes
<1>4. Kind(s, c)
  BY <1>3 DEF Kind, StandsFor, IsRaw, IsShort, IsPair, HighHalf, LowHalf
<1>5. reader \in Readers /\ reader.points \in Seq(Points)
  BY <1>1 DEF TypeInv, Written, Readers
<1>6. Len(s) \in Nat /\ k + 1 \in 1 .. Len(s)
  <2>1. Len(s) \in Nat
    BY <1>3
  <2> QED
    BY <1>1, <2>1
<1> QED
  BY <1>1, <1>2, <1>3, <1>4, <1>5, <1>6 DEF Told

\* The prompt stays as it is.
LEMMA ToldNext ==
  ASSUME body' = body, NEW q, reader'.points = q, NEW i, Tells(q, i)
  PROVE  Told(i)'
BY DEF Told, Tells

LEMMA AloneNext ==
  ASSUME body' = body, NEW i \in Nat, NEW j \in Nat, j <= i,
         KeptWasAlone(j), unicode_high_surrogate' \in { unicode_high_surrogate, NoSurrogate }
  PROVE  KeptWasAlone(i)'
BY DEF KeptWasAlone, Kept

\* No byte of the UTF-8 of a character is a quote or a backslash but itself.
LEMMA ContinuationByte ==
  ASSUME NEW c \in Nat, NEW d \in 1 .. 3
  PROVE  Continuation(c, Places[d]) \in 128 .. 191
<1>1. \A n \in Nat : 128 + (n % 64) \in 128 .. 191
  BY SMT
<1>2. Places[d] \in Nat \ {0}
  BY SMT DEF Places
<1>3. c \div Places[d] \in Nat
  BY SMT, <1>2
<1> QED
  BY SMT, <1>1, <1>3 DEF Continuation

LEMMA RawBytes ==
  ASSUME NEW c \in Points, c \notin { Quote, Backslash }, NEW k \in 1 .. Len(ScoreCodepoint(c))
  PROVE  ScoreCodepoint(c)[k] \notin { Quote, Backslash }
<1> DEFINE s == ScoreCodepoint(c)
           n == Len(s)
<1>1. LeadForm(s[1], n, c) /\ \A m \in 1 .. n - 1 : TailForm(s[m + 1], m, n, c)
  BY SMT, CodepointForms
<1>2. s \in Seq(Bytes) /\ n \in 1 .. 4 /\ c \in Nat
  BY SMT, <1>1, CodepointBytes, LastPoint DEF LeadForm, Points
<1> HIDE DEF s, n
<1>3. CASE k = 1
  <2>1. s[1] = c \/ s[1] >= 192
    BY SMT, <1>1, <1>2 DEF LeadForm
  <2> QED
    BY SMT, <1>2, <1>3, <2>1 DEF Quote, Backslash, s
<1>4. CASE k > 1
  <2>1. PICK m \in 1 .. n - 1 : k = m + 1
    BY SMT, <1>2, <1>4 DEF s, n
  <2>2. TailForm(s[k], m, n, c)
    BY SMT, <1>1, <2>1
  <2>3. PICK d \in 1 .. 3 : s[k] = Continuation(c, Places[d])
    <3>1. n - m \in 1 .. 3
      BY SMT, <1>2, <2>1
    <3> QED
      BY <2>2, <3>1 DEF TailForm
  <2>4. PICK b \in 128 .. 191 : b = s[k]
    BY <1>2, <2>3, ContinuationByte
  <2>5. b # 34 /\ b # 92
    BY SMT
  <2> QED
    BY <2>4, <2>5 DEF Quote, Backslash, s
<1> QED
  BY SMT, <1>2, <1>3, <1>4 DEF s, n

\* The next byte is of the same content.
Forth == body' = body /\ pos' = pos + 1 /\ in_content' = in_content /\ ended' = ended

LEMMA SameCharacter ==
  ASSUME NEW i, NEW k, NEW s, NEW c, At(i, k, s, c), body' = body
  PROVE  s = Piece(i)' /\ c = body'.prompt[i]
BY DEF At, Piece

\* A character as UTF-8.
LEMMA RawStep ==
  ASSUME NEW i, NEW k, NEW s, NEW c, At(i, k, s, c), ScanByte, IsRaw(s, c),
         AtRest, KeptWasAlone(i - 1), k = 0 => reader.remaining = 0,
         k > 0 => Reading(reader, c, Len(s) - k, Len(s))
  PROVE  Moved(i, k, s) /\ Forth
<1>1. /\ s \in Seq(Bytes) /\ Len(s) \in Nat /\ c \in Points
      /\ i \in 1 .. Count /\ Count \in Nat /\ reader \in Readers /\ reader.points \in Seq(Points)
      /\ Tells(reader.points, i - 1) /\ k + 1 \in 1 .. Len(s)
  BY AtFacts
<1>2. TypeInv /\ Meant /\ in_content /\ k \in Nat /\ Byte = s[k + 1] /\ c = body.prompt[i]
  BY DEF At
<1>3. c \in Scalars /\ c \notin { Quote, Backslash } /\ s = ScoreCodepoint(c)
  BY <1>1 DEF IsRaw, Scalars
<1>4. Byte \notin { Quote, Backslash }
  BY <1>1, <1>2, <1>3, RawBytes
<1>5. PlainByte
  BY <1>2, <1>4, ByteIsTaken
<1>6. Forth /\ AtRest' /\ UNCHANGED unicode_high_surrogate /\ reader' = ReadBytes(reader, << Byte >>)
  BY <1>5 DEF PlainByte, Take, keyVars, escapeVars, Score, Forth, AtRest
<1> DEFINE n == Len(s)
<1>7. AfterByte(reader', reader, c, k + 1, n)
  <2>1. reader' = ReadByte(reader, s[k + 1])
    BY <1>1, <1>2, <1>6, ReadOne
  <2>2. LeadForm(s[1], n, c) /\ \A m \in 1 .. n - 1 : TailForm(s[m + 1], m, n, c)
    BY <1>1, <1>3, CodepointForms
  <2> HIDE DEF n
  <2>3. CASE k = 0
    BY <1>1, <1>3, <2>1, <2>2, <2>3, LeadIsRead
  <2>4. CASE k > 0
    <3>1. k \in 1 .. n - 1
      BY <1>1, <1>2, <2>4 DEF n
    <3>2. TailForm(s[k + 1], k, n, c) /\ n \in 2 .. 4
      BY <2>2, <3>1 DEF TailForm
    <3>3. Reading(reader, c, n - k, n)
      BY <2>4 DEF n
    <3> QED
      BY <1>1, <1>3, <2>1, <3>2, <3>3, NextIsRead
  <2> QED
    BY <1>2, <2>3, <2>4
<1>8. KeptWasAlone(i - 1)' /\ KeptWasAlone(i)'
  <2>1. i - 1 \in Nat /\ i \in Nat /\ i - 1 <= i /\ i - 1 <= i - 1 /\ body' = body
    BY <1>1, <1>6 DEF Forth
  <2> QED
    BY <1>6, <2>1, AloneNext
<1>9. s = Piece(i)' /\ c = body'.prompt[i] /\ body' = body
  BY <1>6, SameCharacter DEF Forth
<1>10. ASSUME k + 1 < n
       PROVE  Inside(i, k + 1)'
  <2>1. Reading(reader', c, n - (k + 1), n) /\ reader'.points = reader.points
    BY <1>1, <1>2, <1>7, <1>10 DEF AfterByte
  <2>2. Told(i - 1)'
    BY <1>1, <1>9, <2>1, ToldNext
  <2>3. InCharacter(i, k + 1)'
    BY <1>6, <1>8, <1>9, <2>1 DEF InCharacter
  <2> QED
    BY <2>2, <2>3 DEF Inside
<1>11. ASSUME k + 1 = n
       PROVE  Behind(i)'
  <2>1. reader'.remaining = 0 /\ reader'.points = Append(reader.points, c)
    BY <1>7, <1>11 DEF AfterByte
  <2>2. Same(reader.points, reader.points)
    BY DEF Same
  <2>3. Tells(Append(reader.points, c), i)
    BY <1>1, <1>2, <1>3, <2>2, TellsMore
  <2>4. Told(i)'
    BY <1>9, <2>1, <2>3, ToldNext
  <2> QED
    BY <1>6, <1>8, <2>1, <2>4 DEF Behind
<1> QED
  BY <1>6, <1>10, <1>11 DEF Moved

\* What a short escape stands for.
LEMMA ShortIs ==
  ASSUME NEW e \in ShortEscapes, Byte = e[1]
  PROVE  Byte # 117 /\ Unescape = e[2] /\ e[2] \in 0 .. 127
<1>1. \/ e = << 34, 34 >> \/ e = << 92, 92 >> \/ e = << 47, 47 >> \/ e = << 98, 8 >>
      \/ e = << 102, 12 >> \/ e = << 110, 10 >> \/ e = << 114, 13 >> \/ e = << 116, 9 >>
  BY Zenon DEF ShortEscapes, Quote, Backslash
<1>2. Byte # 117 /\ e[2] \in 0 .. 127
  BY SMT, <1>1
<1>3. Unescape = e[2]
  BY <1>1 DEF Unescape, Quote, Backslash
<1> QED
  BY <1>2, <1>3

\* ASCII is passed on.
LEMMA AsciiIsRead ==
  ASSUME NEW r \in Readers, r.remaining = 0, NEW b \in 0 .. 127
  PROVE  /\ ReadBytes(r, << b >>).remaining = 0
         /\ ReadBytes(r, << b >>).points = Append(r.points, b)
         /\ b \in Scalars
<1>1. b \in Bytes /\ b < 128 /\ b \in Scalars
  BY LastPoint DEF Bytes, Scalars, Points, High, Low
<1>2. ReadBytes(r, << b >>) = ReadByte(r, b)
  BY <1>1, ReadOne
<1>3. LeadForm(b, 1, b)
  BY <1>1 DEF LeadForm
<1>4. AfterByte(ReadByte(r, b), r, b, 1, 1)
  BY <1>1, <1>3, LeadIsRead
<1> QED
  BY <1>1, <1>2, <1>4 DEF AfterByte

\* A short escape.
LEMMA ShortStep ==
  ASSUME NEW i, NEW k, NEW s, NEW c, At(i, k, s, c), ScanByte, IsShort(s, c),
         KeptWasAlone(i - 1), k = 0 => AtRest /\ reader.remaining = 0, k > 0 => InEscape(c, 1)
  PROVE  Moved(i, k, s) /\ Forth
<1>1. /\ s \in Seq(Bytes) /\ c \in Points
      /\ i \in 1 .. Count /\ Count \in Nat /\ reader \in Readers /\ reader.points \in Seq(Points)
      /\ Tells(reader.points, i - 1)
  BY AtFacts
<1>2. /\ TypeInv /\ Meant /\ in_content /\ k \in Nat /\ k < Len(s) /\ Byte = s[k + 1]
      /\ c = body.prompt[i]
  BY DEF At
<1>3. PICK e \in ShortEscapes : s = << Backslash, e[1] >> /\ c = e[2]
  BY DEF IsShort
<1>4. Len(s) = 2 /\ s[1] = Backslash /\ s[2] = e[1] /\ k \in 0 .. 1
  BY <1>2, <1>3
<1>5. ASSUME Forth
      PROVE  s = Piece(i)' /\ c = body'.prompt[i] /\ body' = body
  BY <1>5, SameCharacter DEF Forth
<1>6. ASSUME UNCHANGED unicode_high_surrogate, Forth
      PROVE  KeptWasAlone(i - 1)' /\ KeptWasAlone(i)'
  <2>1. i - 1 \in Nat /\ i \in Nat /\ i - 1 <= i /\ i - 1 <= i - 1 /\ body' = body
    BY <1>1, <1>6 DEF Forth
  <2> QED
    BY <1>6, <2>1, AloneNext
<1>7. CASE k = 0
  <2>1. AtRest /\ reader.remaining = 0 /\ BeginEscape
    BY <1>2, <1>4, <1>7, ByteIsTaken
  <2>2. /\ Forth /\ escaped' /\ unicode_remaining' = 0 /\ reader' = reader
        /\ UNCHANGED unicode_high_surrogate
    BY <2>1 DEF BeginEscape, Take, keyVars, outVars, Forth, AtRest
  <2>3. Told(i - 1)'
    BY <1>1, <1>5, <2>2, ToldNext
  <2>4. InEscape(c, 1)'
    BY <2>1, <2>2 DEF InEscape
  <2>5. InCharacter(i, 1)'
    BY <1>5, <1>6, <2>2, <2>4 DEF InCharacter
  <2> QED
    BY <1>4, <1>7, <2>2, <2>3, <2>5 DEF Moved, Inside
<1>8. CASE k = 1
  <2>1. escaped /\ unicode_remaining = 0 /\ reader.remaining = 0
    BY <1>8 DEF InEscape
  <2>2. EscapedByte /\ Byte = e[1]
    BY <1>2, <1>4, <1>8, <2>1, ByteIsTaken
  <2>3. Byte # 117 /\ Unescape = c /\ c \in 0 .. 127
    BY <1>3, <2>2, ShortIs
  <2>4. /\ Forth /\ ~escaped' /\ unicode_remaining' = 0 /\ reader' = ReadBytes(reader, << c >>)
        /\ UNCHANGED unicode_high_surrogate
    BY <2>1, <2>2, <2>3 DEF EscapedByte, Take, keyVars, Score, Forth
  <2>5. reader'.remaining = 0 /\ reader'.points = Append(reader.points, c) /\ c \in Scalars
    BY <1>1, <2>1, <2>3, <2>4, AsciiIsRead
  <2>6. Same(reader.points, reader.points)
    BY DEF Same
  <2>7. Tells(Append(reader.points, c), i)
    BY <1>1, <1>2, <2>5, <2>6, TellsMore
  <2>8. Told(i)'
    BY <1>5, <2>4, <2>5, <2>7, ToldNext
  <2> QED
    BY <1>4, <1>6, <1>8, <2>4, <2>5, <2>8 DEF Moved, Behind, AtRest
<1> QED
  BY <1>4, <1>7, <1>8

\* The blank for a high surrogate that was alone changes nothing of the text.
LEMMA FlushIsRead ==
  ASSUME TypeInv, reader.remaining = 0, Kept => body.form # "exact"
  PROVE  \E u \in Readers :
           /\ u.remaining = 0 /\ Same(reader.points, u.points)
           /\ ReadBytes(reader, BlankForKept) = u
           /\ \A q \in Seq(Bytes) : ReadBytes(reader, BlankForKept \o q) = ReadBytes(u, q)
<1>1. reader \in Readers /\ reader.points \in Seq(Points)
  BY DEF TypeInv, Written, Readers
<1>2. CASE Kept
  <2>1. Blank \in 0 .. 127 /\ Blank \in Bytes /\ BlankForKept = << Blank >>
    BY <1>2 DEF Blank, Bytes, BlankForKept
  <2>2. PICK u \in Readers : u = ReadByte(reader, Blank)
    BY <1>1, <2>1, ByteIsRead
  <2>3. ReadBytes(reader, << Blank >>) = u
    BY <1>1, <2>1, <2>2, ReadOne
  <2>4. u.remaining = 0 /\ u.points = Append(reader.points, Blank)
    BY <1>1, <2>1, <2>3, AsciiIsRead
  <2>5. Same(reader.points, u.points)
    BY <1>1, <1>2, <2>4, SameBlank
  <2>6. \A q \in Seq(Bytes) : ReadBytes(reader, << Blank >> \o q) = ReadBytes(u, q)
    BY <1>1, <2>1, <2>2, ReadOneMore
  <2> QED
    BY <2>1, <2>3, <2>4, <2>5, <2>6
<1>3. CASE ~Kept
  <2>1. BlankForKept = << >>
    BY <1>3 DEF BlankForKept
  <2>2. ReadBytes(reader, << >>) = reader
    BY <1>1, ReadNone
  <2>3. \A q \in Seq(Bytes) : << >> \o q = q
    BY ConcatEmptySeq
  <2>4. Same(reader.points, reader.points)
    BY DEF Same
  <2> QED
    BY <1>1, <2>1, <2>2, <2>3, <2>4
<1> QED
  BY <1>2, <1>3

\* What the last digit of an escape does.
LEMMA LastDigit ==
  ASSUME TypeInv, LastHexDigit
  PROVE  /\ Forth /\ AtRest' /\ reader' = ReadBytes(reader, Decoded)
         /\ unicode_high_surrogate' = IF High(Value) THEN Value ELSE NoSurrogate
<1>1. ~escaped
  BY DEF TypeInv, Inv, Types, LastHexDigit
<1> QED
  BY <1>1 DEF LastHexDigit, Take, keyVars, Score, Forth, AtRest

\* A character as one escape.
LEMMA EscapedStep ==
  ASSUME NEW i, NEW k, NEW s, NEW c, At(i, k, s, c), ScanByte, IsEscape(s, c),
         KeptWasAlone(i - 1), k = 0 => AtRest /\ reader.remaining = 0, k > 0 => InEscape(c, k)
  PROVE  Moved(i, k, s) /\ Forth
<1>1. /\ s \in Seq(Bytes) /\ c \in Points
      /\ i \in 1 .. Count /\ Count \in Nat /\ reader \in Readers /\ reader.points \in Seq(Points)
      /\ Tells(reader.points, i - 1)
  BY AtFacts
<1>2. /\ TypeInv /\ Meant /\ in_content /\ k \in Nat /\ k < Len(s) /\ Byte = s[k + 1]
      /\ c = body.prompt[i]
  BY DEF At
<1>3. Len(s) = 6 /\ k \in 0 .. 5
  BY <1>2 DEF IsEscape
<1>4. /\ k < 5 => InEscape(c, k + 1)' /\ Quiet
      /\ k = 5 => LastHexDigit /\ Value = c /\ reader.remaining = 0
  BY <1>2, <1>3, EscapeStep
<1>5. ASSUME Forth
      PROVE  s = Piece(i)' /\ c = body'.prompt[i] /\ body' = body
  BY <1>5, SameCharacter DEF Forth
<1>6. i - 1 \in Nat /\ i \in Nat /\ i - 1 <= i /\ i - 1 <= i - 1
  BY <1>1
<1>7. CASE k < 5
  <2>1. InEscape(c, k + 1)' /\ Forth /\ reader' = reader /\ UNCHANGED unicode_high_surrogate
    BY <1>4, <1>7 DEF Quiet, Forth
  <2>2. Told(i - 1)'
    BY <1>1, <1>5, <2>1, ToldNext
  <2>3. KeptWasAlone(i - 1)'
    BY <1>5, <1>6, <2>1, AloneNext
  <2>4. InCharacter(i, k + 1)'
    BY <1>5, <2>1, <2>3 DEF InCharacter
  <2> QED
    BY <1>3, <1>7, <2>1, <2>2, <2>4 DEF Moved, Inside
<1>8. CASE k = 5
  <2>1. LastHexDigit /\ Value = c /\ reader.remaining = 0
    BY <1>4, <1>8
  <2>2. /\ Forth /\ AtRest' /\ reader' = ReadBytes(reader, Decoded)
        /\ unicode_high_surrogate' = IF High(c) THEN c ELSE NoSurrogate
    BY <1>2, <2>1, LastDigit
  <2>3. /\ High(c) \/ Low(c) => body.form = "json"
        /\ Kept => body.form = "json" /\ ~Low(c)
    BY <1>1, <1>2, Lone
  <2>4. PICK u \in Readers :
          /\ u.remaining = 0 /\ Same(reader.points, u.points)
          /\ ReadBytes(reader, BlankForKept) = u
          /\ \A q \in Seq(Bytes) : ReadBytes(reader, BlankForKept \o q) = ReadBytes(u, q)
    BY <1>2, <2>1, <2>3, FlushIsRead
  <2>5. u.points \in Seq(Points)
    BY DEF Readers
  <2>6. /\ c \in Scalars => Tells(Append(u.points, c), i)
        /\ High(c) \/ Low(c) => Tells(u.points, i)
    BY <1>1, <1>2, <2>4, <2>5, TellsMore
  <2>7. KeptWasAlone(i)'
    <3>1. CASE High(c)
      <4>1. i \in 1 .. i /\ High(body'.prompt[i])
        BY <1>5, <1>6, <2>2, <3>1
      <4> QED
        BY <4>1 DEF KeptWasAlone
    <3>2. CASE ~High(c)
      BY <2>2, <3>2 DEF KeptWasAlone, Kept
    <3> QED
      BY <3>1, <3>2
  <2>8. CASE High(c)
    <3>1. Decoded = BlankForKept
      BY <2>1, <2>8 DEF Decoded
    <3>2. reader' = u
      BY <2>2, <2>4, <3>1
    <3>3. Told(i)'
      BY <1>5, <2>2, <2>6, <2>8, <3>2, ToldNext
    <3> QED
      BY <1>3, <1>8, <2>2, <2>4, <2>7, <3>2, <3>3 DEF Moved, Behind
  <2>9. CASE Low(c)
    <3>1. ~High(c) /\ ~Kept
      BY <1>1, <2>3, <2>9, LastPoint DEF High, Low, Points
    <3>2. Decoded = BlankForKept \o << Blank >>
      BY <2>1, <2>9, <3>1 DEF Decoded
    <3>3. Blank \in 0 .. 127 /\ << Blank >> \in Seq(Bytes)
      BY DEF Blank, Bytes
    <3>4. reader' = ReadBytes(u, << Blank >>)
      BY <2>2, <2>4, <3>2, <3>3
    <3>5. reader'.remaining = 0 /\ reader'.points = Append(u.points, Blank)
      BY <2>4, <3>3, <3>4, AsciiIsRead
    <3>6. Same(u.points, Append(u.points, Blank)) /\ Append(u.points, Blank) \in Seq(Points)
      BY <2>3, <2>5, <2>9, SameBlank
    <3>7. Same(reader.points, Append(u.points, Blank))
      BY <2>3, <2>4, <2>9, <3>6 DEF Same
    <3>8. Tells(Append(u.points, Blank), i)
      BY <1>1, <1>2, <2>9, <3>6, <3>7, TellsMore
    <3>9. Told(i)'
      BY <1>5, <2>2, <3>5, <3>8, ToldNext
    <3> QED
      BY <1>3, <1>8, <2>2, <2>7, <3>5, <3>9 DEF Moved, Behind
  <2>10. CASE ~High(c) /\ ~Low(c)
    <3>1. Decoded = BlankForKept \o ScoreCodepoint(c)
      BY <2>1, <2>10 DEF Decoded
    <3>2. ScoreCodepoint(c) \in Seq(Bytes) /\ c \in Scalars
      BY <1>1, <2>10, CodepointBytes DEF Scalars
    <3>3. reader' = ReadBytes(u, ScoreCodepoint(c))
      BY <2>2, <2>4, <3>1, <3>2
    <3>4. reader'.remaining = 0 /\ reader'.points = Append(u.points, c)
      BY <2>4, <3>2, <3>3, CharacterIsRead
    <3>5. Told(i)'
      BY <1>5, <2>2, <2>6, <3>2, <3>4, ToldNext
    <3> QED
      BY <1>3, <1>8, <2>2, <2>7, <3>4, <3>5 DEF Moved, Behind
  <2> QED
    BY <2>8, <2>9, <2>10
<1> QED
  BY <1>3, <1>7, <1>8

\* The halves of a pair are of one kind each, and together they are the character.
LEMMA HalvesAre ==
  ASSUME NEW c \in Points, c >= 65536
  PROVE  /\ High(HighHalf(c)) /\ Low(LowHalf(c)) /\ ~High(LowHalf(c))
         /\ HighHalf(c) # NoSurrogate /\ Combine(HighHalf(c), LowHalf(c)) = c
         /\ c \in Scalars
<1>1. c \in Nat /\ c - 65536 \in Nat /\ c - 65536 <= 1048575
  BY SMT, LastPoint DEF Points
<1>2. PICK d \in Nat : d = c - 65536 /\ d <= 1048575
  BY SMT, <1>1
<1>3. PICK h \in Int : h = d \div 1024
  BY SMT
<1>4. PICK l \in Int : l = d % 1024
  BY SMT
<1>5. h \in 0 .. 1023
  BY SMT, <1>2, <1>3
<1>6. l \in 0 .. 1023
  BY SMT, <1>4
<1>7. h * 1024 + l = d
  BY SMT, <1>3, <1>4
<1>8. HighHalf(c) = 55296 + h /\ LowHalf(c) = 56320 + l /\ c = 65536 + d
  BY SMT, <1>1, <1>2, <1>3, <1>4 DEF HighHalf, LowHalf
<1>9. 65536 + ((55296 + h) - 55296) * 1024 + ((56320 + l) - 56320) = 65536 + d
  BY SMT, <1>7
<1>10. Combine(HighHalf(c), LowHalf(c)) = c
  BY <1>8, <1>9 DEF Combine
<1>11. High(55296 + h) /\ Low(56320 + l) /\ ~High(56320 + l) /\ 55296 + h # 0
  BY SMT, <1>5, <1>6 DEF High, Low
<1>12. ~High(c) /\ ~Low(c)
  BY SMT, <1>1 DEF High, Low
<1> QED
  BY <1>8, <1>10, <1>11, <1>12 DEF Scalars, NoSurrogate

\* The first half of a pair: the high surrogate is kept.
LEMMA HighStep ==
  ASSUME NEW i, NEW k, NEW s, NEW c, At(i, k, s, c), ScanByte, IsPair(s, c), k < 6,
         KeptWasAlone(i - 1), k = 0 => AtRest /\ reader.remaining = 0,
         k > 0 => InEscape(HighHalf(c), k)
  PROVE  Inside(i, k + 1)' /\ Forth
<1>1. /\ s \in Seq(Bytes) /\ c \in Points
      /\ i \in 1 .. Count /\ Count \in Nat /\ reader \in Readers /\ reader.points \in Seq(Points)
      /\ Tells(reader.points, i - 1)
  BY AtFacts
<1>2. /\ TypeInv /\ Meant /\ in_content /\ k \in Nat /\ Byte = s[k + 1] /\ c = body.prompt[i]
  BY DEF At
<1>3. Len(s) = 12 /\ c >= 65536 /\ IsEscape(SubSeq(s, 1, 6), HighHalf(c)) /\ k \in 0 .. 5
  BY <1>2 DEF IsPair
<1>4. PICK h : h = HighHalf(c)
  OBVIOUS
<1>5. High(h) /\ c \in Scalars
  BY <1>1, <1>3, <1>4, HalvesAre
<1>6. Byte = SubSeq(s, 1, 6)[k + 1]
  BY <1>1, <1>2, <1>3
<1>7. PICK t : t = SubSeq(s, 1, 6)
  OBVIOUS
<1>8. IsEscape(t, h) /\ Byte = t[k + 1] /\ (k > 0 => InEscape(h, k))
  BY <1>3, <1>4, <1>6, <1>7
<1>9. /\ k < 5 => InEscape(h, k + 1)' /\ Quiet
      /\ k = 5 => LastHexDigit /\ Value = h /\ reader.remaining = 0
  BY <1>2, <1>3, <1>8, EscapeStep
<1>10. ASSUME Forth
       PROVE  s = Piece(i)' /\ c = body'.prompt[i] /\ body' = body
  BY <1>10, SameCharacter DEF Forth
<1>11. i - 1 \in Nat /\ i - 1 <= i - 1
  BY <1>1
<1>12. CASE k < 5
  <2>1. InEscape(h, k + 1)' /\ Forth /\ reader' = reader /\ UNCHANGED unicode_high_surrogate
    BY <1>9, <1>12 DEF Quiet, Forth
  <2>2. Told(i - 1)'
    BY <1>1, <1>10, <2>1, ToldNext
  <2>3. KeptWasAlone(i - 1)'
    BY <1>10, <1>11, <2>1, AloneNext
  <2>4. k + 1 < 6 /\ InEscape(HighHalf(c), k + 1)'
    BY <1>3, <1>4, <1>12, <2>1
  <2>5. InCharacter(i, k + 1)'
    BY <1>10, <2>1, <2>3, <2>4 DEF InCharacter
  <2> QED
    BY <2>1, <2>2, <2>5 DEF Inside
<1>13. CASE k = 5
  <2>1. LastHexDigit /\ Value = h /\ reader.remaining = 0
    BY <1>9, <1>13
  <2>2. /\ Forth /\ AtRest' /\ reader' = ReadBytes(reader, Decoded)
        /\ unicode_high_surrogate' = h
    BY <1>2, <1>5, <2>1, LastDigit
  <2>3. Decoded = BlankForKept
    BY <1>5, <2>1 DEF Decoded
  <2>4. Kept => body.form # "exact"
    BY <1>1, <1>2, Lone
  <2>5. PICK u \in Readers :
          u.remaining = 0 /\ Same(reader.points, u.points) /\ ReadBytes(reader, BlankForKept) = u
    BY <1>2, <2>1, <2>4, FlushIsRead
  <2>6. reader' = u
    BY <2>2, <2>3, <2>5
  <2>7. Tells(u.points, i - 1)
    BY <1>1, <2>5, SameAgain
  <2>8. Told(i - 1)'
    BY <1>10, <2>2, <2>6, <2>7, ToldNext
  <2>9. k + 1 = 6 /\ unicode_high_surrogate' = HighHalf(c) /\ reader'.remaining = 0
    BY <1>4, <1>13, <2>2, <2>5, <2>6
  <2>10. InCharacter(i, k + 1)'
    BY <1>10, <2>2, <2>9 DEF InCharacter
  <2> QED
    BY <2>2, <2>8, <2>10 DEF Inside
<1> QED
  BY <1>3, <1>12, <1>13

\* The second half: the character is read.
LEMMA LowStep ==
  ASSUME NEW i, NEW k, NEW s, NEW c, At(i, k, s, c), ScanByte, IsPair(s, c), k >= 6,
         unicode_high_surrogate = HighHalf(c), k = 6 => AtRest /\ reader.remaining = 0,
         k > 6 => InEscape(LowHalf(c), k - 6)
  PROVE  Moved(i, k, s) /\ Forth
<1>1. /\ s \in Seq(Bytes) /\ c \in Points
      /\ i \in 1 .. Count /\ Count \in Nat /\ reader \in Readers /\ reader.points \in Seq(Points)
      /\ Tells(reader.points, i - 1)
  BY AtFacts
<1>2. /\ TypeInv /\ Meant /\ in_content /\ k \in Nat /\ Byte = s[k + 1] /\ c = body.prompt[i]
      /\ k < Len(s)
  BY DEF At
<1>3. Len(s) = 12 /\ c >= 65536 /\ IsEscape(SubSeq(s, 7, 12), LowHalf(c))
  BY DEF IsPair
<1>4. PICK h, l : h = HighHalf(c) /\ l = LowHalf(c)
  OBVIOUS
<1>5. High(h) /\ Low(l) /\ ~High(l) /\ h # NoSurrogate /\ Combine(h, l) = c /\ c \in Scalars
  BY <1>1, <1>3, <1>4, HalvesAre
<1>6. PICK m \in 0 .. 5 : m = k - 6
  BY <1>2, <1>3
<1>7. Byte = SubSeq(s, 7, 12)[m + 1] /\ k = m + 6
  BY <1>1, <1>2, <1>3, <1>6
<1>8. PICK t : t = SubSeq(s, 7, 12)
  OBVIOUS
<1>9. /\ IsEscape(t, l) /\ Byte = t[m + 1] /\ (m > 0 => InEscape(l, m))
      /\ m = 0 => AtRest /\ reader.remaining = 0
  BY <1>3, <1>4, <1>6, <1>7, <1>8
<1>10. /\ m < 5 => InEscape(l, m + 1)' /\ Quiet
       /\ m = 5 => LastHexDigit /\ Value = l /\ reader.remaining = 0
  BY <1>2, <1>9, EscapeStep
<1>11. ASSUME Forth
       PROVE  s = Piece(i)' /\ c = body'.prompt[i] /\ body' = body
  BY <1>11, SameCharacter DEF Forth
<1>12. CASE m < 5
  <2>1. InEscape(l, m + 1)' /\ Forth /\ reader' = reader /\ UNCHANGED unicode_high_surrogate
    BY <1>10, <1>12 DEF Quiet, Forth
  <2>2. Told(i - 1)'
    BY <1>1, <1>11, <2>1, ToldNext
  <2>3. k + 1 > 6 /\ (k + 1) - 6 = m + 1 /\ k + 1 < Len(s)
    BY <1>3, <1>7, <1>12
  <2>4. InEscape(LowHalf(c), (k + 1) - 6)' /\ unicode_high_surrogate' = HighHalf(c)
    BY <1>4, <2>1, <2>3
  <2>5. InCharacter(i, k + 1)'
    BY <1>11, <2>1, <2>3, <2>4 DEF InCharacter
  <2> QED
    BY <2>1, <2>2, <2>3, <2>5 DEF Moved, Inside
<1>13. CASE m = 5
  <2>1. LastHexDigit /\ Value = l /\ reader.remaining = 0
    BY <1>10, <1>13
  <2>2. /\ Forth /\ AtRest' /\ reader' = ReadBytes(reader, Decoded)
        /\ unicode_high_surrogate' = NoSurrogate
    BY <1>2, <1>5, <2>1, LastDigit
  <2>3. Decoded = ScoreCodepoint(c)
    BY <1>4, <1>5, <2>1 DEF Decoded, Kept
  <2>4. reader'.remaining = 0 /\ reader'.points = Append(reader.points, c)
    BY <1>1, <1>5, <2>1, <2>2, <2>3, CharacterIsRead
  <2>5. Same(reader.points, reader.points)
    BY DEF Same
  <2>6. Tells(Append(reader.points, c), i)
    BY <1>1, <1>2, <1>5, <2>5, TellsMore
  <2>7. Told(i)'
    BY <1>11, <2>2, <2>4, <2>6, ToldNext
  <2>8. KeptWasAlone(i)'
    BY <2>2 DEF KeptWasAlone, Kept
  <2>9. k + 1 = Len(s)
    BY <1>3, <1>7, <1>13
  <2> QED
    BY <2>2, <2>4, <2>7, <2>8, <2>9 DEF Moved, Behind
<1> QED
  BY <1>12, <1>13

\* A byte of a character, whatever its form.
LEMMA CharacterStep ==
  ASSUME NEW i, NEW k, NEW s, NEW c, At(i, k, s, c), ScanByte,
         k = 0 => AtRest /\ reader.remaining = 0 /\ KeptWasAlone(i - 1),
         k > 0 => InCharacter(i, k)
  PROVE  Moved(i, k, s) /\ Forth
<1>1. Kind(s, c) /\ s = Piece(i) /\ c = body.prompt[i] /\ k \in Nat
  BY AtFacts DEF At
<1>2. k > 0 =>
        \/ IsRaw(s, c) /\ AtRest /\ Reading(reader, c, Len(s) - k, Len(s)) /\ KeptWasAlone(i - 1)
        \/ IsShort(s, c) /\ InEscape(c, 1) /\ KeptWasAlone(i - 1)
        \/ IsEscape(s, c) /\ InEscape(c, k) /\ KeptWasAlone(i - 1)
        \/ IsPair(s, c) /\ k < 6 /\ InEscape(HighHalf(c), k) /\ KeptWasAlone(i - 1)
        \/ /\ IsPair(s, c) /\ k = 6 /\ AtRest /\ reader.remaining = 0
           /\ unicode_high_surrogate = HighHalf(c)
        \/ IsPair(s, c) /\ k > 6 /\ InEscape(LowHalf(c), k - 6) /\ unicode_high_surrogate = HighHalf(c)
  BY <1>1 DEF InCharacter
<1>3. k = 0 \/ k > 0
  BY <1>1
<1>4. ASSUME IsPair(s, c), k < 6, Inside(i, k + 1)'
      PROVE  Moved(i, k, s)
  BY <1>1, <1>4 DEF Moved, IsPair
<1>5. CASE k = 0
  <2>1. AtRest /\ reader.remaining = 0 /\ KeptWasAlone(i - 1) /\ ~(k > 0)
    BY <1>5
  <2>2. CASE IsRaw(s, c)
    BY <2>1, <2>2, RawStep
  <2>3. CASE IsShort(s, c)
    BY <2>1, <2>3, ShortStep
  <2>4. CASE IsEscape(s, c)
    BY <2>1, <2>4, EscapedStep
  <2>5. CASE IsPair(s, c)
    <3>1. k < 6
      BY <1>5
    <3> QED
      BY <1>4, <2>1, <2>5, <3>1, HighStep
  <2> QED
    BY <1>1, <2>2, <2>3, <2>4, <2>5 DEF Kind
<1>6. CASE k > 0
  <2>1. ~(k = 0)
    BY <1>6
  <2>2. CASE IsRaw(s, c) /\ AtRest /\ Reading(reader, c, Len(s) - k, Len(s)) /\ KeptWasAlone(i - 1)
    BY <2>1, <2>2, RawStep
  <2>3. CASE IsShort(s, c) /\ InEscape(c, 1) /\ KeptWasAlone(i - 1)
    BY <2>1, <2>3, ShortStep
  <2>4. CASE IsEscape(s, c) /\ InEscape(c, k) /\ KeptWasAlone(i - 1)
    BY <2>1, <2>4, EscapedStep
  <2>5. CASE IsPair(s, c) /\ k < 6 /\ InEscape(HighHalf(c), k) /\ KeptWasAlone(i - 1)
    BY <1>4, <2>1, <2>5, HighStep
  <2>6. CASE /\ IsPair(s, c) /\ k = 6 /\ AtRest /\ reader.remaining = 0
             /\ unicode_high_surrogate = HighHalf(c)
    <3>1. k >= 6 /\ ~(k > 6)
      BY <2>6
    <3> QED
      BY <2>6, <3>1, LowStep
  <2>7. CASE /\ IsPair(s, c) /\ k > 6 /\ InEscape(LowHalf(c), k - 6)
             /\ unicode_high_surrogate = HighHalf(c)
    <3>1. k >= 6 /\ ~(k = 6)
      BY <1>1, <2>7
    <3> QED
      BY <2>7, <3>1, LowStep
  <2> QED
    BY <1>2, <1>6, <2>2, <2>3, <2>4, <2>5, <2>6, <2>7
<1> QED
  BY <1>3, <1>5, <1>6

\* The content up to its quote.
LEMMA Onward ==
  ASSUME TypeInv, Meant, HasContent, in_content, ~ended, ScanByte, NEW i \in 1 .. Count, Within(i)
  PROVE  Forth /\ \E j \in 1 .. Count + 1 : Within(j)'
<1>1. /\ body.at[i] \in Nat /\ body.at[i + 1] \in Nat
      /\ Len(Piece(i)) = body.at[i + 1] - body.at[i] /\ body.json \in Seq(Bytes)
      /\ \A n \in 1 .. Len(Piece(i)) : Piece(i)[n] = body.json[body.at[i] + n]
      /\ Count \in Nat /\ i \in Nat /\ pos \in Nat
  <2>1. pos \in Nat
    BY DEF TypeInv, Inv, Types
  <2>2. Count \in Nat /\ body.json \in Seq(Bytes)
    BY Described
  <2>3. i \in Nat
    OBVIOUS
  <2> QED
    BY <2>1, <2>2, <2>3, PieceBytes
<1>2. PICK m \in Nat, n \in Nat : m = body.at[i] /\ n = body.at[i + 1]
  BY <1>1
<1>3. PICK s, c : s = Piece(i) /\ c = body.prompt[i]
  OBVIOUS
<1>4. i # Count + 1
  BY <1>1
<1>5. m <= pos /\ pos < n
  BY <1>2, <1>4 DEF Within
<1>6. PICK k \in Nat : k = pos - m
  BY <1>1, <1>5
<1>7. k < Len(s) /\ Len(s) = n - m /\ Byte = s[k + 1]
  <2>1. k < Len(s) /\ Len(s) = n - m
    BY <1>1, <1>2, <1>3, <1>5, <1>6
  <2>2. k + 1 \in 1 .. Len(s) /\ m + (k + 1) = pos + 1
    BY <1>1, <1>6, <2>1
  <2> QED
    BY <1>1, <1>2, <1>3, <2>1, <2>2 DEF Byte
<1>8. PICK l \in Nat : l = Len(s) /\ k < l /\ l = n - m
  BY <1>1, <1>2, <1>5, <1>6, <1>7
<1>9. At(i, k, s, c)
  BY <1>2, <1>3, <1>6, <1>7 DEF At, Within
<1>10. Moved(i, k, s) /\ Forth
  <2>1. k = 0 => AtRest /\ reader.remaining = 0 /\ KeptWasAlone(i - 1)
    BY <1>1, <1>2, <1>6 DEF Within
  <2>2. k > 0 => InCharacter(i, k)
    BY <1>1, <1>2, <1>6 DEF Within
  <2> QED
    BY <1>9, <2>1, <2>2, CharacterStep
<1>11. body' = body /\ pos' = pos + 1 /\ m = body'.at[i] /\ n = body'.at[i + 1] /\ Count' = Count
  BY <1>2, <1>10 DEF Forth, Count
<1>12. CASE k + 1 < Len(s)
  <2>1. Told(i - 1)' /\ InCharacter(i, k + 1)'
    BY <1>10, <1>12 DEF Moved, Inside
  <2>2. m <= pos' /\ pos' < n /\ pos' # m /\ pos' - m = k + 1
    <3>1. k + 1 < n - m
      BY <1>12, <1>8
    <3>2. pos = m + k /\ pos' = pos + 1
      BY <1>1, <1>6, <1>11
    <3> QED
      BY <3>1, <3>2
  <2>3. Within(i)'
    BY <1>4, <1>11, <2>1, <2>2 DEF Within
  <2>4. i \in 1 .. Count + 1
    BY <1>1
  <2> QED
    BY <1>10, <2>3, <2>4
<1>13. CASE k + 1 = Len(s)
  <2>1. PICK j \in 1 .. Count + 1 : j = i + 1
    BY <1>1
  <2>2. Told(j - 1)' /\ AtRest' /\ reader'.remaining = 0 /\ KeptWasAlone(j - 1)'
    <3>1. Told(i)' /\ AtRest' /\ reader'.remaining = 0 /\ KeptWasAlone(i)' /\ i = j - 1
      BY <1>1, <1>10, <1>13, <2>1 DEF Moved, Behind
    <3> QED
      BY <3>1
  <2>3. pos' = n /\ n = body'.at[j]
    <3>1. k + 1 = n - m
      BY <1>13, <1>8
    <3>2. pos = m + k /\ pos' = pos + 1
      BY <1>1, <1>6, <1>11
    <3>3. pos' = n
      BY <3>1, <3>2
    <3> QED
      BY <1>11, <2>1, <3>3
  <2>4. j # Count + 1 => n < body'.at[j + 1]
    <3>1. j # Count + 1 => j \in 1 .. Count
      <4>1. Count \in Nat
        BY <1>1
      <4> QED
        BY <4>1
    <3>2. j # Count + 1 => body.at[j] < body.at[j + 1]
      BY <3>1, PieceBytes
    <3> QED
      BY <1>11, <2>3, <3>2
  <2>5. Within(j)'
    BY <1>11, <2>2, <2>3, <2>4 DEF Within
  <2> QED
    BY <1>10, <2>5
<1> QED
  BY <1>12, <1>13, <1>8

\* The quote that closes the content: the whole prompt is told.
LEMMA ContentEnds ==
  ASSUME TypeInv, Meant, HasContent, in_content, ScanByte, Within(Count + 1)
  PROVE  ended' /\ Told(Count)'
<1>1. Count \in Nat /\ body.json[body.at[Count + 1] + 1] = Quote
  BY ContentPlaces, Described
<1>2. (Count + 1) - 1 = Count
  BY <1>1
<1>3. pos = body.at[Count + 1] /\ Told(Count) /\ AtRest /\ reader.remaining = 0
  BY <1>2 DEF Within
<1>4. Byte = Quote
  BY <1>1, <1>3 DEF Byte
<1>5. EndOfContent
  BY <1>3, <1>4, ByteIsTaken
<1>6. ended' /\ body' = body /\ reader' = reader
  BY <1>3, <1>5 DEF EndOfContent, Take, ReadEnd
<1> QED
  BY <1>3, <1>6 DEF Told, Tells, Count

-----------------------------------------------------------------------------
(* The key of the content. *)

LEMMA KeyIs ==
  /\ KeyChars[1] = 34 /\ KeyChars[8] = 116
  /\ \A q \in 0 .. 9 : KeyChars[q + 1] = 34 => q = 0 \/ q = 8
<1>1. /\ KeyChars[1] = 34 /\ KeyChars[2] = 99 /\ KeyChars[3] = 111 /\ KeyChars[4] = 110
      /\ KeyChars[5] = 116 /\ KeyChars[6] = 101 /\ KeyChars[7] = 110 /\ KeyChars[8] = 116
      /\ KeyChars[9] = 34 /\ KeyChars[10] = 58
  BY DEF KeyChars
<1>2. ASSUME NEW q \in 0 .. 9, KeyChars[q + 1] = 34
      PROVE  q = 0 \/ q = 8
  <2>1. \/ q = 0 \/ q = 1 \/ q = 2 \/ q = 3 \/ q = 4 \/ q = 5 \/ q = 6 \/ q = 7 \/ q = 8 \/ q = 9
    OBVIOUS
  <2> HIDE DEF KeyChars
  <2> QED
    BY <1>1, <1>2, <2>1
<1> QED
  BY <1>1, <1>2

\* Before the content a byte is of the key or comes after it.
Searches(b, q) ==
  /\ pos \in Nat /\ pos < Len(body.json) /\ Len(body.json) \in Nat /\ pos' = pos + 1
  /\ DOMAIN body.json = 1 .. Len(body.json)
  /\ body' = body /\ b = body.json[pos + 1] /\ q = content_key_pos /\ q \in 0 .. 9 /\ q <= pos
  /\ reader' = reader /\ ended' = ended
  /\ UNCHANGED << escaped, unicode_remaining, unicode_high_surrogate >>

\* The key goes on, it begins again, or it does not.
KeyFinds(b, q) ==
  /\ ~waiting_for_quote /\ ~in_content'
  /\ \/ b = KeyChars[q + 1] /\ q < 9 /\ content_key_pos' = q + 1 /\ ~waiting_for_quote'
     \/ b = KeyChars[q + 1] /\ q = 9 /\ content_key_pos' = 0 /\ waiting_for_quote'
     \/ /\ b # KeyChars[q + 1] /\ ~waiting_for_quote'
        /\ content_key_pos' = IF b = 34 THEN 1 ELSE 0

Waits(b, q) ==
  /\ waiting_for_quote /\ content_key_pos' = q
  /\ (in_content' <=> b = 34) /\ (waiting_for_quote' <=> b \in { 32, 9 })

LEMMA SearchStep ==
  ASSUME TypeInv, ScanByte, ~in_content
  PROVE  \E b, q : Searches(b, q) /\ (KeyFinds(b, q) \/ Waits(b, q))
<1>1. KeyByte \/ WaitingByte
  BY DEF ScanByte, PlainByte, BeginEscape, EndOfContent, InText, EscapedByte, BadHex, HexDigit,
         LastHexDigit
<1>2. /\ pos \in Nat /\ content_key_pos \in 0 .. 9 /\ content_key_pos <= pos
      /\ body.json \in Seq(Nat) /\ waiting_for_quote \in BOOLEAN
  BY KeyLength DEF TypeInv, Inv, Types, BeforeContent, Flags
<1>3. PICK b, q : b = Byte /\ q = content_key_pos
  OBVIOUS
<1>4. Searches(b, q)
  <2>1. Len(body.json) \in Nat /\ DOMAIN body.json = 1 .. Len(body.json)
    BY <1>2
  <2>2. /\ Take /\ reader' = reader /\ ended' = ended
        /\ UNCHANGED << escaped, unicode_remaining, unicode_high_surrogate >>
    BY <1>1 DEF KeyByte, WaitingByte, escapeVars, outVars
  <2> QED
    BY <1>2, <1>3, <2>1, <2>2 DEF Searches, Take, Byte
<1>5. ASSUME KeyByte
      PROVE  KeyFinds(b, q)
  <2>1. q \in 0 .. 9 /\ ~waiting_for_quote /\ ~in_content'
    BY <1>2, <1>3, <1>5 DEF KeyByte
  <2>2. /\ b = KeyChars[q + 1] =>
             content_key_pos' = (q + 1) % 10 /\ (waiting_for_quote' <=> content_key_pos' = 0)
        /\ b # KeyChars[q + 1] =>
             content_key_pos' = (IF b = 34 THEN 1 ELSE 0) /\ ~waiting_for_quote'
    BY <1>3, <1>5, KeyLength DEF KeyByte, Quote
  <2>3. (q < 9 => (q + 1) % 10 = q + 1 /\ q + 1 # 0) /\ (q = 9 => (q + 1) % 10 = 0) /\ (q < 9 \/ q = 9)
    BY <2>1
  <2> QED
    BY <2>1, <2>2, <2>3 DEF KeyFinds
<1>6. ASSUME WaitingByte
      PROVE  Waits(b, q)
  BY <1>3, <1>6 DEF WaitingByte, Waits, Quote
<1> QED
  BY <1>1, <1>4, <1>5, <1>6

\* The key was read up to where the parser is.
LEMMA KeySeenStep ==
  ASSUME KeySeen, NEW b, NEW q, Searches(b, q), KeyFinds(b, q) \/ Waits(b, q), ~in_content'
  PROVE  KeySeen'
<1>1. /\ pos \in Nat /\ pos < Len(body.json) /\ Len(body.json) \in Nat /\ pos' = pos + 1
      /\ b = body.json[pos + 1] /\ q = content_key_pos /\ q \in 0 .. 9 /\ q <= pos
  BY DEF Searches
<1>2. PICK d : d = body.json
  OBVIOUS
<1>3. PICK p \in Nat : p = pos
  BY <1>1
<1>4. p < Len(d) /\ Len(d) \in Nat /\ DOMAIN d = 1 .. Len(d)
  BY <1>1, <1>2, <1>3 DEF Searches
<1>5. b = d[p + 1] /\ pos' = p + 1 /\ q <= p /\ d = body'.json
  BY <1>1, <1>2, <1>3 DEF Searches
<1>6. ASSUME ~waiting_for_quote', content_key_pos' = 0
      PROVE  KeySeen'
  BY <1>6 DEF KeySeen
<1>7. CASE KeyFinds(b, q)
  <2>1. \A k \in 1 .. q : d[p - q + k] = KeyChars[k]
    BY <1>1, <1>2, <1>3, <1>4, <1>7 DEF KeyFinds, KeySeen
  <2>2. CASE b = KeyChars[q + 1] /\ q < 9 /\ content_key_pos' = q + 1 /\ ~waiting_for_quote'
    <3>1. \A k \in 1 .. q + 1 : d[(p + 1) - (q + 1) + k] = KeyChars[k]
      <4>1. ASSUME NEW k \in 1 .. q + 1
            PROVE  d[(p + 1) - (q + 1) + k] = KeyChars[k]
        <5>1. (p + 1) - (q + 1) + k = p - q + k /\ (k \in 1 .. q \/ k = q + 1)
              /\ (k = q + 1 => p - q + k = p + 1)
          BY <1>1, <1>2, <1>3, <1>4
        <5> QED
          BY <1>5, <2>1, <2>2, <5>1
      <4> QED
        BY <4>1
    <3> QED
      BY <1>5, <2>2, <3>1 DEF KeySeen
  <2>3. CASE b = KeyChars[q + 1] /\ q = 9 /\ content_key_pos' = 0 /\ waiting_for_quote'
    <3>1. PICK i \in 1 .. Len(d) : i = p - 8
      BY <1>2, <1>3, <1>4, <1>5, <2>3
    <3>2. i + 10 <= (p + 1) + 1 /\ \A k \in i + 10 .. p + 1 : FALSE
      BY <1>2, <1>3, <1>4, <3>1
    <3>3. \A k \in 1 .. 10 : d[i + k - 1] = KeyChars[k]
      <4>1. ASSUME NEW k \in 1 .. 10
            PROVE  d[i + k - 1] = KeyChars[k]
        <5>1. i + k - 1 = p - 9 + k /\ (k \in 1 .. 9 \/ k = 10) /\ (k = 10 => p - 9 + k = p + 1)
          BY <1>3, <3>1
        <5>2. CASE k \in 1 .. 9
          <6>1. d[p - 9 + k] = KeyChars[k]
            BY <2>1, <2>3, <5>2
          <6> QED
            BY <5>1, <6>1
        <5>3. CASE k = 10
          <6>1. KeyChars[10] = d[p + 1]
            BY <1>5, <2>3
          <6> QED
            BY <5>1, <5>3, <6>1
        <5> QED
          BY <5>1, <5>2, <5>3
      <4> QED
        BY <4>1
    <3>4. i \in DOMAIN d
      BY <1>4, <3>1
    <3> QED
      BY <1>5, <2>3, <3>2, <3>3, <3>4, KeyLength DEF KeySeen
  <2>4. CASE /\ b # KeyChars[q + 1] /\ ~waiting_for_quote'
             /\ content_key_pos' = IF b = 34 THEN 1 ELSE 0
    <3>1. CASE b = 34
      <4>1. \A k \in 1 .. 1 : k = 1 /\ (p + 1) - 1 + k = p + 1
        BY <1>2, <1>3, <1>4
      <4>2. \A k \in 1 .. 1 : d[(p + 1) - 1 + k] = KeyChars[k]
        BY <1>5, <3>1, <4>1, KeyIs
      <4>3. content_key_pos' = 1
        BY <2>4, <3>1
      <4> QED
        BY <1>5, <2>4, <4>2, <4>3 DEF KeySeen
    <3>2. CASE b # 34
      BY <1>6, <2>4, <3>2
    <3> QED
      BY <3>1, <3>2
  <2> QED
    BY <1>7, <2>2, <2>3, <2>4 DEF KeyFinds
<1>8. CASE Waits(b, q)
  <2>1. PICK i \in DOMAIN d :
          /\ i + 10 <= p + 1 /\ q = 0
          /\ \A k \in 1 .. 10 : d[i + k - 1] = KeyChars[k]
          /\ \A k \in i + 10 .. p : d[k] \in { 32, 9 }
    BY <1>1, <1>2, <1>3, <1>4, <1>8, KeyLength DEF KeySeen, Waits
  <2>2. CASE b \in { 32, 9 }
    <3>1. \A k \in i + 10 .. p + 1 : d[k] \in { 32, 9 }
      <4>1. \A k \in i + 10 .. p + 1 : k \in i + 10 .. p \/ k = p + 1
        BY <1>2, <1>3, <1>4
      <4> QED
        BY <1>5, <2>1, <2>2, <4>1
    <3>2. i + 10 <= (p + 1) + 1
      <4>1. i \in Nat
        BY <1>4
      <4> QED
        BY <2>1, <4>1
    <3>3. waiting_for_quote' /\ content_key_pos' = 0
      BY <1>8, <2>1, <2>2 DEF Waits
    <3> QED
      BY <1>5, <2>1, <3>1, <3>2, <3>3, KeyLength DEF KeySeen
  <2>3. CASE b \notin { 32, 9 }
    BY <1>6, <1>8, <2>1, <2>3 DEF Waits
  <2> QED
    BY <2>2, <2>3
<1> QED
  BY <1>7, <1>8

\* One key that the content may have.
Follows(i, p) ==
  IF p - i < 9 THEN ~waiting_for_quote /\ content_key_pos = p - i + 1 ELSE waiting_for_quote

LEMMA FollowedAre ==
  ASSUME NEW d, d = body.json, NEW j, j = Start, NEW p, p = pos
  PROVE  KeyFollowed <=>
           \A i \in DOMAIN d : Opens(d, i, j) /\ BeginsMember(d, i) /\ i <= p => Follows(i, p)
<1>1. Len(KeyChars) - 1 = 9
  BY KeyLength
<1> QED
  BY <1>1 DEF KeyFollowed, Follows

\* It is followed by a byte more.
LEMMA FollowsStep ==
  ASSUME KeySeen, NEW b, NEW q, Searches(b, q), KeyFinds(b, q) \/ Waits(b, q), ~in_content',
         NEW i \in DOMAIN body.json, NEW j \in Nat, pos < j,
         Opens(body.json, i, j), BeginsMember(body.json, i),
         i <= pos => Follows(i, pos), i <= pos + 1
  PROVE  Follows(i, pos)'
<1>1. PICK d : d = body.json
  OBVIOUS
<1>2. PICK p \in Nat : p = pos
  BY DEF Searches
<1>3. /\ DOMAIN d = 1 .. Len(d) /\ Len(d) \in Nat /\ b = d[p + 1] /\ pos' = p + 1
      /\ q = content_key_pos /\ q \in 0 .. 9 /\ q <= p
  BY <1>1, <1>2 DEF Searches
<1>4. /\ i + 10 <= j /\ \A k \in 1 .. 10 : d[i + k - 1] = KeyChars[k]
      /\ \A k \in i + 10 .. j - 1 : d[k] \in { 32, 9 }
      /\ d[j] = 34
  BY <1>1, KeyLength DEF Opens, Quote
<1>5. PICK m \in Nat : m = i /\ m >= 1
  BY <1>1, <1>3
<1>6. p < j /\ (m = p + 1 \/ m <= p)
  BY <1>2, <1>5
<1> SUFFICES (IF (p + 1) - m < 9 THEN ~waiting_for_quote' /\ content_key_pos' = (p + 1) - m + 1
              ELSE waiting_for_quote')
  BY <1>2, <1>3, <1>5 DEF Follows
<1>7. CASE KeyFinds(b, q)
  <2>1. CASE m <= p
    <3>1. p - m < 9 /\ q = p - m + 1
      BY <1>2, <1>3, <1>5, <1>7, <2>1 DEF Follows, KeyFinds
    <3>2. q + 1 \in 1 .. 10 /\ m + (q + 1) - 1 = p + 1
      <4>1. q \in 0 .. 9 /\ p \in Nat /\ m \in Nat
        BY <1>2, <1>3, <1>5
      <4> QED
        BY <3>1, <4>1
    <3>3. b = KeyChars[q + 1]
      BY <1>3, <1>4, <1>5, <3>2
    <3>4. \/ q < 9 /\ content_key_pos' = q + 1 /\ ~waiting_for_quote'
          \/ q = 9 /\ waiting_for_quote'
      BY <1>7, <3>3 DEF KeyFinds
    <3> QED
      BY <1>3, <3>1, <3>4
  <2>2. CASE m = p + 1
    <3>1. b = 34
      <4>1. 1 \in 1 .. 10 /\ i + 1 - 1 = p + 1
        BY <1>5, <2>2
      <4>2. d[i + 1 - 1] = 34
        BY <1>4, <4>1, KeyIs
      <4> QED
        BY <1>3, <4>1, <4>2
    <3>2. q # 8
      <4>1. SUFFICES ASSUME q = 8 PROVE FALSE
        OBVIOUS
      <4>2. \A k \in 1 .. q : d[p - q + k] = KeyChars[k]
        BY <1>1, <1>2, <1>3, <1>7 DEF KeySeen, KeyFinds
      <4>3. 8 \in 1 .. q /\ p - q + 8 = m - 1 /\ m > 1
        BY <1>3, <2>2, <4>1
      <4>4. d[m - 1] = 116
        BY <4>2, <4>3, KeyIs
      <4>5. d[m - 1] \in { 123, 44, 32, 9, 10, 13 }
        BY <1>1, <1>5, <4>3 DEF BeginsMember
      <4> QED
        BY <4>4, <4>5
    <3>3. ~waiting_for_quote' /\ content_key_pos' = 1
      <4>1. CASE b = KeyChars[q + 1]
        <5>1. q = 0
          BY <1>3, <3>1, <3>2, <4>1, KeyIs
        <5> QED
          BY <1>7, <4>1, <5>1 DEF KeyFinds
      <4>2. CASE b # KeyChars[q + 1]
        BY <1>7, <3>1, <4>2 DEF KeyFinds
      <4> QED
        BY <4>1, <4>2
    <3> QED
      BY <2>2, <3>3
  <2> QED
    BY <1>6, <2>1, <2>2
<1>8. CASE Waits(b, q)
  <2>1. b # 34
    BY <1>8 DEF Waits
  <2>2. m # p + 1
    <3>1. SUFFICES ASSUME m = p + 1 PROVE FALSE
      OBVIOUS
    <3>2. 1 \in 1 .. 10 /\ m + 1 - 1 = p + 1
      BY <3>1
    <3> QED
      BY <1>3, <1>4, <1>5, <2>1, <3>2, KeyIs
  <2>3. m <= p /\ p - m >= 9
    <3>1. waiting_for_quote /\ m <= p
      BY <1>6, <1>8, <2>2 DEF Waits
    <3> QED
      BY <1>2, <1>5, <3>1 DEF Follows
  <2>4. p + 1 # j
    BY <1>3, <1>4, <2>1
  <2>5. p + 1 \in m + 10 .. j - 1
    BY <1>6, <2>3, <2>4
  <2>6. b \in { 32, 9 }
    BY <1>3, <1>4, <1>5, <2>5
  <2> QED
    BY <1>8, <2>3, <2>6 DEF Waits
<1> QED
  BY <1>7, <1>8

LEMMA KeyFollowedStep ==
  ASSUME KeySeen, KeyFollowed, NEW b, NEW q, Searches(b, q), KeyFinds(b, q) \/ Waits(b, q),
         ~in_content', Start \in Nat, pos < Start
  PROVE  KeyFollowed'
<1>1. PICK d, j, p : d = body.json /\ j = Start /\ p = pos
  OBVIOUS
<1>2. body' = body /\ pos' = p + 1 /\ p \in Nat
  BY <1>1 DEF Searches
<1>3. d = body'.json /\ j = Start'
  BY <1>1, <1>2 DEF Start
<1>4. \A i \in DOMAIN d : Opens(d, i, j) /\ BeginsMember(d, i) /\ i <= p => Follows(i, p)
  BY <1>1, FollowedAre
<1>5. ASSUME NEW i \in DOMAIN d, Opens(d, i, j), BeginsMember(d, i), i <= p + 1
      PROVE  Follows(i, p + 1)'
  <2>1. Follows(i, pos)'
    BY <1>1, <1>4, <1>5, FollowsStep
  <2> QED
    BY <1>1, <1>2, <2>1 DEF Follows
<1>6. KeyFollowed' <=>
        \A i \in DOMAIN d : Opens(d, i, j) /\ BeginsMember(d, i) /\ i <= p + 1 => Follows(i, p + 1)'
  BY <1>2, <1>3, KeyLength DEF KeyFollowed, Follows
<1> QED
  BY <1>5, <1>6

\* Nothing of the prompt is told at first.
LEMMA NothingTold ==
  ASSUME NEW p, p = << >>
  PROVE  Tells(p, 0)
<1>1. SubSeq(body.prompt, 1, 0) = << >>
  OBVIOUS
<1>2. \A S : Without(<< >>, S) = << >>
  BY WithoutNone
<1> QED
  BY <1>1, <1>2 DEF Tells

\* A key and a quote that the parser finds are those of the content.
LEMMA OpensContent ==
  ASSUME TypeInv, Meant, KeySeen, waiting_for_quote, pos \in Nat, pos < Len(body.json),
         Len(body.json) \in Nat, DOMAIN body.json = 1 .. Len(body.json), body.json[pos + 1] = 34
  PROVE  HasContent /\ Start <= pos + 1
<1>1. PICK i \in DOMAIN body.json : Opens(body.json, i, pos + 1)
  <2>1. PICK i \in DOMAIN body.json :
          /\ i + Len(KeyChars) <= pos + 1
          /\ \A k \in 1 .. Len(KeyChars) : body.json[i + k - 1] = KeyChars[k]
          /\ \A k \in i + Len(KeyChars) .. pos : body.json[k] \in { 32, 9 }
    BY DEF KeySeen
  <2>2. (pos + 1) - 1 = pos
    OBVIOUS
  <2> QED
    BY <2>1, <2>2 DEF Opens, Quote
<1>2. pos + 1 \in DOMAIN body.json
  OBVIOUS
<1>3. Encodes(body)
  BY Described
<1>4. body.at # << >>
  BY <1>1, <1>2, <1>3 DEF Encodes
<1>5. body.at[1] <= pos + 1
  BY <1>1, <1>2, <1>3, <1>4 DEF Encodes
<1> QED
  BY <1>4, <1>5 DEF HasContent, Start

\* The content is not passed by, and it begins with none of its characters read.
LEMMA KeyStep ==
  ASSUME TypeInv, ~ended, ~in_content, BeforeKey, ScanByte
  PROVE  /\ ~ended' /\ (~in_content' => BeforeKey')
         /\ in_content' /\ Meant' => HasContent' /\ Within(1)'
<1>1. PICK b, q : Searches(b, q) /\ (KeyFinds(b, q) \/ Waits(b, q))
  BY SearchStep
<1>2. reader = NewReader /\ KeySeen /\ (Meant /\ HasContent => pos < Start /\ KeyFollowed)
  BY DEF BeforeKey
<1>3. /\ pos \in Nat /\ pos < Len(body.json) /\ Len(body.json) \in Nat
      /\ DOMAIN body.json = 1 .. Len(body.json) /\ pos' = pos + 1 /\ body' = body
      /\ b = body.json[pos + 1] /\ reader' = NewReader /\ ~ended'
      /\ UNCHANGED << escaped, unicode_remaining, unicode_high_surrogate >>
  BY <1>1, <1>2 DEF Searches
<1>4. ~escaped /\ unicode_remaining = 0 /\ ~Kept
  BY DEF TypeInv, Inv, BeforeContent, Kept
<1>5. Meant' = Meant /\ HasContent' = HasContent /\ Start' = Start /\ Count' = Count
  BY <1>3 DEF Meant, HasContent, Start, Count
<1>6. ASSUME Meant, HasContent
      PROVE  Start \in Nat
  BY <1>6, ContentPlaces
<1>7. ASSUME ~in_content'
      PROVE  BeforeKey'
  <2>1. KeySeen'
    BY <1>1, <1>2, <1>7, KeySeenStep
  <2>2. ASSUME Meant, HasContent
        PROVE  pos' < Start' /\ KeyFollowed'
    <3>1. pos < Start /\ KeyFollowed /\ Start \in Nat
      BY <1>2, <1>6, <2>2
    <3>2. KeyFollowed'
      BY <1>1, <1>2, <1>7, <3>1, KeyFollowedStep
    <3>3. pos + 1 # Start
      <4>1. SUFFICES ASSUME pos + 1 = Start PROVE FALSE
        OBVIOUS
      <4>2. PICK i \in DOMAIN body.json : Opens(body.json, i, Start) /\ BeginsMember(body.json, i)
        BY <2>2, Described DEF Encodes, HasContent, Start
      <4>3. i + 10 <= Start /\ body.json[Start] = 34
        BY <4>2, KeyLength DEF Opens, Quote
      <4>4. i \in Nat
        BY <1>3
      <4>5. i <= pos /\ ~(pos - i < 9)
        BY <1>3, <4>1, <4>3, <4>4
      <4>6. waiting_for_quote
        BY <3>1, <4>2, <4>5, KeyLength DEF KeyFollowed
      <4>7. b = 34
        BY <1>3, <4>1, <4>3
      <4> QED
        BY <1>1, <1>7, <4>6, <4>7 DEF KeyFinds, Waits
    <3> QED
      BY <1>3, <1>5, <3>1, <3>2, <3>3
  <2> QED
    BY <1>3, <1>5, <2>1, <2>2 DEF BeforeKey
<1>8. ASSUME in_content', Meant
      PROVE  HasContent /\ Within(1)'
  <2>1. waiting_for_quote /\ b = 34
    BY <1>1, <1>8 DEF KeyFinds, Waits
  <2>2. HasContent /\ Start <= pos + 1
    BY <1>2, <1>3, <1>8, <2>1, OpensContent
  <2>3. pos < Start /\ Start \in Nat
    BY <1>2, <1>6, <1>8, <2>2
  <2>4. pos' = Start
    BY <1>3, <2>2, <2>3
  <2>5. pos' = body'.at[1]
    BY <1>3, <2>4 DEF Start
  <2>6. Told(0)' /\ AtRest' /\ reader'.remaining = 0
    <3>1. reader.points = << >> /\ reader.remaining = 0 /\ reader' = reader
      BY <1>2, <1>3 DEF NewReader
    <3>2. Tells(<< >>, 0)
      BY NothingTold
    <3> QED
      BY <1>3, <1>4, <3>1, <3>2, ToldNext DEF AtRest
  <2>7. KeptWasAlone(0)'
    BY <1>3, <1>4 DEF KeptWasAlone, Kept
  <2>8. 1 # Count' + 1 => pos' < body'.at[1 + 1]
    <3>1. Count \in Nat
      BY <1>8, Described
    <3>2. ASSUME 1 # Count + 1
          PROVE  body.at[1] < body.at[1 + 1]
      <4>1. 1 \in 1 .. Count
        BY <3>1, <3>2
      <4> QED
        BY <1>8, <2>2, <4>1, PieceBytes
    <3> QED
      BY <1>3, <1>5, <2>5, <3>2
  <2>9. body'.at[1] <= pos'
    BY <1>3, <2>3, <2>4, <2>5
  <2>10. 1 - 1 = 0
    OBVIOUS
  <2> QED
    BY <2>2, <2>5, <2>6, <2>7, <2>8, <2>9, <2>10 DEF Within
<1> QED
  BY <1>3, <1>5, <1>7, <1>8

-----------------------------------------------------------------------------
(* The invariant of the prompt. *)

LEMMA PromptInitial == Init => PromptInv
<1> SUFFICES ASSUME Init PROVE PromptInv
  OBVIOUS
<1>1. TypeInv
  BY TypesInitial
<1>2. /\ reader = NewReader /\ ~ended /\ ~in_content /\ pos = 0 /\ content_key_pos = 0
      /\ ~waiting_for_quote
  BY DEF Init
<1>3. KeySeen
  BY <1>2 DEF KeySeen
<1>4. ASSUME Meant, HasContent
      PROVE  pos < Start /\ KeyFollowed
  <2>1. Start \in 1 .. Len(body.json) - 1 /\ body.json \in Seq(Bytes)
    BY <1>1, <1>4, ContentPlaces, Described
  <2>2. \A i \in DOMAIN body.json : ~(i <= pos)
    BY <1>2, <2>1
  <2> QED
    BY <1>2, <2>1, <2>2 DEF KeyFollowed
<1> QED
  BY <1>2, <1>3, <1>4 DEF PromptInv, BeforeKey

\* A byte that is scanned.
LEMMA PromptScan == TypeInv /\ PromptInv /\ ScanByte => PromptInv'
<1> SUFFICES ASSUME TypeInv, PromptInv, ScanByte PROVE PromptInv'
  OBVIOUS
<1>1. ~ended /\ body' = body
  BY DEF ScanByte, KeyByte, WaitingByte, PlainByte, BeginEscape, EndOfContent, EscapedByte, BadHex,
         HexDigit, LastHexDigit, Take
<1>2. Meant' = Meant /\ HasContent' = HasContent /\ Count' = Count
  BY <1>1 DEF Meant, HasContent, Count
<1>3. CASE ~in_content
  <2>1. BeforeKey
    BY <1>1, <1>3 DEF PromptInv
  <2>2. /\ ~ended' /\ (~in_content' => BeforeKey')
        /\ in_content' /\ Meant' => HasContent' /\ Within(1)'
    BY <1>1, <1>3, <2>1, KeyStep
  <2>3. Meant => 1 \in 1 .. Count + 1
    BY Described
  <2> QED
    BY <1>2, <2>2, <2>3 DEF PromptInv
<1>4. CASE in_content
  <2>1. in_content'
    <3>1. CASE KeyByte \/ WaitingByte
      BY <1>4, <3>1 DEF KeyByte, WaitingByte
    <3>2. CASE ~KeyByte /\ ~WaitingByte
      BY <1>4, <3>2 DEF ScanByte, PlainByte, BeginEscape, EndOfContent, EscapedByte, BadHex,
                        HexDigit, LastHexDigit, keyVars
    <3> QED
      BY <3>1, <3>2
  <2>2. CASE ~Meant
    BY <1>2, <2>1, <2>2 DEF PromptInv
  <2>3. CASE Meant
    <3>1. HasContent /\ \E i \in 1 .. Count + 1 : Within(i)
      BY <1>1, <1>4, <2>3 DEF PromptInv
    <3>2. PICK i \in 1 .. Count + 1 : Within(i)
      BY <3>1
    <3>3. Count \in Nat
      BY <2>3, Described
    <3>4. CASE i \in 1 .. Count
      <4>1. Forth /\ \E j \in 1 .. Count + 1 : Within(j)'
        BY <1>1, <1>4, <2>3, <3>1, <3>2, <3>4, Onward
      <4>2. ~ended'
        BY <1>1, <4>1 DEF Forth
      <4> QED
        BY <1>2, <2>1, <3>1, <4>1, <4>2 DEF PromptInv
    <3>5. CASE i = Count + 1
      <4>1. Within(Count + 1)
        BY <3>2, <3>5
      <4>2. ended' /\ Told(Count)'
        BY <1>4, <2>3, <3>1, <4>1, ContentEnds
      <4> QED
        BY <1>2, <4>2 DEF PromptInv
    <3> QED
      BY <3>2, <3>3, <3>4, <3>5
  <2> QED
    BY <2>2, <2>3
<1> QED
  BY <1>3, <1>4 DEF TypeInv, Flags

\* A body that ends has no content, or it is no JSON.
LEMMA PromptBodyEnds == TypeInv /\ PromptInv /\ EndOfBody => PromptInv'
<1> SUFFICES ASSUME TypeInv, PromptInv, EndOfBody PROVE PromptInv'
  OBVIOUS
<1> SUFFICES ASSUME Meant PROVE Told(Count)'
  BY DEF EndOfBody, PromptInv, Meant
<1>1. /\ ~ended /\ pos = Len(body.json) /\ reader' = ReadEnd(reader) /\ body' = body
      /\ Count' = Count
  BY DEF EndOfBody, Count
<1>2. Len(body.json) \in Nat /\ Count \in Nat
  BY Described
<1>3. CASE ~in_content
  <2>1. reader = NewReader /\ (HasContent => pos < Start)
    BY <1>1, <1>3 DEF PromptInv, BeforeKey
  <2>2. ~HasContent
    <3>1. HasContent => Start \in 1 .. Len(body.json) - 1
      BY ContentPlaces
    <3> QED
      BY <1>1, <1>2, <2>1, <3>1
  <2>3. Count = 0
    BY <2>2, Described DEF HasContent, Encodes, Count
  <2>4. reader'.points = << >>
    BY <1>1, <2>1 DEF ReadEnd, NewReader
  <2>5. Tells(<< >>, Count)
    BY <2>3, NothingTold
  <2>6. Told(Count)'
    BY <1>1, <2>4, <2>5 DEF Told, Tells
  <2> QED
    BY <2>6
<1>4. CASE in_content
  <2>1. PICK i \in 1 .. Count + 1 : Within(i)
    BY <1>1, <1>4 DEF PromptInv
  <2>2. HasContent
    BY <1>1, <1>4 DEF PromptInv
  <2>3. \A j \in 1 .. Count + 1 : body.at[j] \in 1 .. Len(body.json) - 1
    BY <2>2, ContentPlaces
  <2>4. PICK j \in 1 .. Count + 1 : pos <= body.at[j]
    <3>1. CASE i = Count + 1
      <4>1. pos = body.at[i] /\ body.at[i] \in 1 .. Len(body.json) - 1
        BY <2>1, <2>3, <3>1 DEF Within
      <4>2. pos <= body.at[i]
        BY <1>2, <4>1
      <4> QED
        BY <4>2
    <3>2. CASE i # Count + 1
      <4>1. i + 1 \in 1 .. Count + 1
        BY <1>2, <3>2
      <4>2. pos < body.at[i + 1] /\ body.at[i + 1] \in 1 .. Len(body.json) - 1
        BY <2>1, <2>3, <3>2, <4>1 DEF Within
      <4>3. pos <= body.at[i + 1]
        BY <1>1, <1>2, <4>2
      <4> QED
        BY <4>1, <4>3
    <3> QED
      BY <3>1, <3>2
  <2>5. FALSE
    BY <1>1, <1>2, <2>3, <2>4
  <2> QED
    BY <2>5
<1> QED
  BY <1>3, <1>4 DEF TypeInv, Flags

LEMMA PromptPreserved == TypeInv /\ PromptInv /\ [Next]_vars => PromptInv'
<1> SUFFICES ASSUME TypeInv, PromptInv, [Next]_vars PROVE PromptInv'
  OBVIOUS
<1>1. CASE UNCHANGED vars
  <2>1. UNCHANGED << body, pos, content_key_pos, waiting_for_quote, in_content, escaped,
                     unicode_remaining, unicode_value, unicode_high_surrogate, reader, ended >>
    BY <1>1 DEF vars, keyVars, escapeVars, outVars
  <2>2. Meant' = Meant /\ HasContent' = HasContent /\ Count' = Count
    BY <2>1 DEF Meant, HasContent, Count
  <2>3. BeforeKey => BeforeKey'
    BY <2>1 DEF BeforeKey, KeySeen, KeyFollowed, Meant, HasContent, Start
  <2>4. \A i : Told(i) => Told(i)'
    BY <2>1 DEF Told, Tells
  <2>5. ASSUME NEW i, Within(i)
        PROVE  Within(i)'
    <3>1. \A k : InCharacter(i, k) => InCharacter(i, k)'
      BY <2>1 DEF InCharacter, AtRest, KeptWasAlone, Kept, InEscape, Reading, Piece
    <3> QED
      BY <2>1, <2>2, <2>4, <2>5, <3>1 DEF Within, AtRest, KeptWasAlone, Kept
  <2> QED
    BY <2>1, <2>2, <2>3, <2>4, <2>5 DEF PromptInv
<1> QED
  BY <1>1, PromptScan, PromptBodyEnds DEF Next, Ended

\* When the parser is done it has told the whole prompt.
LEMMA WholeIsScored == TypeInv /\ PromptInv => PromptIsScored
<1> SUFFICES ASSUME TypeInv, PromptInv, ended, Meant
             PROVE  /\ body.form = "exact" => reader.points = body.prompt
                    /\ body.form = "json" =>
                         Without(reader.points, { Blank })
                           = Without(body.prompt, { Blank } \cup Surrogates)
  BY DEF PromptIsScored, Meant
<1>1. Tells(reader.points, Count)
  BY DEF PromptInv, Told
<1>2. SubSeq(body.prompt, 1, Count) = body.prompt
  BY Described, SubSeqFull DEF Count
<1> QED
  BY <1>1, <1>2 DEF Tells

\* Whatever a client's prompt is and however it escaped it, the signals see it:
\* character by character when it is Unicode text, and but for blanks otherwise.
THEOREM PromptIsScoredCorrect == Spec => []PromptIsScored
<1>1. Init => TypeInv /\ PromptInv
  BY TypesInitial, PromptInitial
<1>2. TypeInv /\ PromptInv /\ [Next]_vars => (TypeInv /\ PromptInv)'
  BY TypesPreserved, PromptPreserved
<1> QED
  BY <1>1, <1>2, WholeIsScored, PTL DEF Spec
=============================================================================
