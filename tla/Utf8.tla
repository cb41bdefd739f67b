-------------------------------- MODULE Utf8 ---------------------------------
(***************************************************************************)
(* UTF-8 on both sides of the signals: how the parser writes a decoded     *)
(* escape (sk_score_codepoint in bpf/programs/sk_router.bpf.c) and how the *)
(* n-gram signal reads the bytes again (xdp_jaccard_score_char in          *)
(* bpf/stages/signals/xdp_jaccard_classifier.bpf.h). Bytes and code points *)
(* are numbers.                                                            *)
(***************************************************************************)
EXTENDS Integers, Sequences, SequencesExt

Blank == 32
High(v) == v >= 55296 /\ v <= 56319   (* a high surrogate, D800 .. DBFF *)
Low(v) == v >= 56320 /\ v <= 57343    (* a low surrogate, DC00 .. DFFF *)
MaxPoint == 1114111                   (* 10FFFF *)

\* Six bits of v, in units of one, 2^6 or 2^12, as a continuation byte.
Continuation(v, unit) == 128 + ((v \div unit) % 64)

ScoreCodepoint(v) ==
  IF v <= 127 THEN << v >>
  ELSE IF v <= 2047 THEN << 192 + v \div 64, Continuation(v, 1) >>
  ELSE IF v <= 65535
    THEN << 224 + v \div 4096, Continuation(v, 64), Continuation(v, 1) >>
  ELSE IF v <= MaxPoint
    THEN << 240 + v \div 262144, Continuation(v, 4096), Continuation(v, 64), Continuation(v, 1) >>
  ELSE << Blank >>

-----------------------------------------------------------------------------
(* The reader. "points" are what it has passed on. *)

NewReader == [remaining |-> 0, value |-> 0, min |-> 0, points |-> << >>]

Pass(r, c) == [r EXCEPT !.points = Append(@, c), !.remaining = 0, !.value = 0]

Lead(r, bits, min, remaining) ==
  [r EXCEPT !.value = bits, !.min = min, !.remaining = remaining]

FirstByte(r, byte) ==
  CASE byte < 128          -> Pass(r, byte)
    [] byte \in 192 .. 223 -> Lead(r, byte - 192, 128, 1)
    [] byte \in 224 .. 239 -> Lead(r, byte - 224, 2048, 2)
    [] byte \in 240 .. 247 -> Lead(r, byte - 240, 65536, 3)
    [] OTHER               -> Pass(r, Blank)

\* Overlong forms, surrogates and what lies beyond Unicode are blanks.
Accepted(r, c) ==
  IF c < r.min \/ c > MaxPoint \/ High(c) \/ Low(c)
    THEN Blank ELSE c

\* A byte that is no continuation ends the character; a byte that would begin
\* another one is lost with it.
NextByte(r, byte) ==
  LET value == r.value * 64 + (byte % 64) IN
  IF byte \notin 128 .. 191
    THEN IF byte < 128 THEN Pass(Pass(r, Blank), byte) ELSE Pass(r, Blank)
  ELSE IF r.remaining > 1
    THEN [r EXCEPT !.value = value, !.remaining = @ - 1]
  ELSE Pass(r, Accepted(r, value))

ReadByte(r, byte) == IF r.remaining = 0 THEN FirstByte(r, byte) ELSE NextByte(r, byte)

ReadBytes(r, bytes) == FoldLeft(ReadByte, r, bytes)

\* xdp_jaccard_finish
ReadEnd(r) == IF r.remaining = 0 THEN r ELSE Pass(r, Blank)
=============================================================================
