--------------------------- MODULE MCJsonContent ----------------------------
(***************************************************************************)
(* Instances of JsonContent for TLC: what a JSON encoder may make of a     *)
(* prompt (benchmarks/routing_correctness/benchmark.py, chat_body), with   *)
(* the code points at which the forms of UTF-8 and of escapes change,      *)
(* lone surrogates and escapes that are not JSON.                          *)
(***************************************************************************)
EXTENDS JsonContent, FiniteSets

Digit(n, letters) == IF n < 10 THEN 48 + n ELSE letters - 10 + n
Hex4(v, letters) ==
  << Digit(v \div 16^3, letters), Digit((v \div 16^2) % 16, letters),
     Digit((v \div 16) % 16, letters), Digit(v % 16, letters) >>
Escape(v, letters) == << Backslash, 117 >> \o Hex4(v, letters)

Piece(json, points, form) == [json |-> json, points |-> points, form |-> form]

Raw(c) == Piece(ScoreCodepoint(c), << c >>, "exact")
Short(letter, c) == Piece(<< Backslash, letter >>, << c >>, "exact")
Long(c) == Piece(Escape(c, 97), << c >>, "exact")
Pair(c) ==
  Piece(Escape(55296 + (c - 65536) \div 1024, 65) \o Escape(56320 + ((c - 65536) % 1024), 97),
        << c >>, "exact")
Lone(c) == Piece(Escape(c, 97), << c >>, "json")
Bad(json) == Piece(json, << >>, "other")

Core == { Raw(99), Raw(233), Short(Quote, Quote), Short(Backslash, Backslash),
          Long(233), Pair(65536), Lone(55296), Lone(57343),
          Bad(<< Backslash, 120 >>), Bad(<< Backslash, 117, 100, 56, 103 >>) }
Pieces == Core \cup
  { Raw(c) : c \in { 32, 58, 127, 8364, 128512 } } \cup
  { Short(47, 47), Short(98, 8), Short(102, 12), Short(110, 10), Short(114, 13), Short(116, 9) } \cup
  { Long(c) : c \in { 0, 34, 127, 128, 2047, 2048, 55295, 57344, 65535 } } \cup
  { Pair(c) : c \in { 128512, MaxPoint } } \cup
  { Lone(56319), Lone(56320) }

LongText == << Lone(55296) >> \o [i \in 1 .. 8 |-> Raw(99)]
Texts == { LongText } \cup UNION { [1 .. n -> Pieces] : n \in 0 .. 2 } \cup [1 .. 3 -> Core]

Join(text, field(_)) == FoldLeft(LAMBDA s, p : s \o field(p), << >>, text)

HasPoint(text, kind(_)) ==
  \E i \in DOMAIN text : \E p \in ToSet(text[i].points) : kind(p)
Form(text) ==
  IF \/ \E i \in DOMAIN text : text[i].form = "other"
     \/ HasPoint(text, High) /\ HasPoint(text, Low) THEN "other"
  ELSE IF \E i \in DOMAIN text : text[i].form = "json" THEN "json" ELSE "exact"

String(bytes) == << Quote >> \o bytes \o << Quote >>
Member(value) == SubSeq(KeyChars, 1, 10) \o value

\* A body with a text after the first bytes and the key, and before others.
Body(first, text, last) ==
  LET head == first \o Member(<< Quote >>)
      start(i) == Len(head) + Len(Join(SubSeq(text, 1, i - 1), LAMBDA p : p.json))
  IN  [json |-> head \o Join(text, LAMBDA p : p.json) \o << Quote >> \o last,
       prompt |-> Join(text, LAMBDA p : p.points),
       at |-> IF Form(text) = "other" THEN << >> ELSE [i \in 1 .. Len(text) + 1 |-> start(i)],
       form |-> Form(text)]

\* Members before the content: a value that looks like the key, one with the
\* key in it, a content that is no string, blanks, and a body without one.
Word == SubSeq(KeyChars, 2, 8)
EscapedMember == << Backslash, Quote >> \o Word \o << Backslash, Quote, 58, Backslash, Quote, 120 >>
Cut == << 44 >>
Before == { String(<< 120 >>) \o << 58 >> \o String(Word) \o Cut,
            String(<< 120 >>) \o << 58 >> \o String(EscapedMember) \o Cut,
            Member(<< 32, 110 >>) \o Cut,
            Member(<< 91, 123 >>) \o String(<< 120 >>) \o << 58 >> \o String(<< 121 >>) \o << 125, 93 >> \o Cut }
After == << 44 >> \o Member(String(<< 122 >>)) \o << 125 >>

SomeTexts == { << p, q >> : p \in Core, q \in { Raw(99), Lone(57343) } }

MCBodies ==
  { Body(<< >>, t, << 125 >>) : t \in Texts } \cup
  { Body(b, t, After) : b \in Before, t \in SomeTexts } \cup
  { [json |-> Member(<< 32, 9 >> \o String(<< 120 >>)) \o After, prompt |-> << 120 >>,
     at |-> << 13, 14 >>, form |-> "exact"] } \cup
  { [json |-> b, prompt |-> << >>, at |-> << >>, form |-> "exact"] : b \in Before }
=============================================================================
