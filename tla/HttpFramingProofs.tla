------------------------- MODULE HttpFramingProofs -------------------------
(***************************************************************************)
(* Proofs about HttpFraming, for streams of any bytes, segments of any     *)
(* size and any limits.                                                    *)
(***************************************************************************)
EXTENDS HttpFraming, SequenceTheorems, Totals

-----------------------------------------------------------------------------
(* One byte. *)

\* The base is that of the digits.
LEMMA BaseIsTwo == Base = 2
<1>1. IsFiniteSet({}) /\ Cardinality({}) = 0
  BY FS_EmptySet
<1>2. IsFiniteSet({ "0" }) /\ Cardinality({ "0" }) = 1
  BY FS_Singleton
<1>3. Cardinality({ "0" } \cup { "1" }) = Cardinality({ "0" }) + 1
  BY <1>2, FS_AddElement
<1>4. { "0" } \cup { "1" } = Digits
  BY DEF Digits
<1> QED
  BY <1>2, <1>3, <1>4 DEF Base

\* The guard of the code leaves room for one more digit.
LEMMA GrownLengthFits ==
  ASSUME NEW length \in 0 .. MaxRequest, MayGrow(length), NEW d \in Bytes
  PROVE  length * Base + ValueOf(d) \in 0 .. MaxRequest
<1>1. MaxRequest \in Nat
  BY FramingAssumption
<1>2. \A max, l \in Nat : l <= (max - (2 - 1)) \div 2 => l * 2 + 1 <= max
  OBVIOUS
<1>3. length * 2 + 1 <= MaxRequest
  BY <1>1, <1>2, BaseIsTwo DEF MayGrow
<1>4. ValueOf(d) \in 0 .. 1
  BY DEF ValueOf
<1> QED
  BY <1>1, <1>3, <1>4, BaseIsTwo

\* The match goes one further or begins again.
LEMMA MatchGoesOn ==
  ASSUME NEW n \in 0 .. 3, NEW c \in Bytes
  PROVE  HeaderMatch(n, c) \in 0 .. 4
  BY DEF HeaderMatch

\* The length is read into a scan that is still in the header.
LEMMA LengthIsRead ==
  ASSUME NEW f \in Scans, f.header_len = 0, NEW c \in Bytes
  PROVE  /\ ReadLength(f, c) \in Scans /\ ReadLength(f, c).header_len = 0
         /\ ReadLength(f, c).header_scanned = f.header_scanned
         /\ ReadLength(f, c).header_match = f.header_match
<1> USE DEF ScanFields
<1>1. /\ f \in ScanFields
      /\ f.request_len = 0 /\ f.header_match <= 3
  BY DEF Scans, ScanFields
<1>2. CASE ~ f.reading_length
  <2>1. (c = "key") \in BOOLEAN
    OBVIOUS
  <2>2. ReadLength(f, c) = [f EXCEPT !.reading_length = (c = "key")]
    BY <1>2 DEF ReadLength
  <2> HIDE DEF ReadLength
  <2> QED
    BY <1>1, <2>1, <2>2 DEF Scans, ScanFields
<1>3. CASE f.reading_length /\ c \in Digits /\ MayGrow(f.content_length)
  <2>1. f.content_length * Base + ValueOf(c) \in 0 .. MaxRequest
    BY <1>1, <1>3, GrownLengthFits
  <2>2. ReadLength(f, c) = [f EXCEPT !.content_length = f.content_length * Base + ValueOf(c)]
    BY <1>3 DEF ReadLength
  <2> QED
    BY <1>1, <2>1, <2>2 DEF Scans, ScanFields
<1>4. CASE f.reading_length /\ ~ (c \in Digits /\ MayGrow(f.content_length))
  <2>1. ReadLength(f, c) \in { [f EXCEPT !.reading_length = FALSE], f,
                               [f EXCEPT !.invalid = TRUE] }
    BY <1>4 DEF ReadLength
  <2>2. [f EXCEPT !.reading_length = FALSE] \in Scans /\ [f EXCEPT !.invalid = TRUE] \in Scans
    BY <1>1 DEF Scans, ScanFields
  <2> QED
    BY <1>1, <2>1, <2>2
<1> QED
  BY <1>2, <1>3, <1>4

\* A byte of the header counts; none is looked at after its end.
LEMMA ByteIsScanned ==
  ASSUME NEW f \in Scans, NEW c \in Bytes
  PROVE  /\ ScanByte(f, c) \in Scans
         /\ f.header_len > 0 => ScanByte(f, c) = f
         /\ f.header_len = 0 =>
              /\ ScanByte(f, c).header_scanned = f.header_scanned + 1
              /\ ScanByte(f, c).header_match = HeaderMatch(f.header_match, c)
              /\ ScanByte(f, c).header_len =
                   IF HeaderMatch(f.header_match, c) = 4 THEN f.header_scanned + 1 ELSE 0
<1> DEFINE g == [f EXCEPT !.header_scanned = @ + 1, !.header_match = HeaderMatch(@, c)]
<1> USE DEF ScanFields
<1>1. /\ f \in ScanFields
      /\ f.header_len = 0 => f.request_len = 0 /\ f.header_match <= 3
  BY DEF Scans, ScanFields
<1>2. CASE f.header_len > 0
  BY <1>1, <1>2 DEF ScanByte
<1>3. CASE f.header_len = 0
  <2>1. HeaderMatch(f.header_match, c) \in 0 .. 4
    BY <1>1, <1>3, MatchGoesOn
  <2>2. /\ g \in ScanFields
        /\ g.header_scanned = f.header_scanned + 1 /\ g.header_len = 0 /\ g.request_len = 0
        /\ g.header_match = HeaderMatch(f.header_match, c)
    <3>1. PICK m \in 0 .. 4, n \in Nat : m = HeaderMatch(f.header_match, c) /\ n = f.header_scanned + 1
      BY <1>1, <2>1
    <3>2. g = [f EXCEPT !.header_scanned = n, !.header_match = m]
      BY <3>1
    <3> HIDE DEF g
    <3> QED
      BY <1>1, <1>3, <3>1, <3>2
  <2>3. ScanByte(f, c) = IF g.header_match = 4
                         THEN [g EXCEPT !.header_len = g.header_scanned,
                                        !.request_len = g.header_scanned + g.content_length]
                         ELSE ReadLength(g, c)
    BY <1>3 DEF ScanByte
  <2> HIDE DEF g
  <2>4. CASE g.header_match = 4
    <3> DEFINE h == [g EXCEPT !.header_len = g.header_scanned,
                              !.request_len = g.header_scanned + g.content_length]
    <3>1. /\ h \in ScanFields
          /\ h.header_scanned = g.header_scanned /\ h.header_len = g.header_scanned
          /\ h.header_match = g.header_match
          /\ h.request_len = h.header_len + h.content_length
      <4>1. PICK l \in Nat : l = g.header_scanned + g.content_length
        BY <2>2
      <4>2. h = [g EXCEPT !.header_len = g.header_scanned, !.request_len = l]
        BY <4>1
      <4> HIDE DEF h
      <4> QED
        BY <2>2, <4>1, <4>2
    <3>2. h.header_len # 0 /\ ScanByte(f, c) = h
      BY <1>1, <2>2, <2>3, <2>4
    <3> HIDE DEF h
    <3>3. h \in Scans
      BY <3>1, <3>2 DEF Scans, ScanFields
    <3> QED
      BY <1>3, <2>2, <2>4, <3>1, <3>2, <3>3
  <2>5. CASE g.header_match # 4
    <3>1. g \in Scans
      BY <2>2, <2>5 DEF Scans, ScanFields
    <3>2. /\ ReadLength(g, c) \in Scans /\ ReadLength(g, c).header_scanned = g.header_scanned
          /\ ReadLength(g, c).header_match = g.header_match /\ ReadLength(g, c).header_len = 0
      BY <2>2, <3>1, LengthIsRead
    <3> QED
      BY <1>3, <2>2, <2>3, <2>5, <3>2
  <2> QED
    BY <2>4, <2>5
<1> QED
  BY <1>1, <1>2, <1>3

-----------------------------------------------------------------------------
(* The length of the body. *)

\* What a byte of the header is to the length, by what it is and whether a
\* length is being read.
LEMMA ByteOfHeader ==
  ASSUME NEW f \in Scans, f.header_len = 0, NEW c \in Bytes
  PROVE  \E g \in ScanFields :
           /\ g.content_length = f.content_length /\ g.header_len = 0
           /\ g.invalid = f.invalid /\ g.reading_length = f.reading_length
           /\ c # "lf" => g.header_match # 4
           /\ ScanByte(f, c) = IF g.header_match = 4
                               THEN [g EXCEPT !.header_len = g.header_scanned,
                                              !.request_len = g.header_scanned + g.content_length]
                               ELSE ReadLength(g, c)
<1> DEFINE g == [f EXCEPT !.header_scanned = @ + 1, !.header_match = HeaderMatch(@, c)]
<1>1. f \in ScanFields /\ f.request_len = 0 /\ f.header_match \in 0 .. 3
  BY DEF Scans, ScanFields
<1>2. PICK m \in 0 .. 4, n \in Nat : /\ m = HeaderMatch(f.header_match, c) /\ n = f.header_scanned + 1
                                     /\ c # "lf" => m # 4
  <2>1. /\ HeaderMatch(f.header_match, c) \in 0 .. 4
        /\ c # "lf" => HeaderMatch(f.header_match, c) # 4
    BY <1>1 DEF HeaderMatch
  <2>2. f.header_scanned + 1 \in Nat
    BY <1>1 DEF ScanFields
  <2> QED
    BY <2>1, <2>2
<1>3. g = [f EXCEPT !.header_scanned = n, !.header_match = m]
  BY <1>2
<1>4. ScanByte(f, c) = IF g.header_match = 4
                       THEN [g EXCEPT !.header_len = g.header_scanned,
                                      !.request_len = g.header_scanned + g.content_length]
                       ELSE ReadLength(g, c)
  BY DEF ScanByte
<1> HIDE DEF g
<1>5. g \in ScanFields
  BY <1>1, <1>3 DEF ScanFields
<1>6. g.header_len = 0 /\ g.header_match = m /\ g.content_length = f.content_length
  BY <1>1, <1>3 DEF ScanFields
<1>7. g.invalid = f.invalid /\ g.reading_length = f.reading_length
  BY <1>1, <1>3 DEF ScanFields
<1> QED
  BY <1>2, <1>4, <1>5, <1>6, <1>7

\* The end of the header leaves the length as it is.
LEMMA EndFields ==
  ASSUME NEW g \in ScanFields, NEW n
  PROVE  LET h == [g EXCEPT !.header_len = g.header_scanned, !.request_len = n]
         IN /\ h.reading_length = g.reading_length /\ h.invalid = g.invalid
            /\ h.content_length = g.content_length
BY DEF ScanFields

\* The scan f with another length, or another flag.
LEMMA LengthFields ==
  ASSUME NEW f \in ScanFields
  PROVE  /\ \A b \in BOOLEAN : LET g == [f EXCEPT !.reading_length = b]
                               IN /\ g.reading_length = b /\ g.invalid = f.invalid
                                  /\ g.content_length = f.content_length
         /\ \A n : LET g == [f EXCEPT !.content_length = n]
                   IN /\ g.reading_length = f.reading_length /\ g.invalid = f.invalid
                      /\ g.content_length = n
         /\ LET g == [f EXCEPT !.invalid = TRUE]
            IN /\ g.reading_length = f.reading_length /\ g.invalid = TRUE
               /\ g.content_length = f.content_length
BY DEF Scans, ScanFields

\* A byte while no length is read.
LEMMA ByteOutsideLength ==
  ASSUME NEW f \in Scans, f.header_len = 0, f.reading_length = FALSE, NEW c \in Bytes
  PROVE  LET g == ScanByte(f, c)
         IN /\ g.content_length = f.content_length /\ g.invalid = f.invalid
            /\ c = "key" => g.reading_length = TRUE
            /\ c # "key" => g.reading_length = FALSE
<1>1. PICK b \in BOOLEAN : b = (c = "key")
  OBVIOUS
<1>2. PICK g \in ScanFields :
         /\ g.content_length = f.content_length /\ g.header_len = 0
         /\ g.invalid = f.invalid /\ g.reading_length = f.reading_length
         /\ c # "lf" => g.header_match # 4
         /\ ScanByte(f, c) = IF g.header_match = 4
                             THEN [g EXCEPT !.header_len = g.header_scanned,
                                            !.request_len = g.header_scanned + g.content_length]
                             ELSE ReadLength(g, c)
  BY ByteOfHeader
<1>3. CASE g.header_match # 4
  <2>1. ReadLength(g, c) = [g EXCEPT !.reading_length = (c = "key")]
    BY <1>2 DEF ReadLength
  <2>2. ScanByte(f, c) = [g EXCEPT !.reading_length = b]
    BY <1>1, <1>2, <1>3, <2>1
  <2>3. LET h == [g EXCEPT !.reading_length = b]
        IN h.reading_length = b /\ h.invalid = f.invalid /\ h.content_length = f.content_length
    BY <1>2, LengthFields
  <2> QED
    BY <1>1, <2>2, <2>3
<1>4. CASE g.header_match = 4
  <2> DEFINE h == [g EXCEPT !.header_len = g.header_scanned,
                            !.request_len = g.header_scanned + g.content_length]
  <2>1. ScanByte(f, c) = h /\ (c = "key") = FALSE
    BY <1>2, <1>4
  <2>2. /\ h.reading_length = g.reading_length /\ h.invalid = g.invalid
        /\ h.content_length = g.content_length
    BY EndFields
  <2> HIDE DEF h
  <2> QED
    BY <1>2, <2>1, <2>2
<1> QED
  BY <1>3, <1>4

\* A byte of a length: a digit is taken if there is room, a blank is passed
\* over, the end of the line ends it.
LEMMA ByteOfLength ==
  ASSUME NEW f \in Scans, f.header_len = 0, f.reading_length = TRUE, NEW c \in Bytes
  PROVE  LET g == ScanByte(f, c)
         IN /\ c \in Digits /\ MayGrow(f.content_length) =>
                 /\ g.content_length = f.content_length * Base + ValueOf(c)
                 /\ g.invalid = f.invalid /\ g.reading_length = TRUE
            /\ c \in Digits /\ ~ MayGrow(f.content_length) =>
                 /\ g.content_length = f.content_length
                 /\ g.invalid = TRUE /\ g.reading_length = TRUE
            /\ c = "sp" => /\ g.content_length = f.content_length
                           /\ g.invalid = f.invalid /\ g.reading_length = TRUE
            /\ c = "cr" => /\ g.content_length = f.content_length
                           /\ g.invalid = f.invalid /\ g.reading_length = FALSE
<1> SUFFICES ASSUME c \in Digits \cup { "sp", "cr" }
             PROVE  LET g == ScanByte(f, c)
         IN /\ c \in Digits /\ MayGrow(f.content_length) =>
                 /\ g.content_length = f.content_length * Base + ValueOf(c)
                 /\ g.invalid = f.invalid /\ g.reading_length = TRUE
            /\ c \in Digits /\ ~ MayGrow(f.content_length) =>
                 /\ g.content_length = f.content_length
                 /\ g.invalid = TRUE /\ g.reading_length = TRUE
            /\ c = "sp" => /\ g.content_length = f.content_length
                           /\ g.invalid = f.invalid /\ g.reading_length = TRUE
            /\ c = "cr" => /\ g.content_length = f.content_length
                           /\ g.invalid = f.invalid /\ g.reading_length = FALSE
  OBVIOUS
<1>1. c # "lf" /\ (c \in Digits => c # "sp" /\ c # "cr")
  BY DEF Digits
<1>2. PICK g \in ScanFields :
         /\ g.content_length = f.content_length
         /\ g.invalid = f.invalid /\ g.reading_length = TRUE
         /\ ScanByte(f, c) = ReadLength(g, c)
  BY <1>1, ByteOfHeader
<1>3. CASE c \in Digits /\ MayGrow(f.content_length)
  <2>1. ReadLength(g, c) = [g EXCEPT !.content_length = f.content_length * Base + ValueOf(c)]
    BY <1>2, <1>3 DEF ReadLength
  <2>2. PICK n : n = f.content_length * Base + ValueOf(c)
    OBVIOUS
  <2>3. ScanByte(f, c) = [g EXCEPT !.content_length = n]
    BY <1>2, <2>1, <2>2
  <2>4. LET h == [g EXCEPT !.content_length = n]
        IN h.reading_length = TRUE /\ h.invalid = f.invalid /\ h.content_length = n
    BY <1>2, LengthFields
  <2> QED
    BY <1>1, <1>3, <2>2, <2>3, <2>4
<1>4. CASE c \in Digits /\ ~ MayGrow(f.content_length)
  <2>1. ReadLength(g, c) = [g EXCEPT !.invalid = TRUE]
    BY <1>1, <1>2, <1>4 DEF ReadLength
  <2>2. LET h == [g EXCEPT !.invalid = TRUE]
        IN h.reading_length = TRUE /\ h.invalid = TRUE /\ h.content_length = f.content_length
    BY <1>2, LengthFields
  <2> QED
    BY <1>1, <1>2, <1>4, <2>1, <2>2
<1>5. CASE c = "sp"
  <2>1. ReadLength(g, c) = g /\ c \notin Digits
    BY <1>1, <1>2, <1>5 DEF ReadLength
  <2> QED
    BY <1>2, <1>5, <2>1
<1>6. CASE c = "cr"
  <2>1. ReadLength(g, c) = [g EXCEPT !.reading_length = FALSE] /\ c \notin Digits
    BY <1>1, <1>2, <1>6 DEF ReadLength
  <2>2. LET h == [g EXCEPT !.reading_length = FALSE]
        IN h.reading_length = FALSE /\ h.invalid = f.invalid /\ h.content_length = f.content_length
    BY <1>2, LengthFields
  <2> QED
    BY <1>2, <1>6, <2>1, <2>2
<1> QED
  BY <1>3, <1>4, <1>5, <1>6

-----------------------------------------------------------------------------
(* Several bytes. *)

\* The recursion of FoldLeft over the bytes of q, from f.
ScanSets(f, q) ==
  CHOOSE g : g = [s \in SUBSET DOMAIN q |->
                    IF s = {} THEN f ELSE ScanByte(g[s \ { Max(s) }], q[Max(s)])]

\* The definitions of the community modules come to that recursion.
LEMMA FoldIsScanSets ==
  ASSUME NEW f, NEW q
  PROVE  FoldLeft(ScanByte, f, q) = ScanSets(f, q)[DOMAIN q]
  BY DEF FoldLeft, MapThenFoldSet, ScanSets

\* The scan f after each number of bytes of q.
IsTrace(t, f, q) ==
  /\ t \in [0 .. Len(q) -> Scans] /\ t[0] = f
  /\ \A k \in 1 .. Len(q) : t[k] = ScanByte(t[k - 1], q[k])

\* The fold ends where these scans end.
LEMMA FoldHasTrace ==
  ASSUME NEW f \in Scans, NEW q \in Seq(Bytes)
  PROVE  \E t : IsTrace(t, f, q) /\ FoldLeft(ScanByte, f, q) = t[Len(q)]
<1> DEFINE n == Len(q)
           c == ScanSets(f, q)
           F == [x \in Scans \X (1 .. n) |-> ScanByte(x[1], q[x[2]])]
<1>1. n \in Nat /\ DOMAIN q = 1 .. n /\ \A k \in 1 .. n : q[k] \in Bytes
  OBVIOUS
<1>2. F \in [Scans \X (1 .. n) -> Scans]
  <2>1. ASSUME NEW x \in Scans \X (1 .. n)
        PROVE  ScanByte(x[1], q[x[2]]) \in Scans
    BY <1>1, ByteIsScanned
  <2> QED
    BY <2>1
<1>3. \A g \in Scans, k \in 1 .. n : F[<< g, k >>] = ScanByte(g, q[k])
  OBVIOUS
<1> HIDE DEF n, F
<1>4. PICK g \in [SUBSET (1 .. n) -> Scans] : Unrolls(g, F, f, n)
  BY <1>1, <1>2, FoldExists
<1>5. ASSUME NEW s \in SUBSET (1 .. n), s # {}
      PROVE  F[<< g[s \ { Max(s) }], Max(s) >>] = ScanByte(g[s \ { Max(s) }], q[Max(s)])
  <2>1. Max(s) \in 1 .. n
    BY <1>1, <1>5, GreatestNumber
  <2>2. g[s \ { Max(s) }] \in Scans
    OBVIOUS
  <2> QED
    BY <1>3, <2>1, <2>2
<1>6. g = [s \in SUBSET (1 .. n) |-> IF s = {} THEN f ELSE ScanByte(g[s \ { Max(s) }], q[Max(s)])]
  BY <1>4, <1>5 DEF Unrolls
<1>7. c = [s \in SUBSET (1 .. n) |-> IF s = {} THEN f ELSE ScanByte(c[s \ { Max(s) }], q[Max(s)])]
  BY <1>1, <1>6 DEF ScanSets
<1> HIDE DEF c
<1>8. c[{}] = f
  BY <1>7
<1>9. ASSUME NEW k \in 1 .. n
      PROVE  c[1 .. k] = ScanByte(c[1 .. (k - 1)], q[k])
  <2>1. (1 .. k) \in SUBSET (1 .. n) /\ k \in Nat /\ k >= 1
    BY <1>1
  <2>2. Max(1 .. k) = k /\ (1 .. k) # {} /\ (1 .. k) \ {k} = 1 .. (k - 1)
    BY <2>1, LastOfPrefix
  <2>3. c[1 .. k] = ScanByte(c[(1 .. k) \ { Max(1 .. k) }], q[Max(1 .. k)])
    BY <1>7, <2>1, <2>2
  <2> QED
    BY <2>2, <2>3
<1> DEFINE t == [k \in 0 .. n |-> c[1 .. k]]
           Good == { k \in 0 .. n : t[k] \in Scans }
<1>10. t[0] = f
  <2>1. 1 .. 0 = {}
    OBVIOUS
  <2> QED
    BY <1>1, <1>8, <2>1
<1>11. \A k \in 1 .. n : t[k] = ScanByte(t[k - 1], q[k])
  BY <1>1, <1>9
<1>12. FoldLeft(ScanByte, f, q) = t[n]
  BY <1>1, FoldIsScanSets DEF c
<1> HIDE DEF t
<1>13. Good = 0 .. n
  <2>1. 0 \in Good
    BY <1>1, <1>10
  <2>2. ASSUME NEW k \in 1 .. n, k - 1 \in Good
        PROVE  k \in Good
    BY <1>1, <1>11, <2>2, ByteIsScanned
  <2>3. Good \in SUBSET (0 .. n)
    OBVIOUS
  <2> HIDE DEF Good
  <2> QED
    BY <1>1, <2>1, <2>2, <2>3, Along
<1>14. t \in [0 .. n -> Scans]
  <2>1. \A k \in 0 .. n : t[k] \in Scans
    BY <1>13
  <2>2. t = [k \in 0 .. n |-> t[k]]
    BY DEF t
  <2> QED
    BY <2>1, <2>2
<1> QED
  BY <1>10, <1>11, <1>12, <1>14 DEF IsTrace, n

\* There is one way to scan the bytes.
LEMMA FoldOfTrace ==
  ASSUME NEW f \in Scans, NEW q \in Seq(Bytes), NEW t, IsTrace(t, f, q)
  PROVE  FoldLeft(ScanByte, f, q) = t[Len(q)]
<1>1. PICK u : IsTrace(u, f, q) /\ FoldLeft(ScanByte, f, q) = u[Len(q)]
  BY FoldHasTrace
<1> DEFINE n == Len(q)
           Good == { k \in 0 .. n : u[k] = t[k] }
<1>2. n \in Nat /\ Good \in SUBSET (0 .. n) /\ 0 \in Good
  BY <1>1 DEF IsTrace
<1>3. ASSUME NEW k \in 1 .. n, k - 1 \in Good
      PROVE  k \in Good
  BY <1>1, <1>3 DEF IsTrace
<1>4. Good = 0 .. n
  <2> HIDE DEF Good, n
  <2> QED
    BY <1>2, <1>3, Along
<1>5. n \in Good
  BY <1>2, <1>4
<1> QED
  BY <1>1, <1>5

\* A scan of some of the bytes goes from the scan before them to the one after.
LEMMA PartOfTrace ==
  ASSUME NEW f \in Scans, NEW q \in Seq(Bytes), NEW t, IsTrace(t, f, q),
         NEW b \in 0 .. Len(q), NEW a \in 0 .. b
  PROVE  FoldLeft(ScanByte, t[a], SubSeq(q, a + 1, b)) = t[b]
<1> DEFINE p == SubSeq(q, a + 1, b)
           u == [k \in 0 .. (b - a) |-> t[a + k]]
<1>1. p \in Seq(Bytes) /\ Len(p) = b - a /\ \A k \in 1 .. (b - a) : p[k] = q[a + k]
  OBVIOUS
<1>2. t[a] \in Scans /\ \A k \in 0 .. (b - a) : t[a + k] \in Scans
  <2>1. \A k \in 0 .. Len(q) : t[k] \in Scans
    BY DEF IsTrace
  <2>2. a \in 0 .. Len(q) /\ \A k \in 0 .. (b - a) : a + k \in 0 .. Len(q)
    OBVIOUS
  <2> QED
    BY <2>1, <2>2
<1>3. u[0] = t[a] /\ u[b - a] = t[b] /\ u \in [0 .. (b - a) -> Scans]
  <2>1. 0 \in 0 .. (b - a) /\ b - a \in 0 .. (b - a) /\ a + 0 = a /\ a + (b - a) = b
    OBVIOUS
  <2> QED
    BY <1>2, <2>1
<1>4. ASSUME NEW k \in 1 .. (b - a)
      PROVE  u[k] = ScanByte(u[k - 1], p[k])
  <2>1. a + k \in 1 .. Len(q) /\ (a + k) - 1 = a + (k - 1) /\ k - 1 \in 0 .. (b - a)
    OBVIOUS
  <2>2. t[a + k] = ScanByte(t[a + (k - 1)], q[a + k])
    BY <2>1 DEF IsTrace
  <2> QED
    BY <1>1, <2>1, <2>2
<1> HIDE DEF u, p
<1>5. IsTrace(u, t[a], p)
  BY <1>1, <1>3, <1>4 DEF IsTrace
<1>6. FoldLeft(ScanByte, t[a], p) = u[b - a]
  BY <1>1, <1>2, <1>5, FoldOfTrace
<1> QED
  BY <1>3, <1>6 DEF p

\* A new scan has looked at the bytes it counts, and at all of them as long as
\* it is in the header.
LEMMA TraceCounts ==
  ASSUME NEW q \in Seq(Bytes), NEW t, IsTrace(t, NewFlow, q), NEW k \in 0 .. Len(q)
  PROVE  /\ t[k] \in Scans /\ t[k].header_scanned \in 0 .. k
         /\ t[k].header_len = 0 => t[k].header_scanned = k
         /\ t[t[k].header_scanned] = t[k]
<1> DEFINE n == Len(q)
           Good == { i \in 0 .. n : /\ t[i].header_scanned \in 0 .. i
                                    /\ t[i].header_len = 0 => t[i].header_scanned = i
                                    /\ t[t[i].header_scanned] = t[i] }
<1>1. n \in Nat /\ Good \in SUBSET (0 .. n) /\ \A i \in 0 .. n : t[i] \in Scans
  <2>1. n \in Nat /\ Good \in SUBSET (0 .. n)
    OBVIOUS
  <2>2. \A i \in 0 .. n : t[i] \in Scans
    BY DEF IsTrace
  <2> HIDE DEF Good, n
  <2> QED
    BY <2>1, <2>2
<1>2. 0 \in Good
  BY <1>1 DEF IsTrace, NewFlow
<1>3. ASSUME NEW i \in 1 .. n, i - 1 \in Good
      PROVE  i \in Good
  <2>1. /\ t[i - 1] \in Scans /\ t[i] = ScanByte(t[i - 1], q[i]) /\ q[i] \in Bytes
        /\ t[i - 1].header_scanned \in 0 .. (i - 1)
        /\ t[i - 1].header_len = 0 => t[i - 1].header_scanned = i - 1
        /\ t[t[i - 1].header_scanned] = t[i - 1]
    BY <1>3 DEF IsTrace
  <2>2. t[i - 1].header_len \in Nat
    BY <2>1 DEF Scans, ScanFields
  <2>3. CASE t[i - 1].header_len > 0
    <3>1. t[i] = t[i - 1]
      BY <2>1, <2>3, ByteIsScanned
    <3> QED
      BY <2>1, <2>3, <3>1
  <2>4. CASE t[i - 1].header_len = 0
    <3>1. t[i].header_scanned = (i - 1) + 1
      BY <2>1, <2>4, ByteIsScanned
    <3>2. t[i].header_scanned = i
      BY <3>1
    <3> QED
      BY <3>2
  <2> QED
    BY <2>2, <2>3, <2>4
<1>4. Good = 0 .. n
  <2> HIDE DEF Good, n
  <2> QED
    BY <1>1, <1>2, <1>3, Along
<1> QED
  BY <1>1, <1>4

-----------------------------------------------------------------------------
(* The end of the header. *)

\* An end of the header is an empty line.
LEMMA EmptyLine ==
  ASSUME NEW q \in Seq(Bytes), NEW n \in Nat
  PROVE  n \in HeaderEnds(q) <=>
           /\ n >= 4 /\ n <= Len(q)
           /\ q[n - 3] = "cr" /\ q[n - 2] = "lf" /\ q[n - 1] = "cr" /\ q[n] = "lf"
<1>1. CRLF \o CRLF = << "cr", "lf", "cr", "lf" >>
  <2>1. CRLF \in Seq(Bytes) /\ Len(CRLF) = 2 /\ CRLF[1] = "cr" /\ CRLF[2] = "lf"
    BY DEF CRLF, Bytes
  <2> HIDE DEF CRLF
  <2>2. /\ CRLF \o CRLF \in Seq(Bytes) /\ Len(CRLF \o CRLF) = 4
        /\ (CRLF \o CRLF)[1] = "cr" /\ (CRLF \o CRLF)[2] = "lf"
        /\ (CRLF \o CRLF)[3] = "cr" /\ (CRLF \o CRLF)[4] = "lf"
    <3>1. /\ CRLF \o CRLF \in Seq(Bytes) /\ Len(CRLF \o CRLF) = 2 + 2
          /\ \A i \in 1 .. 2 + 2 : (CRLF \o CRLF)[i] = IF i <= 2 THEN CRLF[i] ELSE CRLF[i - 2]
      <4>1. PICK s \in Seq(Bytes) : s = CRLF /\ Len(s) = 2
        BY <2>1
      <4>2. /\ s \o s \in Seq(Bytes) /\ Len(s \o s) = Len(s) + Len(s)
            /\ \A i \in 1 .. Len(s) + Len(s) :
                 (s \o s)[i] = IF i <= Len(s) THEN s[i] ELSE s[i - Len(s)]
        BY ConcatProperties, Zenon
      <4> QED
        BY <4>1, <4>2, Zenon
    <3>2. /\ Len(CRLF \o CRLF) = 4
          /\ \A i \in 1 .. 4 : (CRLF \o CRLF)[i] = IF i <= 2 THEN CRLF[i] ELSE CRLF[i - 2]
      BY <3>1
    <3>3. 1 \in 1 .. 4 /\ 2 \in 1 .. 4 /\ 3 \in 1 .. 4 /\ 4 \in 1 .. 4 /\ 3 - 2 = 1 /\ 4 - 2 = 2
      OBVIOUS
    <3> QED
      BY <2>1, <3>1, <3>2, <3>3
  <2> DEFINE r == CRLF \o CRLF
  <2> HIDE DEF r
  <2>3. /\ r \in Seq(Bytes) /\ Len(r) = 4
        /\ r[1] = "cr" /\ r[2] = "lf" /\ r[3] = "cr" /\ r[4] = "lf"
    BY <2>2 DEF r
  <2>4. r = << "cr", "lf", "cr", "lf" >>
    BY <2>3
  <2> QED
    BY <2>4 DEF r
<1>2. ASSUME n \in 4 .. Len(q)
      PROVE  IsAt(q, n - 3, CRLF \o CRLF) <=>
               q[n - 3] = "cr" /\ q[n - 2] = "lf" /\ q[n - 1] = "cr" /\ q[n] = "lf"
  <2> DEFINE p == SubSeq(q, n - 3, n)
  <2>1. p \in Seq(Bytes) /\ Len(p) = 4
        /\ p[1] = q[n - 3] /\ p[2] = q[n - 2] /\ p[3] = q[n - 1] /\ p[4] = q[n]
    <3>1. n - 3 \in 1 .. Len(q) /\ n - 2 \in 1 .. Len(q) /\ n - 1 \in 1 .. Len(q)
          /\ n \in (n - 3) .. Len(q) /\ n - (n - 3) + 1 = 4
      BY <1>2
    <3>2. p \in Seq(Bytes) /\ Len(p) = 4 /\ \A i \in 1 .. 4 : p[i] = q[(n - 3) + i - 1]
      BY <3>1
    <3>3. /\ (n - 3) + 1 - 1 = n - 3 /\ (n - 3) + 2 - 1 = n - 2
          /\ (n - 3) + 3 - 1 = n - 1 /\ (n - 3) + 4 - 1 = n
      OBVIOUS
    <3> HIDE DEF p
    <3>4. p[1] = q[(n - 3) + 1 - 1] /\ p[2] = q[(n - 3) + 2 - 1]
          /\ p[3] = q[(n - 3) + 3 - 1] /\ p[4] = q[(n - 3) + 4 - 1]
      BY <3>2
    <3> QED
      BY <3>2, <3>3, <3>4
  <2> HIDE DEF p
  <2>2. p = << "cr", "lf", "cr", "lf" >> <=>
          p[1] = "cr" /\ p[2] = "lf" /\ p[3] = "cr" /\ p[4] = "lf"
    BY <2>1
  <2>3. IsAt(q, n - 3, CRLF \o CRLF) <=> p = << "cr", "lf", "cr", "lf" >>
    <3>1. Len(<< "cr", "lf", "cr", "lf" >>) = 4 /\ (n - 3) + 4 - 1 = n /\ n - 3 >= 1
      BY <1>2
    <3> QED
      BY <1>1, <3>1 DEF IsAt, p
  <2> QED
    BY <2>1, <2>2, <2>3
<1> QED
  BY <1>2 DEF HeaderEnds

\* What the match says of the last bytes: how much of an empty line they are.
Matched(q, k, n) ==
  /\ n = 1 <=> k >= 1 /\ q[k] = "cr" /\ ~ (k >= 3 /\ q[k - 1] = "lf" /\ q[k - 2] = "cr")
  /\ n = 2 <=> k >= 2 /\ q[k] = "lf" /\ q[k - 1] = "cr"
  /\ n = 3 <=> k >= 3 /\ q[k] = "cr" /\ q[k - 1] = "lf" /\ q[k - 2] = "cr"

\* One more byte.
LEMMA MatchedStep ==
  ASSUME NEW q \in Seq(Bytes), NEW k \in 1 .. Len(q), NEW n \in 0 .. 3, Matched(q, k - 1, n)
  PROVE  /\ HeaderMatch(n, q[k]) = 4 <=> k \in HeaderEnds(q)
         /\ HeaderMatch(n, q[k]) # 4 => Matched(q, k, HeaderMatch(n, q[k]))
<1>1. k \in Nat /\ (k - 1) - 1 = k - 2 /\ (k - 1) - 2 = k - 3
  OBVIOUS
<1>2. HeaderMatch(n, q[k]) = 4 <=> n = 3 /\ q[k] = "lf"
  BY DEF HeaderMatch
<1>3. n = 3 <=> k >= 4 /\ q[k - 1] = "cr" /\ q[k - 2] = "lf" /\ q[k - 3] = "cr"
  BY <1>1 DEF Matched
<1>4. n = 2 <=> k >= 3 /\ q[k - 1] = "lf" /\ q[k - 2] = "cr"
  BY <1>1 DEF Matched
<1>5. n = 1 <=> k >= 2 /\ q[k - 1] = "cr" /\ ~ (k >= 4 /\ q[k - 2] = "lf" /\ q[k - 3] = "cr")
  BY <1>1 DEF Matched
<1>6. HeaderMatch(n, q[k]) = 4 <=> k \in HeaderEnds(q)
  BY <1>1, <1>2, <1>3, EmptyLine
<1>7. ASSUME HeaderMatch(n, q[k]) # 4
      PROVE  Matched(q, k, HeaderMatch(n, q[k]))
  <2>1. HeaderMatch(n, q[k]) = 1 <=> q[k] = "cr" /\ n # 2
    BY DEF HeaderMatch
  <2>2. HeaderMatch(n, q[k]) = 2 <=> q[k] = "lf" /\ n = 1
    BY DEF HeaderMatch
  <2>3. HeaderMatch(n, q[k]) = 3 <=> q[k] = "cr" /\ n = 2
    BY DEF HeaderMatch
  <2>4. ~ (q[k] = "lf" /\ n = 3)
    BY <1>2, <1>7
  <2>5. q[k] = "lf" => (n = 1 <=> k >= 2 /\ q[k - 1] = "cr")
    BY <1>3, <1>5, <2>4
  <2> HIDE DEF HeaderMatch
  <2> QED
    BY <1>1, <1>4, <2>1, <2>2, <2>3, <2>5 DEF Matched
<1> QED
  BY <1>6, <1>7

\* A new scan stops at the first empty line.
LEMMA HeaderIsFound ==
  ASSUME NEW q \in Seq(Bytes), NEW t, IsTrace(t, NewFlow, q), NEW k \in 0 .. Len(q)
  PROVE  IF t[k].header_len = 0 THEN \A i \in HeaderEnds(q) : i > k
         ELSE /\ t[k].header_len \in HeaderEnds(q)
              /\ \A i \in HeaderEnds(q) : t[k].header_len <= i
<1> DEFINE n == Len(q)
           Found(i) ==
             IF t[i].header_len = 0
             THEN /\ t[i].header_scanned = i /\ Matched(q, i, t[i].header_match)
                  /\ \A j \in HeaderEnds(q) : j > i
             ELSE /\ t[i].header_len \in HeaderEnds(q)
                  /\ \A j \in HeaderEnds(q) : t[i].header_len <= j
           Good == { i \in 0 .. n : Found(i) }
<1>1. n \in Nat /\ Good \in SUBSET (0 .. n)
  OBVIOUS
<1>2. \A i \in HeaderEnds(q) : i \in Nat /\ i >= 4 /\ i <= Len(q)
  BY DEF HeaderEnds
<1>3. 0 \in Good
  <2>1. t[0].header_len = 0 /\ t[0].header_scanned = 0 /\ t[0].header_match = 0
    BY DEF IsTrace, NewFlow
  <2>2. Matched(q, 0, 0)
    BY DEF Matched
  <2> QED
    BY <1>1, <1>2, <2>1, <2>2
<1>4. ASSUME NEW i \in 1 .. n, i - 1 \in Good
      PROVE  i \in Good
  <2>1. t[i - 1] \in Scans /\ t[i] = ScanByte(t[i - 1], q[i]) /\ q[i] \in Bytes /\ Found(i - 1)
    BY <1>4 DEF IsTrace
  <2>2. t[i - 1].header_len \in Nat
    BY <2>1 DEF Scans, ScanFields
  <2>3. CASE t[i - 1].header_len > 0
    <3>1. t[i] = t[i - 1]
      BY <2>1, <2>3, ByteIsScanned
    <3> QED
      BY <2>1, <2>3, <3>1
  <2>4. CASE t[i - 1].header_len = 0
    <3> DEFINE m == t[i - 1].header_match
    <3>1. /\ t[i - 1].header_scanned = i - 1 /\ Matched(q, i - 1, m)
          /\ \A j \in HeaderEnds(q) : j > i - 1
      BY <2>1, <2>4
    <3>2. m \in 0 .. 3
      BY <2>1, <2>4 DEF Scans, ScanFields
    <3>3. /\ t[i].header_scanned = i /\ t[i].header_match = HeaderMatch(m, q[i])
          /\ t[i].header_len = IF HeaderMatch(m, q[i]) = 4 THEN i ELSE 0
      <4>1. (i - 1) + 1 = i
        OBVIOUS
      <4> QED
        BY <2>1, <2>4, <3>1, <4>1, ByteIsScanned
    <3>4. /\ HeaderMatch(m, q[i]) = 4 <=> i \in HeaderEnds(q)
          /\ HeaderMatch(m, q[i]) # 4 => Matched(q, i, HeaderMatch(m, q[i]))
      BY <3>1, <3>2, MatchedStep
    <3>5. \A j \in HeaderEnds(q) : j >= i
      BY <1>2, <3>1
    <3> HIDE DEF m
    <3>6. CASE HeaderMatch(m, q[i]) = 4
      BY <3>3, <3>4, <3>5, <3>6
    <3>7. CASE HeaderMatch(m, q[i]) # 4
      <4>1. \A j \in HeaderEnds(q) : j > i
        BY <1>2, <3>4, <3>5, <3>7
      <4> QED
        BY <3>3, <3>4, <3>7, <4>1
    <3> QED
      BY <3>6, <3>7
  <2> QED
    BY <2>2, <2>3, <2>4
<1>5. Good = 0 .. n
  <2> HIDE DEF Good, n
  <2> QED
    BY <1>1, <1>3, <1>4, Along
<1> QED
  BY <1>5

\* Before the first empty line the scan is in the header, with it the header
\* ends.
LEMMA HeaderIsScanned ==
  ASSUME NEW q \in Seq(Bytes), HeaderEnds(q) # {}, NEW t, IsTrace(t, NewFlow, q)
  PROVE  /\ HeaderLen(q) \in HeaderEnds(q) /\ HeaderLen(q) \in 4 .. Len(q)
         /\ \A k \in 0 .. (HeaderLen(q) - 1) : t[k].header_len = 0
         /\ t[HeaderLen(q)].header_len = HeaderLen(q)
<1> DEFINE h == HeaderLen(q)
<1>1. \A i \in HeaderEnds(q) : i \in Nat /\ i >= 4 /\ i <= Len(q)
  BY DEF HeaderEnds
<1>2. Len(q) \in Nat /\ \A k \in 0 .. Len(q) : t[k] \in Scans
  <2> HIDE DEF h
  <2>1. Len(q) \in Nat
    OBVIOUS
  <2>2. \A k \in 0 .. Len(q) : t[k] \in Scans
    BY DEF IsTrace
  <2> QED
    BY <2>1, <2>2
<1>3. t[Len(q)].header_len \in HeaderEnds(q)
      /\ \A i \in HeaderEnds(q) : t[Len(q)].header_len <= i
  <2>1. Len(q) \in 0 .. Len(q)
    BY <1>2
  <2>2. ~ \A i \in HeaderEnds(q) : i > Len(q)
    BY <1>1, <1>2
  <2> QED
    BY <2>1, <2>2, HeaderIsFound
<1>4. h \in HeaderEnds(q) /\ \A i \in HeaderEnds(q) : h <= i
  BY <1>3 DEF HeaderLen, Min
<1> HIDE DEF h
<1>5. h \in 4 .. Len(q)
  BY <1>1, <1>4
<1>6. ASSUME NEW k \in 0 .. (h - 1)
      PROVE  t[k].header_len = 0
  <2>1. k \in 0 .. Len(q) /\ k < h
    BY <1>2, <1>5
  <2>2. t[k] \in Scans /\ t[k].header_scanned \in 0 .. k
    BY <2>1, TraceCounts
  <2>3. t[k].header_len # 0 => t[k].header_len \in HeaderEnds(q) /\ t[k].header_len <= k
    BY <2>1, <2>2, HeaderIsFound DEF Scans, ScanFields
  <2> QED
    BY <1>1, <1>4, <1>5, <2>1, <2>3
<1>7. t[h].header_len = h
  <2>1. h \in 0 .. Len(q)
    BY <1>2, <1>5
  <2>2. t[h] \in Scans /\ t[h].header_scanned \in 0 .. h
    BY <2>1, TraceCounts
  <2>3. t[h].header_len # 0
    <3>1. ~ (h > h)
      BY <1>5
    <3> QED
      BY <1>4, <2>1, <3>1, HeaderIsFound
  <2>4. t[h].header_len \in HeaderEnds(q) /\ t[h].header_len <= h
    BY <2>1, <2>2, <2>3, HeaderIsFound DEF Scans, ScanFields
  <2>5. PICK i \in HeaderEnds(q) : i = t[h].header_len
    BY <2>4
  <2>6. i \in Nat /\ i <= h /\ h <= i
    BY <1>1, <1>4, <2>4, <2>5
  <2>7. i = h
    BY <1>5, <2>6
  <2> QED
    BY <2>5, <2>7
<1> QED
  BY <1>4, <1>5, <1>6, <1>7 DEF h

-----------------------------------------------------------------------------
(* The number after the key. *)

\* The recursion of FoldLeft over digits, from 0.
NumberSets(p) ==
  CHOOSE g : g = [s \in SUBSET DOMAIN p |->
                    IF s = {} THEN 0 ELSE NextDigit(g[s \ { Max(s) }], p[Max(s)])]

LEMMA FoldIsNumberSets ==
  ASSUME NEW p
  PROVE  FoldLeft(NextDigit, 0, p) = NumberSets(p)[DOMAIN p]
  BY DEF FoldLeft, MapThenFoldSet, NumberSets

LEMMA DigitIsAdded ==
  ASSUME NEW v \in Nat, NEW d
  PROVE  /\ ValueOf(d) \in 0 .. 1 /\ NextDigit(v, d) \in Nat
         /\ NextDigit(v, d) = 2 * v + ValueOf(d) /\ NextDigit(v, d) >= v
<1>1. ValueOf(d) \in 0 .. 1
  BY DEF ValueOf
<1> QED
  BY <1>1, BaseIsTwo DEF NextDigit

\* The number after each of its digits.
IsNumber(w, p) ==
  /\ w \in [0 .. Len(p) -> Nat] /\ w[0] = 0
  /\ \A k \in 1 .. Len(p) : w[k] = NextDigit(w[k - 1], p[k])

LEMMA NumberIsRead ==
  ASSUME NEW p \in Seq(Bytes)
  PROVE  \E w : IsNumber(w, p) /\ FoldLeft(NextDigit, 0, p) = w[Len(p)]
<1> DEFINE n == Len(p)
           c == NumberSets(p)
           F == [x \in Nat \X (1 .. n) |-> NextDigit(x[1], p[x[2]])]
<1>1. n \in Nat /\ DOMAIN p = 1 .. n
  OBVIOUS
<1>2. F \in [Nat \X (1 .. n) -> Nat]
  BY DigitIsAdded
<1>3. \A v \in Nat, k \in 1 .. n : F[<< v, k >>] = NextDigit(v, p[k])
  OBVIOUS
<1> HIDE DEF n, F
<1>4. PICK g \in [SUBSET (1 .. n) -> Nat] : Unrolls(g, F, 0, n)
  BY <1>1, <1>2, FoldExists
<1>5. ASSUME NEW s \in SUBSET (1 .. n), s # {}
      PROVE  F[<< g[s \ { Max(s) }], Max(s) >>] = NextDigit(g[s \ { Max(s) }], p[Max(s)])
  <2>1. Max(s) \in 1 .. n
    BY <1>1, <1>5, GreatestNumber
  <2>2. g[s \ { Max(s) }] \in Nat
    OBVIOUS
  <2> QED
    BY <1>3, <2>1, <2>2
<1>6. g = [s \in SUBSET (1 .. n) |-> IF s = {} THEN 0 ELSE NextDigit(g[s \ { Max(s) }], p[Max(s)])]
  BY <1>4, <1>5 DEF Unrolls
<1>7. c = [s \in SUBSET (1 .. n) |-> IF s = {} THEN 0 ELSE NextDigit(c[s \ { Max(s) }], p[Max(s)])]
  BY <1>1, <1>6 DEF NumberSets
<1> HIDE DEF c
<1>8. ASSUME NEW k \in 1 .. n
      PROVE  c[1 .. k] = NextDigit(c[1 .. (k - 1)], p[k])
  <2>1. (1 .. k) \in SUBSET (1 .. n) /\ k \in Nat /\ k >= 1
    BY <1>1
  <2>2. Max(1 .. k) = k /\ (1 .. k) # {} /\ (1 .. k) \ {k} = 1 .. (k - 1)
    BY <2>1, LastOfPrefix
  <2>3. c[1 .. k] = NextDigit(c[(1 .. k) \ { Max(1 .. k) }], p[Max(1 .. k)])
    BY <1>7, <2>1, <2>2
  <2> QED
    BY <2>2, <2>3
<1> DEFINE w == [k \in 0 .. n |-> c[1 .. k]]
           Good == { k \in 0 .. n : w[k] \in Nat }
<1>9. w[0] = 0
  <2>1. 1 .. 0 = {} /\ c[{}] = 0
    BY <1>7
  <2> QED
    BY <1>1, <2>1
<1>10. \A k \in 1 .. n : w[k] = NextDigit(w[k - 1], p[k])
  BY <1>1, <1>8
<1>11. FoldLeft(NextDigit, 0, p) = w[n]
  BY <1>1, FoldIsNumberSets DEF c
<1>12. w = [k \in 0 .. n |-> w[k]]
  OBVIOUS
<1> HIDE DEF w
<1>13. Good = 0 .. n
  <2>1. 0 \in Good
    BY <1>1, <1>9
  <2>2. ASSUME NEW k \in 1 .. n, k - 1 \in Good
        PROVE  k \in Good
    <3>1. PICK v \in Nat : v = w[k - 1]
      BY <2>2
    <3>2. w[k] = NextDigit(v, p[k])
      BY <1>10, <3>1
    <3>3. NextDigit(v, p[k]) \in Nat
      BY DigitIsAdded
    <3> QED
      BY <1>1, <3>2, <3>3
  <2>3. Good \in SUBSET (0 .. n)
    OBVIOUS
  <2> HIDE DEF Good
  <2> QED
    BY <1>1, <2>1, <2>2, <2>3, Along
<1>14. w \in [0 .. n -> Nat]
  BY <1>12, <1>13
<1> QED
  BY <1>9, <1>10, <1>11, <1>14 DEF IsNumber, n

\* No digit that the guard refuses would fit.
LEMMA RefusedIsTooLarge ==
  ASSUME NEW length \in Nat, ~ MayGrow(length)
  PROVE  2 * length >= MaxRequest
<1>1. MaxRequest \in Nat
  BY FramingAssumption
<1>2. \A max, l \in Nat : ~ (l <= (max - (2 - 1)) \div 2) => 2 * l >= max
  OBVIOUS
<1> QED
  BY <1>1, <1>2, BaseIsTwo DEF MayGrow

\* What a scan has of the number v: the number, or that it is too large.
Knows(f, v) ==
  IF f.invalid THEN v >= MaxRequest /\ ~ MayGrow(f.content_length) ELSE f.content_length = v

\* The next digit.
LEMMA DigitIsKnown ==
  ASSUME NEW f \in Scans, f.header_len = 0, f.reading_length = TRUE, NEW d \in Digits,
         NEW v \in Nat, Knows(f, v)
  PROVE  ScanByte(f, d).reading_length = TRUE /\ Knows(ScanByte(f, d), NextDigit(v, d))
<1> DEFINE g == ScanByte(f, d)
<1>1. d \in Bytes /\ f.content_length \in Nat /\ f.invalid \in BOOLEAN
  BY DEF Bytes, Scans, ScanFields
<1>2. /\ MayGrow(f.content_length) =>
           /\ g.content_length = f.content_length * Base + ValueOf(d)
           /\ g.invalid = f.invalid /\ g.reading_length = TRUE
      /\ ~ MayGrow(f.content_length) =>
           /\ g.content_length = f.content_length
           /\ g.invalid = TRUE /\ g.reading_length = TRUE
  BY <1>1, ByteOfLength
<1>3. MaxRequest \in Nat /\ NextDigit(v, d) \in Nat /\ NextDigit(v, d) >= v
      /\ NextDigit(v, d) = 2 * v + ValueOf(d) /\ ValueOf(d) \in 0 .. 1
  BY FramingAssumption, DigitIsAdded
<1> HIDE DEF g
<1>4. CASE MayGrow(f.content_length)
  <2>1. f.invalid = FALSE /\ f.content_length = v
    BY <1>1, <1>4 DEF Knows
  <2>2. g.content_length = NextDigit(v, d) /\ g.invalid = FALSE /\ g.reading_length = TRUE
    BY <1>2, <1>4, <2>1 DEF NextDigit
  <2> QED
    BY <2>2 DEF Knows, g
<1>5. CASE ~ MayGrow(f.content_length)
  <2>1. 2 * f.content_length >= MaxRequest
    BY <1>1, <1>5, RefusedIsTooLarge
  <2>2. NextDigit(v, d) >= MaxRequest
    <3>1. CASE f.invalid = TRUE
      BY <1>3, <3>1 DEF Knows
    <3>2. CASE f.invalid = FALSE
      <4>1. f.content_length = v
        BY <3>2 DEF Knows
      <4> QED
        BY <1>3, <2>1, <4>1
    <3> QED
      BY <1>1, <3>1, <3>2
  <2>3. g.content_length = f.content_length /\ g.invalid = TRUE /\ g.reading_length = TRUE
    BY <1>2, <1>5
  <2>4. ~ MayGrow(g.content_length)
    BY <1>5, <2>3
  <2> QED
    BY <2>2, <2>3, <2>4 DEF Knows, g
<1> QED
  BY <1>4, <1>5

\* The other bytes of a header leave what is known as it is.
LEMMA OtherIsKnown ==
  ASSUME NEW f \in Scans, f.header_len = 0, NEW c \in Bytes, NEW v, Knows(f, v),
         \/ f.reading_length = FALSE
         \/ f.reading_length = TRUE /\ c \in { "sp", "cr" }
  PROVE  Knows(ScanByte(f, c), v)
<1> DEFINE g == ScanByte(f, c)
<1>1. g.content_length = f.content_length /\ g.invalid = f.invalid
  <2>1. CASE f.reading_length = FALSE
    BY <2>1, ByteOutsideLength DEF g
  <2>2. CASE f.reading_length = TRUE /\ c \in { "sp", "cr" }
    BY <2>2, ByteOfLength DEF g
  <2> QED
    BY <2>1, <2>2
<1> HIDE DEF g
<1>2. Knows(g, v)
  BY <1>1 DEF Knows
<1> QED
  BY <1>2 DEF g

\* A header without the key has no length.
LEMMA NoLength ==
  ASSUME NEW q \in Seq(Bytes), HeaderEnds(q) # {}, NEW t, IsTrace(t, NewFlow, q),
         \A p \in 1 .. HeaderLen(q) : q[p] # "key"
  PROVE  Knows(t[HeaderLen(q)], 0)
<1> DEFINE h == HeaderLen(q)
           Good == { k \in 0 .. h : t[k].reading_length = FALSE /\ Knows(t[k], 0) }
<1>1. h \in 4 .. Len(q) /\ \A k \in 0 .. (h - 1) : t[k].header_len = 0
  BY HeaderIsScanned
<1>2. \A p \in 1 .. h : q[p] # "key"
  OBVIOUS
<1> HIDE DEF h
<1>3. h \in Nat /\ Good \in SUBSET (0 .. h) /\ Len(q) \in Nat
  BY <1>1
<1>4. 0 \in Good
  <2>1. t[0] = NewFlow
    BY DEF IsTrace
  <2>2. NewFlow.reading_length = FALSE /\ Knows(NewFlow, 0)
    BY DEF NewFlow, Knows
  <2> QED
    BY <1>3, <2>1, <2>2
<1>5. ASSUME NEW k \in 1 .. h, k - 1 \in Good
      PROVE  k \in Good
  <2>1. k \in 1 .. Len(q) /\ k - 1 \in 0 .. (h - 1) /\ k - 1 \in 0 .. Len(q)
    BY <1>1, <1>3
  <2>2. /\ t[k - 1] \in Scans /\ t[k] = ScanByte(t[k - 1], q[k]) /\ q[k] \in Bytes
        /\ t[k - 1].header_len = 0 /\ q[k] # "key"
    <3>1. t[k - 1] \in Scans /\ t[k] = ScanByte(t[k - 1], q[k])
      BY <2>1 DEF IsTrace
    <3> QED
      BY <1>1, <1>2, <2>1, <3>1
  <2>3. t[k - 1].reading_length = FALSE /\ Knows(t[k - 1], 0)
    BY <1>5
  <2>4. Knows(t[k], 0)
    BY <2>2, <2>3, OtherIsKnown
  <2>5. t[k].reading_length = FALSE
    BY <2>2, <2>3, ByteOutsideLength
  <2> QED
    BY <2>4, <2>5
<1>6. Good = 0 .. h
  <2> HIDE DEF Good
  <2> QED
    BY <1>3, <1>4, <1>5, Along
<1>7. h \in Good
  BY <1>3, <1>6
<1> QED
  BY <1>7 DEF h

LEMMA LeastOf ==
  ASSUME NEW T \in SUBSET Nat, T # {}
  PROVE  Min(T) \in T /\ \A x \in T : Min(T) <= x
<1>1. PICK n \in T : \A m \in T : ~ (m < n)
  BY LeastNumber
<1>2. \A m \in T : n <= m
  BY <1>1
<1> QED
  BY <1>1, <1>2 DEF Min

\* Where the number is: blanks, digits, blanks and the end of the line.
IsNumberAt(q, p, a, b, e, h) ==
  /\ a \in p + 1 .. h /\ b \in a .. h /\ e \in b .. h
  /\ \A i \in p + 1 .. a - 1 : q[i] = "sp"
  /\ \A i \in a .. b - 1 : q[i] \in Digits
  /\ \A i \in b .. e - 1 : q[i] = "sp"
  /\ q[e] = "cr"

LEMMA PlainNumber ==
  ASSUME NEW q \in Seq(Bytes), HeaderEnds(q) # {}, HeaderLen(q) \in HeaderEnds(q), Plain(q),
         NEW p \in 1 .. HeaderLen(q) - 4, q[p] = "key"
  PROVE  \E e : IsNumberAt(q, p, FirstAt(q, p + 1), AfterAt(q, p + 1), e, HeaderLen(q))
<1> DEFINE h == HeaderLen(q)
           a == FirstAt(q, p + 1)
           b == AfterAt(q, p + 1)
           A == { i \in p + 1 .. Len(q) : q[i] \notin Space } \cup { Len(q) + 1 }
           B == { i \in a .. Len(q) : q[i] \notin Digits } \cup { Len(q) + 1 }
<1>1. /\ h \in Nat /\ h >= 4 /\ h <= Len(q) /\ Len(q) \in Nat
      /\ q[h - 3] = "cr" /\ q[h - 2] = "lf" /\ q[h - 1] = "cr" /\ q[h] = "lf"
  <2>1. \A n \in HeaderEnds(q) : n \in Nat
    BY DEF HeaderEnds
  <2>2. HeaderLen(q) \in Nat /\ Len(q) \in Nat
    BY <2>1
  <2> QED
    BY <2>2, EmptyLine
<1>2. p \in Nat /\ p + 1 <= h - 3 /\ h - 3 \in Nat
  BY <1>1
<1>3. PICK e \in b .. h : q[e] = "cr" /\ \A i \in b .. e - 1 : q[i] = "sp"
  BY DEF Plain
<1>4. PICK k \in p + 1 .. h : q[k] \in Digits /\ \A i \in p + 1 .. k - 1 : q[i] = "sp"
  <2>1. \E k \in p + 1 .. HeaderLen(q) :
          q[k] \in Digits /\ \A i \in p + 1 .. k - 1 : q[i] = "sp"
    BY Zenon DEF Plain
  <2> QED
    BY <2>1
<1>5. a = Min(A) /\ b = Min(B)
  BY DEF FirstAt, AfterAt
<1> HIDE DEF h, a, b
\* The blanks before the first digit are space, and the digit is not.
<1>6. k \in Nat /\ k <= h - 3 /\ k >= p + 1
  <2>1. ~ (h - 3 < k)
    <3>1. k # h /\ k # h - 1 /\ k # h - 2
      BY <1>4, <1>1 DEF Digits
    <3> QED
      BY <1>1, <1>2, <3>1
  <2> QED
    BY <1>1, <1>2, <2>1
<1>7. a = k
  <2>1. A \in SUBSET Nat
    BY <1>1, <1>2
  <2>2. k \in A
    BY <1>4, <1>1, <1>2, <1>6 DEF Digits, Space
  <2>3. ASSUME NEW i \in A
        PROVE  ~ (i < k)
    <3>1. CASE i = Len(q) + 1
      BY <1>1, <1>6, <3>1
    <3>2. CASE i \in p + 1 .. Len(q) /\ q[i] \notin Space
      BY <1>4, <1>6, <3>2 DEF Space
    <3> QED
      BY <3>1, <3>2
  <2> HIDE DEF A
  <2>4. Min(A) \in A /\ \A x \in A : Min(A) <= x
    BY <2>1, <2>2, LeastOf
  <2>5. Min(A) \in Nat
    BY <2>1, <2>4
  <2> QED
    BY <1>5, <1>6, <2>2, <2>3, <2>4, <2>5
<1>8. b \in B /\ b <= h - 3 /\ \A i \in B : b <= i
  <2>1. B \in SUBSET Nat
    BY <1>1, <1>6, <1>7
  <2>2. h - 3 \in B
    BY <1>1, <1>2, <1>6, <1>7 DEF Digits
  <2> HIDE DEF A, B
  <2> QED
    BY <1>5, <2>1, <2>2, LeastOf
<1>9. b \in Nat /\ b >= a /\ b <= Len(q)
  BY <1>1, <1>6, <1>7, <1>8
<1>10. ASSUME NEW i \in a .. b - 1
       PROVE  q[i] \in Digits
  <2>1. i \in a .. Len(q) /\ ~ (b <= i)
    BY <1>1, <1>6, <1>7, <1>9
  <2> QED
    BY <1>8, <2>1
<1>11. a \in p + 1 .. h /\ b \in a .. h /\ e \in b .. h
  BY <1>3, <1>1, <1>2, <1>6, <1>7, <1>8, <1>9
<1> HIDE DEF A, B
<1>12. IsNumberAt(q, p, a, b, e, h)
  BY <1>3, <1>4, <1>7, <1>10, <1>11 DEF IsNumberAt
<1> QED
  BY <1>12 DEF h, a, b

\* How many digits come before the byte after k.
DigitsUpTo(k, a, b) == IF k < a THEN 0 ELSE IF k < b THEN k - a + 1 ELSE b - a

\* A header with one length: what the scan knows of it is the number that the
\* digits so far make.
LEMMA OneLength ==
  ASSUME NEW q \in Seq(Bytes), HeaderEnds(q) # {}, NEW t, IsTrace(t, NewFlow, q),
         NEW p \in 1 .. HeaderLen(q) - 4, q[p] = "key",
         \A o \in 1 .. HeaderLen(q) : q[o] = "key" => o = p,
         NEW a, NEW b, NEW e, IsNumberAt(q, p, a, b, e, HeaderLen(q)),
         NEW w, IsNumber(w, SubSeq(q, a, b - 1))
  PROVE  Knows(t[HeaderLen(q)], w[b - a])
<1> DEFINE h == HeaderLen(q)
           n(k) == DigitsUpTo(k, a, b)
           State(k) ==
             IF k < p THEN t[k].reading_length = FALSE /\ Knows(t[k], 0)
             ELSE /\ Knows(t[k], w[n(k)])
                  /\ k < e => t[k].reading_length = TRUE
                  /\ k >= e => t[k].reading_length = FALSE
           Good == { k \in 0 .. h : State(k) }
<1>1. h \in 4 .. Len(q) /\ \A k \in 0 .. (h - 1) : t[k].header_len = 0
  BY HeaderIsScanned
<1>2. /\ \A o \in 1 .. h : q[o] = "key" => o = p
      /\ p \in 1 .. h /\ q[p] = "key"
      /\ a \in p + 1 .. h /\ b \in a .. h /\ e \in b .. h
      /\ \A i \in p + 1 .. a - 1 : q[i] = "sp"
      /\ \A i \in a .. b - 1 : q[i] \in Digits
      /\ \A i \in b .. e - 1 : q[i] = "sp"
      /\ q[e] = "cr"
  BY <1>1 DEF IsNumberAt
<1>3. /\ h \in Nat /\ p \in Nat /\ a \in Nat /\ b \in Nat /\ e \in Nat /\ Len(q) \in Nat
      /\ 1 <= p /\ p < a /\ a <= b /\ b <= e /\ e <= h /\ h <= Len(q)
  BY <1>1, <1>2
<1> DEFINE s == SubSeq(q, a, b - 1)
<1>4. Len(s) = b - a /\ \A i \in 1 .. (b - a) : s[i] = q[a + i - 1]
  BY <1>3
<1> HIDE DEF h, s
<1>5. /\ w[0] = 0 /\ \A i \in 0 .. (b - a) : w[i] \in Nat
      /\ \A i \in 1 .. (b - a) : w[i] = NextDigit(w[i - 1], q[a + i - 1])
  BY <1>3, <1>4 DEF IsNumber, s
<1>6. 0 \in Good
  <2>1. t[0] = NewFlow
    BY DEF IsTrace
  <2>2. NewFlow.reading_length = FALSE /\ Knows(NewFlow, 0)
    BY DEF NewFlow, Knows
  <2> QED
    BY <1>3, <2>1, <2>2
<1>7. ASSUME NEW k \in 1 .. h, k - 1 \in Good
      PROVE  k \in Good
  <2>1. k \in Nat /\ k \in 1 .. Len(q) /\ k - 1 \in 0 .. (h - 1)
    BY <1>3
  <2>2. /\ t[k - 1] \in Scans /\ t[k] = ScanByte(t[k - 1], q[k]) /\ q[k] \in Bytes
        /\ t[k - 1].header_len = 0
    <3>1. k - 1 \in 0 .. Len(q)
      BY <1>3, <2>1
    <3> HIDE DEF Good, State
    <3>2. t[k - 1] \in Scans /\ t[k] = ScanByte(t[k - 1], q[k])
      BY <2>1, <3>1 DEF IsTrace
    <3> QED
      BY <1>1, <2>1, <3>2
  <2>0. State(k - 1)
    BY <1>7
  <2> HIDE DEF n
  <2>3. CASE k < p
    <3>1. q[k] # "key" /\ k - 1 < p
      BY <1>2, <1>3, <2>1, <2>3
    <3>2. t[k - 1].reading_length = FALSE /\ Knows(t[k - 1], 0)
      BY <2>0, <3>1
    <3>3. t[k].reading_length = FALSE
      <4>1. PICK f \in Scans, c \in Bytes : f = t[k - 1] /\ c = q[k]
        BY <2>2
      <4>2. ScanByte(f, c).reading_length = FALSE
        BY <2>2, <3>1, <3>2, <4>1, ByteOutsideLength
      <4> QED
        BY <2>2, <4>1, <4>2
    <3>4. Knows(t[k], 0)
      BY <2>2, <3>2, OtherIsKnown
    <3> QED
      BY <2>3, <3>3, <3>4
  <2>4. CASE k = p
    <3>1. q[k] = "key" /\ k - 1 < p
      BY <1>2, <1>3, <2>4
    <3>2. t[k - 1].reading_length = FALSE /\ Knows(t[k - 1], 0)
      BY <2>0, <3>1
    <3>3. t[k].reading_length = TRUE
      <4>1. PICK f \in Scans, c \in Bytes : f = t[k - 1] /\ c = q[k]
        BY <2>2
      <4>2. ScanByte(f, c).reading_length = TRUE
        BY <2>2, <3>1, <3>2, <4>1, ByteOutsideLength
      <4> QED
        BY <2>2, <4>1, <4>2
    <3>4. Knows(t[k], 0)
      BY <2>2, <3>2, OtherIsKnown
    <3>5. n(k) = 0 /\ ~ (k < p) /\ k < e /\ ~ (k >= e)
      BY <1>3, <2>4 DEF n, DigitsUpTo
    <3> QED
      BY <1>5, <3>3, <3>4, <3>5
  <2>5. CASE k > p /\ k < e /\ (k < a \/ k >= b)
    <3>1. q[k] = "sp"
      BY <1>2, <1>3, <2>1, <2>5
    <3>2. n(k) = n(k - 1)
      BY <1>3, <2>1, <2>5 DEF n, DigitsUpTo
    <3>3. ~ (k < p) /\ ~ (k - 1 < p) /\ k - 1 < e /\ ~ (k >= e)
      BY <1>3, <2>1, <2>5
    <3>4. t[k - 1].reading_length = TRUE /\ Knows(t[k - 1], w[n(k - 1)])
      BY <2>0, <3>3
    <3>5. t[k].reading_length = TRUE
      BY <2>2, <3>1, <3>4, ByteOfLength
    <3>6. Knows(t[k], w[n(k - 1)])
      BY <2>2, <3>1, <3>4, OtherIsKnown
    <3> QED
      BY <3>2, <3>3, <3>5, <3>6
  <2>6. CASE k >= a /\ k < b
    <3>1. q[k] \in Digits
      BY <1>2, <1>3, <2>1, <2>6
    <3>2. n(k) = k - a + 1 /\ n(k - 1) = k - a
      BY <1>3, <2>1, <2>6 DEF n, DigitsUpTo
    <3>3. ~ (k < p) /\ ~ (k - 1 < p) /\ k - 1 < e /\ ~ (k >= e)
      BY <1>3, <2>1, <2>6
    <3>4. t[k - 1].reading_length = TRUE /\ Knows(t[k - 1], w[n(k - 1)])
      BY <2>0, <3>3
    <3>5. PICK v \in Nat : v = w[n(k - 1)] /\ w[n(k)] = NextDigit(v, q[k])
      <4>1. /\ k - a + 1 \in 1 .. (b - a) /\ k - a \in 0 .. (b - a)
            /\ (k - a + 1) - 1 = k - a /\ a + (k - a + 1) - 1 = k
        BY <1>3, <2>1, <2>6
      <4> QED
        BY <1>5, <3>2, <4>1
    <3>6. t[k].reading_length = TRUE /\ Knows(t[k], NextDigit(v, q[k]))
      BY <2>2, <3>1, <3>4, <3>5, DigitIsKnown
    <3> QED
      BY <3>3, <3>5, <3>6
  <2>7. CASE k = e
    <3>1. q[k] = "cr"
      BY <1>2, <2>7
    <3>2. n(k) = n(k - 1)
      BY <1>3, <2>1, <2>7 DEF n, DigitsUpTo
    <3>3. ~ (k < p) /\ ~ (k - 1 < p) /\ k - 1 < e /\ ~ (k < e)
      BY <1>3, <2>1, <2>7
    <3>4. t[k - 1].reading_length = TRUE /\ Knows(t[k - 1], w[n(k - 1)])
      BY <2>0, <3>3
    <3>5. t[k].reading_length = FALSE
      BY <2>2, <3>1, <3>4, ByteOfLength
    <3>6. Knows(t[k], w[n(k - 1)])
      BY <2>2, <3>1, <3>4, OtherIsKnown
    <3> QED
      BY <3>2, <3>3, <3>5, <3>6
  <2>8. CASE k > e
    <3>1. q[k] # "key"
      BY <1>2, <1>3, <2>1, <2>8
    <3>2. n(k) = n(k - 1)
      BY <1>3, <2>1, <2>8 DEF n, DigitsUpTo
    <3>3. ~ (k < p) /\ ~ (k - 1 < p) /\ k - 1 >= e /\ ~ (k < e)
      BY <1>3, <2>1, <2>8
    <3>4. t[k - 1].reading_length = FALSE /\ Knows(t[k - 1], w[n(k - 1)])
      BY <2>0, <3>3
    <3>5. t[k].reading_length = FALSE
      <4>1. PICK f \in Scans, c \in Bytes : f = t[k - 1] /\ c = q[k]
        BY <2>2
      <4>2. ScanByte(f, c).reading_length = FALSE
        BY <2>2, <3>1, <3>4, <4>1, ByteOutsideLength
      <4> QED
        BY <2>2, <4>1, <4>2
    <3>6. Knows(t[k], w[n(k - 1)])
      BY <2>2, <3>4, OtherIsKnown
    <3> QED
      BY <3>2, <3>3, <3>5, <3>6
  <2>9. \/ k < p
        \/ k = p
        \/ k > p /\ k < e /\ (k < a \/ k >= b)
        \/ k >= a /\ k < b
        \/ k = e
        \/ k > e
    BY <1>3, <2>1
  <2> HIDE DEF Good
  <2> QED
    BY <2>3, <2>4, <2>5, <2>6, <2>7, <2>8, <2>9
<1>8. Good = 0 .. h
  <2>1. Good \in SUBSET (0 .. h)
    OBVIOUS
  <2> HIDE DEF Good
  <2> QED
    BY <1>3, <1>6, <1>7, <2>1, Along
<1>9. State(h)
  BY <1>3, <1>8
<1>10. ~ (h < p) /\ n(h) = b - a
  BY <1>3 DEF DigitsUpTo
<1> HIDE DEF n
<1>11. Knows(t[h], w[b - a])
  BY <1>9, <1>10
<1> QED
  BY <1>11 DEF h

-----------------------------------------------------------------------------
(* The scan of the bytes that have arrived. *)

LEMMA LeastOfTwo ==
  ASSUME NEW a \in Nat, NEW b \in Nat
  PROVE  Min({ a, b }) = IF a <= b THEN a ELSE b
<1>1. \E x \in { a, b } : \A y \in { a, b } : x <= y
  OBVIOUS
<1>2. Min({ a, b }) \in { a, b } /\ \A y \in { a, b } : Min({ a, b }) <= y
  BY <1>1 DEF Min
<1> QED
  BY <1>2

LEMMA NewFlowIsScan == NewFlow \in Scans
<1>1. 0 \in 0 .. MaxRequest
  BY FramingAssumption
<1> QED
  BY <1>1 DEF NewFlow, Scans, ScanFields

LEMMA PartOfBytes ==
  ASSUME NEW q \in Seq(Bytes), NEW a \in 0 .. Len(q), NEW b \in a .. Len(q)
  PROVE  SubSeq(q, a + 1, b) \in Seq(Bytes) /\ Len(SubSeq(q, a + 1, b)) = b - a
OBVIOUS

\* A new scan of at most the largest header looks at each of its bytes.
LEMMA NewScan ==
  ASSUME NEW p \in Seq(Bytes), Len(p) <= MaxHeader
  PROVE  Scan(NewFlow, p) = FoldLeft(ScanByte, NewFlow, p)
<1>1. MaxHeader \in Nat /\ Len(p) \in Nat
  BY FramingAssumption
<1>2. Min({ Len(p), MaxHeader }) = Len(p)
  BY <1>1, LeastOfTwo
<1>3. SubSeq(p, 0 + 1, Len(p)) = p
  OBVIOUS
<1>4. ~ (NewFlow.header_len > 0) /\ NewFlow.header_scanned = 0
  BY DEF NewFlow
<1>5. Scan(NewFlow, p) = FoldLeft(ScanByte, NewFlow, SubSeq(p, NewFlow.header_scanned + 1,
                                                          Min({ Len(p), MaxHeader })))
  BY <1>4, Zenon DEF Scan
<1> QED
  BY <1>2, <1>3, <1>4, <1>5, Zenon

\* So it comes to what a scan of all bytes has come to there.
LEMMA NewScanIsTrace ==
  ASSUME NEW q \in Seq(Bytes), NEW t, IsTrace(t, NewFlow, q),
         NEW k \in 0 .. Len(q), k <= MaxHeader
  PROVE  Scan(NewFlow, SubSeq(q, 1, k)) = t[k]
<1>1. PICK p \in Seq(Bytes) : p = SubSeq(q, 1, k) /\ Len(p) = k
  <2>1. 0 \in 0 .. Len(q) /\ 0 + 1 = 1 /\ k - 0 = k
    OBVIOUS
  <2> QED
    BY <2>1, PartOfBytes
<1>2. Scan(NewFlow, SubSeq(q, 1, k)) = FoldLeft(ScanByte, NewFlow, SubSeq(q, 1, k))
  <2>1. Scan(NewFlow, p) = FoldLeft(ScanByte, NewFlow, p)
    BY <1>1, NewScan
  <2> QED
    BY <1>1, <2>1, Zenon
<1>3. 0 \in 0 .. k
  OBVIOUS
<1>4. FoldLeft(ScanByte, t[0], SubSeq(q, 0 + 1, k)) = t[k]
  BY <1>3, NewFlowIsScan, PartOfTrace
<1>5. t[0] = NewFlow
  BY DEF IsTrace
<1> QED
  BY <1>2, <1>4, <1>5

\* A scan that goes on where another stopped is one of all the bytes that the
\* two have looked at.
LEMMA ScanGoesOn ==
  ASSUME NEW q \in Seq(Bytes), NEW f \in Scans,
         f.header_scanned <= Len(q), f.header_scanned <= MaxHeader,
         f = Scan(NewFlow, SubSeq(q, 1, f.header_scanned))
  PROVE  LET g == Scan(f, q)
         IN /\ g \in Scans /\ g.header_scanned <= Len(q) /\ g.header_scanned <= MaxHeader
            /\ g = Scan(NewFlow, SubSeq(q, 1, g.header_scanned))
            /\ g.header_len > 0 \/ g.header_scanned = Min({ Len(q), MaxHeader })
<1>1. f.header_scanned \in Nat /\ f.header_len \in Nat /\ MaxHeader \in Nat /\ Len(q) \in Nat
  BY FramingAssumption DEF Scans, ScanFields
<1>2. CASE f.header_len > 0
  <2>1. Scan(f, q) = f
    BY <1>2 DEF Scan
  <2> QED
    BY <1>2, <2>1
<1>3. CASE f.header_len = 0
  <2> DEFINE m == f.header_scanned
             n == Min({ Len(q), MaxHeader })
             g == Scan(f, q)
  <2>1. n \in Nat /\ n <= Len(q) /\ n <= MaxHeader /\ m <= n
    BY <1>1, LeastOfTwo
  <2>2. g = FoldLeft(ScanByte, f, SubSeq(q, m + 1, n))
    BY <1>3 DEF Scan
  <2> HIDE DEF n, g
  <2>3. PICK t : IsTrace(t, NewFlow, q)
    BY NewFlowIsScan, FoldHasTrace
  <2>4. ASSUME NEW k \in 0 .. n
        PROVE  Scan(NewFlow, SubSeq(q, 1, k)) = t[k]
    <3>1. k \in 0 .. Len(q) /\ k <= MaxHeader
      BY <1>1, <2>1
    <3> QED
      BY <2>3, <3>1, NewScanIsTrace
  <2>5. m \in 0 .. n /\ f = t[m]
    BY <1>1, <2>1, <2>4
  <2>6. g = t[n]
    <3>1. n \in 0 .. Len(q)
      BY <1>1, <2>1
    <3>2. FoldLeft(ScanByte, t[m], SubSeq(q, m + 1, n)) = t[n]
      BY <2>3, <2>5, <3>1, NewFlowIsScan, PartOfTrace
    <3> QED
      BY <2>2, <2>5, <3>2
  <2>7. /\ g \in Scans /\ g.header_scanned \in 0 .. n
        /\ g.header_len = 0 => g.header_scanned = n
        /\ t[g.header_scanned] = g
    BY <1>1, <2>1, <2>3, <2>6, TraceCounts
  <2>8. g = Scan(NewFlow, SubSeq(q, 1, g.header_scanned))
    BY <2>4, <2>7
  <2>9. g.header_scanned <= Len(q) /\ g.header_scanned <= MaxHeader /\ g.header_len \in Nat
    BY <1>1, <2>1, <2>7 DEF Scans, ScanFields
  <2>10. g.header_len > 0 \/ g.header_scanned = n
    BY <2>7, <2>9
  <2> QED
    BY <2>7, <2>8, <2>9, <2>10 DEF g, n
<1> QED
  BY <1>1, <1>2, <1>3

LEMMA PrefixOfPart ==
  ASSUME NEW q \in Seq(Bytes), NEW a \in 0 .. Len(q), NEW b \in a .. Len(q),
         NEW k \in 0 .. (b - a)
  PROVE  SubSeq(SubSeq(q, a + 1, b), 1, k) = SubSeq(q, a + 1, a + k)
OBVIOUS

-----------------------------------------------------------------------------
(* The router and the backend. *)

\* Of a plain header the scan knows the length that the backend reads.
LEMMA LengthAgrees ==
  ASSUME NEW q \in Seq(Bytes), HeaderEnds(q) # {}, Plain(q),
         NEW t, IsTrace(t, NewFlow, q)
  PROVE  \E v \in Nat : RequestLen(q) = HeaderLen(q) + v /\ Knows(t[HeaderLen(q)], v)
<1> DEFINE h == HeaderLen(q)
<1>1. h \in HeaderEnds(q) /\ h \in 4 .. Len(q)
  BY HeaderIsScanned
<1>2. /\ h \in Nat /\ h >= 4 /\ q[h - 3] = "cr" /\ q[h - 2] = "lf"
      /\ q[h - 1] = "cr" /\ q[h] = "lf"
  BY <1>1, EmptyLine
<1> HIDE DEF h
<1>3. ASSUME NEW o \in 1 .. h, q[o] = "key"
      PROVE  o \in 1 .. h - 4
  <2>1. o # h /\ o # h - 1 /\ o # h - 2 /\ o # h - 3
    BY <1>2, <1>3
  <2> QED
    BY <1>2, <2>1
<1>4. CASE \A o \in 1 .. h - 4 : q[o] # "key"
  <2>1. LengthLines(q) = {}
    BY <1>4 DEF LengthLines, h
  <2>2. \A o \in 1 .. h : q[o] # "key"
    BY <1>3, <1>4
  <2>3. Knows(t[HeaderLen(q)], 0)
    BY <2>2, NoLength DEF h
  <2>4. RequestLen(q) = HeaderLen(q) + 0
    BY <2>1 DEF RequestLen
  <2> QED
    BY <2>3, <2>4
<1>5. CASE \E o \in 1 .. h - 4 : q[o] = "key"
  <2>1. PICK p \in 1 .. h - 4 : q[p] = "key"
    BY <1>5
  <2>2. /\ LengthLines(q) = { p }
        /\ \A o \in 1 .. h - 4 : q[o] = "key" => o = p
    BY <2>1 DEF Plain, h
  <2>3. \A o \in 1 .. h : q[o] = "key" => o = p
    BY <1>3, <2>2
  <2>4. PICK a, b : a = FirstAt(q, p + 1) /\ b = AfterAt(q, p + 1)
    OBVIOUS
  <2>5. PICK e : IsNumberAt(q, p, a, b, e, h)
    BY <1>1, <2>1, <2>4, PlainNumber DEF h
  <2>6. a \in Nat /\ b \in Nat /\ 1 <= a /\ a <= b /\ b <= Len(q) /\ p \in Nat
    BY <1>1, <1>2, <2>1, <2>5 DEF IsNumberAt
  <2>7. PICK d \in Seq(Bytes) : d = SubSeq(q, a, b - 1) /\ Len(d) = b - a
    <3>1. SubSeq(q, a, b - 1) \in Seq(Bytes) /\ Len(SubSeq(q, a, b - 1)) = b - a
      BY <2>6
    <3> QED
      BY <3>1
  <2>8. PICK w : IsNumber(w, d) /\ FoldLeft(NextDigit, 0, d) = w[Len(d)]
    BY NumberIsRead
  <2>9. Knows(t[HeaderLen(q)], w[b - a])
    BY <2>1, <2>3, <2>5, <2>7, <2>8, OneLength DEF h
  <2>10. w[b - a] \in Nat
    <3>1. b - a \in 0 .. Len(d)
      BY <2>6, <2>7
    <3> QED
      BY <2>8, <3>1 DEF IsNumber
  <2>11. Max(LengthLines(q)) = p
    <3>1. Max({ p }) = p
      BY <2>6 DEF Max
    <3> QED
      BY <2>2, <3>1
  <2>12. NumberAt(q, p + 1) = w[b - a]
    BY <2>4, <2>7, <2>8 DEF NumberAt
  <2>13. RequestLen(q) = HeaderLen(q) + w[b - a]
    BY <2>2, <2>11, <2>12 DEF RequestLen
  <2> QED
    BY <2>9, <2>10, <2>13
<1> QED
  BY <1>4, <1>5

\* A scan of the first bytes of q has found the end of its header, or there is
\* none in these bytes.
LEMMA ScanFindsHeader ==
  ASSUME NEW q \in Seq(Bytes), NEW f \in Scans,
         f.header_scanned <= Len(q), f.header_scanned <= MaxHeader,
         f = Scan(NewFlow, SubSeq(q, 1, f.header_scanned))
  PROVE  IF f.header_len > 0 THEN HeaderEnds(q) # {} /\ f.header_len = HeaderLen(q)
         ELSE \A n \in HeaderEnds(q) : n > f.header_scanned
<1> DEFINE k == f.header_scanned
<1>1. k \in 0 .. Len(q) /\ f.header_len \in Nat
  BY DEF Scans, ScanFields
<1>2. PICK t : IsTrace(t, NewFlow, q)
  BY NewFlowIsScan, FoldHasTrace
<1>3. f = t[k]
  BY <1>1, <1>2, NewScanIsTrace
<1>4. IF f.header_len = 0 THEN \A i \in HeaderEnds(q) : i > k
      ELSE /\ f.header_len \in HeaderEnds(q)
           /\ \A i \in HeaderEnds(q) : f.header_len <= i
  BY <1>1, <1>2, <1>3, HeaderIsFound
<1>5. CASE f.header_len = 0
  BY <1>4, <1>5
<1>6. CASE f.header_len > 0
  <2>1. \A i \in HeaderEnds(q) : i \in Nat
    BY DEF HeaderEnds
  <2>2. HeaderLen(q) \in HeaderEnds(q) /\ \A i \in HeaderEnds(q) : HeaderLen(q) <= i
    BY <1>2, <1>4, <1>6 DEF HeaderLen, Min
  <2>3. HeaderLen(q) = f.header_len
    BY <1>1, <1>4, <1>6, <2>1, <2>2
  <2> QED
    BY <1>4, <1>6, <2>3
<1> QED
  BY <1>1, <1>5, <1>6

\* With the header it has found the length of the request, or refused one that
\* is too large.
LEMMA FramedLength ==
  ASSUME NEW q \in Seq(Bytes), Plain(q), NEW f \in Scans, f.header_len > 0,
         f.header_scanned <= Len(q), f.header_scanned <= MaxHeader,
         f = Scan(NewFlow, SubSeq(q, 1, f.header_scanned))
  PROVE  /\ ~ f.invalid => f.request_len = RequestLen(q)
         /\ f.invalid => RequestLen(q) > MaxRequest
<1>1. HeaderEnds(q) # {} /\ f.header_len = HeaderLen(q)
  BY ScanFindsHeader
<1>2. /\ f.header_len \in Nat /\ f.header_len = f.header_scanned
      /\ f.request_len = f.header_len + f.content_length
  BY DEF Scans, ScanFields
<1>3. PICK t : IsTrace(t, NewFlow, q)
  BY NewFlowIsScan, FoldHasTrace
<1>4. f = t[HeaderLen(q)]
  <2>1. f.header_scanned \in 0 .. Len(q)
    BY <1>2
  <2> QED
    BY <1>1, <1>2, <1>3, <2>1, NewScanIsTrace
<1>5. PICK v \in Nat : RequestLen(q) = HeaderLen(q) + v /\ Knows(f, v)
  BY <1>1, <1>3, <1>4, LengthAgrees
<1>6. HeaderLen(q) >= 4
  BY <1>1, <1>3, HeaderIsScanned
<1>7. MaxRequest \in Nat
  BY FramingAssumption
<1>8. ASSUME ~ f.invalid
      PROVE  f.request_len = RequestLen(q)
  BY <1>1, <1>2, <1>5, <1>8 DEF Knows
<1>9. ASSUME f.invalid
      PROVE  RequestLen(q) > MaxRequest
  <2>1. v >= MaxRequest
    BY <1>5, <1>9 DEF Knows
  <2>2. PICK n \in Nat : n = HeaderLen(q) /\ n >= 4
    BY <1>1, <1>2, <1>6
  <2>3. RequestLen(q) = n + v /\ n + v > MaxRequest
    BY <1>5, <1>7, <2>1, <2>2
  <2> QED
    BY <2>3
<1> QED
  BY <1>8, <1>9

-----------------------------------------------------------------------------
(* The invariant. *)

\* A flow that begins again is a scan of no bytes.
LEMMA NewFlowIsResumable ==
  ASSUME NEW q \in Seq(Bytes), NEW a \in 0 .. Len(q)
  PROVE  NewFlow = Scan(NewFlow, SubSeq(q, a + 1, a + NewFlow.header_scanned))
<1> DEFINE p == SubSeq(q, a + 1, a)
<1>1. p \in Seq(Bytes) /\ Len(p) = 0
  OBVIOUS
<1>2. Len(p) <= MaxHeader
  BY <1>1, FramingAssumption
<1>3. a + NewFlow.header_scanned = a
  BY DEF NewFlow
<1> HIDE DEF p
<1>4. Scan(NewFlow, p) = FoldLeft(ScanByte, NewFlow, p)
  BY <1>1, <1>2, NewScan
<1>5. PICK t : IsTrace(t, NewFlow, p) /\ FoldLeft(ScanByte, NewFlow, p) = t[Len(p)]
  BY <1>1, NewFlowIsScan, FoldHasTrace
<1>6. Scan(NewFlow, p) = NewFlow
  BY <1>1, <1>4, <1>5 DEF IsTrace
<1> QED
  BY <1>3, <1>6 DEF p

LEMMA FramingInit == Init => FramingInv
<1> SUFFICES ASSUME Init
             PROVE  FramingInv
  OBVIOUS
<1>1. /\ stream \in Seq(Bytes) /\ arrived = 0 /\ consumed = 0 /\ framed = <<>> /\ ready = FALSE
      /\ flow = NewFlow /\ incomplete = FALSE /\ request_bytes_processed = 0
  BY FramingAssumption DEF Init
<1>2. Len(stream) \in Nat /\ MaxHeader \in Nat
  BY <1>1, FramingAssumption
<1>3. flow \in Scans /\ flow.header_scanned = 0
  BY <1>1, NewFlowIsScan DEF NewFlow
<1>4. LeftoverIsReported
  BY <1>1 DEF LeftoverIsReported
<1>5. ScanIsResumable
  <2>1. 0 \in 0 .. Len(stream)
    BY <1>2
  <2> QED
    BY <1>1, <2>1, NewFlowIsResumable DEF ScanIsResumable, Rest
<1>6. framed \in Seq(1 .. Len(stream))
  BY <1>1
<1>7. /\ arrived \in 0 .. Len(stream) /\ consumed \in 0 .. arrived
      /\ request_bytes_processed \in 0 .. Len(stream)
      /\ flow.header_scanned \in 0 .. MaxHeader /\ flow.header_scanned <= arrived - consumed
  BY <1>1, <1>2, <1>3
<1>8. ready \in BOOLEAN /\ incomplete \in BOOLEAN /\ (ready => consumed < arrived)
  BY <1>1
<1>9. ScanIsExhausted
  BY <1>3 DEF ScanIsExhausted
<1>10. FramesFollow
  BY <1>1 DEF FramesFollow, StartOf
<1> QED
  BY <1>1, <1>3, <1>4, <1>5, <1>6, <1>7, <1>8, <1>9, <1>10 DEF FramingInv

\* What was passed on stays as it is.
LEMMA FramesKept ==
  ASSUME FramesFollow, UNCHANGED << stream, consumed, framed >>
  PROVE  FramesFollow'
  BY DEF FramesFollow, StartOf, Rest

\* Bytes that arrive leave the scan as it is.
LEMMA DeliverStep ==
  ASSUME FramingInv, Deliver
  PROVE  FramingInv'
<1>1. /\ stream' = stream /\ consumed' = consumed /\ framed' = framed /\ flow' = flow
      /\ incomplete' = incomplete /\ request_bytes_processed' = request_bytes_processed
      /\ ready' = TRUE /\ arrived' \in arrived + 1 .. Len(stream)
  BY DEF Deliver
<1>2. /\ Len(stream) \in Nat /\ arrived \in 0 .. Len(stream) /\ consumed \in 0 .. arrived
      /\ flow.header_scanned \in Nat /\ flow.header_scanned <= arrived - consumed
  BY DEF FramingInv, Scans, ScanFields
<1>3. /\ arrived' \in 0 .. Len(stream) /\ consumed \in 0 .. arrived'
      /\ flow.header_scanned <= arrived' - consumed /\ consumed < arrived'
  BY <1>1, <1>2
<1>4. LeftoverIsReported'
  BY <1>1 DEF LeftoverIsReported
<1>5. ScanIsResumable'
  BY <1>1 DEF FramingInv, ScanIsResumable, Rest
<1>6. ScanIsExhausted'
  BY <1>1 DEF ScanIsExhausted
<1>7. FramesFollow'
  BY <1>1, FramesKept DEF FramingInv
<1> QED
  BY <1>1, <1>3, <1>4, <1>5, <1>6, <1>7 DEF FramingInv

\* An eviction costs the scan its progress.
LEMMA EvictStep ==
  ASSUME FramingInv, Evict
  PROVE  FramingInv'
<1>1. /\ stream' = stream /\ arrived' = arrived /\ consumed' = consumed /\ framed' = framed
      /\ ready' = ready /\ incomplete' = incomplete /\ flow' = NewFlow
      /\ request_bytes_processed' = request_bytes_processed
  BY DEF Evict
<1>2. /\ stream \in Seq(Bytes) /\ Len(stream) \in Nat /\ arrived \in 0 .. Len(stream)
      /\ consumed \in 0 .. arrived /\ consumed \in 0 .. Len(stream) /\ MaxHeader \in Nat
  BY FramingAssumption DEF FramingInv
<1>3. flow' \in Scans /\ flow'.header_scanned = 0
  BY <1>1, NewFlowIsScan DEF NewFlow
<1>4. LeftoverIsReported'
  BY <1>1 DEF FramingInv, LeftoverIsReported
<1>5. ScanIsResumable'
  BY <1>1, <1>2, NewFlowIsResumable DEF ScanIsResumable, Rest
<1>6. ScanIsExhausted'
  BY <1>3 DEF ScanIsExhausted
<1>7. FramesFollow'
  BY <1>1, FramesKept DEF FramingInv
<1> QED
  BY <1>1, <1>2, <1>3, <1>4, <1>5, <1>6, <1>7 DEF FramingInv

\* More bytes are needed: what is left is reported as incomplete.
LEMMA NeedMoreStep ==
  ASSUME FramingInv, ready, NEW f \in Scans, NeedMore(f), UNCHANGED << stream, arrived >>,
         f.header_scanned <= arrived - consumed, f.header_scanned <= MaxHeader,
         f = Scan(NewFlow, SubSeq(stream, consumed + 1, consumed + f.header_scanned)),
         f.header_scanned > 0 =>
           /\ ~ Complete(f, arrived - consumed)
           /\ f.header_len > 0 \/ f.header_scanned = Min({ arrived - consumed, MaxHeader })
  PROVE  FramingInv'
<1>1. /\ stream' = stream /\ arrived' = arrived /\ consumed' = consumed /\ framed' = framed
      /\ flow' = f /\ ready' = FALSE /\ incomplete' = TRUE
      /\ request_bytes_processed' = arrived - consumed
  BY DEF NeedMore
<1>2. /\ stream \in Seq(Bytes) /\ Len(stream) \in Nat /\ arrived \in 0 .. Len(stream)
      /\ consumed \in 0 .. arrived /\ consumed < arrived /\ MaxHeader \in Nat
      /\ framed \in Seq(1 .. Len(stream))
  BY FramingAssumption DEF FramingInv
<1>3. f.header_scanned \in 0 .. MaxHeader /\ arrived - consumed \in 0 .. Len(stream)
  BY <1>2 DEF Scans, ScanFields
<1>4. LeftoverIsReported'
  BY <1>1, <1>2 DEF LeftoverIsReported
<1>5. ScanIsResumable'
  BY <1>1 DEF ScanIsResumable, Rest
<1>6. ScanIsExhausted'
  BY <1>1 DEF ScanIsExhausted
<1>7. FramesFollow'
  BY <1>1, FramesKept DEF FramingInv
<1> QED
  BY <1>1, <1>2, <1>3, <1>4, <1>5, <1>6, <1>7 DEF FramingInv

\* The request passed on is the one that the backend takes.
LEMMA FrameFollows ==
  ASSUME FramingInv, NEW f \in Scans, Complete(f, arrived - consumed), PassOn(f),
         UNCHANGED << stream, arrived >>,
         f.header_scanned <= arrived - consumed, f.header_scanned <= MaxHeader,
         f = Scan(NewFlow, SubSeq(stream, consumed + 1, consumed + f.header_scanned))
  PROVE  FramesFollow'
<1>1. PICK n : n = Len(framed)
  OBVIOUS
<1>2. /\ stream' = stream /\ consumed' = consumed + f.request_len
      /\ framed' = Append(framed, consumed + f.request_len)
  BY DEF PassOn
<1>3. /\ stream \in Seq(Bytes) /\ Len(stream) \in Nat /\ framed \in Seq(1 .. Len(stream))
      /\ consumed \in 0 .. Len(stream) /\ arrived \in consumed .. Len(stream)
      /\ FramesFollow
  BY DEF FramingInv
<1>4. /\ n \in Nat /\ DOMAIN framed = 1 .. n /\ DOMAIN framed' = 1 .. n + 1
      /\ framed'[n + 1] = consumed + f.request_len
      /\ \A k \in 1 .. n : framed'[k] = framed[k]
  BY <1>1, <1>2, <1>3
<1>5. \A k \in 1 .. n + 1 : StartOf(k)' = StartOf(k)
  <2>1. ASSUME NEW k \in 1 .. n + 1
        PROVE  StartOf(k)' = StartOf(k)
    <3>1. k # 1 => k - 1 \in 1 .. n
      BY <1>4
    <3> QED
      BY <1>4, <3>1 DEF StartOf
  <2> QED
    BY <2>1
<1>6. consumed = StartOf(n + 1) /\ StartOf(n + 2)' = consumed'
  <2>1. consumed = StartOf(n + 1)
    BY <1>1, <1>3 DEF FramesFollow
  <2>2. n + 2 # 1 /\ (n + 2) - 1 = n + 1
    BY <1>4
  <2>3. StartOf(n + 2)' = framed'[n + 1]
    BY <2>2 DEF StartOf
  <2> QED
    BY <1>2, <1>4, <2>1, <2>3
<1>7. Plain(Rest(consumed, Len(stream))) =>
        consumed + f.request_len = consumed + RequestLen(Rest(consumed, Len(stream)))
  <2> SUFFICES ASSUME Plain(Rest(consumed, Len(stream)))
               PROVE  f.request_len = RequestLen(Rest(consumed, Len(stream)))
    OBVIOUS
  <2> DEFINE q == SubSeq(stream, consumed + 1, Len(stream))
  <2>1. q \in Seq(Bytes) /\ Len(q) = Len(stream) - consumed
    BY <1>3, PartOfBytes
  <2>2. f.header_scanned \in 0 .. (Len(stream) - consumed) /\ f.header_scanned <= Len(q)
    <3>1. f.header_scanned \in Nat /\ arrived \in Nat /\ consumed \in Nat /\ arrived <= Len(stream)
      BY <1>3 DEF Scans, ScanFields
    <3> QED
      BY <1>3, <2>1, <3>1
  <2>3. SubSeq(q, 1, f.header_scanned)
          = SubSeq(stream, consumed + 1, consumed + f.header_scanned)
    <3>1. Len(stream) \in consumed .. Len(stream)
      BY <1>3
    <3> QED
      BY <1>3, <2>2, <3>1, PrefixOfPart
  <2>4. f = Scan(NewFlow, SubSeq(q, 1, f.header_scanned))
    BY <2>3
  <2>5. Plain(q)
    BY DEF Rest
  <2> HIDE DEF q
  <2>6. f.header_len > 0 /\ ~ f.invalid
    BY DEF Complete
  <2>7. f.request_len = RequestLen(q)
    BY <2>1, <2>2, <2>4, <2>5, <2>6, FramedLength
  <2> QED
    BY <2>7 DEF Rest, q
<1>8. ASSUME NEW k \in 1 .. n + 1,
             Plain(SubSeq(stream, StartOf(k) + 1, Len(stream)))
      PROVE  framed'[k] = StartOf(k) + RequestLen(SubSeq(stream, StartOf(k) + 1, Len(stream)))
  <2>1. CASE k = n + 1
    BY <1>4, <1>6, <1>7, <1>8, <2>1 DEF Rest
  <2>2. CASE k # n + 1
    <3>1. k \in 1 .. n
      BY <1>4, <2>2
    <3>2. framed[k] = StartOf(k) + RequestLen(SubSeq(stream, StartOf(k) + 1, Len(stream)))
      BY <1>3, <1>4, <1>8, <3>1 DEF FramesFollow, Rest
    <3> QED
      BY <1>4, <3>1, <3>2
  <2> QED
    BY <2>1, <2>2
<1>9. ASSUME NEW k \in 1 .. n + 1, Plain(Rest(StartOf(k), Len(stream)))'
      PROVE  (framed[k] = StartOf(k) + RequestLen(Rest(StartOf(k), Len(stream))))'
  <2>1. Plain(SubSeq(stream, StartOf(k) + 1, Len(stream)))
    BY <1>2, <1>5, <1>9 DEF Rest
  <2>2. framed'[k] = StartOf(k) + RequestLen(SubSeq(stream, StartOf(k) + 1, Len(stream)))
    BY <1>8, <2>1
  <2> QED
    BY <1>2, <1>5, <2>2 DEF Rest
<1>10. Len(framed') + 1 = n + 2
  BY <1>1, <1>2, <1>3, <1>4
<1>11. consumed' = StartOf(Len(framed) + 1)'
  BY <1>6, <1>10 DEF StartOf
<1>12. (\A k \in DOMAIN framed :
          Plain(Rest(StartOf(k), Len(stream))) =>
            framed[k] = StartOf(k) + RequestLen(Rest(StartOf(k), Len(stream))))'
  BY <1>4, <1>9
<1> QED
  BY <1>11, <1>12 DEF FramesFollow

\* A complete request is passed on: it has at least its header and at most the
\* bytes that have arrived.
LEMMA PassOnStep ==
  ASSUME FramingInv, NEW f \in Scans, Complete(f, arrived - consumed), PassOn(f),
         UNCHANGED << stream, arrived >>,
         f.header_scanned <= arrived - consumed, f.header_scanned <= MaxHeader,
         f = Scan(NewFlow, SubSeq(stream, consumed + 1, consumed + f.header_scanned))
  PROVE  FramingInv'
<1>1. /\ stream' = stream /\ arrived' = arrived /\ consumed' = consumed + f.request_len
      /\ framed' = Append(framed, consumed') /\ flow' = NewFlow
      /\ ready' = (consumed' < arrived) /\ incomplete' = FALSE
      /\ request_bytes_processed' = request_bytes_processed
  BY DEF PassOn
<1>2. /\ stream \in Seq(Bytes) /\ Len(stream) \in Nat /\ arrived \in 0 .. Len(stream)
      /\ consumed \in 0 .. arrived /\ MaxHeader \in Nat /\ framed \in Seq(1 .. Len(stream))
  BY FramingAssumption DEF FramingInv
<1>3. f.request_len \in Nat /\ f.request_len >= 1 /\ f.request_len <= arrived - consumed
  BY DEF Complete, Scans, ScanFields
<1>4. consumed' \in 1 .. arrived /\ consumed' \in 0 .. arrived /\ consumed' \in 1 .. Len(stream)
      /\ consumed' \in 0 .. Len(stream)
  BY <1>1, <1>2, <1>3
<1>5. framed' \in Seq(1 .. Len(stream))
  BY <1>1, <1>2, <1>4
<1>6. (consumed' < arrived) \in BOOLEAN
  OBVIOUS
<1>7. LeftoverIsReported'
  BY <1>1, <1>2, <1>4 DEF LeftoverIsReported
<1>8. flow' \in Scans /\ flow'.header_scanned = 0
  BY <1>1, NewFlowIsScan DEF NewFlow
<1>9. ScanIsResumable'
  <2>1. PICK c \in 0 .. Len(stream) : c = consumed'
    BY <1>4
  <2>2. NewFlow = Scan(NewFlow, SubSeq(stream, c + 1, c + NewFlow.header_scanned))
    BY <1>2, <2>1, NewFlowIsResumable
  <2> QED
    BY <1>1, <2>1, <2>2 DEF ScanIsResumable, Rest
<1>10. ready' \in BOOLEAN /\ incomplete' \in BOOLEAN /\ (ready' => consumed' < arrived')
  BY <1>1, <1>6
<1>11. /\ arrived' \in 0 .. Len(stream') /\ consumed' \in 0 .. arrived'
       /\ flow'.header_scanned \in 0 .. MaxHeader
       /\ flow'.header_scanned <= arrived' - consumed'
  BY <1>1, <1>2, <1>4, <1>8
<1>12. stream' \in Seq(Bytes) /\ request_bytes_processed' \in 0 .. Len(stream')
       /\ framed' \in Seq(1 .. Len(stream'))
  BY <1>1, <1>5 DEF FramingInv
<1>13. ScanIsExhausted'
  BY <1>8 DEF ScanIsExhausted
<1>14. FramesFollow'
  BY FrameFollows
<1> QED
  BY <1>7, <1>8, <1>9, <1>10, <1>11, <1>12, <1>13, <1>14 DEF FramingInv

\* The parser goes on where it stopped.
LEMMA ParseStep ==
  ASSUME FramingInv, Parse
  PROVE  FramingInv'
<1> DEFINE skb == SubSeq(stream, consumed + 1, arrived)
           f == Scan(flow, skb)
<1>1. /\ ready /\ UNCHANGED << stream, arrived >>
      /\ IF Complete(f, Len(skb)) THEN PassOn(f) ELSE NeedMore(f)
  BY DEF Parse
<1>2. /\ stream \in Seq(Bytes) /\ Len(stream) \in Nat /\ arrived \in 0 .. Len(stream)
      /\ consumed \in 0 .. arrived /\ consumed \in 0 .. Len(stream)
      /\ arrived \in consumed .. Len(stream)
  BY DEF FramingInv
<1>3. skb \in Seq(Bytes) /\ Len(skb) = arrived - consumed
  BY <1>2, PartOfBytes
<1>4. /\ flow \in Scans /\ flow.header_scanned \in 0 .. MaxHeader
      /\ flow.header_scanned \in 0 .. (arrived - consumed)
      /\ flow = Scan(NewFlow, SubSeq(stream, consumed + 1, consumed + flow.header_scanned))
  BY <1>2 DEF FramingInv, ScanIsResumable, Rest, Scans, ScanFields
<1>5. ASSUME NEW k \in 0 .. (arrived - consumed)
      PROVE  SubSeq(skb, 1, k) = SubSeq(stream, consumed + 1, consumed + k)
  BY <1>2, PrefixOfPart
<1>6. flow = Scan(NewFlow, SubSeq(skb, 1, flow.header_scanned))
  BY <1>4, <1>5
<1>7. flow.header_scanned <= Len(skb) /\ flow.header_scanned <= MaxHeader
  BY <1>2, <1>3, <1>4, FramingAssumption
<1> HIDE DEF skb
<1>8. /\ f \in Scans /\ f.header_scanned <= Len(skb) /\ f.header_scanned <= MaxHeader
      /\ f = Scan(NewFlow, SubSeq(skb, 1, f.header_scanned))
      /\ f.header_len > 0 \/ f.header_scanned = Min({ Len(skb), MaxHeader })
  BY <1>3, <1>4, <1>6, <1>7, ScanGoesOn
<1> HIDE DEF f
<1>9. f = Scan(NewFlow, SubSeq(stream, consumed + 1, consumed + f.header_scanned))
  <2>1. f.header_scanned \in 0 .. (arrived - consumed)
    BY <1>2, <1>3, <1>8 DEF Scans, ScanFields
  <2> QED
    BY <1>5, <1>8, <2>1
<1>10. CASE Complete(f, Len(skb))
  BY <1>1, <1>3, <1>8, <1>9, <1>10, PassOnStep
<1>11. CASE ~ Complete(f, Len(skb))
  BY <1>1, <1>3, <1>8, <1>9, <1>11, NeedMoreStep
<1> QED
  BY <1>10, <1>11

\* A failing map leaves a scan that has seen nothing.
LEMMA ParseFailsStep ==
  ASSUME FramingInv, ParseFails
  PROVE  FramingInv'
<1>1. ready /\ NeedMore(NewFlow) /\ UNCHANGED << stream, arrived >>
  BY DEF ParseFails
<1>2. /\ stream \in Seq(Bytes) /\ Len(stream) \in Nat /\ arrived \in 0 .. Len(stream)
      /\ consumed \in 0 .. arrived /\ consumed \in 0 .. Len(stream) /\ MaxHeader \in Nat
  BY FramingAssumption DEF FramingInv
<1>3. NewFlow \in Scans /\ NewFlow.header_scanned = 0
  BY NewFlowIsScan DEF NewFlow
<1>4. NewFlow.header_scanned <= arrived - consumed /\ NewFlow.header_scanned <= MaxHeader
  BY <1>2, <1>3
<1>5. NewFlow = Scan(NewFlow, SubSeq(stream, consumed + 1, consumed + NewFlow.header_scanned))
  BY <1>2, NewFlowIsResumable
<1> QED
  BY <1>1, <1>3, <1>4, <1>5, NeedMoreStep

\* The invariant is kept by every step.
LEMMA FramingStep == FramingInv /\ [Next]_vars => FramingInv'
<1> SUFFICES ASSUME FramingInv, [Next]_vars
             PROVE  FramingInv'
  OBVIOUS
<1>1. CASE Deliver
  BY <1>1, DeliverStep
<1>2. CASE Evict
  BY <1>2, EvictStep
<1>3. CASE Parse
  BY <1>3, ParseStep
<1>4. CASE ParseFails
  BY <1>4, ParseFailsStep
<1>5. CASE UNCHANGED vars
  <2>1. FramesFollow'
    BY <1>5, FramesKept DEF FramingInv, vars
  <2> QED
    BY <1>5, <2>1 DEF FramingInv, LeftoverIsReported, ScanIsResumable, ScanIsExhausted, Rest, vars
<1> QED
  BY <1>1, <1>2, <1>3, <1>4, <1>5 DEF Next, AllSent

-----------------------------------------------------------------------------
(* The theorems. *)

\* The invariant: the scan in the flow map is one uninterrupted scan of the
\* bytes that it counts, and the bytes that are left are reported.
THEOREM FramingInvariance == Spec => []FramingInv
<1> QED
  BY FramingInit, FramingStep, PTL DEF Spec

\* The types: the length of a request never passes the limits of the parser,
\* though it is read digit by digit without end.
THEOREM FramingTypes == Spec => []TypeOK
<1>1. FramingInv => TypeOK
  <2> SUFFICES ASSUME FramingInv
               PROVE  TypeOK
    OBVIOUS
  <2>1. MaxHeader \in Nat /\ MaxRequest \in Nat
    BY FramingAssumption
  <2>2. /\ stream \in Seq(Bytes) /\ consumed <= arrived /\ arrived <= Len(stream)
        /\ framed \in Seq(1 .. Len(stream)) /\ {ready, incomplete} \subseteq BOOLEAN
        /\ request_bytes_processed \in 0 .. Len(stream)
    BY DEF FramingInv
  <2>3. /\ flow.header_scanned \in 0 .. MaxHeader /\ flow.content_length \in 0 .. MaxRequest
        /\ flow.header_match \in 0 .. 4 /\ {flow.reading_length, flow.invalid} \subseteq BOOLEAN
    BY DEF FramingInv, Scans, ScanFields
  <2>4. flow.header_len \in 0 .. MaxHeader /\ flow.request_len \in 0 .. MaxHeader + MaxRequest
    BY <2>1 DEF FramingInv, Scans, ScanFields
  <2> QED
    BY <2>2, <2>3, <2>4 DEF TypeOK
<1> QED
  BY <1>1, FramingInvariance, PTL

\* However a request is cut into segments, the scan kept in the map is that of
\* one uninterrupted scan.
THEOREM ScanResumes == Spec => []ScanIsResumable
<1>1. FramingInv => ScanIsResumable
  BY DEF FramingInv
<1> QED
  BY <1>1, FramingInvariance, PTL

\* The lifecycle state tells the half-close of every byte that no request has
\* taken yet.
THEOREM LeftoverReported == Spec => []LeftoverIsReported
<1>1. FramingInv => LeftoverIsReported
  BY DEF FramingInv
<1> QED
  BY <1>1, FramingInvariance, PTL

\* The scan in the flow, as one of the bytes that wait.
LEMMA FlowIsScan ==
  ASSUME FramingInv
  PROVE  /\ Rest(consumed, arrived) \in Seq(Bytes)
         /\ Len(Rest(consumed, arrived)) = arrived - consumed
         /\ flow \in Scans /\ flow.header_scanned <= Len(Rest(consumed, arrived))
         /\ flow.header_scanned <= MaxHeader
         /\ flow = Scan(NewFlow, SubSeq(Rest(consumed, arrived), 1, flow.header_scanned))
<1> DEFINE q == SubSeq(stream, consumed + 1, arrived)
           k == flow.header_scanned
<1>1. /\ stream \in Seq(Bytes) /\ consumed \in 0 .. Len(stream)
      /\ arrived \in consumed .. Len(stream) /\ flow \in Scans
      /\ k \in 0 .. MaxHeader /\ k \in 0 .. (arrived - consumed)
  BY DEF FramingInv, Scans, ScanFields
<1>2. q \in Seq(Bytes) /\ Len(q) = arrived - consumed
  BY <1>1, PartOfBytes
<1>3. SubSeq(q, 1, k) = SubSeq(stream, consumed + 1, consumed + k)
  BY <1>1, PrefixOfPart
<1>4. flow = Scan(NewFlow, SubSeq(q, 1, k))
  BY <1>3 DEF FramingInv, ScanIsResumable, Rest
<1>5. k <= Len(q) /\ k <= MaxHeader
  BY <1>1, <1>2, FramingAssumption
<1> QED
  BY <1>1, <1>2, <1>4, <1>5 DEF Rest

\* A header ends for the router where it ends for the backend, whatever comes
\* before it and however it is cut into segments.
THEOREM HeaderEndsAgreeCorrect == Spec => []HeaderEndsAgree
<1>1. FramingInv => HeaderEndsAgree
  <2> SUFFICES ASSUME FramingInv
               PROVE  HeaderEndsAgree
    OBVIOUS
  <2> QED
    BY FlowIsScan, ScanFindsHeader DEF HeaderEndsAgree
<1> QED
  BY <1>1, FramingInvariance, PTL

\* The requests that the router passes on are those that the backend takes,
\* for every stream whose headers state their length plainly: no byte of a
\* request goes to the backend of another.
THEOREM RouterAgrees == Spec => [](HeadersArePlain => RouterAndBackendAgree)
<1>1. FramingInv => (HeadersArePlain => RouterAndBackendAgree)
  BY DEF FramingInv, FramesFollow, HeadersArePlain, RouterAndBackendAgree
<1> QED
  BY <1>1, FramingInvariance, PTL

\* A request with a plain header that has arrived in full, and is within the
\* limits, is not left waiting.
THEOREM NoCompleteRequestStuck ==
  Spec => [](Plain(Rest(consumed, arrived)) => NoCompleteRequestWaits)
<1>1. FramingInv => (Plain(Rest(consumed, arrived)) => NoCompleteRequestWaits)
  <2> SUFFICES ASSUME FramingInv, Plain(Rest(consumed, arrived)), ~ ready,
                      flow.header_scanned > 0, HeaderEnds(Rest(consumed, arrived)) # {}
               PROVE  LET s == Rest(consumed, arrived)
                      IN HeaderLen(s) > MaxHeader \/ RequestLen(s) > Min({ Len(s), MaxRequest })
    BY DEF NoCompleteRequestWaits
  <2> DEFINE s == Rest(consumed, arrived)
  <2>1. /\ s \in Seq(Bytes) /\ Len(s) = arrived - consumed /\ flow \in Scans
        /\ flow.header_scanned <= Len(s) /\ flow.header_scanned <= MaxHeader
        /\ flow = Scan(NewFlow, SubSeq(s, 1, flow.header_scanned))
    BY FlowIsScan
  <2> HIDE DEF s
  <2>2. /\ ~ Complete(flow, Len(s))
        /\ flow.header_len > 0 \/ flow.header_scanned = Min({ Len(s), MaxHeader })
    BY <2>1 DEF FramingInv, ScanIsExhausted
  <2>3. /\ Len(s) \in Nat /\ MaxHeader \in Nat /\ MaxRequest \in Nat
        /\ flow.header_len \in Nat /\ flow.request_len \in Nat
        /\ HeaderEnds(s) # {} /\ Plain(s)
    BY <2>1, FramingAssumption DEF Scans, ScanFields, s
  <2>4. CASE flow.header_len > 0
    <3>1. /\ ~ flow.invalid => flow.request_len = RequestLen(s)
          /\ flow.invalid => RequestLen(s) > MaxRequest
      BY <2>1, <2>3, <2>4, FramedLength
    <3>2. Min({ Len(s), MaxRequest }) = IF Len(s) <= MaxRequest THEN Len(s) ELSE MaxRequest
      BY <2>3, LeastOfTwo
    <3>3. CASE ~ flow.invalid
      <4>1. flow.request_len > Len(s) \/ flow.request_len > MaxRequest
        BY <2>2, <2>3, <2>4, <3>3 DEF Complete
      <4>2. flow.request_len > Min({ Len(s), MaxRequest })
        BY <2>3, <3>2, <4>1
      <4> QED
        BY <3>1, <3>3, <4>2 DEF s
    <3>4. CASE flow.invalid
      <4>1. PICK v \in Nat : RequestLen(s) = v
        <5>1. PICK t : IsTrace(t, NewFlow, s)
          BY <2>1, NewFlowIsScan, FoldHasTrace
        <5>2. PICK v \in Nat : RequestLen(s) = HeaderLen(s) + v
          BY <2>1, <2>3, <5>1, LengthAgrees
        <5>3. HeaderLen(s) \in Nat
          BY <2>1, <2>3, <5>1, HeaderIsScanned
        <5> QED
          BY <5>2, <5>3
      <4>2. v > Min({ Len(s), MaxRequest })
        BY <2>3, <3>1, <3>2, <3>4, <4>1
      <4> QED
        BY <4>1, <4>2 DEF s
    <3> QED
      BY <3>3, <3>4
  <2>5. CASE flow.header_len = 0
    <3>1. \A n \in HeaderEnds(s) : n > flow.header_scanned
      BY <2>1, <2>5, ScanFindsHeader
    <3>2. HeaderLen(s) \in HeaderEnds(s) /\ HeaderLen(s) \in 4 .. Len(s)
      <4>1. PICK t : IsTrace(t, NewFlow, s)
        BY <2>1, NewFlowIsScan, FoldHasTrace
      <4> QED
        BY <2>1, <2>3, <4>1, HeaderIsScanned
    <3>3. HeaderLen(s) > Min({ Len(s), MaxHeader })
      BY <2>2, <2>5, <3>1, <3>2
    <3>4. Min({ Len(s), MaxHeader }) = IF Len(s) <= MaxHeader THEN Len(s) ELSE MaxHeader
      BY <2>3, LeastOfTwo
    <3>5. HeaderLen(s) > MaxHeader
      BY <2>3, <3>2, <3>3, <3>4
    <3> QED
      BY <3>5 DEF s
  <2> QED
    BY <2>3, <2>4, <2>5
<1> QED
  BY <1>1, FramingInvariance, PTL
=============================================================================
