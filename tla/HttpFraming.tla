----------------------------- MODULE HttpFraming -----------------------------
(***************************************************************************)
(* Where one request ends and the next begins: the header scan of the BPF  *)
(* stream parser (bpf/programs/sk_router.bpf.c, scan_headers_callback and  *)
(* sk_router_parser), which sees the byte stream of a client in segments   *)
(* and keeps its progress in an LRU map, against the framing of the        *)
(* backend that gets the request (benchmarks/mock_backend.c).              *)
(*                                                                         *)
(* A byte is one of a few tokens. "key" stands for the whole of            *)
(* "content-length:", in any case, and counts as one byte: only its first  *)
(* byte is a c, so the matcher that restarts at a c misses none. A segment *)
(* that ends within it (prefix_pos kept in the flow) is not covered.       *)
(***************************************************************************)
EXTENDS Integers, Sequences, FiniteSets, SequencesExt

CONSTANTS
  Streams,       (* what a client may send on its connection               *)
  MaxHeader,     (* SK_ROUTER_MAX_HEADER                                   *)
  MaxRequest,    (* SK_ROUTER_MAX_REQUEST                                  *)
  MapMayFail     (* the update or the lookup of the flow may fail          *)

Digits == { "0", "1" }
Base == Cardinality(Digits)
ValueOf(d) == IF d = "1" THEN 1 ELSE 0
Bytes == Digits \cup { "cr", "lf", "sp", "key", "x" }

ASSUME FramingAssumption ==
  /\ Streams \subseteq Seq(Bytes) /\ MapMayFail \in BOOLEAN
  /\ MaxHeader \in Nat /\ MaxRequest \in Nat

VARIABLES
  stream,        (* all the client will send                               *)
  arrived,       (* bytes of it that have arrived                          *)
  consumed,      (* bytes of the requests already passed on                *)
  framed,        (* history: where these requests ended                    *)
  ready,         (* the stream parser has something new to look at         *)
  flow,          (* sk_http_flows: the scan of the request at hand         *)
  incomplete,    (* SK_LIFECYCLE_REQUEST_INCOMPLETE                        *)
  request_bytes_processed

vars == << stream, arrived, consumed, framed, ready, flow, incomplete,
           request_bytes_processed >>

\* A flow that is not in the map and one just initialised are the same to the
\* parser.
NewFlow == [header_scanned |-> 0, header_len |-> 0, content_length |-> 0,
            request_len |-> 0, header_match |-> 0, reading_length |-> FALSE,
            invalid |-> FALSE]

Init ==
  /\ stream \in Streams
  /\ arrived = 0 /\ consumed = 0 /\ framed = <<>> /\ ready = FALSE
  /\ flow = NewFlow
  /\ incomplete = FALSE /\ request_bytes_processed = 0

-----------------------------------------------------------------------------
(* The scan. *)

\* One step of the match of CR LF CR LF.
HeaderMatch_NoRestart(n, c) ==
  IF c = (IF n \in {0, 2} THEN "cr" ELSE "lf") THEN n + 1 ELSE 0

HeaderMatch(n, c) ==
  IF c = (IF n \in {0, 2} THEN "cr" ELSE "lf") THEN n + 1
  ELSE IF c = "cr" THEN 1 ELSE 0

MayGrow_UpToMax(length) == length <= MaxRequest \div Base

\* One more digit leaves the length within the largest request.
MayGrow(length) == length <= (MaxRequest - (Base - 1)) \div Base

\* The Content-Length: found anywhere in a line, read to the end of the line.
ReadLength(f, c) ==
  IF ~f.reading_length THEN [f EXCEPT !.reading_length = (c = "key")]
  ELSE IF c \in Digits /\ MayGrow(f.content_length)
    THEN [f EXCEPT !.content_length = @ * Base + ValueOf(c)]
  ELSE IF c = "cr" THEN [f EXCEPT !.reading_length = FALSE]
  ELSE IF c = "sp" THEN f
  ELSE [f EXCEPT !.invalid = TRUE]

\* scan_headers_callback. The loop ends with the header.
ScanByte(f, c) ==
  LET g == [f EXCEPT !.header_scanned = @ + 1, !.header_match = HeaderMatch(@, c)]
  IN IF f.header_len > 0 THEN f
     ELSE IF g.header_match = 4
       THEN [g EXCEPT !.header_len = g.header_scanned,
                      !.request_len = g.header_scanned + g.content_length]
     ELSE ReadLength(g, c)

Scan_FromLastByte(f, skb) ==
  IF f.header_len > 0 THEN f
  ELSE FoldLeft(ScanByte, f, SubSeq(skb, Max({ f.header_scanned, 1 }),
                                    Min({ Len(skb), MaxHeader })))

\* The scan goes on where it stopped.
Scan(f, skb) ==
  IF f.header_len > 0 THEN f
  ELSE FoldLeft(ScanByte, f, SubSeq(skb, f.header_scanned + 1,
                                    Min({ Len(skb), MaxHeader })))

Complete(f, len) ==
  f.header_len > 0 /\ ~f.invalid /\ f.request_len <= len /\ f.request_len <= MaxRequest

-----------------------------------------------------------------------------
(* The parser and what is around it. *)

\* A segment arrives, of any size.
Deliver ==
  /\ arrived' \in arrived + 1 .. Len(stream)
  /\ ready' = TRUE
  /\ UNCHANGED << stream, consumed, framed, flow, incomplete, request_bytes_processed >>

\* The map makes room for the flow of another connection.
Evict ==
  /\ flow' = NewFlow
  /\ UNCHANGED << stream, arrived, consumed, framed, ready, incomplete,
                  request_bytes_processed >>

NeedMore(f) ==
  /\ flow' = f /\ ready' = FALSE
  /\ incomplete' = TRUE /\ request_bytes_processed' = arrived - consumed
  /\ UNCHANGED << consumed, framed >>

PassOn_KeepsFlow(f) ==
  /\ flow' = f
  /\ consumed' = consumed + f.request_len /\ framed' = Append(framed, consumed')
  /\ ready' = (consumed' < arrived)
  /\ incomplete' = FALSE
  /\ UNCHANGED request_bytes_processed

PassOn_KeepsFlag(f) ==
  /\ flow' = NewFlow
  /\ consumed' = consumed + f.request_len /\ framed' = Append(framed, consumed')
  /\ ready' = (consumed' < arrived)
  /\ UNCHANGED << incomplete, request_bytes_processed >>

\* The request goes to the verdict, which deletes its flow; the kernel calls
\* the parser again for what follows it.
PassOn(f) ==
  /\ flow' = NewFlow
  /\ consumed' = consumed + f.request_len /\ framed' = Append(framed, consumed')
  /\ ready' = (consumed' < arrived)
  /\ incomplete' = FALSE
  /\ UNCHANGED request_bytes_processed

\* sk_router_parser on all the bytes since the last request.
Parse ==
  /\ ready
  /\ LET skb == SubSeq(stream, consumed + 1, arrived)
         f == Scan(flow, skb)
     IN IF Complete(f, Len(skb)) THEN PassOn(f) ELSE NeedMore(f)
  /\ UNCHANGED << stream, arrived >>

\* The scratch element or the flow just inserted is not found.
ParseFails ==
  /\ ready /\ MapMayFail /\ flow = NewFlow
  /\ NeedMore(NewFlow)
  /\ UNCHANGED << stream, arrived >>

AllSent == arrived = Len(stream) /\ ~ready /\ UNCHANGED vars

Next == Deliver \/ Evict \/ Parse \/ ParseFails \/ AllSent

Spec == Init /\ [][Next]_vars

-----------------------------------------------------------------------------
(* The framing of the backend, worker_thread. *)

IsAt(s, p, t) == p >= 1 /\ SubSeq(s, p, p + Len(t) - 1) = t
CRLF == << "cr", "lf" >>

\* strstr(buf, "\r\n\r\n"): the lengths of the prefixes that end with it.
HeaderEnds(s) == { n \in 4 .. Len(s) : IsAt(s, n - 3, CRLF \o CRLF) }
HeaderLen(s) == Min(HeaderEnds(s))

\* Lines of the header that start with the key.
LengthLines(s) ==
  { p \in 1 .. HeaderLen(s) - 4 : s[p] = "key" /\ (p = 1 \/ IsAt(s, p - 2, CRLF)) }

\* strtoull after the key: what isspace takes, the ends of lines too, then digits.
Space == { "sp", "cr", "lf" }
FirstAt(s, p) == Min({ q \in p .. Len(s) : s[q] \notin Space } \cup { Len(s) + 1 })
AfterAt(s, p) == Min({ q \in FirstAt(s, p) .. Len(s) : s[q] \notin Digits } \cup { Len(s) + 1 })
NextDigit(v, d) == v * Base + ValueOf(d)
NumberAt(s, p) == FoldLeft(NextDigit, 0, SubSeq(s, FirstAt(s, p), AfterAt(s, p) - 1))

\* The last line wins.
RequestLen(s) ==
  HeaderLen(s) +
    IF LengthLines(s) = {} THEN 0 ELSE NumberAt(s, Max(LengthLines(s)) + 1)

-----------------------------------------------------------------------------
(* Properties *)

\* The type invariant: the bytes consumed have arrived, and the fields of a
\* flow stay within the limits of the parser.
TypeOK ==
  /\ stream \in Seq(Bytes) /\ consumed <= arrived /\ arrived <= Len(stream)
  /\ framed \in Seq(1 .. Len(stream)) /\ {ready, incomplete} \subseteq BOOLEAN
  /\ request_bytes_processed \in 0 .. Len(stream)
  /\ flow.header_scanned \in 0 .. MaxHeader /\ flow.header_len \in 0 .. MaxHeader
  /\ flow.content_length \in 0 .. MaxRequest
  /\ flow.request_len \in 0 .. MaxHeader + MaxRequest
  /\ flow.header_match \in 0 .. 4 /\ {flow.reading_length, flow.invalid} \subseteq BOOLEAN

Rest(from, to) == SubSeq(stream, from + 1, to)

\* A header whose length both read alike: it has the key at most once, at the
\* start of a line, and a number, of one digit at least, with nothing but blanks
\* around it.
Plain(s) ==
  HeaderEnds(s) # {} =>
    \A p \in 1 .. HeaderLen(s) - 4 : s[p] = "key" =>
      /\ LengthLines(s) = { p } /\ \A o \in 1 .. HeaderLen(s) - 4 : s[o] = "key" => o = p
      /\ \E a \in p + 1 .. HeaderLen(s) :
           s[a] \in Digits /\ \A i \in p + 1 .. a - 1 : s[i] = "sp"
      /\ \E e \in AfterAt(s, p + 1) .. HeaderLen(s) :
           s[e] = "cr" /\ \A i \in AfterAt(s, p + 1) .. e - 1 : s[i] = "sp"

\* Where a request begins, and that all that were passed on have such a header.
StartOf(k) == IF k = 1 THEN 0 ELSE framed[k - 1]
HeadersArePlain == \A k \in DOMAIN framed : Plain(Rest(StartOf(k), Len(stream)))

\* However the stream is cut into segments, and whatever flows are evicted,
\* the router passes on what the backend takes for one request: no byte of a
\* request goes to the backend of another.
RouterAndBackendAgree ==
  \A k \in DOMAIN framed :
    framed[k] = StartOf(k) + RequestLen(Rest(StartOf(k), Len(stream)))

\* The scan kept in the map is that of one uninterrupted scan of the bytes it
\* has seen.
ScanIsResumable ==
  flow = Scan(NewFlow, Rest(consumed, consumed + flow.header_scanned))

\* A header ends for the router where it ends for the backend, at the first
\* empty line, whatever comes before it and wherever the segments are cut.
HeaderEndsAgree ==
  LET s == Rest(consumed, arrived) IN
  IF flow.header_len > 0 THEN HeaderEnds(s) # {} /\ flow.header_len = HeaderLen(s)
  ELSE \A n \in HeaderEnds(s) : n > flow.header_scanned

\* Once the parser has run, the lifecycle state says of all the bytes that
\* are left that they are an incomplete request (the half-close relies on it).
LeftoverIsReported ==
  ~ready => /\ incomplete <=> consumed < arrived
            /\ incomplete => request_bytes_processed = arrived - consumed

\* A request within the limits that has arrived in full does not wait, unless
\* the map lost its scan: the overflow guard of the Content-Length refuses only
\* what is too large anyway.
NoCompleteRequestWaits ==
  LET s == Rest(consumed, arrived) IN
  ~ready /\ flow.header_scanned > 0 /\ HeaderEnds(s) # {} =>
    HeaderLen(s) > MaxHeader \/ RequestLen(s) > Min({ Len(s), MaxRequest })

-----------------------------------------------------------------------------
(* The inductive invariant *)

\* What a scan may have come to. The match is complete only at the end of the
\* header, and the end fixes the length of the request.
ScanFields ==
  [header_scanned : Nat, header_len : Nat, content_length : 0 .. MaxRequest,
   request_len : Nat, header_match : 0 .. 4, reading_length : BOOLEAN, invalid : BOOLEAN]

Scans ==
  { f \in ScanFields :
      IF f.header_len = 0 THEN f.request_len = 0 /\ f.header_match <= 3
      ELSE /\ f.header_len = f.header_scanned
           /\ f.request_len = f.header_len + f.content_length }

\* Once the parser has run and still has its scan, the scan has gone as far as
\* it can, and that was not enough.
ScanIsExhausted ==
  ~ready /\ flow.header_scanned > 0 =>
    /\ ~Complete(flow, arrived - consumed)
    /\ flow.header_len > 0 \/ flow.header_scanned = Min({ arrived - consumed, MaxHeader })

\* The requests passed on end one after the other, each where it should.
FramesFollow ==
  /\ consumed = StartOf(Len(framed) + 1)
  /\ \A k \in DOMAIN framed :
       Plain(Rest(StartOf(k), Len(stream))) =>
         framed[k] = StartOf(k) + RequestLen(Rest(StartOf(k), Len(stream)))

FramingInv ==
  /\ stream \in Seq(Bytes) /\ arrived \in 0 .. Len(stream) /\ consumed \in 0 .. arrived
  /\ framed \in Seq(1 .. Len(stream)) /\ ready \in BOOLEAN /\ incomplete \in BOOLEAN
  /\ request_bytes_processed \in 0 .. Len(stream)
  /\ flow \in Scans /\ flow.header_scanned \in 0 .. MaxHeader
  /\ flow.header_scanned <= arrived - consumed
  /\ ready => consumed < arrived
  /\ LeftoverIsReported
  /\ ScanIsResumable /\ ScanIsExhausted /\ FramesFollow
=============================================================================
