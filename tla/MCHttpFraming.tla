--------------------------- MODULE MCHttpFraming ---------------------------
(***************************************************************************)
(* Instances of HttpFraming for TLC: connections with two requests of up   *)
(* to two header lines.                                                    *)
(***************************************************************************)
EXTENDS HttpFraming

LengthHeaders == { << "key", "1" >>, << "key", "sp", "1", "0", "sp" >>,
                   << "key", "0", "1", "1" >>, << "key", "1", "0", "0" >>,
                   << "key", "1", "1", "1", "1" >> }
OtherLines == { << "x" >>, << "x", "1", "lf", "x" >>, << "cr" >> }

\* Line ends inside a line, a length anywhere among the other lines, a body
\* that looks like a header.
Headers ==
  { CRLF \o CRLF } \cup
  { l \o CRLF \o CRLF : l \in LengthHeaders \cup OtherLines } \cup
  { l \o CRLF \o m \o CRLF \o CRLF : l \in LengthHeaders, m \in OtherLines } \cup
  { m \o CRLF \o l \o CRLF \o CRLF : l \in LengthHeaders, m \in OtherLines }

Body(h) == IF RequestLen(h) - Len(h) > 4 THEN CRLF \o CRLF
           ELSE SubSeq(<< "key", "1", "cr", "lf" >>, 1, RequestLen(h) - Len(h))

\* Any request before or after a plain one.
SomeStreams ==
  LET plain == << "key", "1" >> \o CRLF \o CRLF \o << "x" >>
  IN { h \o Body(h) \o plain : h \in Headers } \cup
     { plain \o h \o Body(h) : h \in Headers }
=============================================================================
