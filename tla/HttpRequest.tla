----------------------------- MODULE HttpRequest -----------------------------
(***************************************************************************)
(* http_codec/http: the incremental request parser (CHttpReq with its      *)
(* request line, header and body), and the two functions that tell where a *)
(* message in a receive buffer ends: http_complete_func of                 *)
(* api/http_server_codec.cpp and CHttpLengthAnaly of http_util.cpp.        *)
(*                                                                         *)
(* A message is a sequence of atoms: the text of a line, CR, LF, or one    *)
(* byte of body.  The text of a header line is what the parsers tell       *)
(* apart:                                                                  *)
(*   len0 .. len9 "Content-Length: n"      tight1  "Content-Length:1"      *)
(*   lower1       "content-length: 1"      xlen2   "X-Content-Length: 2"   *)
(*   other        any other "name: value"  nocolon a line without ':'      *)
(* A piece given to input may end at any atom.                             *)
(***************************************************************************)
EXTENDS Integers, Sequences, FiniteSets, SequencesExt

LengthLine == <<"len0", "len1", "len2", "len3", "len4", "len5", "len6", "len7", "len8", "len9">>
ExactLength == ToSet(LengthLine)

(* The value of the line as a Content-Length header.                       *)
LengthIn(text) ==
    CASE text \in ExactLength -> CHOOSE n \in 0 .. 9 : LengthLine[n + 1] = text
      [] text \in {"lower1", "tight1"} -> 1
      [] text = "xlen2" -> 2
      [] OTHER -> 0

(* match_str_begin ignores case and finds the name within a longer one.    *)
NamesLength == ExactLength \union {"lower1", "tight1", "xlen2"}

CONSTANTS
    RequestLines,   \* texts of first lines: get, post, qqpost, bad
    HeaderLines,    \* texts of header lines
    C_MAX_HEAD_LINE,\* header lines taken in one call of infuse, 8192 in the source
    MAX_BUFFER_SIZE,\* the longest message decode_head takes, 24 MB in the source
    MaxHeaders,     \* bound on the header lines of a message
    MaxBody         \* bound on the bytes after the head

ASSUME HttpRequestAssumption ==
    /\ RequestLines \subseteq {"get", "post", "qqpost", "bad"}
    /\ HeaderLines \subseteq NamesLength \union {"other", "nocolon"}
    /\ MaxHeaders \in Nat /\ MaxBody \in Nat
    /\ C_MAX_HEAD_LINE \in Nat \ {0} /\ MAX_BUFFER_SIZE \in Nat

VARIABLES
    wire,       \* the message that is being received
    fed,        \* atoms of it that input has been given
    req,        \* the CHttpReq object
    ret         \* what the last call of input returned: ok (0) or an error

httpVars == <<wire, fed, req, ret>>

-----------------------------------------------------------------------------
(* Where a message ends.                                                   *)

FirstAt(s, from, pattern) ==
    LET at == {i \in from .. Len(s) - Len(pattern) + 1 :
                   SubSeq(s, i, i + Len(pattern) - 1) = pattern}
    IN  IF at = {} THEN 0 ELSE CHOOSE i \in at : \A j \in at : i <= j

FirstOf(s, texts) ==
    LET at == {i \in DOMAIN s : s[i] \in texts}
    IN  IF at = {} THEN 0 ELSE CHOOSE i \in at : \A j \in at : i <= j

(* The length on the first line that has one of the texts.                 *)
ContentLength(s, texts) ==
    IF FirstOf(s, texts) = 0 THEN 0 ELSE LengthIn(s[FirstOf(s, texts)])

\* Mutant: the body is not waited for.
http_complete_func_head_only(data) ==
    LET crlf == FirstAt(data, 1, <<"cr", "lf", "cr", "lf">>)
        lf   == FirstAt(data, 1, <<"lf", "lf">>)
    IN  IF crlf # 0 THEN crlf + 3 ELSE IF lf # 0 THEN lf + 1 ELSE 0

(* 0: more is needed; otherwise the length of the message.                 *)
http_complete_func(data) ==
    LET crlf == FirstAt(data, 1, <<"cr", "lf", "cr", "lf">>)
        lf   == FirstAt(data, 1, <<"lf", "lf">>)
        head_len == IF crlf # 0 THEN crlf + 3 ELSE IF lf # 0 THEN lf + 1 ELSE 0
        content_length == ContentLength(data, NamesLength)
    IN  IF head_len = 0 \/ Len(data) < content_length + head_len THEN 0
        ELSE content_length + head_len

(* The length is looked up in its exact spelling with one space, and not   *)
(* for GET.                                                                *)
ExactContentLength(data) ==
    IF data[1] \in {"post", "resp"} THEN ContentLength(data, ExactLength \union {"xlen2"}) ELSE 0

(* -1: neither GET, POST nor a response.                                   *)
get_length_ex(data) ==
    LET crlf == FirstAt(data, 1, <<"cr", "lf", "cr", "lf">>)
        content_length == ExactContentLength(data)
    IN  IF data = << >> THEN 0
        ELSE IF data[1] \notin {"get", "post", "resp"} THEN -1
        ELSE IF crlf = 0 \/ Len(data) < crlf + 3 + content_length THEN 0
        ELSE crlf + 3 + content_length

-----------------------------------------------------------------------------
(* The parser.  length is 0xffffffff (here Unset) until the header is      *)
(* complete; parsed counts the atoms consumed; attached is whether _body   *)
(* points into the buffer the object has now.                              *)

Unset == MaxBody + 3

CHttpReq ==
    [line |-> FALSE, header |-> FALSE, attr |-> 0, length |-> Unset, infused |-> 0,
     parsed |-> 0, offset |-> 0, attached |-> FALSE, inited |-> FALSE]

(* The length of the first line of data from position from on, or 0.       *)
get_line(data, from) ==
    LET at == {i \in from + 1 .. Len(data) : data[i] = "lf"}
    IN  IF at = {} THEN 0 ELSE (CHOOSE i \in at : \A j \in at : i <= j) - from

(* The line holds nothing but its end.                                     *)
EmptyLine(data, from, line_len) ==
    line_len = 1 \/ (line_len = 2 /\ data[from + 1] = "cr")

(* Error, or the new state: the line must be complete and well formed.     *)
RequestLine_infuse(r, data) ==
    LET line_len == get_line(data, r.parsed)
    IN  IF line_len = 0 THEN [r |-> r, ret |-> "ok"]
        ELSE IF data[r.parsed + 1] \notin {"get", "post", "qqpost"}
        THEN [r |-> r, ret |-> "C_HTTP_ERR_INVALID_REQUEST_LINE"]
        ELSE [r |-> [r EXCEPT !.line = TRUE, !.parsed = @ + line_len], ret |-> "ok"]

(* get_name_value: the value starts at the first space after the colon, so *)
(* that "Content-Length:1" has an empty one.                               *)
HeaderLength == ExactLength \union {"lower1", "tight1"}
get_name_value(text) == IF text = "tight1" THEN 0 ELSE LengthIn(text)

(* Where the lines after position from start, the one at from included.    *)
LineStarts(data, from) == {from} \union {i \in from + 1 .. Len(data) : data[i] = "lf"}

(* The loop has taken all the lines it takes in one call.                  *)
AtLimit(data, from, p) ==
    Cardinality({q \in LineStarts(data, from) : q < p}) = C_MAX_HEAD_LINE

(* It ends at a line that is incomplete, empty or without a colon, or at   *)
(* its limit.                                                              *)
LoopEnds(data, from, p) ==
    LET line_len == get_line(data, p)
    IN  \/ line_len = 0 \/ EmptyLine(data, p, line_len) \/ data[p + 1] = "nocolon"
        \/ AtLimit(data, from, p)

(* The first of these lines.                                               *)
LoopEnd(data, from) ==
    LET ends == {p \in LineStarts(data, from) : LoopEnds(data, from, p)}
    IN  CHOOSE p \in ends : \A q \in ends : p <= q

(* The Content-Length lines before it.                                     *)
LengthLines(data, from, end) ==
    {p \in LineStarts(data, from) : p < end /\ data[p + 1] \in HeaderLength}

LastOf(lines) == CHOOSE p \in lines : \A q \in lines : q <= p

(* Takes complete lines up to the empty one; the last Content-Length       *)
(* counts.  After a line without a colon, which is skipped, and at its     *)
(* limit it returns as if more data were needed.                           *)
Header_infuse(r, data) ==
    LET end      == LoopEnd(data, r.parsed)
        line_len == get_line(data, end)
        limit    == AtLimit(data, r.parsed, end)
        lengths  == LengthLines(data, r.parsed, end)
    IN  [r EXCEPT !.parsed = IF limit THEN end ELSE end + line_len,
                  !.header = ~limit /\ EmptyLine(data, end, line_len),
                  !.attr   = IF lengths = {} THEN @ ELSE get_name_value(data[LastOf(lengths) + 1])]

BodyFull(r) == r.length <= r.infused

\* Mutant: the length of the last piece, not of all of them.
Body_infuse_last(r, data_len) ==
    LET n == IF data_len <= r.length THEN data_len ELSE r.length
    IN  [r EXCEPT !.infused = n, !.parsed = @ + n]

Body_infuse(r, data_len) ==
    LET n == IF data_len + r.infused <= r.length THEN data_len ELSE r.length - r.infused
    IN  [r EXCEPT !.infused = @ + n, !.parsed = @ + n]

(* The body is set up once, when the header is complete, and filled.       *)
Body_start(r) == [r EXCEPT !.length = r.attr, !.offset = r.parsed, !.attached = TRUE]

Body_input(r, data) == IF BodyFull(r) THEN r ELSE Body_infuse(r, Len(data) - r.parsed)

Req_inited(r) == [r EXCEPT !.inited = BodyFull(r)]

(* The rest of input, after the header, and after the request line.        *)
input_body(r, started, data) ==
    IF r.header THEN Req_inited(Body_input(IF started THEN r ELSE Body_start(r), data)) ELSE r

input_header(l, data) ==
    IF l.ret # "ok" \/ ~ l.r.line THEN l
    ELSE [l EXCEPT !.r = input_body(IF l.r.header THEN l.r ELSE Header_infuse(l.r, data),
                                    l.r.header, data)]

(* append_data moves all data into a new buffer whenever there was one:    *)
(* _body._buf, set once when the header is complete, stays behind.         *)
input(r0, data) ==
    LET r == [r0 EXCEPT !.attached = FALSE]
    IN  input_header(IF r.line THEN [r |-> r, ret |-> "ok"] ELSE RequestLine_infuse(r, data), data)

(* One call of input on a new object.                                      *)
Parsed(data) == input(CHttpReq, data)

(* What ServerHttpCodec makes of a whole message.  The makefile defines    *)
(* _USE_HTTP_PROTO_, so that the check for an empty command, which comes   *)
(* last, is not compiled.                                                  *)
decode_head(data) ==
    IF Len(data) > MAX_BUFFER_SIZE THEN "ERR_MAX_BUFFER"
    ELSE IF Parsed(data).ret # "ok" \/ ~ Parsed(data).r.inited THEN "ERR_HTTP_DECODE"
    ELSE "ok"

-----------------------------------------------------------------------------
LineEnd(style) == IF style = "crlf" THEN <<"cr", "lf">> ELSE <<"lf">>

(* Every line, then the empty line and the bytes of the body.  In the      *)
(* mixed style only the empty line ends in CR LF.                          *)
Message(first, headers, style, body) ==
    LET lines == <<first>> \o headers
        size  == 1 + Len(LineEnd(style))
    IN  [i \in 1 .. size * Len(lines) |->
            IF i % size = 1 THEN lines[1 + (i - 1) \div size]
            ELSE LineEnd(style)[(i - 1) % size]]
        \o LineEnd(IF style = "mixed" THEN "crlf" ELSE style)
        \o [i \in 1 .. body |-> "b"]

HeaderLists == UNION {[1 .. n -> HeaderLines] : n \in 0 .. MaxHeaders}

HttpInit == wire = << >> /\ fed = 0 /\ req = CHttpReq /\ ret = "ok"

(* A new connection brings a message.                                      *)
Receive ==
    /\ wire = << >>
    /\ \E first \in RequestLines, headers \in HeaderLists, style \in {"crlf", "lf", "mixed"},
          body \in 0 .. MaxBody : wire' = Message(first, headers, style, body)
    /\ UNCHANGED <<fed, req, ret>>

(* The next n atoms arrive and are given to input.                         *)
Input(n) ==
    /\ ret = "ok"
    /\ n \in 1 .. Len(wire) - fed
    /\ LET i == input(req, SubSeq(wire, 1, fed + n))
       IN  req' = i.r /\ ret' = i.ret
    /\ fed' = fed + n
    /\ UNCHANGED wire

HttpNext ==
    \/ Receive
    \/ \E n \in 1 .. Len(wire) - fed : Input(n)

HttpSpec == HttpInit /\ [][HttpNext]_httpVars

-----------------------------------------------------------------------------
Fed == SubSeq(wire, 1, fed)

(* The head has no more lines than one call takes.                        *)
ShortHead(s) == Cardinality({i \in DOMAIN s : s[i] = "lf"}) <= C_MAX_HEAD_LINE + 1

(* ChunkingIrrelevant: however a message is cut into pieces, the parser    *)
(* ends where it would have ended with the message in one piece, body      *)
(* length, offset and completeness included; where it fails, the whole     *)
(* message fails.  Messages with a line without a colon, or with more than *)
(* C_MAX_HEAD_LINE lines after the first, are excluded: for them the       *)
(* outcome does depend on the cuts.                                        *)
ChunkingIrrelevant ==
    fed > 0 /\ "nocolon" \notin ToSet(wire) /\ ShortHead(wire) =>
        LET whole == Parsed(Fed)
        IN  /\ ret = whole.ret
            /\ req = [whole.r EXCEPT !.attached = req.attached]

(* The parser understands every line of the message.                       *)
WellFormed(s) == s[1] # "bad" /\ ShortHead(s) /\ "nocolon" \notin ToSet(s)

(* The length that http_complete_func finds in a message, and the one that *)
(* the parser does.                                                        *)
Announced(s) == ContentLength(s, NamesLength)
Declared(s) ==
    LET at == {i \in DOMAIN s : s[i] \in HeaderLength}
    IN  IF at = {} THEN 0 ELSE get_name_value(s[LastOf(at)])

(* The lines end in LF and the empty one in CR LF.                         *)
MixedEnds(s) ==
    \E i \in 2 .. Len(s) - 2 : SubSeq(s, i, i + 2) = <<"lf", "cr", "lf">> /\ s[i - 1] # "cr"

(* FramingAgrees: what http_complete_func cuts out of the receive buffer   *)
(* is what decode_head accepts and the parser takes for one request: the   *)
(* body is where the offset says, its buffer is there, and the request     *)
(* ends where the cut does; and while http_complete_func asks for more,    *)
(* the parser is not complete.  They differ in two ways, and in no other.  *)
(* The two may read different lengths ("X-Content-Length: 2",              *)
(* "Content-Length:1", two lines that differ): bytes that only             *)
(* http_complete_func counts stay behind the request, and it waits for     *)
(* them; a request of which only the parser expects them is cut short and  *)
(* refused.  And a head that mixes its line ends, which the parser         *)
(* accepts, is never cut out at all.  get_length_ex, for GET and POST with *)
(* CR LF, agrees whenever it reads the same length.                        *)
FramingAgrees ==
    fed > 0 /\ WellFormed(wire) =>
        LET n == http_complete_func(Fed)
            p == Parsed(SubSeq(wire, 1, n)).r
            extra == Announced(wire) - Declared(wire)
        IN  /\ MixedEnds(wire) => n = 0
            /\ n # 0 => decode_head(SubSeq(wire, 1, n)) =
                            IF n > MAX_BUFFER_SIZE THEN "ERR_MAX_BUFFER"
                            ELSE IF extra < 0 THEN "ERR_HTTP_DECODE" ELSE "ok"
            /\ n # 0 /\ extra >= 0 =>
                   p.attached /\ p.parsed = n - extra /\ p.offset + p.length = n - extra
            /\ n = 0 /\ Parsed(Fed).r.inited => MixedEnds(wire) \/ extra > 0
            /\ wire[1] \in {"get", "post"} /\ FirstAt(wire, 1, <<"cr", "lf", "cr", "lf">>) # 0
                   /\ ExactContentLength(wire) = Announced(wire) => get_length_ex(Fed) = n
=============================================================================
