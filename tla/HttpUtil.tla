------------------------------- MODULE HttpUtil -------------------------------
(***************************************************************************)
(* http_codec/http/http_util.cpp and http_respond.cpp: making messages and *)
(* parameter strings, and taking them apart again; and the argument parser *)
(* of CHttpRequestLine, which reads the same strings.                      *)
(*                                                                         *)
(* A parameter string is a sequence of characters.  A message is a         *)
(* sequence of atoms as in HttpRequest, with one atom for each character   *)
(* of the body.                                                            *)
(***************************************************************************)
EXTENDS HttpRequest, Functions

CONSTANTS
    Keys, Values,   \* keys and values of parameters, as character sequences
    MaxParams       \* bound on the parameters of a request

ASSUME HttpUtilAssumption == MaxParams \in Nat

VARIABLES
    m_params,   \* CHttpParamStringMaker: the parameters added
    m_strParamLines,\* the parameters of the string given instead of them
    made        \* the message made from them, or << >>

utilVars == <<m_params, m_strParamLines, made>>

Letters == {"a", "b", "c", "x", "y"}

-----------------------------------------------------------------------------
(* CHttpParamStringMaker                                                   *)

Params == IF m_strParamLines # << >> THEN m_strParamLines ELSE m_params

(* key=value& for each, without the last &.  The strings are ones that fit *)
(* szTmp (1024 bytes) and szParams (4096), which sprintf and strcat take   *)
(* for granted.                                                            *)
get_params ==
    LET all == FlattenSeq([i \in 1 .. Len(Params) |->
                   Params[i].key \o <<"=">> \o Params[i].value \o <<"&">>])
    IN  IF all = << >> THEN all ELSE Front(all)

(* std::map::insert: the first value of a key stays.                       *)
Inserted(map, key, value) ==
    [k \in DOMAIN map \union {key} |-> IF k \in DOMAIN map THEN map[k] ELSE value]

EmptyMap == [k \in {} |-> << >>]

Find(s, c, from) == FirstAt(s, from, <<c>>)

(* CHttpParamParser::parse on a string that ends in &: skips to a letter,  *)
(* then takes the key up to =, and the value up to the next & after the    *)
(* start of the key.                                                       *)
RECURSIVE ParseParams(_, _, _)
ParseParams(s, at, map) ==
    LET eq    == Find(s, "=", at)
        split == Find(s, "&", at)
        key   == SubSeq(s, at, eq - 1)
        value == IF split - eq > 1 THEN SubSeq(s, eq + 1, split - 1) ELSE << >>
    IN  IF at > Len(s) THEN map
        ELSE IF s[at] \notin Letters THEN ParseParams(s, at + 1, map)
        ELSE IF eq = 0 \/ split = 0 THEN map
        ELSE ParseParams(s, split + 1, IF key = << >> THEN map ELSE Inserted(map, key, value))

CHttpParamParser_parse(s, map) ==
    IF s = << >> THEN map
    ELSE ParseParams(IF Last(s) = "&" THEN s ELSE Append(s, "&"), 1, map)

(* The loop of CHttpRequestLine::infuse and CHttpReq::get_url_args.  With  *)
(* an & before the =, the value is the rest of the string.                 *)
RECURSIVE UrlArgs(_, _, _)
UrlArgs(s, start, map) ==
    LET eq    == Find(s, "=", start)
        amp   == Find(s, "&", start)
        colon == IF amp = 0 THEN Len(s) + 1 ELSE amp
        value == SubSeq(s, eq + 1, IF colon < eq THEN Len(s) ELSE colon - 1)
        next  == Inserted(map, SubSeq(s, start, eq - 1), value)
    IN  IF eq = 0 THEN map
        ELSE IF colon + 1 > Len(s) THEN next
        ELSE UrlArgs(s, colon + 1, next)

get_url_args(s) == UrlArgs(s, 1, EmptyMap)

(* decode_string: %xx becomes the character; an escape cut short is an     *)
(* error, told apart by the atom bad.                                      *)
Unescape(two) ==
    CASE two = <<"2", "6">> -> "&" [] two = <<"3", "D">> -> "=" [] two = <<"2", "0">> -> " "

RECURSIVE decode_string(_)
decode_string(s) ==
    IF s = << >> THEN << >>
    ELSE IF Head(s) # "%" THEN <<Head(s)>> \o decode_string(Tail(s))
    ELSE IF Len(s) < 3 THEN <<"bad">>
    ELSE <<Unescape(SubSeq(s, 2, 3))>> \o decode_string(SubSeq(s, 4, Len(s)))

(* CHttpParser::UrlDecode leaves an escape alone that stands for one of    *)
(* the characters with a meaning of their own.                             *)
RECURSIVE UrlDecode(_)
UrlDecode(s) ==
    IF s = << >> THEN << >>
    ELSE LET c == IF Head(s) = "+" THEN " " ELSE Head(s)
             two == SubSeq(s, 2, 3)
             plain == c # "%" \/ Len(s) < 3 \/ Unescape(two) \in {"&", "="}
         IN  IF plain THEN <<c>> \o UrlDecode(Tail(s))
             ELSE <<Unescape(two)>> \o UrlDecode(SubSeq(s, 4, Len(s)))

-----------------------------------------------------------------------------
(* Messages.  The parameters of a GET are part of its first line and kept  *)
(* beside it.                                                              *)

Lines(texts) == FlattenSeq([i \in 1 .. Len(texts) |-> <<texts[i], "cr", "lf">>]) \o <<"cr", "lf">>

GET_make == [head |-> Lines(<<"get", "other", "other", "other", "other">>), act |-> get_params,
             body |-> << >>]

\* Mutant: the length counts the parameters, not the characters.
POST_make_count ==
    [head |-> Lines(<<"post", "other", "other", LengthLine[Len(Params) + 1], "other">>),
     act |-> << >>, body |-> get_params]

POST_make ==
    [head |-> Lines(<<"post", "other", "other", LengthLine[Len(get_params) + 1], "other">>),
     act |-> << >>, body |-> get_params]

(* CHttpResponseMaker::make_string and NormalResponse, with the parameters *)
(* as a body for want of another.                                          *)
make_string ==
    [head |-> Lines(<<"resp", LengthLine[Len(get_params) + 1], "other">>),
     act |-> << >>, body |-> get_params]

NormalResponse ==
    [head |-> Lines(<<"resp", "other", LengthLine[Len(get_params) + 1]>>),
     act |-> << >>, body |-> get_params]

-----------------------------------------------------------------------------
(* CHttpParser                                                             *)

(* parseField: where the content starts (0: none).  The fields end at the  *)
(* empty line, or at one without ": ", inside which the content then       *)
(* begins.                                                                 *)
RECURSIVE FieldsFrom(_, _)
FieldsFrom(data, at) ==
    IF data[at] = "cr" THEN at + 2
    ELSE IF data[at] \in {"nocolon", "tight1"} THEN at
    ELSE FieldsFrom(data, at + 3)

parseField(data, total) ==
    LET at == FieldsFrom(data, 4) IN IF at <= total THEN at ELSE 0

(* A method matches if the line begins with it and " HTTP" follows: no     *)
(* response has that.                                                      *)
parseMethod(first, method) == first = method /\ first \in {"get", "post"}

(* It tries the three methods again and again until one matches, on a line *)
(* of 10 characters or more, as every maker's is.                          *)
parseFirstLine(first) == \E method \in {"get", "post", "resp"} : parseMethod(first, method)

ParamTypes == {"HTTP_UTIL_PARAM_ALL", "HTTP_UTIL_PARAM_HEADPARAM", "HTTP_UTIL_PARAM_CONTENT"}

(* returns: the loop of parseFirstLine ends.                               *)
parse_head(m, nExtraParamType) ==
    LET data  == m.head \o m.body
        total == get_length_ex(data)
        none  == [returns |-> TRUE, ret |-> total, content |-> 0, params |-> EmptyMap]
    IN  IF total <= 0 THEN none
        ELSE [none EXCEPT !.returns = parseFirstLine(data[1]),
                          !.content = parseField(data, total),
                          !.params = IF nExtraParamType = "HTTP_UTIL_PARAM_CONTENT" THEN @
                                     ELSE CHttpParamParser_parse(m.act, @)]

(* The content up to the content length that get_length_ex found.          *)
parse_form_body(m, p) ==
    LET data == m.head \o m.body
    IN  IF p.content = 0 THEN p.params
        ELSE CHttpParamParser_parse(
                 SubSeq(data, p.content, p.content + ExactContentLength(data) - 1), p.params)

-----------------------------------------------------------------------------
HttpUtilInit == m_params = << >> /\ m_strParamLines = << >> /\ made = << >>

add_param(key, value) ==
    /\ made = << >> /\ Len(m_params) + Len(m_strParamLines) < MaxParams
    /\ m_params' = Append(m_params, [key |-> key, value |-> value])
    /\ UNCHANGED <<m_strParamLines, made>>

set_paramlines(key, value) ==
    /\ made = << >> /\ Len(m_params) < MaxParams
    /\ m_strParamLines' = <<[key |-> key, value |-> value]>>
    /\ UNCHANGED <<m_params, made>>

MakeMessage(m) == made = << >> /\ made' = <<m>> /\ UNCHANGED <<m_params, m_strParamLines>>

HttpUtilNext ==
    \/ \E key \in Keys, value \in Values : add_param(key, value)
    \/ \E key \in Keys, value \in Values : set_paramlines(key, value)
    \/ MakeMessage(GET_make)
    \/ Len(get_params) <= 9 /\ MakeMessage(POST_make)
    \/ Len(get_params) <= 9 /\ MakeMessage(make_string)
    \/ Len(get_params) <= 9 /\ MakeMessage(NormalResponse)

(* What the parameters mean: the first value of each key.                  *)
Meaning ==
    [k \in {Params[i].key : i \in DOMAIN Params} |->
        Params[CHOOSE i \in DOMAIN Params : Params[i].key = k /\
                     \A j \in 1 .. i - 1 : Params[j].key # k].value]

(* No & in a value, and every key starts with a letter.                    *)
Separable ==
    \A i \in DOMAIN Params :
        "&" \notin ToSet(Params[i].value) /\ Head(Params[i].key) \in Letters

(* And no escapes.                                                         *)
Regular == Separable /\ \A i \in DOMAIN Params : "%" \notin ToSet(Params[i].value)

(* ParamsRoundTrip: the string that get_params makes of any list of        *)
(* parameters, repeated keys and empty values included, is taken apart     *)
(* again by both parsers, each giving every key its first value; and       *)
(* decode_string, which CHttpReq applies before it splits, leaves one      *)
(* without escapes alone.  UrlDecode never changes where a string is       *)
(* split: decoding first gives the decoded values.                         *)
ParamsRoundTrip ==
    Separable =>
        /\ CHttpParamParser_parse(get_params, EmptyMap) = Meaning
        /\ get_url_args(get_params) = Meaning
        /\ CHttpParamParser_parse(UrlDecode(get_params), EmptyMap)
             = [k \in DOMAIN Meaning |-> UrlDecode(Meaning[k])]
        /\ Regular => decode_string(get_params) = get_params

(* MadeMessagesParse: a message of one of the makers is framed to its last *)
(* byte by get_length_ex, and by http_complete_func, also when more data   *)
(* follows it.  For a request parse_head returns and finds the parameters  *)
(* of a GET in its first line, unless those of the content alone are asked *)
(* for, and parse_form_body those of a POST in its body.                   *)
MadeMessagesParse ==
    \A i \in DOMAIN made :
        LET m == made[i]
            size == Len(m.head) + Len(m.body)
            data == m.head \o m.body
        IN  /\ get_length_ex(data \o <<"b", "b">>) = size
            /\ http_complete_func(data \o <<"b", "b">>) = size
            /\ \A n \in 1 .. size - 1 : get_length_ex(SubSeq(data, 1, n)) = 0
            /\ data[1] # "resp" => \A type \in ParamTypes :
                   LET p == parse_head(m, type)
                   IN  /\ p.returns /\ p.ret = size
                       /\ Separable => parse_form_body(m, p) =
                              IF data[1] = "get" /\ type = "HTTP_UTIL_PARAM_CONTENT" THEN EmptyMap
                              ELSE Meaning

(* UtilRoundTrip: what the makers of http_util.cpp and http_respond.cpp    *)
(* make, the parsers of the same files and of http_req.cpp take apart      *)
(* again, the parameter strings and the messages around them.              *)
UtilRoundTrip == ParamsRoundTrip /\ MadeMessagesParse
=============================================================================
