------------------------------- MODULE JsonText -------------------------------
(***************************************************************************)
(* http_codec/json: the reader (json_reader.cpp) and the two writers of    *)
(* json_writer.cpp that return a string.  A text is a sequence of tokens;  *)
(* characters inside strings and numbers, spaces, line breaks and the      *)
(* comments a value keeps are left out.  A leaf is its token and the type  *)
(* it is held as: the reader takes an integer for a double when it could   *)
(* be too large.                                                           *)
(***************************************************************************)
EXTENDS Integers, Sequences, FiniteSets, SequencesExt

CONSTANTS
    MaxInt,         \* Value::maxInt
    RightMargin,    \* rightMargin_
    JsonTokens,     \* tokens that texts are made of
    MaxTokens,      \* bound on the length of a text
    MaxValue        \* bound on the length of a value that is built

ASSUME JsonTextAssumption ==
    MaxInt \in Nat \ {0} /\ RightMargin \in Nat /\ MaxTokens \in Nat /\ MaxValue \in Nat

(* Strings, the empty one and another; the numbers 7, minInt, maxInt and   *)
(* maxUInt; true.                                                          *)
Strings == {"empty", "name"}
MaxUInt == 2 * MaxInt + 1
Magnitude == [seven |-> 7, minInt |-> MaxInt + 1, maxInt |-> MaxInt, maxUInt |-> MaxUInt]
Integral == DOMAIN Magnitude
Scalars == Strings \union Integral \union {"true"}

VARIABLES
    text,       \* tokens to be read
    value       \* a value to be written

jsonVars == <<text, value>>

Leaf(token, type) == [kind |-> "leaf", token |-> token, type |-> type]
ArrayOf(items) == [kind |-> "array", items |-> items]
ObjectOf(members) == [kind |-> "object", members |-> members]
NoMembers == [n \in {} |-> << >>]

-----------------------------------------------------------------------------
(* Reader.  Functions take the text and a position, and give whether they  *)
(* succeeded, the position after what they read, the value, and, for the   *)
(* properties, whether another token was taken for a comma.                *)

Done(at, v, sloppy) == [ok |-> TRUE, at |-> at, value |-> v, sloppy |-> sloppy]
Failed(at) == [ok |-> FALSE, at |-> at, value |-> Leaf("true", "bool"), sloppy |-> FALSE]

readToken(s, i) == IF i > Len(s) THEN "eof" ELSE s[i]

RECURSIVE skipCommentTokens(_, _)
skipCommentTokens(s, i) == IF readToken(s, i) = "comment" THEN skipCommentTokens(s, i + 1) ELSE i

RECURSIVE recoverFromError(_, _, _)
recoverFromError(s, i, skipUntil) ==
    IF readToken(s, i) \in {skipUntil, "eof"} THEN Failed(i + 1)
    ELSE recoverFromError(s, i + 1, skipUntil)

(* Digits are added up as long as what there is is below a tenth of the    *)
(* largest value; otherwise the number is read as a double.                *)
decodeNumber(token) ==
    LET limit == IF token = "minInt" THEN MaxInt + 1 ELSE MaxUInt
    IN  IF Magnitude[token] \div 10 >= limit \div 10 THEN Leaf(token, "real")
        ELSE Leaf(token, IF Magnitude[token] <= MaxInt \/ token = "minInt" THEN "int" ELSE "uint")

(* currentValue()[name]: the last member of a name stays.                  *)
WithMember(members, name, v) == [n \in DOMAIN members \union {name} |-> IF n = name THEN v ELSE members[n]]

RECURSIVE readValue(_, _), readObject(_, _, _, _, _), readArray(_, _, _, _)
readValue(s, i) ==
    LET at    == skipCommentTokens(s, i)
        token == readToken(s, at)
    IN  CASE token = "{" -> readObject(s, at + 1, NoMembers, "empty", FALSE)
          [] token = "[" -> IF readToken(s, at + 1) = "]" THEN Done(at + 2, ArrayOf(<< >>), FALSE)
                            ELSE readArray(s, at + 1, << >>, FALSE)
          [] token \in Integral -> Done(at + 1, decodeNumber(token), FALSE)
          [] token \in Strings -> Done(at + 1, Leaf(token, "string"), FALSE)
          [] token = "true" -> Done(at + 1, Leaf(token, "bool"), FALSE)
          [] OTHER -> Failed(at + 1)

(* One turn of the loop.  last is the name before, and tells an object     *)
(* without members; after a comment any token does for a comma.            *)
readObject(s, i, members, last, sloppy) ==
    LET at    == skipCommentTokens(s, i)
        name  == readToken(s, at)
        r     == readValue(s, at + 2)
        comma == readToken(s, r.at)
        end   == skipCommentTokens(s, r.at)
        more  == WithMember(members, name, r.value)
    IN  IF name = "}" /\ last = "empty" THEN Done(at + 1, ObjectOf(members), sloppy)
        ELSE IF name \notin Strings THEN recoverFromError(s, at + 1, "}")
        ELSE IF readToken(s, at + 1) # ":" THEN recoverFromError(s, at + 2, "}")
        ELSE IF ~ r.ok THEN recoverFromError(s, r.at, "}")
        ELSE IF comma \notin {"}", ",", "comment"} THEN recoverFromError(s, r.at + 1, "}")
        ELSE IF readToken(s, end) = "}" THEN Done(end + 1, ObjectOf(more), sloppy \/ r.sloppy)
        ELSE readObject(s, end + 1, more, name,
                        sloppy \/ r.sloppy \/ readToken(s, end) # "," \/ name = "empty")

(* badTokenType is never true: any token but ] does for a comma.           *)
readArray(s, i, items, sloppy) ==
    LET r    == readValue(s, i)
        end  == skipCommentTokens(s, r.at)
        more == Append(items, r.value)
    IN  IF ~ r.ok THEN recoverFromError(s, r.at, "]")
        ELSE IF readToken(s, end) = "]" THEN Done(end + 1, ArrayOf(more), sloppy \/ r.sloppy)
        ELSE readArray(s, end + 1, more, sloppy \/ r.sloppy \/ readToken(s, end) # ",")

(* What follows the first value is not looked at.                          *)
Reader_parse(s) == readValue(s, 1)

-----------------------------------------------------------------------------
(* FastWriter                                                              *)

Joined(parts) ==
    FlattenSeq([i \in 1 .. Len(parts) |-> IF i = 1 THEN parts[i] ELSE <<",">> \o parts[i]])

(* getMemberNames, in an order of its own.                                 *)
getMemberNames(members) == SetToSeq(DOMAIN members)

RECURSIVE FastWriter_writeValue(_)
FastWriter_writeValue(v) ==
    IF v.kind = "leaf" THEN <<v.token>>
    ELSE IF v.kind = "array"
    THEN <<"[">> \o Joined([i \in DOMAIN v.items |-> FastWriter_writeValue(v.items[i])]) \o <<"]">>
    ELSE LET names == getMemberNames(v.members)
         IN  <<"{">> \o Joined([i \in DOMAIN names |->
                 <<names[i], ":">> \o FastWriter_writeValue(v.members[names[i]])]) \o <<"}">>

-----------------------------------------------------------------------------
(* StyledWriter.  The state of a writer: document_, childValues_ and       *)
(* addChildValues_.                                                        *)

Write(w, tokens) == [w EXCEPT !.doc = @ \o tokens]

pushValue(w, tokens) == IF w.adding THEN [w EXCEPT !.child = Append(@, tokens)] ELSE Write(w, tokens)

SizeOf(v) == IF v.kind = "array" THEN Len(v.items)
             ELSE IF v.kind = "object" THEN Cardinality(DOMAIN v.members) ELSE 0

TotalLength(parts) == Len(FlattenSeq(parts))

RECURSIVE StyledValue(_, _), writeArrayValue(_, _), ChildValues(_, _, _),
          ItemsFrom(_, _, _, _), MembersFrom(_, _, _, _)
StyledValue(w, v) ==
    IF v.kind = "leaf" THEN pushValue(w, <<v.token>>)
    ELSE IF v.kind = "array" THEN writeArrayValue(w, v)
    ELSE IF SizeOf(v) = 0 THEN pushValue(w, <<"{", "}">>)
    ELSE MembersFrom(Write(w, <<"{">>), v, getMemberNames(v.members), 1)

MembersFrom(w, v, names, i) ==
    LET w1 == StyledValue(Write(w, <<names[i], ":">>), v.members[names[i]])
    IN  IF i = Len(names) THEN Write(w1, <<"}">>)
        ELSE MembersFrom(Write(w1, <<",">>), v, names, i + 1)

(* The values of an array written aside, to see how long a line they make. *)
ChildValues(w, v, i) == IF i > SizeOf(v) THEN w ELSE ChildValues(StyledValue(w, v.items[i]), v, i + 1)

\* Mutant: addChildValues_ stays set after the values were written aside.
isMultineArray_adding(w, v) ==
    LET size  == SizeOf(v)
        clear == [w EXCEPT !.child = << >>]
        aside == ChildValues([clear EXCEPT !.adding = TRUE], v, 1)
    IN  IF size * 3 >= RightMargin \/ \E i \in DOMAIN v.items : SizeOf(v.items[i]) > 0
        THEN [writer |-> clear, multi |-> TRUE]
        ELSE [writer |-> aside,
              multi  |-> 4 + (size - 1) * 2 + TotalLength(aside.child) >= RightMargin]

(* The writer after it, and whether the array takes several lines.         *)
isMultineArray(w, v) ==
    LET size  == SizeOf(v)
        clear == [w EXCEPT !.child = << >>]
        aside == [ChildValues([clear EXCEPT !.adding = TRUE], v, 1) EXCEPT !.adding = FALSE]
    IN  IF size * 3 >= RightMargin \/ \E i \in DOMAIN v.items : SizeOf(v.items[i]) > 0
        THEN [writer |-> clear, multi |-> TRUE]
        ELSE [writer |-> aside,
              multi  |-> 4 + (size - 1) * 2 + TotalLength(aside.child) >= RightMargin]

writeArrayValue(w, v) ==
    LET m == isMultineArray(w, v)
    IN  IF SizeOf(v) = 0 THEN pushValue(w, <<"[", "]">>)
        ELSE IF m.multi THEN ItemsFrom(Write(m.writer, <<"[">>), v, m.writer.child # << >>, 1)
        ELSE Write(m.writer, <<"[">> \o Joined(m.writer.child) \o <<"]">>)

ItemsFrom(w, v, hasChildValue, i) ==
    LET w1 == IF hasChildValue THEN Write(w, w.child[i]) ELSE StyledValue(w, v.items[i])
    IN  IF i = SizeOf(v) THEN Write(w1, <<"]">>)
        ELSE ItemsFrom(Write(w1, <<",">>), v, hasChildValue, i + 1)

StyledWriter_write(v) == StyledValue([doc |-> << >>, child |-> << >>, adding |-> FALSE], v).doc

-----------------------------------------------------------------------------
NoValue == ArrayOf(<< >>)

JsonInit == text = << >> /\ value = NoValue

(* Any text, token by token.                                               *)
TypeToken(token) ==
    /\ value = NoValue /\ Len(text) < MaxTokens
    /\ text' = Append(text, token)
    /\ UNCHANGED value

(* A value is put into an array or an object, or gets company there.       *)
BuildValue(leaf) ==
    /\ text = << >>
    /\ \/ value' = ArrayOf(<<value>>)
       \/ \E n \in Strings : value' = ObjectOf(WithMember(NoMembers, n, value))
       \/ value.kind = "array" /\ value' = ArrayOf(Append(value.items, leaf))
       \/ /\ value.kind = "object"
          /\ \E n \in Strings \ DOMAIN value.members :
                 value' = ObjectOf(WithMember(value.members, n, leaf))
    /\ Len(FastWriter_writeValue(value')) <= MaxValue
    /\ UNCHANGED text

JsonLeaves == {Leaf("seven", "int"), Leaf("minInt", "int"), Leaf("maxUInt", "uint"), ObjectOf(NoMembers)}

JsonNext == (\E token \in JsonTokens : TypeToken(token)) \/ (\E leaf \in JsonLeaves : BuildValue(leaf))

-----------------------------------------------------------------------------
(* Reference: the texts of JSON.                                           *)
RECURSIVE IsJson(_), AreItems(_), AreMembers(_)
IsJson(s) ==
    \/ Len(s) = 1 /\ s[1] \in Scalars
    \/ /\ Len(s) >= 2
       /\ LET inner == SubSeq(s, 2, Len(s) - 1)
          IN  \/ s[1] = "[" /\ Last(s) = "]" /\ (inner = << >> \/ AreItems(inner))
              \/ s[1] = "{" /\ Last(s) = "}" /\ (inner = << >> \/ AreMembers(inner))
AreItems(s) ==
    \/ IsJson(s)
    \/ \E k \in 2 .. Len(s) - 1 :
           s[k] = "," /\ IsJson(SubSeq(s, 1, k - 1)) /\ AreItems(SubSeq(s, k + 1, Len(s)))
AreMembers(s) ==
    /\ Len(s) >= 3 /\ s[1] \in Strings /\ s[2] = ":"
    /\ \/ IsJson(SubSeq(s, 3, Len(s)))
       \/ \E k \in 4 .. Len(s) - 1 :
              s[k] = "," /\ IsJson(SubSeq(s, 3, k - 1)) /\ AreMembers(SubSeq(s, k + 1, Len(s)))

(* v as it is read back: integers close to the largest become doubles.     *)
RECURSIVE ReadBack(_)
ReadBack(v) ==
    IF v.kind = "array" THEN ArrayOf([i \in DOMAIN v.items |-> ReadBack(v.items[i])])
    ELSE IF v.kind = "object" THEN ObjectOf([n \in DOMAIN v.members |-> ReadBack(v.members[n])])
    ELSE IF v.token \in {"minInt", "maxUInt"} THEN Leaf(v.token, "real") ELSE v

(* JsonRoundTrip: whatever value either writer writes, on one line or      *)
(* several, the reader reads back, but for integers near the limits that   *)
(* come back as doubles; every JSON text is read to its last token, to a   *)
(* value that is written and read again the same; and a text without       *)
(* comments that is accepted starts with one of JSON, unless a token that  *)
(* is not a comma was taken for one, which readArray always allows, or a   *)
(* comma ends an object whose last name is empty.                          *)
JsonRoundTrip ==
    /\ \A s \in {FastWriter_writeValue(value), StyledWriter_write(value)} :
           Reader_parse(s) = Done(Len(s) + 1, ReadBack(value), Reader_parse(s).sloppy)
    /\ LET r == Reader_parse(text)
       IN  /\ IsJson(text) => r.ok /\ r.at = Len(text) + 1
           /\ r.ok => Reader_parse(StyledWriter_write(r.value)).value = r.value
           /\ r.ok /\ ~ r.sloppy /\ "comment" \notin ToSet(text) => IsJson(SubSeq(text, 1, r.at - 1))
=============================================================================
