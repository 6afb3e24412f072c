---------------------------- MODULE JsonCharReader ----------------------------
(***************************************************************************)
(* Json::CharReader, the second reader of jsoncpp (OurReader in            *)
(* jsoncpp/src/lib_json/json_reader.cpp), which >> uses. It is a copy of   *)
(* Json::Reader with more features, set in a CharReaderBuilder, and with   *)
(* another way to read doubles. The parts that are the same text are those *)
(* of JsonText. NaN is left out.                                           *)
(***************************************************************************)
EXTENDS JsonText

-----------------------------------------------------------------------------
(* Features.                                                               *)

\* The settings of a new CharReaderBuilder, and those of strictMode.
CharReaderBuilder ==
  [ collectComments |-> booleanValue(TRUE), allowComments |-> booleanValue(TRUE),
    strictRoot |-> booleanValue(FALSE), allowDroppedNullPlaceholders |-> booleanValue(FALSE),
    allowNumericKeys |-> booleanValue(FALSE), allowSingleQuotes |-> booleanValue(FALSE),
    stackLimit |-> intValue(StackLimit), failIfExtra |-> booleanValue(FALSE),
    rejectDupKeys |-> booleanValue(FALSE), allowSpecialFloats |-> booleanValue(FALSE) ]

strictMode(settings) ==
  LET strict ==
        [ allowComments |-> booleanValue(FALSE), strictRoot |-> booleanValue(TRUE),
          allowDroppedNullPlaceholders |-> booleanValue(FALSE),
          allowNumericKeys |-> booleanValue(FALSE), allowSingleQuotes |-> booleanValue(FALSE),
          stackLimit |-> intValue(StackLimit), failIfExtra |-> booleanValue(TRUE),
          rejectDupKeys |-> booleanValue(TRUE), allowSpecialFloats |-> booleanValue(FALSE) ]
  IN  [name \in DOMAIN settings \cup DOMAIN strict |->
         IF name \in DOMAIN strict THEN strict[name] ELSE settings[name]]

\* The features of the reader a builder makes. What is not set is off, and a stack
\* limit that is not set is 0.
newCharReader(settings) ==
  LET Is(name) == asBool(Setting(settings, name))
  IN  { [ allowComments |-> comments, strictRoot |-> strict, allowDroppedNulls |-> dropped,
          allowNumericKeys |-> numeric, allowSingleQuotes |-> single, failIfExtra |-> extra,
          rejectDupKeys |-> dup, allowSpecialFloats |-> special, stackLimit |-> limit ] :
          comments \in Is("allowComments"), strict \in Is("strictRoot"),
          dropped \in Is("allowDroppedNullPlaceholders"), numeric \in Is("allowNumericKeys"),
          single \in Is("allowSingleQuotes"), extra \in Is("failIfExtra"),
          dup \in Is("rejectDupKeys"), special \in Is("allowSpecialFloats"),
          limit \in asInt(Setting(settings, "stackLimit")) }

-----------------------------------------------------------------------------
(* Tokens.                                                                 *)

Apostrophe == 39
I == 73
nfinity == <<110, 102, 105, 110, 105, 116, 121>>

\* Behind the closing quote, or 0.
RECURSIVE readStringSingleQuote(_, _)
readStringSingleQuote(d, i) ==
  IF i > Len(d) THEN 0
  ELSE IF d[i] = Apostrophe THEN i + 1
  ELSE readStringSingleQuote(d, i + (IF d[i] = Ch.backslash THEN 2 ELSE 1))

\* Where single quotes are not allowed, the case of ' falls through to that of a
\* slash: what follows may be a comment.
OurTokenAt(d, s, features) ==
  LET Closed(type, end) == IF end = 0 THEN Token("error", s, Len(d) + 1)
                           ELSE Token(type, s, end)
      Special(type, i) ==
        IF features.allowSpecialFloats /\ match(d, i, nfinity) THEN Token(type, s, i + 7)
        ELSE Token("error", s, i)
  IN  CASE s <= Len(d) /\ d[s] = Apostrophe /\ features.allowSingleQuotes ->
             Closed("string", readStringSingleQuote(d, s + 1))
        [] s <= Len(d) /\ d[s] = Apostrophe /\ ~features.allowSingleQuotes ->
             Closed("comment", readComment(d, s + 1))
        [] s <= Len(d) /\ d[s] = I -> Special("infinity", s + 1)
        [] match(d, s, <<Ch.minus, I>>) -> Special("negativeInfinity", s + 2)
        [] OTHER -> TokenAt(d, s)

OurToken(d, i, features) == OurTokenAt(d, skipSpaces(d, i), features)

\* The next token, or, if comments are skipped, the next that is none. Members and
\* elements skip them whatever the features say, what reads a value only if allowed.
RECURSIVE OurSkipCommentTokens(_, _, _, _)
OurSkipCommentTokens(d, i, features, skips) ==
  LET From(token) == IF skips /\ token.type = "comment"
                       THEN OurSkipCommentTokens(d, token.end, features, skips)
                       ELSE token
  IN  From(OurToken(d, i, features))

\* A string ends at the first double quote, in single quotes, too.
OurDecodeString(s) ==
  LET Until(inside, end) == IF end = 0 THEN inside ELSE SubSeq(inside, 1, end - 2)
      Inside(inside) == Decoded(Until(inside, readString(inside, 1)), 1)
  IN  Inside(SubSeq(s, 2, Len(s) - 1))

\* sscanf("%lf") of glibc reads as much of the token as is a number: an exponent
\* without digits is not read, and a number out of range is infinite.
OurDecodeDouble(s) ==
  LET e == FirstIn(s, 1, {Ch.e, Ch.E})
      Digit(first, last) == \E k \in first..last : s[k] \in DigitBytes
      number == IF Digit(e + 1, Len(s)) THEN s ELSE SubSeq(s, 1, e - 1)
  IN  IF ~Digit(1, e - 1) THEN {}
      ELSE IF decodeDouble(number) # {} THEN decodeDouble(number)
      ELSE {realValue([Infinity EXCEPT !.m = IF s[1] = Ch.minus THEN -1 ELSE 1])}

OurDecodeNumber(s) == IF decodeInteger(s) # {} THEN decodeInteger(s) ELSE OurDecodeDouble(s)

-----------------------------------------------------------------------------
(* Values.                                                                 *)

RECURSIVE OurReadValue(_, _, _, _), OurReadMembers(_, _, _, _, _, _),
          OurReadElements(_, _, _, _, _)

\* The names a token may be, none if it is no name: a number may be one.
MemberNames(d, token, features) ==
  CASE token.type = "string" -> OurDecodeString(Content(d, token))
    [] token.type = "number" /\ features.allowNumericKeys ->
         UNION {asString(n) : n \in OurDecodeNumber(Content(d, token))}
    [] OTHER -> {}

Duplicate(object, key, features) == features.rejectDupKeys /\ key \in DOMAIN object.map

\* Behind a comment that follows a member, any token is taken for the comma.
OurReadMembers(d, i, object, name, depth, features) ==
  LET After(key, longer, behind, commented) ==
        IF Closes(behind) THEN Yields(longer, behind.end)
        ELSE IF behind.type = "arraySeparator" \/ commented
          THEN OurReadMembers(d, behind.end, longer, key, depth, features)
        ELSE Fails("error")
      Behind(key, longer, end, token) ==
        After(key, longer, token, token.start > skipSpaces(d, end))
      Add(key, member) ==
        IF member.result # "ok" THEN member
        ELSE Behind(key, SetMember(object, key, member.value), member.end,
                    OurSkipCommentTokens(d, member.end, features, TRUE))
      Named(key, colon) ==
        IF colon.type # "memberSeparator" \/ Duplicate(object, key, features) THEN Fails("error")
        ELSE Add(key, OurReadValue(d, colon.end, depth, features))
      From(first, names) ==
        IF Closes(first) /\ name = <<>> THEN Yields(object, first.end)
        ELSE IF names = {} THEN Fails("error")
        ELSE Named(CHOOSE k \in names : TRUE, OurSkipCommentTokens(d, first.end, features, FALSE))
      Read(first) == From(first, MemberNames(d, first, features))
  IN  Read(OurSkipCommentTokens(d, i, features, TRUE))

OurReadElements(d, i, array, depth, features) ==
  LET After(longer, behind) ==
        IF behind.type = "arrayEnd" THEN Yields(longer, behind.end)
        ELSE IF behind.type = "arraySeparator"
          THEN OurReadElements(d, behind.end, longer, depth, features)
        ELSE Fails("error")
      Add(item) ==
        IF item.result # "ok" THEN item
        ELSE After(append(array, item.value), OurSkipCommentTokens(d, item.end, features, TRUE))
  IN  Add(OurReadValue(d, i, depth, features))

OurReadArray(d, i, depth, features) ==
  LET From(token) == IF token.type = "arrayEnd" THEN Yields(Default("array"), token.end)
                     ELSE OurReadElements(d, i, Default("array"), depth, features)
  IN  From(OurSkipCommentTokens(d, i, features, FALSE))

\* A null may be left out: what ends it is then put back.
OurReadValue(d, i, depth, features) ==
  LET From(token) ==
        CASE token.type = "objectBegin" ->
               OurReadMembers(d, token.end, Default("object"), <<>>, depth + 1, features)
          [] token.type = "arrayBegin" -> OurReadArray(d, token.end, depth + 1, features)
          [] token.type = "number" -> Leaf(OurDecodeNumber(Content(d, token)), token.end)
          [] token.type = "string" ->
               Leaf({stringValue(s) : s \in OurDecodeString(Content(d, token))}, token.end)
          [] token.type \in {"true", "false"} ->
               Yields(booleanValue(token.type = "true"), token.end)
          [] token.type = "null" -> Yields(nullRef, token.end)
          [] token.type = "infinity" -> Yields(realValue(Infinity), token.end)
          [] token.type = "negativeInfinity" ->
               Yields(realValue([Infinity EXCEPT !.m = -1]), token.end)
          [] token.type \in {"arraySeparator", "objectEnd", "arrayEnd"}
             /\ features.allowDroppedNulls -> Yields(nullRef, token.end - 1)
          [] OTHER -> Fails("error")
  IN  IF depth >= features.stackLimit THEN Fails("throws")
      ELSE From(OurSkipCommentTokens(d, i, features, features.allowComments))

\* Garbage behind the value that is no token is not found to be extra.
OurParse(document, features) ==
  LET Checked(reading) ==
        IF reading.result # "ok" THEN reading
        ELSE IF \/ features.failIfExtra
                   /\ OurSkipCommentTokens(document, reading.end, features, features.allowComments).type
                        \notin {"error", "endOfStream"}
                \/ features.strictRoot /\ ~isMap(reading.value) THEN Fails("error")
        ELSE reading
  IN  Checked(OurReadValue(document, 1, 0, features))
=============================================================================
