------------------------------ MODULE JsonText ------------------------------
(***************************************************************************)
(* Json::Reader and the writers of jsoncpp (jsoncpp/src/lib_json/          *)
(* json_reader.cpp, json_writer.cpp): how the text of a message becomes a  *)
(* value and a value text, byte by byte. The reader is the one that        *)
(* communicate uses, with all features: comments are skipped, a text may   *)
(* be any value, and what follows the value is not looked at. What the     *)
(* reader skips after an error has no influence on its result and is left  *)
(* out, as are positions, error messages and comments a value carries.     *)
(***************************************************************************)
EXTENDS JsonValue

CONSTANTS
  StackLimit,   \* values that may be nested (1000 in the code)
  RightMargin   \* bytes of a line (74)

ASSUME TextAssumption == StackLimit \in Nat /\ RightMargin \in Nat

\* The bytes the reader and the writer tell apart.
Ch == [nul |-> 0, backspace |-> 8, tab |-> 9, newline |-> 10, formfeed |-> 12,
       return |-> 13, blank |-> 32, quote |-> 34, star |-> 42, plus |-> 43,
       comma |-> 44, minus |-> 45, dot |-> 46, slash |-> 47, colon |-> 58,
       E |-> 69, arrayBegin |-> 91, backslash |-> 92, arrayEnd |-> 93,
       b |-> 98, e |-> 101, f |-> 102, n |-> 110, r |-> 114, t |-> 116,
       u |-> 117, objectBegin |-> 123, objectEnd |-> 125]

Bytes == 0..255
DigitBytes == 48..57
Spaces == {Ch.blank, Ch.tab, Ch.return, Ch.newline}
NonDigits == Bytes \ DigitBytes
NonSpaces == Bytes \ Spaces
isControlCharacter(c) == c \in 1..31

-----------------------------------------------------------------------------
(* Tokens. A token of text d ends in front of position end.                *)

Token(type, start, end) == [type |-> type, start |-> start, end |-> end]

\* The first position from i on whose byte is in stops, or the end of the text.
FirstIn(d, i, stops) ==
  CHOOSE j \in i..(Len(d) + 1) :
    /\ j > Len(d) \/ d[j] \in stops
    /\ \A k \in i..(j - 1) : d[k] \notin stops

skipSpaces(d, i) == FirstIn(d, i, NonSpaces)

match(d, i, word) ==
  i + Len(word) - 1 <= Len(d) /\ SubSeq(d, i, i + Len(word) - 1) = word

\* Behind the closing quote, or 0.
RECURSIVE readString(_, _)
readString(d, i) ==
  IF i > Len(d) THEN 0
  ELSE IF d[i] = Ch.quote THEN i + 1
  ELSE readString(d, i + (IF d[i] = Ch.backslash THEN 2 ELSE 1))

readCStyleComment(d, i) ==
  LET Ends == {j \in i..(Len(d) - 1) : d[j] = Ch.star /\ d[j + 1] = Ch.slash}
  IN  IF Ends = {} THEN 0 ELSE 2 + Min(Ends)

readCppStyleComment(d, i) ==
  LET j == FirstIn(d, i, {Ch.newline, Ch.return})
  IN  IF j > Len(d) THEN j
      ELSE IF match(d, j, <<Ch.return, Ch.newline>>) THEN j + 2
      ELSE j + 1

\* Behind the comment whose slash is in front of i, or 0.
readComment(d, i) ==
  IF i > Len(d) THEN 0
  ELSE IF d[i] = Ch.star THEN readCStyleComment(d, i + 1)
  ELSE IF d[i] = Ch.slash THEN readCppStyleComment(d, i + 1)
  ELSE 0

\* Digits, a fraction, an exponent: each part if its sign is there.
readNumber(d, i) ==
  LET Digitless(j) == FirstIn(d, j, NonDigits)
      Is(j, S) == j <= Len(d) /\ d[j] \in S
      whole == Digitless(i)
      fraction == IF Is(whole, {Ch.dot}) THEN Digitless(whole + 1) ELSE whole
  IN  IF ~Is(fraction, {Ch.e, Ch.E}) THEN fraction
      ELSE Digitless(fraction + (IF Is(fraction + 1, {Ch.plus, Ch.minus}) THEN 2 ELSE 1))

Punctuation(c) ==
  CASE c = Ch.objectBegin -> "objectBegin"
    [] c = Ch.objectEnd -> "objectEnd"
    [] c = Ch.arrayBegin -> "arrayBegin"
    [] c = Ch.arrayEnd -> "arrayEnd"
    [] c = Ch.comma -> "arraySeparator"
    [] c = Ch.colon -> "memberSeparator"
    [] OTHER -> "error"

\* A string or a comment that does not end is an error.
TokenAt(d, s) ==
  LET Closed(type, end) == IF end = 0 THEN Token("error", s, Len(d) + 1)
                           ELSE Token(type, s, end)
      Literal(word) == IF match(d, s, Word(word)) THEN Token(word, s, s + Len(Word(word)))
                       ELSE Token("error", s, s + 1)
  IN  IF s > Len(d) THEN Token("endOfStream", s, s)
      ELSE CASE d[s] = Ch.quote -> Closed("string", readString(d, s + 1))
             [] d[s] = Ch.slash -> Closed("comment", readComment(d, s + 1))
             [] d[s] \in DigitBytes \/ d[s] = Ch.minus -> Token("number", s, readNumber(d, s + 1))
             [] d[s] = Ch.t -> Literal("true")
             [] d[s] = Ch.f -> Literal("false")
             [] d[s] = Ch.n -> Literal("null")
             [] d[s] = Ch.nul -> Token("endOfStream", s, s + 1)
             [] OTHER -> Token(Punctuation(d[s]), s, s + 1)

readToken(d, i) == TokenAt(d, skipSpaces(d, i))

RECURSIVE skipCommentTokens(_, _)
skipCommentTokens(d, i) ==
  LET token == readToken(d, i)
  IN  IF token.type = "comment" THEN skipCommentTokens(d, token.end) ELSE token

Content(d, token) == SubSeq(d, token.start, token.end - 1)

-----------------------------------------------------------------------------
(* Numbers. A result of decoding is a set, which is empty after an error.  *)

RECURSIVE Number(_)
Number(s) == IF s = <<>> THEN 0 ELSE (10 * Number(Front(s))) + (Last(s) - 48)

\* The double of a number token. One out of range is an error, as is one without
\* digits or with an exponent without digits; one that is too small becomes 0.
decodeDouble(s) ==
  LET start == IF s[1] = Ch.minus THEN 2 ELSE 1
      dot == FirstIn(s, start, NonDigits)
      e == FirstIn(s, start, {Ch.e, Ch.E})
      mantissa == SubSeq(s, start, dot - 1) \o SubSeq(s, dot + 1, e - 1)
      signed == e < Len(s) /\ s[e + 1] \in {Ch.plus, Ch.minus}
      exponent == SubSeq(s, e + (IF signed THEN 2 ELSE 1), Len(s))
      shift == IF e > Len(s) THEN 0
               ELSE IF signed /\ s[e + 1] = Ch.minus THEN -Number(exponent)
               ELSE Number(exponent)
      m == Number(mantissa)
      places == IF e > dot THEN e - dot - 1 ELSE 0
      order == Len(Digits(m)) + shift - places
  IN  IF mantissa = <<>> \/ (e <= Len(s) /\ exponent = <<>>) THEN {}
      ELSE IF m = 0 \/ order <= -MaxExponent THEN {realValue(Normal(0, 0))}
      ELSE IF order > MaxExponent THEN {}
      ELSE {realValue(Normal(IF start = 2 THEN -m ELSE m, shift - places))}

\* One more digit makes value exceed the limit.
Overflows(value, digit, last, limit) ==
  value > limit \div 10 \/ (value = limit \div 10 /\ (~last \/ digit > limit % 10))

\* The integer of a number token, if it is one that the largest types hold.
decodeInteger(s) ==
  LET negative == s[1] = Ch.minus
      limit == IF negative THEN MaxLargestInt + 1 ELSE MaxLargestUInt
      digits == IF negative THEN Tail(s) ELSE s
      value == Number(digits)
      asReal == \E k \in DOMAIN digits :
                  \/ digits[k] \notin DigitBytes
                  \/ Overflows(Number(SubSeq(digits, 1, k - 1)), digits[k] - 48,
                               k = Len(digits), limit)
  IN  IF asReal THEN {}
      ELSE IF negative THEN {intValue(-value)}
      ELSE IF value <= MaxInt THEN {intValue(value)}
      ELSE {uintValue(value)}

\* What is no such integer becomes a double.
decodeNumber(s) == IF decodeInteger(s) # {} THEN decodeInteger(s) ELSE decodeDouble(s)

-----------------------------------------------------------------------------
(* Strings.                                                                *)

\* The bytes that stand for themselves or for another one behind a backslash.
Escapes == [c \in {Ch.quote, Ch.slash, Ch.backslash, Ch.b, Ch.f, Ch.n, Ch.r, Ch.t} |->
              CASE c = Ch.b -> Ch.backspace
                [] c = Ch.f -> Ch.formfeed
                [] c = Ch.n -> Ch.newline
                [] c = Ch.r -> Ch.return
                [] c = Ch.t -> Ch.tab
                [] OTHER -> c]

HexDigit(c) == CASE c \in DigitBytes -> {c - 48}
                 [] c \in 97..102 -> {c - 87}
                 [] c \in 65..70 -> {c - 55}
                 [] OTHER -> {}

\* The number that four hexadecimal digits at position i of s stand for.
decodeUnicodeEscapeSequence(s, i) ==
  { (4096 * a) + (256 * b) + (16 * c) + d :
      a \in HexDigit(s[i]), b \in HexDigit(s[i + 1]),
      c \in HexDigit(s[i + 2]), d \in HexDigit(s[i + 3]) }

\* A code point, and where the text goes on. The second half of a surrogate pair
\* is taken for one whatever it is.
decodeUnicodeCodePoint(s, i) ==
  LET Escape(k) == IF k + 3 > Len(s) THEN {} ELSE decodeUnicodeEscapeSequence(s, k)
      Second == IF match(s, i + 4, <<Ch.backslash, Ch.u>>) THEN Escape(i + 6) ELSE {}
      Single == {u \in Escape(i) : u \notin 55296..56319}
      Pairs == (Escape(i) \ Single) \X Second
  IN  {[code |-> u, next |-> i + 4] : u \in Single}
        \cup {[code |-> 65536 + ((p[1] % 1024) * 1024) + (p[2] % 1024), next |-> i + 10] :
                p \in Pairs}

codePointToUTF8(u) ==
  LET Last6(n) == 128 + (n % 64)
  IN  CASE u < 128 -> <<u>>
        [] u \in 128..2047 -> <<192 + (u \div 64), Last6(u)>>
        [] u \in 2048..65535 -> <<224 + (u \div 4096), Last6(u \div 64), Last6(u)>>
        [] OTHER -> <<240 + (u \div 262144), Last6(u \div 4096), Last6(u \div 64), Last6(u)>>

\* The string from position i of the inside of a string token on.
RECURSIVE Decoded(_, _)
Decoded(s, i) ==
  LET Then(bytes, next) == {bytes \o rest : rest \in Decoded(s, next)}
  IN  IF i > Len(s) THEN {<<>>}
      ELSE IF s[i] # Ch.backslash THEN Then(<<s[i]>>, i + 1)
      ELSE IF s[i + 1] = Ch.u
        THEN UNION {Then(codePointToUTF8(p.code), p.next) : p \in decodeUnicodeCodePoint(s, i + 2)}
      ELSE IF s[i + 1] \in DOMAIN Escapes THEN Then(<<Escapes[s[i + 1]]>>, i + 2)
      ELSE {}

decodeString(s) == Decoded(SubSeq(s, 2, Len(s) - 1), 1)

-----------------------------------------------------------------------------
(* Values. A reading is [result, value, end]; the result is "error" once   *)
(* anything is wrong, and "throws" where the values are nested too deep.   *)

Fails(result) == [result |-> result, value |-> nullRef, end |-> 0]
Yields(value, end) == [result |-> "ok", value |-> value, end |-> end]
Leaf(Values, end) == IF Values = {} THEN Fails("error")
                     ELSE Yields(CHOOSE v \in Values : TRUE, end)

\* Slip: the end of the text closes an object, too.
Closes_AtEnd(token) == token.type \in {"objectEnd", "endOfStream"}
Closes(token) == token.type = "objectEnd"

RECURSIVE readValue(_, _, _), readMembers(_, _, _, _, _), readElements(_, _, _, _)

\* The members of an object from position i on. A closing brace is accepted in
\* place of the first name, and behind a member with an empty name. Behind a
\* comment that follows a member, any token is taken for the comma.
readMembers(d, i, object, name, depth) ==
  LET After(key, longer, comma, behind) ==
        IF ~Closes(comma) /\ comma.type \notin {"arraySeparator", "comment"} THEN Fails("error")
        ELSE IF Closes(behind) THEN Yields(longer, behind.end)
        ELSE readMembers(d, behind.end, longer, key, depth)
      Add(key, member) ==
        IF member.result # "ok" THEN member
        ELSE After(key, SetMember(object, key, member.value),
                   readToken(d, member.end), skipCommentTokens(d, member.end))
      From(first, names, colon) ==
        IF Closes(first) /\ name = <<>> THEN Yields(object, first.end)
        ELSE IF names = {} \/ colon.type # "memberSeparator" THEN Fails("error")
        ELSE Add(CHOOSE k \in names : TRUE, readValue(d, colon.end, depth))
      Read(first) ==
        From(first, IF first.type = "string" THEN decodeString(Content(d, first)) ELSE {},
             readToken(d, first.end))
  IN  Read(skipCommentTokens(d, i))

readObject(d, i, depth) == readMembers(d, i, Default("object"), <<>>, depth)

readElements(d, i, array, depth) ==
  LET After(longer, behind) ==
        IF behind.type = "arrayEnd" THEN Yields(longer, behind.end)
        ELSE IF behind.type = "arraySeparator" THEN readElements(d, behind.end, longer, depth)
        ELSE Fails("error")
      Add(item) ==
        IF item.result # "ok" THEN item
        ELSE After(append(array, item.value), skipCommentTokens(d, item.end))
  IN  Add(readValue(d, i, depth))

readArray(d, i, depth) ==
  LET token == readToken(d, i)
  IN  IF token.type = "arrayEnd" THEN Yields(Default("array"), token.end)
      ELSE readElements(d, i, Default("array"), depth)

readValue(d, i, depth) ==
  LET From(token, text) ==
        CASE token.type = "objectBegin" -> readObject(d, token.end, depth + 1)
          [] token.type = "arrayBegin" -> readArray(d, token.end, depth + 1)
          [] token.type = "number" -> Leaf(decodeNumber(text), token.end)
          [] token.type = "string" ->
               Leaf({stringValue(s) : s \in decodeString(text)}, token.end)
          [] token.type \in {"true", "false"} ->
               Yields(booleanValue(token.type = "true"), token.end)
          [] token.type = "null" -> Yields(nullRef, token.end)
          [] OTHER -> Fails("error")
      Read(token) == From(token, Content(d, token))
  IN  IF depth >= StackLimit THEN Fails("throws") ELSE Read(skipCommentTokens(d, i))

parse(document) == readValue(document, 1, 0)

-----------------------------------------------------------------------------
(* Writing.                                                                *)

RECURSIVE Joined(_, _)
Joined(texts, separator) ==
  IF texts = <<>> THEN <<>>
  ELSE IF Len(texts) = 1 THEN Head(texts)
  ELSE Head(texts) \o separator \o Joined(Tail(texts), separator)

HexText(c) == LET H(n) == IF n < 10 THEN 48 + n ELSE 55 + n
              IN  <<Ch.backslash, Ch.u, 48, 48, H(c \div 16), H(c % 16)>>


\* A byte inside a string: a slash is left alone.
Escaped(c) ==
  IF c # Ch.slash /\ \E e \in DOMAIN Escapes : Escapes[e] = c
    THEN <<Ch.backslash, CHOOSE e \in DOMAIN Escapes : Escapes[e] = c>>
  ELSE IF isControlCharacter(c) \/ c = Ch.nul THEN HexText(c)
  ELSE <<c>>

valueToQuotedStringN(s) ==
  <<Ch.quote>> \o Joined([k \in DOMAIN s |-> Escaped(s[k])], <<>>) \o <<Ch.quote>>

\* Of a C string, which ends in front of the first zero byte.
valueToQuotedString(s) == valueToQuotedStringN(SubSeq(s, 1, FirstIn(s, 1, {Ch.nul}) - 1))

\* A writer is what it puts between tokens and at the end, whether it writes an
\* array on one line if it can and a container on lines of its own (apart), and
\* whether it writes the whole name of a member (valueToQuotedStringN).
FastWriter(yaml, dropNulls, omitEnding) ==
  [ newline |-> <<>>, indentation |-> <<>>, pad |-> <<>>, oneLine |-> FALSE, apart |-> FALSE,
    colon |-> IF yaml THEN <<Ch.colon, Ch.blank>> ELSE <<Ch.colon>>,
    null |-> IF dropNulls THEN <<>> ELSE Word("null"),
    special |-> FALSE, whole |-> TRUE,
    ending |-> IF omitEnding THEN <<>> ELSE <<Ch.newline>> ]

WideColon == <<Ch.blank, Ch.colon, Ch.blank>>

StyledWriter ==
  [ newline |-> <<Ch.newline>>, indentation |-> <<Ch.blank, Ch.blank, Ch.blank>>,
    pad |-> <<Ch.blank>>, oneLine |-> TRUE, apart |-> FALSE, colon |-> WideColon,
    null |-> Word("null"), special |-> FALSE, whole |-> FALSE, ending |-> <<Ch.newline>> ]

StyledStreamWriter(indentation) ==
  [StyledWriter EXCEPT !.indentation = indentation, !.apart = TRUE]

\* Without indentation there are no line breaks either.
BuiltStyledStreamWriter(indentation, keepsComments, colon, null, ending, special) ==
  LET plain == indentation = <<>>
  IN  [ newline |-> IF plain THEN <<>> ELSE <<Ch.newline>>, indentation |-> indentation,
        pad |-> IF plain THEN <<>> ELSE <<Ch.blank>>, oneLine |-> ~keepsComments,
        apart |-> TRUE, colon |-> colon, null |-> null, special |-> special,
        whole |-> TRUE, ending |-> ending ]

\* StreamWriterBuilder: a builder's settings map names to values. One that is
\* missing reads as null; one of a wrong type throws.
Setting(settings, name) == IF name \in DOMAIN settings THEN settings[name] ELSE nullRef

Styles == [All |-> <<65, 108, 108>>, None |-> <<78, 111, 110, 101>>]

newStreamWriter(settings) ==
  LET Colon(yaml, indentation) ==
        CASE yaml -> <<Ch.colon, Ch.blank>>
          [] ~yaml /\ indentation = <<>> -> <<Ch.colon>>
          [] OTHER -> WideColon
  IN  { BuiltStyledStreamWriter(indentation, style = Styles.All, Colon(yaml, indentation),
                                IF dropNulls THEN <<>> ELSE Word("null"), <<>>, special) :
          indentation \in asString(Setting(settings, "indentation")),
          style \in asString(Setting(settings, "commentStyle")) \cap {Styles.All, Styles.None},
          yaml \in asBool(Setting(settings, "enableYAMLCompatibility")),
          dropNulls \in asBool(Setting(settings, "dropNullPlaceholders")),
          special \in asBool(Setting(settings, "useSpecialFloats")) }

\* The settings of a new builder.
StreamWriterBuilder ==
  [ commentStyle |-> stringValue(Styles.All), indentation |-> stringValue(<<Ch.tab>>),
    enableYAMLCompatibility |-> booleanValue(FALSE), dropNullPlaceholders |-> booleanValue(FALSE),
    useSpecialFloats |-> booleanValue(FALSE) ]

Break(writer, level) ==
  writer.newline \o Joined([k \in 1..level |-> writer.indentation], <<>>)

\* Whether an array of size elements is written on several lines.
isMultineArray(v, texts, writer) ==
  \/ ~writer.oneLine
  \/ Len(texts) * 3 >= RightMargin
  \/ \E k \in DOMAIN v.map : isMap(v.map[k]) /\ size(v.map[k]) > 0
  \/ 4 + Len(Joined(texts, <<Ch.comma, Ch.blank>>)) >= RightMargin

\* What stands between brackets, an item per line.
Lines(open, texts, close, writer, level) ==
  <<open>> \o Break(writer, level + 1) \o Joined(texts, <<Ch.comma>> \o Break(writer, level + 1))
    \o Break(writer, level) \o <<close>>

OneLine(texts, writer) ==
  <<Ch.arrayBegin>> \o writer.pad \o Joined(texts, <<Ch.comma, Ch.blank>>)
    \o writer.pad \o <<Ch.arrayEnd>>

writeArrayValue(v, texts, writer, level) ==
  IF texts = <<>> THEN <<Ch.arrayBegin, Ch.arrayEnd>>
  ELSE IF isMultineArray(v, texts, writer)
    THEN Lines(Ch.arrayBegin, texts, Ch.arrayEnd, writer, level)
  ELSE OneLine(texts, writer)

\* A value of several lines may start on a line of its own. Only such a value has
\* a new line in it: in strings they are escaped.
MemberText(key, text, writer, level) ==
  (IF writer.whole THEN valueToQuotedStringN(key) ELSE valueToQuotedString(key))
    \o writer.colon
    \o (IF writer.apart /\ Contains(text, Ch.newline) THEN Break(writer, level) ELSE <<>>)
    \o text

\* Infinity and -Infinity.
SpecialText(d) == Signed(d.m, <<73, 110, 102, 105, 110, 105, 116, 121>>)

RECURSIVE writeValue(_, _, _)
writeValue(v, writer, level) ==
  CASE v.type = "null" -> writer.null
    [] v.type = "string" -> valueToQuotedStringN(v.str)
    [] v.type = "array" ->
         writeArrayValue(v, [k \in 1..size(v) |-> writeValue(At(v.map, k - 1), writer, level + 1)],
                         writer, level)
    [] v.type = "object" ->
         IF DOMAIN v.map = {} THEN <<Ch.objectBegin, Ch.objectEnd>>
         ELSE Lines(Ch.objectBegin,
                    [k \in DOMAIN Keys(v) |->
                       MemberText(Keys(v)[k], writeValue(v.map[Keys(v)[k]], writer, level + 1),
                                  writer, level + 1)],
                    Ch.objectEnd, writer, level)
    [] v.type = "real" /\ writer.special /\ ~isfinite(v.dec) -> SpecialText(v.dec)
    [] OTHER -> valueToString(v)

write(v, writer) == writeValue(v, writer, 0) \o writer.ending
=============================================================================
