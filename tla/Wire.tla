-------------------------------- MODULE Wire --------------------------------
(***************************************************************************)
(* What becomes of a message between the web server and the executor: it   *)
(* is built as a Json::Value, written as text, sent over a stream that     *)
(* keeps no message boundaries (server/Socket.cpp), received in pieces and *)
(* read again. A behaviour follows one of three things: the calls that     *)
(* build a value, the reader's answer to any text, or the two directions   *)
(* of the connection.                                                      *)
(***************************************************************************)
EXTENDS JsonCharReader

CONSTANTS
  Requests,      \* what the web server sends, a sequence of messages
  Reply,         \* what the executor answers
  MaxRecv,       \* MAXRECV: bytes a call of recv fetches at most
  Scalars, Names, MaxSize, MaxCalls,   \* values are built of these
  Pieces, MaxPieces                    \* texts are made of these

ASSUME BoundsAssumption ==
  /\ {MaxRecv, MaxSize, MaxCalls, MaxPieces} \subseteq Nat
  /\ \A j, k \in DOMAIN Requests : j # k => ~Equal(Requests[j], Requests[k])

VARIABLES
  subject,      \* what is followed: "value", "text" or "stream"
  root,         \* the value built or read
  calls,        \* calls that built it, or pieces of the text
  text,
  toExecutor, toServer,   \* bytes under way
  sent,         \* requests sent
  acted,        \* messages communicate has acted upon
  replied,      \* replies sent
  received,     \* replies the web server has parsed
  up            \* the processes that run: "executor", "server"

vars == <<subject, root, calls, text, toExecutor, toServer, sent, acted, replied, received, up>>
stream == <<toExecutor, toServer, sent, acted, replied, received, up>>

Init ==
  /\ subject \in {"value", "text", "stream"}
  /\ root = nullRef
  /\ calls = 0
  /\ text = <<>>
  /\ toExecutor = <<>> /\ toServer = <<>>
  /\ sent = 0 /\ replied = 0
  /\ acted = <<>> /\ received = <<>>
  /\ up = {"executor", "server"}

-----------------------------------------------------------------------------
(* Building a value. What the code asserts of the type is a guard here: its *)
(* callers see to it.                                                      *)

Call(v) ==
  /\ subject = "value"
  /\ calls < MaxCalls
  /\ calls' = calls + 1
  /\ root' = v
  /\ UNCHANGED <<subject, text, stream>>

IsArray == root.type \in {"null", "array"}
IsObject == root.type \in {"null", "object"}

PutElement == IsArray /\ \E index \in 0..(MaxSize - 1), k \in DOMAIN Scalars :
                           Call(SetElement(root, index, Scalars[k]))
PutMember == IsObject /\ \E key \in Names, k \in DOMAIN Scalars :
                           Call(SetMember(root, key, Scalars[k]))
Add == IsArray /\ size(root) < MaxSize /\ \E k \in DOMAIN Scalars : Call(append(root, Scalars[k]))
Resize == IsArray /\ \E n \in 0..MaxSize : \E v \in resize(root, n) : Call(v)
DropElement == root.type = "array" /\ \E index \in 0..(MaxSize - 1) : Call(removeIndex(root, index))
DropMember == IsObject /\ \E key \in Names : Call(removeMember(root, key))
Clear == (IsArray \/ IsObject) /\ Call(clear(root))

\* toSend["nodes"] = nodes: what was built becomes part of a message.
Wrap == \E key \in Names : Call(SetMember(nullRef, key, root))

-----------------------------------------------------------------------------
(* Reading any text.                                                       *)

ReadText ==
  /\ subject = "text"
  /\ calls < MaxPieces
  /\ \E k \in DOMAIN Pieces : text' = text \o Pieces[k]
  /\ calls' = calls + 1
  /\ root' = parse(text').value
  /\ UNCHANGED <<subject, stream>>

-----------------------------------------------------------------------------
(* The connection. One call of recv fetches any part of what is under way, *)
(* and never stops at the end of a message.                                *)

Rest(s, n) == SubSeq(s, n + 1, Len(s))

\* JSON.stringify writes as FastWriter does, without the new line.
Stringify == FastWriter(FALSE, FALSE, TRUE)

\* client.write(JSON.stringify(...)).
SendRequest ==
  /\ subject = "stream"
  /\ "server" \in up
  /\ sent < Len(Requests)
  /\ sent' = sent + 1
  /\ toExecutor' = toExecutor \o write(Requests[sent + 1], Stringify)
  /\ UNCHANGED <<subject, root, calls, text, toServer, acted, replied, received, up>>

Field(v, key) == UNION {asString(x) : x \in resolveReference(v, key)}
id == <<105>>
type == <<116>>

\* The message has a session id; if it is that of a session the executor
\* knows, the type is looked at, too.
Understood(v) ==
  /\ Field(v, id) # {}
  /\ (\E j \in DOMAIN acted : Field(acted[j], id) = Field(v, id)) => Field(v, type) # {}

\* communicate drops what it cannot parse. A value that is no message makes an
\* access throw, which ends the process.
Fatal(reading) == \/ reading.result = "throws"
                  \/ reading.result = "ok" /\ ~Understood(reading.value)

Hear(reading, n) ==
  IF Fatal(reading)
    THEN /\ up' = up \ {"executor"}
         /\ toExecutor' = <<>>
         /\ UNCHANGED acted
    ELSE /\ acted' = IF reading.result = "ok" THEN Append(acted, reading.value) ELSE acted
         /\ toExecutor' = Rest(toExecutor, n)
         /\ UNCHANGED up

Communicate ==
  /\ "executor" \in up
  /\ \E n \in 1..Len(toExecutor) : n <= MaxRecv /\ Hear(parse(SubSeq(toExecutor, 1, n)), n)
  /\ UNCHANGED <<subject, root, calls, text, toServer, sent, replied, received>>

\* An executor answers what it was told. send may write less than it is given,
\* and nobody looks at how much it wrote.
Respond ==
  /\ "executor" \in up
  /\ replied < Len(acted)
  /\ replied' = replied + 1
  /\ LET output == write(Reply, FastWriter(FALSE, FALSE, FALSE))
     IN  \E n \in 1..Len(output) : toServer' = toServer \o SubSeq(output, 1, n)
  /\ UNCHANGED <<subject, root, calls, text, toExecutor, sent, acted, received, up>>

\* JSON.parse: a text with one value and nothing else.
JSONparse(s) ==
  LET Alone(reading) ==
        IF reading.result = "ok" /\ skipSpaces(s, reading.end) > Len(s) THEN {reading.value}
        ELSE {}
  IN  Alone(parse(s))

\* The web server parses whatever the socket delivers. It does not catch the
\* exception if that is no JSON text.
Take(Values, n) ==
  IF Values = {}
    THEN /\ up' = up \ {"server"}
         /\ toServer' = <<>>
         /\ UNCHANGED received
    ELSE /\ \E v \in Values : received' = Append(received, v)
         /\ toServer' = Rest(toServer, n)
         /\ UNCHANGED up

Data ==
  /\ "server" \in up
  /\ \E n \in 1..Len(toServer) : Take(JSONparse(SubSeq(toServer, 1, n)), n)
  /\ UNCHANGED <<subject, root, calls, text, toExecutor, sent, acted, replied>>

Next ==
  \/ PutElement \/ PutMember \/ Add \/ Resize
  \/ DropElement \/ DropMember \/ Clear \/ Wrap
  \/ ReadText
  \/ SendRequest \/ Communicate \/ Respond \/ Data

Spec == Init /\ [][Next]_vars

-----------------------------------------------------------------------------
(* Properties.                                                             *)

RECURSIVE Finite(_), Depth(_), Kept(_)
Finite(v) == /\ v.type = "real" => isfinite(v.dec)
             /\ isMap(v) => \A k \in DOMAIN v.map : Finite(v.map[k])

Depth(v) == 1 + (IF isMap(v) /\ DOMAIN v.map # {}
                 THEN CHOOSE n \in {Depth(v.map[k]) : k \in DOMAIN v.map} :
                        \A k \in DOMAIN v.map : Depth(v.map[k]) <= n
                 ELSE 0)

\* What a text keeps of a value: of a number its value, but not its type, and
\* of an array the elements that were never made as null.
Kept(v) ==
  LET Integer(n) == IF n <= MaxInt THEN intValue(n) ELSE uintValue(n)
      n == Truncated(v.dec)
  IN  CASE isNumber(v) -> Integer(v.num)
        [] v.type = "real" ->
             IF IsWhole(v.dec) /\ n \in MinLargestInt..MaxLargestUInt THEN Integer(n) ELSE v
        [] v.type = "array" ->
             arrayValue([k \in 0..(size(v) - 1) |-> Kept(At(v.map, k))])
        [] v.type = "object" -> objectValue([k \in DOMAIN v.map |-> Kept(v.map[k])])
        [] OTHER -> v

Reads(reading, v) == reading.result = "ok" /\ Equal(reading.value, Kept(v))

\* The writers, with settings that make their texts differ. The last writes arrays
\* on one line if it can.
Compact == [StreamWriterBuilder EXCEPT !.commentStyle = stringValue(Styles.None),
                                       !.indentation = stringValue(<<>>)]
Writers ==
  {FastWriter(FALSE, FALSE, FALSE), FastWriter(TRUE, FALSE, TRUE), StyledWriter,
   StyledStreamWriter(<<Ch.tab>>)}
    \cup newStreamWriter(StreamWriterBuilder) \cup newStreamWriter(Compact)
    \cup newStreamWriter([Compact EXCEPT !.indentation = stringValue(<<Ch.blank>>)])

Readers == newCharReader(CharReaderBuilder) \cup newCharReader(strictMode(CharReaderBuilder))

TerseWriters ==
  newStreamWriter([Compact EXCEPT !.useSpecialFloats = booleanValue(TRUE),
                                  !.dropNullPlaceholders = booleanValue(TRUE)])
TolerantReaders ==
  newCharReader([CharReaderBuilder EXCEPT !.allowSpecialFloats = booleanValue(TRUE),
                                          !.allowDroppedNullPlaceholders = booleanValue(TRUE)])

\* A null that leaves no trace: alone, or alone in an array.
RECURSIVE NullVanishes(_)
NullVanishes(v) ==
  \/ v.type = "array" /\ size(v) = 1 /\ At(v.map, 0).type = "null"
  \/ isMap(v) /\ \E k \in DOMAIN v.map : NullVanishes(v.map[k])

\* What is left out or written as no number is read where the reader allows that.
SettingsMatch ==
  subject = "value" /\ root.type # "null" /\ ~NullVanishes(root) /\ Depth(root) <= StackLimit =>
    \A writer \in TerseWriters, features \in TolerantReaders :
      Reads(OurParse(write(root, writer), features), root)

\* The text of a number that only the CharReader takes for one: it is out of range,
\* or its exponent has no digits.
OddNumber(document) ==
  \E i \in 1..Len(document) :
    LET token == TokenAt(document, i)
        s == Content(document, token)
    IN  token.type = "number" /\ decodeNumber(s) = {} /\ OurDecodeNumber(s) # {}


\* Of two values one is less, or they are equal; and a value converts to a type
\* exactly if isConvertibleTo says so, a whole number to itself.
ComparesAndConverts ==
  LET Lower == {k \in DOMAIN Scalars : Less(Scalars[k], root)}
      Upper == {k \in DOMAIN Scalars : Less(root, Scalars[k])}
  IN
  /\ \A j \in Lower, k \in Upper : Less(Scalars[j], Scalars[k])
  /\ Lower \cap Upper = {}
  /\ \A k \in DOMAIN Scalars :
       Equal(root, Scalars[k]) <=> k \notin Lower \cup Upper
  /\ isConvertibleTo(root, "int") <=> asInt(root) # {}
  /\ isConvertibleTo(root, "uint") <=> asUInt(root) # {}
  /\ isConvertibleTo(root, "real") <=> asDouble(root) # {}
  /\ isConvertibleTo(root, "boolean") <=> asBool(root) # {}
  /\ isConvertibleTo(root, "string") <=> asString(root) # {}
  /\ isNumber(root) => /\ isInt64(root) => asInt64(root) = {root.num}
                       /\ isUInt64(root) => asUInt64(root) = {root.num}

\* However the stream is cut into pieces and the pieces run together, whoever is
\* told something is told what was sent: the messages for a session that
\* communicate acts upon are whole requests, each once and in order, and
\* the web server takes whole replies only.
IntactOrNothing ==
  LET ForSession == SelectSeq(acted, LAMBDA v : Field(v, id) # {<<>>})
      Meant(v) == {k \in 1..sent : Equal(v, Requests[k])}
  IN  /\ \A j \in DOMAIN ForSession :
           /\ Meant(ForSession[j]) # {}
           /\ \A i \in 1..(j - 1), k \in Meant(ForSession[j]) :
                \A h \in Meant(ForSession[i]) : h < k
      /\ \A j \in DOMAIN received : j <= replied /\ Equal(received[j], Reply)
=============================================================================
