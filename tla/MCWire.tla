------------------------------- MODULE MCWire -------------------------------
(***************************************************************************)
(* Small values and texts for Wire. A member's name is a letter: i for id, *)
(* t for type, a for val (which comes before the id in what /next sends),  *)
(* p for prevId, n for nodes.                                              *)
(***************************************************************************)
EXTENDS Wire

Letter == [a |-> <<97>>, i |-> <<105>>, n |-> <<110>>, p |-> <<112>>, s |-> <<115>>, t |-> <<116>>]
Member(key, v) == SetMember(nullRef, key, v)
Session(v) == SetMember(v, Letter.i, stringValue(Letter.s))

\* {"i":"s","t":3} and {"a":{"p":"{}"},"i":"s"}
MCRequests ==
  << Session(Member(Letter.t, intValue(3))),
     Session(Member(Letter.a, Member(Letter.p, stringValue(<<123, 125>>)))) >>

\* {"n":[{"t":"[]"}]}
MCReply == Member(Letter.n, append(nullRef, Member(Letter.t, stringValue(<<91, 93>>))))

MCScalars ==
  << nullRef, intValue(-8), intValue(7), intValue(15), uintValue(7), uintValue(16),
     realValue(Normal(75, -1)), realValue(Normal(128, 0)), realValue(Infinity),
     stringValue(<<>>), stringValue(<<34, 1, 92>>), booleanValue(TRUE), objectValue(<<>>) >>

MCNames == {<<>>, <<34, 47>>}

\* [ ] , { "": } 1 - .5 e /* */ " \ud83d\ude00
MCPieces ==
  << <<91>>, <<93>>, <<44>>, <<123>>, <<34, 34, 58>>, <<125>>, <<49>>, <<45>>, <<46, 53>>,
     <<101>>, <<47, 42>>, <<42, 47>>, <<34>>,
     <<92, 117, 100, 56, 51, 100, 92, 117, 100, 101, 48, 48>> >>
=============================================================================
