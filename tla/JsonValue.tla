------------------------------ MODULE JsonValue ------------------------------
(***************************************************************************)
(* Json::Value of jsoncpp, in which the executor holds what it sends and   *)
(* what it has been told (jsoncpp/src/lib_json/json_value.cpp): types,     *)
(* access, comparison and conversion. Text is a sequence of bytes.         *)
(*                                                                         *)
(* A value is a record of its type and a payload. Arrays are, as in the    *)
(* code, maps from indices that need not be there, and objects maps from   *)
(* keys. A double is a decimal m * 10^e; NaN and the rounding of doubles   *)
(* are left out. An operation that may throw yields the set of its         *)
(* results, which is empty if it does.                                     *)
(***************************************************************************)
EXTENDS Integers, Sequences, FiniteSets, SequencesExt

CONSTANTS
  IntBits,      \* bits of Int and UInt (32 in the code)
  LargestBits,  \* bits of LargestInt and LargestUInt (64)
  MaxExponent   \* doubles are below 10^MaxExponent (308)

ASSUME WidthsAssumption ==
  /\ IntBits \in Nat \ {0}
  /\ LargestBits \in Nat \ 0..IntBits
  /\ MaxExponent \in Nat

MinInt == -(2^(IntBits - 1))
MaxInt == 2^(IntBits - 1) - 1
MaxUInt == 2^IntBits - 1
MinLargestInt == -(2^(LargestBits - 1))
MaxLargestInt == 2^(LargestBits - 1) - 1
MaxLargestUInt == 2^LargestBits - 1

-----------------------------------------------------------------------------
(* Decimals.                                                               *)

RECURSIVE Normal(_, _)
Normal(m, e) ==
  IF m = 0 THEN [m |-> 0, e |-> 0]
  ELSE IF m % 10 = 0 THEN Normal(m \div 10, e + 1)
  ELSE [m |-> m, e |-> e]

Magnitude(n) == IF n < 0 THEN -n ELSE n

RECURSIVE Digits(_)
Digits(n) == IF n < 10 THEN <<48 + n>> ELSE Append(Digits(n \div 10), 48 + (n % 10))

Infinity == [m |-> 1, e |-> MaxExponent + 1]
isfinite(d) == d.e <= MaxExponent

\* m * 10^e as a number of units of 10^k, where k <= e.
Units(d, k) == d.m * (10^(d.e - k))

Below(a, b) ==
  LET k == IF a.e < b.e THEN a.e ELSE b.e
  IN  IF isfinite(a) /\ isfinite(b) THEN Units(a, k) < Units(b, k)
      ELSE a # b /\ ((~isfinite(a) /\ a.m < 0) \/ (~isfinite(b) /\ b.m > 0))

InRange(d, low, high) == ~Below(d, Normal(low, 0)) /\ ~Below(Normal(high, 0), d)

IsWhole(d) == d.e >= 0

\* The cast of a double to an integer drops the fraction.
Truncated(d) ==
  IF d.e >= 0 THEN Units(d, 0)
  ELSE (IF d.m < 0 THEN -1 ELSE 1) * (Magnitude(d.m) \div (10^(-d.e)))

-----------------------------------------------------------------------------
(* Values.                                                                 *)

Types == <<"null", "int", "uint", "real", "string", "boolean", "array", "object">>
TypeNumber(v) == CHOOSE k \in DOMAIN Types : Types[k] = v.type

nullRef == [type |-> "null"]
intValue(n) == [type |-> "int", num |-> n]
uintValue(n) == [type |-> "uint", num |-> n]
realValue(d) == [type |-> "real", dec |-> d]
stringValue(s) == [type |-> "string", str |-> s]
booleanValue(b) == [type |-> "boolean", flag |-> b]
arrayValue(f) == [type |-> "array", map |-> f]
objectValue(f) == [type |-> "object", map |-> f]

\* The value of a type that it is constructed with.
Default(type) ==
  CASE type = "null" -> nullRef
    [] type = "int" -> intValue(0)
    [] type = "uint" -> uintValue(0)
    [] type = "real" -> realValue(Normal(0, 0))
    [] type = "string" -> stringValue(<<>>)
    [] type = "boolean" -> booleanValue(FALSE)
    [] type = "array" -> arrayValue(<<>>)
    [] type = "object" -> objectValue(<<>>)

isNumber(v) == v.type \in {"int", "uint"}
isMap(v) == v.type \in {"array", "object"}

\* isInt, isUInt, isInt64: a number, or a whole double, in the range. A double is
\* compared with the double of the limit.
isInt(v) == \/ isNumber(v) /\ v.num \in MinInt..MaxInt
            \/ v.type = "real" /\ InRange(v.dec, MinInt, MaxInt) /\ IsWhole(v.dec)
isUInt(v) == \/ isNumber(v) /\ v.num \in 0..MaxUInt
             \/ v.type = "real" /\ InRange(v.dec, 0, MaxUInt) /\ IsWhole(v.dec)
isInt64(v) == \/ isNumber(v) /\ v.num <= MaxLargestInt
              \/ /\ v.type = "real" /\ InRange(v.dec, MinLargestInt, MaxLargestInt)
                 /\ IsWhole(v.dec)
isUInt64(v) == \/ isNumber(v) /\ v.num >= 0
               \/ /\ v.type = "real" /\ InRange(v.dec, 0, MaxLargestUInt)
                  /\ IsWhole(v.dec)
isNumeric(v) == isInt64(v) \/ isUInt64(v) \/ v.type = "real"

-----------------------------------------------------------------------------
(* Order and equality.                                                     *)

\* Slip: the common length only.
StringBelow_Prefix(s, t) ==
  \E k \in 1..Len(s) : /\ k <= Len(t)
                       /\ s[k] < t[k]
                       /\ \A j \in 1..(k - 1) : s[j] = t[j]

\* memcmp over the common length, then the length.
StringBelow(s, t) ==
  LET Differ == {k \in 1..Len(s) : k > Len(t) \/ s[k] # t[k]}
      k == CHOOSE k \in Differ : \A j \in Differ : k <= j
  IN  IF Differ = {} THEN Len(s) < Len(t) ELSE k <= Len(t) /\ s[k] < t[k]

\* CZString's order: of indices, or of keys.
KeyBelow(v, j, k) == IF v.type = "array" THEN j < k ELSE StringBelow(j, k)

Keys(v) == SetToSortSeq(DOMAIN v.map, LAMBDA j, k : KeyBelow(v, j, k))

RECURSIVE Equal(_, _)
Equal(a, b) ==
  /\ a.type = b.type
  /\ isMap(a) => /\ DOMAIN a.map = DOMAIN b.map
                 /\ \A k \in DOMAIN a.map : Equal(a.map[k], b.map[k])
  /\ ~isMap(a) => a = b

\* std::map's order: the first pair in which two maps differ decides.
RECURSIVE Less(_, _)
Less(a, b) ==
  IF a.type # b.type THEN TypeNumber(a) < TypeNumber(b)
  ELSE CASE a.type = "null" -> FALSE
         [] isNumber(a) -> a.num < b.num
         [] a.type = "real" -> Below(a.dec, b.dec)
         [] a.type = "string" -> StringBelow(a.str, b.str)
         [] a.type = "boolean" -> ~a.flag /\ b.flag
         [] isMap(a) ->
              LET p == Keys(a)
                  q == Keys(b)
                  Differ == {k \in 1..Len(p) : \/ p[k] # q[k]
                                               \/ Less(a.map[p[k]], b.map[q[k]])
                                               \/ Less(b.map[q[k]], a.map[p[k]])}
                  k == CHOOSE k \in Differ : \A j \in Differ : k <= j
              IN  IF Len(p) # Len(q) THEN Len(p) < Len(q)
                  ELSE /\ Differ # {}
                       /\ \/ KeyBelow(a, p[k], q[k])
                          \/ p[k] = q[k] /\ Less(a.map[p[k]], b.map[q[k]])

-----------------------------------------------------------------------------
(* Access. A map is a function whose domain the operations change; the     *)
(* results stand for the value after the call.                             *)

With(f, k, x) == [j \in DOMAIN f \cup {k} |-> IF j = k THEN x ELSE f[j]]
Without(f, K) == [j \in DOMAIN f \ K |-> f[j]]
At(f, k) == IF k \in DOMAIN f THEN f[k] ELSE nullRef

\* An array's size is its last index and one, whatever is missing below.
size(v) ==
  CASE v.type = "array" -> IF DOMAIN v.map = {} THEN 0
                           ELSE 1 + CHOOSE k \in DOMAIN v.map : \A j \in DOMAIN v.map : j <= k
    [] v.type = "object" -> Cardinality(DOMAIN v.map)
    [] OTHER -> 0

\* A null becomes an array or an object when it is accessed as one.
AsArray(v) == IF v.type = "null" THEN Default("array") ELSE v
AsObject(v) == IF v.type = "null" THEN Default("object") ELSE v

\* v["key"], which throws for a value of another type.
resolveReference(v, key) ==
  IF v.type \in {"null", "object"} THEN {At(AsObject(v).map, key)} ELSE {}

\* v[index] = x and v["key"] = x.
SetElement(v, index, x) == arrayValue(With(AsArray(v).map, index, x))
SetMember(v, key, x) == objectValue(With(AsObject(v).map, key, x))

append(v, x) == SetElement(v, size(v), x)

clear(v) == IF v.type = "null" THEN v ELSE Default(v.type)

\* Growing makes one element, the last. The assertion that ends the shrinking of
\* an array does not hold if an element in front of the cut was never made.
resize(v, newSize) ==
  LET a == AsArray(v)
      cut == arrayValue(Without(a.map, newSize..(size(a) - 1)))
  IN  IF newSize = 0 THEN {clear(a)}
      ELSE IF newSize > size(a) THEN {SetElement(a, newSize - 1, At(a.map, newSize - 1))}
      ELSE IF size(cut) = newSize THEN {cut} ELSE {}

removeMember(v, key) == IF v.type = "null" THEN v ELSE objectValue(Without(v.map, {key}))

\* The elements behind the removed one move up. Nothing happens to a missing one.
removeIndex(v, index) ==
  LET last == size(v) - 1
  IN  IF index \notin DOMAIN v.map THEN v
      ELSE arrayValue([j \in (DOMAIN v.map \cup index..last) \ {last} |->
                    IF j < index THEN v.map[j] ELSE At(v.map, j + 1)])

-----------------------------------------------------------------------------
(* Conversion.                                                             *)

Word(w) == CASE w = "null" -> <<110, 117, 108, 108>>
             [] w = "true" -> <<116, 114, 117, 101>>
             [] w = "false" -> <<102, 97, 108, 115, 101>>

Signed(m, s) == IF m < 0 THEN <<45>> \o s ELSE s

\* %.17g of a double; an infinite one is written as 1e+9999.
DoubleText(d) ==
  LET n == Digits(Magnitude(d.m))
      padded == [k \in 1..(1 - d.e) |-> 48] \o n
      point == Len(padded) + d.e
      whole == SubSeq(padded, IF Len(n) > -d.e THEN 2 - d.e ELSE point, point)
  IN  Signed(d.m, IF ~isfinite(d) THEN <<49, 101, 43, 57, 57, 57, 57>>
                  ELSE IF d.e >= 0 THEN Digits(Units([d EXCEPT !.m = Magnitude(@)], 0))
                  ELSE whole \o <<46>> \o SubSeq(padded, point + 1, Len(padded)))

valueToString(v) ==
  CASE isNumber(v) -> Signed(v.num, Digits(Magnitude(v.num)))
    [] v.type = "real" -> DoubleText(v.dec)
    [] v.type = "boolean" -> Word(IF v.flag THEN "true" ELSE "false")

asString(v) ==
  CASE v.type = "null" -> {<<>>}
    [] v.type = "string" -> {v.str}
    [] isMap(v) -> {}
    [] OTHER -> {valueToString(v)}

\* The integer of a value, if it lies between the limits.
asIntegral(v, low, high) ==
  CASE isNumber(v) -> {v.num} \cap (low..high)
    [] v.type = "real" -> IF InRange(v.dec, low, high) THEN {Truncated(v.dec)} ELSE {}
    [] v.type = "null" -> {0}
    [] v.type = "boolean" -> {IF v.flag THEN 1 ELSE 0}
    [] OTHER -> {}

asInt(v) == asIntegral(v, MinInt, MaxInt)
asUInt(v) == asIntegral(v, 0, MaxUInt)
asInt64(v) == asIntegral(v, MinLargestInt, MaxLargestInt)
asUInt64(v) == asIntegral(v, 0, MaxLargestUInt)

asDouble(v) ==
  CASE isNumber(v) -> {Normal(v.num, 0)}
    [] v.type = "real" -> {v.dec}
    [] v.type = "null" -> {Normal(0, 0)}
    [] v.type = "boolean" -> {Normal(IF v.flag THEN 1 ELSE 0, 0)}
    [] OTHER -> {}

asBool(v) ==
  CASE v.type = "boolean" -> {v.flag}
    [] v.type = "null" -> {FALSE}
    [] isNumber(v) -> {v.num # 0}
    [] v.type = "real" -> {v.dec.m # 0}
    [] OTHER -> {}

isConvertibleTo(v, type) ==
  CASE type = "null" ->
         \/ v.type = "null"
         \/ isNumeric(v) /\ asDouble(v) = {Normal(0, 0)}
         \/ v.type = "boolean" /\ ~v.flag
         \/ v.type = "string" /\ v.str = <<>>
         \/ isMap(v) /\ DOMAIN v.map = {}
    [] type = "int" -> \/ isInt(v) \/ v.type \in {"boolean", "null"}
                       \/ v.type = "real" /\ InRange(v.dec, MinInt, MaxInt)
    [] type = "uint" -> \/ isUInt(v) \/ v.type \in {"boolean", "null"}
                        \/ v.type = "real" /\ InRange(v.dec, 0, MaxUInt)
    [] type \in {"real", "boolean"} -> isNumeric(v) \/ v.type \in {"boolean", "null"}
    [] type = "string" -> isNumeric(v) \/ v.type \in {"boolean", "string", "null"}
    [] type \in {"array", "object"} -> v.type \in {type, "null"}
=============================================================================
