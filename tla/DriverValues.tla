----------------------------- MODULE DriverValues -----------------------------
(***************************************************************************)
(* driver/rows.go: what database/sql is given for a decoded value.  Text   *)
(* is a sequence of character codes.  The renderings of clocks, intervals, *)
(* UUIDs and floats, which print every part of the value in a place of its *)
(* own, are one opaque character each; that of an offset from UTC leaves   *)
(* parts out and is modelled.  JSON is a tree: <<kind, content>>.          *)
(***************************************************************************)
EXTENDS Cells

Plus  == 43
Minus == 45
Dot   == 46
Zero  == 48
Replacement == 65533   \* what json.Marshal writes for a byte that is no UTF-8

MaxInt64 == Byte^8 \div 2 - 1

Nestings == {Type.List, Type.Array, Type.Struct, Type.Map}

----------------------------------------------------------------------------
(* Text *)

MaxDigits == 9   \* of the widest integer of an instance
NumDigits(n) == Min({k \in 1..MaxDigits : n < 10^k})

\* strconv.FormatUint.
Digits(n) == LET k == NumDigits(n) IN [i \in 1..k |-> Zero + ((n \div 10^(k - i)) % 10)]

FormatInt(n) == IF n < 0 THEN <<Minus>> \o Digits(-n) ELSE Digits(n)

\* The digits, padded so that one of them stands before the point.
DecimalString(v, scale) ==
  LET d == Digits(IF v < 0 THEN -v ELSE v)
      s == IF scale >= Len(d) THEN [i \in 1..(scale + 1 - Len(d)) |-> Zero] \o d ELSE d
      cut == Len(s) - scale
  IN  (IF v < 0 THEN <<Minus>> ELSE <<>>)
      \o (IF scale > 0 THEN SubSeq(s, 1, cut) \o <<Dot>> \o SubSeq(s, cut + 1, Len(s)) ELSE s)

Rendering(v) == <<v>>

Sixty == 2   \* seconds of a minute, minutes of an hour

\* Seconds as hours, minutes and seconds.
Parts(n) == <<n \div Sixty^2, (n \div Sixty) % Sixty, n % Sixty>>

\* The parts of an offset that are printed: the hours, and what is not zero.
Printed(parts) == <<parts[1]>> \o SelectSeq(Tail(parts), LAMBDA x : x # 0)

\* The clock, then the offset.
TimeTZString(v) ==
  Rendering(<<"Time", v[2]>>) \o (IF v[3] < 0 THEN <<Minus>> \o Printed(Parts(-v[3]))
                                                ELSE <<Plus>> \o Printed(Parts(v[3])))

----------------------------------------------------------------------------
(* Values *)

\* Mutant: the limit of the unsigned type.
exceedsInt64Late(n) == n > Byte^8 - 1

exceedsInt64(n) == n > MaxInt64

IsInt64(n) == -MaxInt64 - 1 <= n /\ n <= MaxInt64

\* A value that is not nested.
scalarValue(v) ==
  CASE v[1] \in {"nil", "bool", "int64", "float", "string", "bytes", "time"} -> v
    [] v[1] \in {"int8", "int16", "int32", "uint8", "uint16", "uint32"} -> <<"int64", v[2]>>
    [] v[1] = "uint64"  -> IF exceedsInt64(v[2]) THEN <<"string", Digits(v[2])>> ELSE <<"int64", ToSigned(v[2], 8)>>
    [] v[1] = "big"     -> IF IsInt64(v[2]) THEN <<"int64", v[2]>> ELSE <<"string", FormatInt(v[2])>>
    [] v[1] = "Decimal" -> <<"string", DecimalString(v[4], v[3])>>
    [] v[1] = "TimeTZ"  -> <<"string", TimeTZString(v)>>
    [] v[1] \in {"Time", "TimeNS", "Interval", "UUID"} -> <<"string", Rendering(v)>>

jsonNumberSafe(id) == id \in {Type.Decimal, Type.Hugeint, Type.UHugeint, Type.UBigint}

\* json.Marshal of a string: bytes that are no UTF-8 are replaced.
appendJSONString(s) == <<"string", s>>
marshalBytes(b) == appendJSONString([i \in 1..Len(b) |-> IF b[i] < 128 THEN b[i] ELSE Replacement])

\* The largest pattern stands for NaN and the infinities, for which JSON has
\* no number.
appendJSONFloat(dv) ==
  IF dv[2] = Byte^8 - 1 THEN appendJSONString(Rendering(dv)) ELSE <<"number", Rendering(dv)>>

leafJSON(t, dv) ==
  CASE dv[1] = "bool"   -> <<"literal", dv[2]>>
    [] dv[1] = "int64"  -> <<"number", FormatInt(dv[2])>>
    [] dv[1] = "float"  -> appendJSONFloat(dv)
    [] dv[1] = "string" -> IF jsonNumberSafe(t.id) THEN <<"number", dv[2]>> ELSE appendJSONString(dv[2])
    [] dv[1] = "bytes"  -> marshalBytes(dv[2])
    [] dv[1] = "time"   -> appendJSONString(Rendering(dv))

RECURSIVE appendJSON(_, _)

toDriverValue(t, v) ==
  IF t.id \notin Nestings THEN scalarValue(v)
  ELSE IF v = NULL THEN NULL ELSE <<"string", appendJSON(t, v)>>

\* A converted map key as text.
keyString(dv) ==
  CASE dv[1] = "string" -> dv[2]
    [] dv[1] = "int64"  -> FormatInt(dv[2])
    [] OTHER            -> Rendering(dv)

\* The name of a member; the bytes of a BLOB go through json.Marshal too.
memberName(dv) == IF dv[1] = "bytes" THEN marshalBytes(dv[2]) ELSE appendJSONString(keyString(dv))

\* Struct fields keep their order; map entries become members.
appendJSON(t, v) ==
  CASE v = NULL -> <<"null">>
    [] v # NULL /\ t.id \in {Type.List, Type.Array} ->
         <<"array", [i \in 1..Len(v[2]) |-> appendJSON(t.child[1], v[2][i])]>>
    [] v # NULL /\ t.id = Type.Struct ->
         <<"object", [i \in 1..Len(v[2]) |->
            <<appendJSONString(v[2][i].name), appendJSON(t.fields[i].type, v[2][i].value)>>]>>
    [] v # NULL /\ t.id = Type.Map ->
         <<"object", [i \in 1..Len(v[2]) |->
            <<memberName(toDriverValue(t.child[1].fields[1].type, v[2][i][1])),
              appendJSON(t.child[1].fields[2].type, v[2][i][2])>>]>>
    [] OTHER -> leafJSON(t, toDriverValue(t, v))

----------------------------------------------------------------------------
(* What a reader who knows the column's type can recover.                  *)

ParseInt(s) ==
  LET neg == s[1] = Minus
      d   == IF neg THEN Tail(s) ELSE s
      n   == MapThenSumSet(LAMBDA i : (d[i] - Zero) * 10^(Len(d) - i), 1..Len(d))
  IN  IF neg THEN -n ELSE n

\* The unscaled number, if the point is where the scale says.
ParseDecimal(s, scale) ==
  IF scale > 0 /\ s[Len(s) - scale] # Dot THEN -1
  ELSE ParseInt(SelectSeq(s, LAMBDA ch : ch # Dot))

Integers64 == SignedInts \cup UnsignedInts \cup {Type.Hugeint, Type.UHugeint}
GoType(id) == IF id \in {Type.Hugeint, Type.UHugeint} THEN "big" ELSE intType(id)

\* An offset from its sign and the parts after it, of which the last may be
\* missing.
ParseOffset(sign, parts) ==
  LET p(i) == IF i <= Len(parts) THEN parts[i] ELSE 0
      n    == p(1) * Sixty^2 + p(2) * Sixty + p(3)
  IN  IF sign = Minus THEN -n ELSE n

\* A scalar from the text that stands for it.
FromText(t, s) ==
  CASE t.id \in Integers64  -> <<GoType(t.id), ParseInt(s)>>
    [] t.id = Type.Decimal  -> <<"Decimal", t.width, t.scale, ParseDecimal(s, t.scale)>>
    [] t.id \in {Type.Varchar, Type.Enum, Type.Bit} -> <<"string", s>>
    [] t.id = Type.Blob     -> <<"bytes", s>>
    [] t.id = Type.TimeTZ   -> <<"TimeTZ", s[1][2], ParseOffset(s[2], SubSeq(s, 3, Len(s)))>>
    [] OTHER                -> s[1]

RECURSIVE FromJSON(_, _)
FromJSON(t, j) ==
  CASE j[1] = "null" -> NULL
    [] j[1] = "literal" -> <<"bool", j[2]>>
    [] j[1] = "array" -> <<"list", [i \in 1..Len(j[2]) |-> FromJSON(t.child[1], j[2][i])]>>
    [] j[1] = "object" /\ t.id = Type.Struct ->
         <<"Struct", [i \in 1..Len(j[2]) |->
            [name |-> j[2][i][1][2], value |-> FromJSON(t.fields[i].type, j[2][i][2])]]>>
    [] j[1] = "object" /\ t.id = Type.Map ->
         <<"map", [i \in 1..Len(j[2]) |->
            <<FromText(t.child[1].fields[1].type, j[2][i][1][2]),
              FromJSON(t.child[1].fields[2].type, j[2][i][2])>>]>>
    [] OTHER -> FromText(t, j[2])

Recovered(t, dv) ==
  CASE dv = NULL -> NULL
    [] dv # NULL /\ t.id \in Nestings -> FromJSON(t, dv[2])
    [] dv # NULL /\ dv[1] = "int64"   -> <<GoType(t.id), dv[2]>>
    [] dv # NULL /\ dv[1] = "string"  -> FromText(t, dv[2])
    [] OTHER -> dv
=============================================================================
