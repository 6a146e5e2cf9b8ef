------------------------------- MODULE MCCodec -------------------------------
(***************************************************************************)
(* Small instances of Payload: every type with values at the ends of its   *)
(* range, nested types of two levels, and every encoding of their vectors. *)
(***************************************************************************)
EXTENDS Payload

A == <<97>>
B == <<98>>

DecimalT(w)  == [T(Type.Decimal) EXCEPT !.width = w, !.scale = 2]
EnumT(n)     == [T(Type.Enum) EXCEPT !.enum = [i \in 1..n |-> <<i>>]]
ListT(t)     == [T(Type.List) EXCEPT !.child = <<t>>]
ArrayT(t, n) == [T(Type.Array) EXCEPT !.child = <<t>>, !.size = n]
StructT(id, t, u) ==
  [T(id) EXCEPT !.fields = <<[name |-> A, type |-> t], [name |-> B, type |-> u]>>]
MapT(t, u)   == [T(Type.Map) EXCEPT !.child = <<StructT(Type.Struct, t, u)>>]

Pair(x, y) == <<"Struct", <<[name |-> A, value |-> x], [name |-> B, value |-> y]>> >>

Least(n) == -(Byte^n \div 2)
Most(n)  == Byte^n \div 2 - 1
UuidOf(b, c) == [i \in 1..16 |-> IF i = 1 THEN b ELSE IF i = 9 THEN c ELSE 0]

\* A type and two values of it.
Scalar == {
  <<T(Type.Boolean), <<"bool", TRUE>>, <<"bool", FALSE>> >>,
  <<T(Type.Tinyint), <<"int8", Least(1)>>, <<"int8", 0>> >>,
  <<T(Type.UTinyint), <<"uint8", Byte - 1>>, <<"uint8", 0>> >>,
  <<T(Type.Smallint), <<"int16", Least(2)>>, <<"int16", Most(2)>> >>,
  <<T(Type.USmallint), <<"uint16", Byte^2 - 1>>, <<"uint16", 1>> >>,
  <<T(Type.Integer), <<"int32", Least(4)>>, <<"int32", Most(4)>> >>,
  <<T(Type.UInteger), <<"uint32", Byte^4 - 1>>, <<"uint32", 1>> >>,
  <<T(Type.Bigint), <<"int64", Least(8)>>, <<"int64", Most(8)>> >>,
  <<T(Type.UBigint), <<"uint64", Byte^8 - 1>>, <<"uint64", 1>> >>,
  <<T(Type.Float), <<"float", 5>>, <<"float", 0>> >>,
  <<T(Type.Double), <<"float", Byte^8 - 1>>, <<"float", 1>> >>,
  <<T(Type.Hugeint), <<"big", Least(16)>>, <<"big", Most(16)>> >>,
  <<T(Type.UHugeint), <<"big", Byte^16 - 1>>, <<"big", Byte^8>> >>,
  <<DecimalT(4), <<"Decimal", 4, 2, Least(2)>>, <<"Decimal", 4, 2, 1>> >>,
  <<DecimalT(9), <<"Decimal", 9, 2, Least(4)>>, <<"Decimal", 9, 2, 1>> >>,
  <<DecimalT(18), <<"Decimal", 18, 2, Least(8)>>, <<"Decimal", 18, 2, Most(8)>> >>,
  <<DecimalT(19), <<"Decimal", 19, 2, Least(16)>>, <<"Decimal", 19, 2, Byte^8>> >>,
  <<T(Type.Date), <<"time", -16>>, <<"time", 32>> >>,
  <<T(Type.Time), <<"Time", 9>>, <<"Time", 0>> >>,
  <<T(Type.TimeNS), <<"TimeNS", 9>>, <<"TimeNS", 0>> >>,
  <<T(Type.TimestampSec), <<"time", -8>>, <<"time", 16>> >>,
  <<T(Type.TimestampMS), <<"time", -4>>, <<"time", 12>> >>,
  <<T(Type.Timestamp), <<"time", -2>>, <<"time", 6>> >>,
  <<T(Type.TimestampTZ), <<"time", -2>>, <<"time", 6>> >>,
  <<T(Type.TimestampNS), <<"time", -1>>, <<"time", 7>> >>,
  <<T(Type.TimeTZ), <<"TimeTZ", 31, -3>>, <<"TimeTZ", 0, 3>> >>,
  <<T(Type.TimeTZ), <<"TimeTZ", 1, -4>>, <<"TimeTZ", 2, 2>> >>,
  <<T(Type.TimeTZ), <<"TimeTZ", 0, -1>>, <<"TimeTZ", 2, 0>> >>,
  <<T(Type.UUID), <<"UUID", UuidOf(1, 0)>>, <<"UUID", UuidOf(0, 1)>> >>,
  <<T(Type.Interval), <<"Interval", Least(4), 3, Least(8)>>, <<"Interval", 1, -1, 0>> >>,
  <<EnumT(1), <<"string", <<1>> >>, <<"string", <<1>> >> >>,
  <<EnumT(2), <<"string", <<2>> >>, <<"string", <<1>> >> >>,
  <<EnumT(3), <<"string", <<3>> >>, <<"string", <<1>> >> >>,
  <<EnumT(4), <<"string", <<4>> >>, <<"string", <<1>> >> >>,
  <<T(Type.Varchar), <<"string", A>>, <<"string", <<>> >> >>,
  <<T(Type.Blob), <<"bytes", <<0, 255>> >>, <<"bytes", <<>> >> >>,
  <<T(Type.Bit), <<"string", <<0, 1, 1, 0, 1, 0, 0, 1, 1>> >>, <<"string", <<1>> >> >>,
  <<T(Type.SQLNull), NULL, NULL>>,
  <<T(Type.Geometry), <<"bytes", <<1>> >>, <<"bytes", <<2>> >> >> }

Some(id) == CHOOSE s \in Scalar : s[1].id = id
AnInt  == Some(Type.Integer)
AString == Some(Type.Varchar)
AGeo == Some(Type.Geometry)

\* A map with keys of this type.
MapOf(s) == <<MapT(s[1], AnInt[1]), <<"map", << <<s[2], AnInt[2]>> >> >>, <<"map", <<>> >> >>

\* The types one level up, each with two values.
Nest(s) == {
  <<ListT(s[1]), <<"list", <<s[2], NULL, s[3]>> >>, <<"list", <<>> >> >>,
  <<ArrayT(s[1], 2), <<"list", <<s[2], NULL>> >>, <<"list", <<s[3], s[2]>> >> >>,
  <<MapT(AString[1], s[1]), <<"map", << <<AString[2], s[2]>>, <<AString[3], NULL>> >> >>, <<"map", <<>> >> >>,
  <<StructT(Type.Struct, s[1], AnInt[1]), Pair(s[2], NULL), Pair(s[3], AnInt[2])>>,
  <<StructT(Type.Union, s[1], AnInt[1]), Pair(s[2], NULL), Pair(s[3], AnInt[2])>>,
  <<StructT(Type.Variant, AnInt[1], s[1]), Pair(AnInt[2], s[2]), Pair(NULL, s[3])>> }

Nested == UNION {Nest(s) : s \in {AnInt, AString, AGeo}}
Leaves == {CHOOSE n \in Nest(s) : n[1].id = Type.List : s \in Scalar} \cup {MapOf(s) : s \in Scalar}
Deep   == UNION {Nest(s) : s \in Nest(AnInt) \cup {Some(Type.SQLNull)}}

\* Up to three rows of a type.
RowsOf(s) == { <<>>, <<NULL>>, <<s[2]>>, <<s[2], s[3]>>, <<s[2], s[2]>>, <<s[3], NULL, s[2]>> }
Tall(s)   == [i \in 1..9 |-> IF i \in {1, 8} THEN NULL ELSE IF i = 9 THEN s[2] ELSE s[3]]

Uuid == [upper |-> MinInt, lower |-> MaxUint]
Head1(type, conn, q) == 1 :> type @@ 2 :> conn @@ 3 :> q

\* The column under test stands before one that has to survive it.
Columns(t, vals) ==
  LET plain(name) == [name |-> name, type |-> AnInt[1], vals |-> [i \in 1..Len(vals) |-> AnInt[2]]]
  IN  <<[name |-> B, type |-> t, vals |-> vals], plain(A)>>

Fetch(cols, style, nested) ==
  [header |-> Head1(Msg.FetchResponse, <<>>, OptionalIdxAbsent), chunks |-> <<cols>>,
   batch |-> OptionalIdxAbsent, style |-> style, nested |-> nested]

Prepare(cols, chunks, more, style, nested) ==
  [header |-> Head1(Msg.PrepareResponse, A, 3), cols |-> cols, chunks |-> chunks, more |-> more,
   uuid |-> Uuid, style |-> style, nested |-> nested]

Styles == {"flat", "constant", "dictionary", "sequence"}

Mixed(s) == <<s[3], NULL, s[2]>>

FetchCases ==
  {Fetch(Columns(s[1], v), st, "flat") : <<s, v, st>> \in
     UNION {{s} \X RowsOf(s) \X Styles : s \in Scalar \cup Nested}}
  \cup {Fetch(Columns(s[1], Mixed(s)), "dictionary", "constant") : s \in Nested}
  \cup {Fetch(Columns(s[1], v), st, ns) : <<s, v, st, ns>> \in
     UNION {{s} \X { <<s[2]>>, Mixed(s) } \X {"flat", "dictionary"} \X Styles : s \in Deep}}
  \cup {Fetch(Columns(s[1], Mixed(s)), "flat", "flat") : s \in Leaves}
  \cup {Fetch(Columns(s[1], Tall(s)), "flat", "flat") : s \in {AnInt, AString}}

PrepareCases ==
  {Prepare(cols, ch, more, "constant", "flat") : <<cols, ch, more>> \in
     UNION {{c} \X { <<>>, <<c>>, <<c, c>> } \X BOOLEAN :
              c \in {Columns(s[1], <<s[2]>>) : s \in Nested}}}
  \cup {Prepare(<<>>, <<>>, FALSE, "flat", "flat")}

Fits(m) == [header |-> Head1(m[1], m[2], m[3]), body |-> m[4]]
PlainCases ==
  {Fits(m) : m \in
     ({Msg.ConnectionRequest} \X {<<>>, A} \X {0, OptionalIdxAbsent}
        \X {1 :> a @@ 2 :> b @@ 3 :> A @@ 4 :> v @@ 5 :> 1 : a, b \in {<<>>, A}, v \in {0, MaxUint}})
     \cup ({Msg.ConnectionResponse} \X {A} \X {7} \X {1 :> a @@ 2 :> B @@ 3 :> v : a \in {<<>>, A}, v \in {0, 8, 512}})
     \cup ({Msg.PrepareRequest, Msg.Error} \X {<<>>, A} \X {0} \X {1 :> a : a \in {<<>>, B}})
     \cup ({Msg.FetchRequest} \X {A} \X {1}
        \X {1 :> [upper |-> u, lower |-> l] : u \in {MinInt, -1, 0, 4, -MinInt - 1}, l \in {0, 7, MaxUint}})
     \cup ({Msg.Disconnect} \X {A} \X {0} \X {<<>>})}

\* Every number a varint can carry, signed and unsigned.
NumberCases ==
  {Fits(<<Msg.FetchRequest, A, 1, 1 :> [upper |-> Signed(u), lower |-> u]>>) : u \in 0..MaxUint}

MCCases == NumberCases \cup FetchCases \cup PrepareCases \cup PlainCases

\* Every type and every encoding is damaged, each nesting of types once.
MCFragile ==
  {Fetch(Columns(s[1], Mixed(s)), "flat", "flat") : s \in Scalar \cup Nested}
  \cup {Fetch(Columns(s[1], Mixed(s)), "dictionary", "constant") : s \in Nested}
  \cup {Fetch(Columns(s[1], <<s[2], s[2]>>), st, "flat") : <<s, st>> \in {AnInt, AString} \X Styles}
  \cup {Fetch(Columns(s[1], <<s[2]>>), "flat", "dictionary") : s \in {d \in Deep : d[1].id \in {Type.List, Type.Struct}}}
  \cup {Prepare(c, <<c>>, TRUE, "constant", "flat") : c \in {Columns(AnInt[1], <<AnInt[2]>>)}}
  \cup {c \in PlainCases : c.header[1] # Msg.Disconnect}

\* A clock east of UTC and bytes: by minutes and alone, by seconds and in a list.
TextCases ==
  LET clock(n) == [name |-> A, type |-> T(Type.TimeTZ), vals |-> << <<"TimeTZ", 0, n>> >>]
      b == Some(Type.Blob)
      alone == [name |-> B, type |-> b[1], vals |-> <<b[2]>>]
      listed == [name |-> B, type |-> ListT(b[1]), vals |-> << <<"list", <<b[2]>> >> >>]
  IN  {Fetch(cols, "flat", "flat") : cols \in {<<clock(2), alone>>, <<clock(1), listed>>}}

\* Two small numbers, the largest one, a type that needs a child, and a number
\* that is too long.
MCGarbage == {AppendUvarint(n) : n \in {0, 3, MaxUint}} \cup {[i \in 1..MaxGroups |-> IF i < MaxGroups THEN Cont ELSE 2]}
=============================================================================
