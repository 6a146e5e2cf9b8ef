------------------------------ MODULE Codectest ------------------------------
(***************************************************************************)
(* codec/codectest: the encoder the tests and the fake server use, and     *)
(* what a real server writes and codectest does not: compressed vectors,   *)
(* and vectors of UNION, VARIANT, GEOMETRY and NULL.  A column is          *)
(* [name, type, vals].                                                     *)
(***************************************************************************)
EXTENDS Codec

Concat(s, Enc(_)) == FlattenSeq([i \in 1..Len(s) |-> Enc(s[i])])
PutList(s, Enc(_)) == PutUvarint(Len(s)) \o Concat(s, Enc)

RECURSIVE WriteType(_)

WriteInfo(kind, fields) == Field(101) \o PutBool(TRUE) \o FieldUvarint(100, kind) \o fields \o PutEnd

WriteType(t) ==
  FieldUvarint(100, t.id) \o
  (CASE t.id = Type.Decimal ->
          WriteInfo(Info.Decimal, NonZeroField(200, t.width) \o NonZeroField(201, t.scale))
     [] t.id \in {Type.List, Type.Map} -> WriteInfo(Info.List, Field(200) \o WriteType(t.child[1]))
     [] t.id \in {Type.Struct, Type.Union, Type.Variant} ->
          WriteInfo(Info.Struct, Field(200) \o
            PutList(t.fields, LAMBDA f : FieldBytes(0, f.name) \o Field(1) \o WriteType(f.type) \o PutEnd))
     [] t.id = Type.Enum ->
          WriteInfo(Info.Enum, FieldUvarint(200, Len(t.enum)) \o Field(201) \o PutList(t.enum, PutBytes))
     [] t.id = Type.Array ->
          WriteInfo(Info.Array, Field(200) \o WriteType(t.child[1]) \o NonZeroField(201, t.size))
     [] OTHER -> <<>>)
  \o PutEnd

----------------------------------------------------------------------------
(* Cells *)

\* The n bytes of an integer, two's complement if it is negative.
Le8(v, n) == [i \in 1..n |-> (v \div Byte^(i - 1)) % Byte]

\* int128parts and two AppendUint64: the low half first.
appendInt128(v) ==
  LET b == IF v < 0 THEN v + Byte^16 ELSE v
  IN  Le8(b % Byte^8, 8) \o Le8(b \div Byte^8, 8)

\* The room a value takes.
cellWidth(t) ==
  CASE t.id \in {Type.Boolean, Type.Tinyint, Type.UTinyint}            -> 1
    [] t.id \in {Type.Smallint, Type.USmallint}                        -> 2
    [] t.id \in {Type.Integer, Type.UInteger, Type.Float, Type.Date}   -> 4
    [] t.id \in {Type.Hugeint, Type.UHugeint, Type.UUID, Type.Interval} -> 16
    [] t.id = Type.Decimal -> IF t.width <= 4 THEN 2 ELSE IF t.width <= 9 THEN 4
                              ELSE IF t.width <= 18 THEN 8 ELSE 16
    [] t.id = Type.Enum    -> IF Len(t.enum) < Byte THEN 1 ELSE IF Len(t.enum) < Byte^2 THEN 2 ELSE 4
    [] OTHER                                                            -> 8

\* The cell of a value that is not NULL.
valueCell(t, v) ==
  LET x == v[2]
      n == cellWidth(t)
  IN  CASE t.id = Type.Boolean  -> <<IF x THEN 1 ELSE 0>>
        [] t.id = Type.Decimal  -> SubSeq(appendInt128(v[4]), 1, n)
        [] t.id \in {Type.Hugeint, Type.UHugeint} -> appendInt128(x)
        [] t.id = Type.UUID     -> Reverse(SubSeq(x, 9, 16)) \o Reverse([SubSeq(x, 1, 8) EXCEPT ![1] = FlipTop(@)])
        [] t.id = Type.Interval -> Le8(x, 4) \o Le8(v[3], 4) \o Le8(v[4], 8)
        [] t.id = Type.TimeTZ   -> Le8(x * Byte^3 + timeTZMaxOffset - v[3], 8)
        [] t.id = Type.Enum     -> Le8(SelectInSeq(t.enum, LAMBDA e : e = x) - 1, n)
        [] t.id \in {Type.Date} \cup Timestamps -> Le8(x \div unit(t.id), n)
        [] OTHER                -> Le8(x, n)

\* A NULL takes the room of a zero.
appendCell(t, v) == IF v = NULL THEN [i \in 1..cellWidth(t) |-> 0] ELSE valueCell(t, v)

\* BIT: the padding bits are set.
bitBlob(s) ==
  LET padding == (8 - (Len(s) % 8)) % 8
      bits    == [i \in 1..padding |-> 1] \o s
  IN  <<padding>> \o [b \in 1..(Len(bits) \div 8) |->
        MapThenSumSet(LAMBDA i : bits[8 * (b - 1) + i] * 2^(8 - i), 1..8)]

\* One bit per row, padded to entries of 64 rows.
validityMask(vals) ==
  [b \in 1..(8 * ((Len(vals) + 63) \div 64)) |->
     MapThenSumSet(LAMBDA i : 2^((i - 1) % 8),
                   {i \in 1..Len(vals) : ((i - 1) \div 8) + 1 = b /\ vals[i] # NULL})]

----------------------------------------------------------------------------
(* Vectors *)

\* style is the encoding of the outermost vector, nested that of all others.
\* Encodings that do not apply fall back to flat.
RECURSIVE writeVector(_, _, _, _)

\* The entries of a MAP row as the structs its child vector holds.
mapStructs(t, row) ==
  [j \in 1..Len(row) |->
     <<"Struct", <<[name |-> t.child[1].fields[1].name, value |-> row[j][1]],
                   [name |-> t.child[1].fields[2].name, value |-> row[j][2]]>> >>]

writeFields(t, vals, nested) ==
  Field(103) \o PutUvarint(Len(t.fields)) \o
  FlattenSeq([j \in 1..Len(t.fields) |->
    writeVector(t.fields[j].type,
                [i \in 1..Len(vals) |-> IF vals[i] = NULL THEN NULL ELSE vals[i][2][j].value],
                nested, nested) \o PutEnd])

writeList(t, vals, nested) ==
  LET row(i) == IF vals[i] = NULL THEN <<>>
                ELSE IF t.id = Type.Map THEN mapStructs(t, vals[i][2]) ELSE vals[i][2]
      rows   == [i \in 1..Len(vals) |-> row(i)]
      child  == FlattenSeq(rows)
      off(i) == Len(FlattenSeq(SubSeq(rows, 1, i - 1)))
  IN  FieldUvarint(104, Len(child)) \o Field(105) \o PutUvarint(Len(vals))
      \o FlattenSeq([i \in 1..Len(vals) |->
           FieldUvarint(100, off(i)) \o FieldUvarint(101, Len(row(i))) \o PutEnd])
      \o Field(106) \o writeVector(t.child[1], child, nested, nested) \o PutEnd

writeArray(t, vals, nested) ==
  LET row(i) == IF vals[i] = NULL THEN [j \in 1..t.size |-> NULL] ELSE vals[i][2]
  IN  FieldUvarint(103, t.size) \o Field(104)
      \o writeVector(t.child[1], FlattenSeq([i \in 1..Len(vals) |-> row(i)]), nested, nested) \o PutEnd

\* A string column: NULLs ride as empty strings.
putString(t, v) ==
  PutBytes(IF v = NULL THEN <<>> ELSE IF t.id = Type.Bit THEN bitBlob(v[2]) ELSE v[2])

writeFlat(t, vals, nested) ==
  LET nulls == \E i \in 1..Len(vals) : vals[i] = NULL
  IN  Field(100) \o PutBool(nulls) \o (IF nulls THEN FieldBytes(101, validityMask(vals)) ELSE <<>>)
      \o (CASE t.id \in {Type.Varchar, Type.Blob, Type.Bit, Type.Geometry} ->
                 Field(102) \o PutList(vals, LAMBDA v : putString(t, v))
            [] t.id \in {Type.Struct, Type.Union, Type.Variant} -> writeFields(t, vals, nested)
            [] t.id \in {Type.List, Type.Map} -> writeList(t, vals, nested)
            [] t.id = Type.Array -> writeArray(t, vals, nested)
            [] t.id = Type.SQLNull -> FieldBytes(102, [i \in 1..Len(vals) |-> 0])
            [] OTHER -> FieldBytes(102, Concat(vals, LAMBDA v : appendCell(t, v))))

\* The vector encodings of a server, as decodeVector expects them.
writeDictionary(t, vals, nested) ==
  LET dict == SetToSeq({vals[i] : i \in 1..Len(vals)})
      idx(v) == SelectInSeq(dict, LAMBDA d : d = v) - 1
  IN  FieldUvarint(90, Vec.Dictionary)
      \o FieldBytes(91, Concat(vals, LAMBDA v : <<idx(v), 0, 0, 0>>))
      \o FieldUvarint(92, Len(dict)) \o writeFlat(t, dict, nested)

isSequence(t, vals) ==
  /\ t.id \in SignedInts \cup UnsignedInts
  /\ Len(vals) > 1
  /\ \A i \in 1..Len(vals) : vals[i] # NULL
  /\ \A i \in 2..Len(vals) : vals[i][2] - vals[i - 1][2] = vals[2][2] - vals[1][2]

writeVector(t, vals, style, nested) ==
  CASE style = "constant" /\ Len(vals) > 0 /\ (\A i \in 1..Len(vals) : vals[i] = vals[1]) ->
         FieldUvarint(90, Vec.Constant) \o writeFlat(t, <<vals[1]>>, nested)
    [] style = "dictionary" -> writeDictionary(t, vals, nested)
    [] style = "sequence" /\ isSequence(t, vals) ->
         FieldUvarint(90, Vec.Sequence)
         \o Field(91) \o PutSvarint(vals[1][2]) \o Field(92) \o PutSvarint(vals[2][2] - vals[1][2])
    [] OTHER -> writeFlat(t, vals, nested)

----------------------------------------------------------------------------
(* Chunks and result messages *)

WriteChunk(cols, style, nested) ==
  FieldUvarint(100, IF cols = <<>> THEN 0 ELSE Len(cols[1].vals)) \o Field(101) \o PutList(cols, LAMBDA c : WriteType(c.type))
  \o Field(102) \o PutList(cols, LAMBDA c : writeVector(c.type, c.vals, style, nested) \o PutEnd) \o PutEnd

writeChunkList(chunks, style, nested) ==
  PutList(chunks, LAMBDA c : PutBool(TRUE) \o Field(300)
                             \o WriteChunk(c, style, nested) \o PutEnd)

EncodePrepareBody(cols, inline, more, uuid, style, nested) ==
  (IF cols = <<>> THEN <<>> ELSE
     Field(1) \o PutList(cols, LAMBDA c : WriteType(c.type))
     \o Field(2) \o PutList(cols, LAMBDA c : PutBytes(c.name)))
  \o (IF more THEN Field(3) \o PutBool(TRUE) ELSE <<>>)
  \o (IF inline = <<>> THEN <<>> ELSE Field(4) \o writeChunkList(inline, style, nested))
  \o Field(5) \o PutHugeint(uuid) \o PutEnd

EncodeFetchBody(chunks, batch, style, nested) ==
  (IF chunks = <<>> THEN <<>> ELSE Field(1) \o writeChunkList(chunks, style, nested))
  \o FieldUvarint(2, batch) \o PutEnd
=============================================================================
