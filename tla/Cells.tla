-------------------------------- MODULE Cells --------------------------------
(***************************************************************************)
(* codec: logical types and the storage of single values.  A decoded value *)
(* is a tuple <<Go type, content>>; NULL is Go's nil.  A cell is the       *)
(* little-endian sequence of its bytes.  The bytes of cells have CellBits  *)
(* bits instead of 8, which keeps every width, half and limit of the code  *)
(* in proportion: an 8-byte integer has 8 * CellBits bits.                 *)
(***************************************************************************)
EXTENDS Integers, Sequences, SequencesExt

CONSTANT CellBits
ASSUME CellBitsAssumption == CellBits \in Nat \ {0}

Byte == 2^CellBits
NULL == <<"nil">>

\* LogicalTypeId, the numbers of the wire.
Type == [
  SQLNull |-> 1, Boolean |-> 10, Tinyint |-> 11, Smallint |-> 12,
  Integer |-> 13, Bigint |-> 14, Date |-> 15, Time |-> 16, TimestampSec |-> 17,
  TimestampMS |-> 18, Timestamp |-> 19, TimestampNS |-> 20, Decimal |-> 21,
  Float |-> 22, Double |-> 23, Varchar |-> 25, Blob |-> 26, Interval |-> 27,
  UTinyint |-> 28, USmallint |-> 29, UInteger |-> 30, UBigint |-> 31,
  TimestampTZ |-> 32, TimeTZ |-> 34, TimeNS |-> 35, Bit |-> 36,
  UHugeint |-> 49, Hugeint |-> 50, UUID |-> 54, Geometry |-> 60,
  Struct |-> 100, List |-> 101, Map |-> 102, Enum |-> 104, Union |-> 107,
  Array |-> 108, Variant |-> 109]

\* LogicalType; child is the empty sequence for a nil pointer.
T(id) == [id |-> id, width |-> 0, scale |-> 0, child |-> <<>>, fields |-> <<>>,
          enum |-> <<>>, size |-> 0]

Timestamps == {Type.TimestampSec, Type.TimestampMS, Type.Timestamp, Type.TimestampNS,
               Type.TimestampTZ}

----------------------------------------------------------------------------
(* Widths *)

\* Mutant: the dictionary size at which the index grows is one too high.
enumIndexWidthLate(dictSize) ==
  IF dictSize <= Byte THEN 1 ELSE IF dictSize <= Byte^2 THEN 2 ELSE 4

enumIndexWidth(dictSize) ==
  IF dictSize <= Byte - 1 THEN 1 ELSE IF dictSize <= Byte^2 - 1 THEN 2 ELSE 4

decimalWidth(width) ==
  IF width <= 4 THEN 2 ELSE IF width <= 9 THEN 4 ELSE IF width <= 18 THEN 8 ELSE 16

\* The storage size of a constant-size type, 0 for every other one.
physicalWidth(t) ==
  CASE t.id \in {Type.Boolean, Type.Tinyint, Type.UTinyint}                  -> 1
    [] t.id \in {Type.Smallint, Type.USmallint}                             -> 2
    [] t.id \in {Type.Integer, Type.UInteger, Type.Float, Type.Date}          -> 4
    [] t.id \in {Type.Bigint, Type.UBigint, Type.Double, Type.Time, Type.TimeTZ, Type.TimeNS}
                \cup Timestamps                                           -> 8
    [] t.id \in {Type.Interval, Type.Hugeint, Type.UHugeint, Type.UUID}       -> 16
    [] t.id = Type.Decimal                                                 -> decimalWidth(t.width)
    [] t.id = Type.Enum                                                    -> enumIndexWidth(Len(t.enum))
    [] OTHER                                                              -> 0

\* Types decodeCell produces values for.
supportedScalar(t) == physicalWidth(t) # 0

----------------------------------------------------------------------------
(* Values *)

Le(c) == MapThenSumSet(LAMBDA i : c[i] * Byte^(i - 1), 1..Len(c))

\* The conversion of u to a signed integer of n bytes.
ToSigned(u, n) == LET w == u % Byte^n IN IF 2 * w >= Byte^n THEN w - Byte^n ELSE w

LeSigned(c) == ToSigned(Le(c), Len(c))

int128Big(hi, lo) == hi * Byte^8 + lo

\* A decimal keeps its halves; narrow cells are widened by their sign.
decodeDecimalCell(t, c) ==
  LET v  == LeSigned(c)
      hi == IF Len(c) = 16 THEN LeSigned(SubSeq(c, 9, 16)) ELSE IF v < 0 THEN -1 ELSE 0
      lo == IF Len(c) = 16 THEN Le(SubSeq(c, 1, 8)) ELSE v % Byte^8
  IN  <<"Decimal", t.width, t.scale, int128Big(hi, lo)>>

\* Instants are counted in the smallest unit.  A second has 8, a millisecond
\* 4 and a microsecond 2 of them, and a day 16.
unit(id) == CASE id = Type.TimestampSec -> 8 [] id = Type.TimestampMS -> 4
              [] id = Type.TimestampNS -> 1 [] id = Type.Date -> 16 [] OTHER -> 2

timeTZMaxOffset == Byte^3 \div 2 - 1

FlipTop(b) == (b + Byte \div 2) % Byte

uuidBytes(c) ==
  LET u == Reverse(SubSeq(c, 9, 16)) \o Reverse(SubSeq(c, 1, 8))
  IN  [u EXCEPT ![1] = FlipTop(@)]

intType(id) == CASE id = Type.Tinyint -> "int8"     [] id = Type.UTinyint -> "uint8"
                 [] id = Type.Smallint -> "int16"   [] id = Type.USmallint -> "uint16"
                 [] id = Type.Integer -> "int32"    [] id = Type.UInteger -> "uint32"
                 [] id = Type.Bigint -> "int64"     [] id = Type.UBigint -> "uint64"

SignedInts   == {Type.Tinyint, Type.Smallint, Type.Integer, Type.Bigint}
UnsignedInts == {Type.UTinyint, Type.USmallint, Type.UInteger, Type.UBigint}

\* The value in a cell; an enum index outside its dictionary is an error.
CellOk(t, c) == t.id = Type.Enum => Le(c) < Len(t.enum)

decodeCell(t, c) ==
  CASE t.id = Type.Boolean              -> <<"bool", c[1] # 0>>
    [] t.id \in SignedInts             -> <<intType(t.id), LeSigned(c)>>
    [] t.id \in UnsignedInts           -> <<intType(t.id), Le(c)>>
    [] t.id \in {Type.Float, Type.Double} -> <<"float", Le(c)>>
    [] t.id \in {Type.Date} \cup Timestamps -> <<"time", LeSigned(c) * unit(t.id)>>
    [] t.id = Type.Time                 -> <<"Time", LeSigned(c)>>
    [] t.id = Type.TimeNS               -> <<"TimeNS", LeSigned(c)>>
    [] t.id = Type.Decimal              -> decodeDecimalCell(t, c)
    [] t.id = Type.Hugeint  -> <<"big", int128Big(LeSigned(SubSeq(c, 9, 16)), Le(SubSeq(c, 1, 8)))>>
    [] t.id = Type.UHugeint -> <<"big", int128Big(Le(SubSeq(c, 9, 16)), Le(SubSeq(c, 1, 8)))>>
    [] t.id = Type.UUID                 -> <<"UUID", uuidBytes(c)>>
    [] t.id = Type.Interval -> <<"Interval", LeSigned(SubSeq(c, 1, 4)), LeSigned(SubSeq(c, 5, 8)),
                                LeSigned(SubSeq(c, 9, 16))>>
    [] t.id = Type.TimeTZ   -> <<"TimeTZ", Le(c) \div Byte^3, timeTZMaxOffset - (Le(c) % Byte^3)>>
    [] t.id = Type.Enum                 -> <<"string", t.enum[Le(c) + 1]>>

\* One element of a sequence vector: int64 arithmetic, then the conversion
\* to the column's integer type.  No other type has sequences.
sequenceValue(id, start, inc, i) ==
  LET v == ToSigned(start + i * inc, 8)
      n == physicalWidth(T(id))
  IN  <<intType(id), IF id \in SignedInts THEN ToSigned(v, n) ELSE v % Byte^n>>

\* BIT storage: a count of padding bits, then bytes (of 8 bits) with the bits
\* most significant first.
bitStringOk(b) == b # <<>> /\ b[1] <= 7 /\ (Len(b) = 1 => b[1] = 0)

bitString(b) ==
  LET bits == [i \in 1..(8 * (Len(b) - 1)) |->
                 (b[2 + ((i - 1) \div 8)] \div 2^(7 - ((i - 1) % 8))) % 2]
  IN  SubSeq(bits, b[1] + 1, Len(bits))
=============================================================================
