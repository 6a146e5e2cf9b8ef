------------------------------ MODULE Messages ------------------------------
(***************************************************************************)
(* wire/messages.go: the envelope of every message - a header document and *)
(* an opaque body document - and the bodies other than results.  A body is *)
(* an object whose fields come in the order of its layout; a message maps  *)
(* field ids to values.                                                    *)
(***************************************************************************)
EXTENDS Qser, SequencesExt

Msg == [ConnectionRequest |-> 1, ConnectionResponse |-> 2, PrepareRequest |-> 3,
        PrepareResponse |-> 4, FetchRequest |-> 7, FetchResponse |-> 8, Disconnect |-> 11, Error |-> 100]

\* Strings are left out when empty, numbers are always written; both may be
\* absent on the wire and then have their default.
Str(id)        == [id |-> id, kind |-> "string",  default |-> <<>>]
Uint(id)       == [id |-> id, kind |-> "uint",    default |-> 0]
Huge(id)       == [id |-> id, kind |-> "hugeint", default |-> [upper |-> 0, lower |-> 0]]

ConnectionRequest  == <<Str(1), Str(2), Str(3), Uint(4), Uint(5)>>
ConnectionResponse == <<Str(1), Str(2), Uint(3)>>
PrepareRequest     == <<Str(1)>>
FetchRequest       == <<Huge(1)>>
EmptyBody          == <<>>
ErrorMessage       == <<Str(1)>>
Header             == <<Uint(1), Str(2), [Uint(3) EXCEPT !.default = OptionalIdxAbsent]>>

EncodeField(f, v) ==
  CASE f.kind = "string"  -> NonEmptyField(f.id, v)
    [] f.kind = "uint"    -> FieldUvarint(f.id, v)
    [] f.kind = "hugeint" -> Field(f.id) \o PutHugeint(v)

Encode(layout, m) ==
  FlattenSeq([i \in 1..Len(layout) |-> EncodeField(layout[i], m[layout[i].id])]) \o PutEnd

DecodeField(r, f) ==
  CASE f.kind = "string"  -> Optional(r, f.id, Bytes, f.default)
    [] f.kind = "uint"    -> Optional(r, f.id, Uvarint, f.default)
    [] f.kind = "hugeint" -> Optional(r, f.id, Hugeint, f.default)

\* The fields so far, and a field that was read after them.
With(acc, f, x) ==
  [r |-> x.r, v |-> [id \in DOMAIN acc.v \cup {f.id} |-> IF id = f.id THEN x.v ELSE acc.v[id]]]

Ended(r, v) == [r |-> r, v |-> v, e |-> IF r.err = NoError THEN NoError ELSE "error"]

\* The fields in order, the terminator, and the error the reader kept.
Decode(layout, buf) ==
  LET read[i \in 0..Len(layout)] ==
        IF i = 0 THEN [r |-> NewReader(buf), v |-> <<>>]
        ELSE With(read[i - 1], layout[i], DecodeField(read[i - 1].r, layout[i]))
      d == read[Len(layout)]
  IN  Ended(End(d.r), d.v)

EncodeEnvelope(h, body) == Encode(Header, h) \o body

\* The type is required and narrowed to a byte; the rest is the body.
SplitEnvelope(buf) ==
  LET typed == Has(NewReader(buf), 1)
  IN  [Decode(Header, buf) EXCEPT !.v[1] = @ % 256, !.e = IF typed THEN @ ELSE "error"]
=============================================================================
