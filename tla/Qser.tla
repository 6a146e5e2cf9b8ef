-------------------------------- MODULE Qser --------------------------------
(***************************************************************************)
(* internal/qser: the serialization every Quack message rides in.  A       *)
(* document is a sequence of tokens - field ids, varints, raw bytes and    *)
(* length-prefixed blobs - and carries no wire types, so a reader must     *)
(* know what comes next.  The reader's error is sticky: after a failure    *)
(* every read returns a zero value and consumes nothing.                   *)
(*                                                                         *)
(* A read of one kind of token where another one stands would interpret    *)
(* bytes as what they are not.  It is recorded as the error "desync".      *)
(***************************************************************************)
EXTENDS Varint

EndID == 65535

OptionalIdxAbsent == MaxUint

----------------------------------------------------------------------------
(* Writer *)

Field(id)        == <<[k |-> "id",   v |-> id]>>
PutEnd           == Field(EndID)
PutUvarint(n)    == <<[k |-> "varint", v |-> AppendUvarint(n)]>>
PutSvarint(n)    == <<[k |-> "varint", v |-> AppendSvarint(n)]>>
PutBool(b)       == <<[k |-> "byte", v |-> b]>>
PutBytes(s)      == <<[k |-> "blob", v |-> s]>>
PutHugeint(h)    == PutSvarint(h.upper) \o PutUvarint(h.lower)

FieldUvarint(id, n) == Field(id) \o PutUvarint(n)
FieldBytes(id, s)   == Field(id) \o PutBytes(s)

\* A field that is left out when it holds its default value.
NonEmptyField(id, s) == IF s = <<>> THEN <<>> ELSE FieldBytes(id, s)
NonZeroField(id, n)  == IF n = 0 THEN <<>> ELSE FieldUvarint(id, n)

----------------------------------------------------------------------------
(* Reader *)

NewReader(buf) == [in |-> buf, err |-> NoError]

Fail(r, e) == IF r.err = NoError THEN [r EXCEPT !.err = e] ELSE r

Advance(r) == [r EXCEPT !.in = Tail(@)]

\* The reader after a look at the next token, which has to be of this kind.
Peek(r, kind) ==
  CASE r.in = <<>>                             -> Fail(r, "truncated")
    [] r.in # <<>> /\ Head(r.in).k # kind      -> Fail(r, "desync")
    [] OTHER                                   -> r

\* What TryField answers and leaves, p being the reader after its look: a
\* failed look is remembered.
Seen(p, id) == p.err = NoError /\ Head(p.in).v = id
Pass(p, id) == IF Seen(p, id) THEN Advance(p) ELSE p

Has(r, id)      == Seen(Peek(r, "id"), id)
TryField(r, id) == Pass(Peek(r, "id"), id)

End(r) == LET p == TryField(r, EndID)
          IN  IF Has(r, EndID) THEN p ELSE Fail(p, "framing")

\* A read: the value, or zero after an error, and the reader it leaves.
Take(r, kind, zero) ==
  LET p == Peek(r, kind)
  IN  IF p.err # NoError THEN [r |-> p, v |-> zero]
                    ELSE [r |-> Advance(p), v |-> Head(p.in).v]

\* The number n in a varint token t, which may be too long or cut off.
Number(t, n) ==
  IF t.r.err # NoError THEN [r |-> t.r, v |-> 0] ELSE [r |-> Fail(t.r, n.err), v |-> n.v]

Uvarint(r) == LET t == Take(r, "varint", <<>>) IN Number(t, ReadUvarint(t.v))
Svarint(r) == LET t == Take(r, "varint", <<>>) IN Number(t, ReadSvarint(t.v))
Bool(r)    == Take(r, "byte", FALSE)
Bytes(r)   == Take(r, "blob", <<>>)

\* A count that cannot fit into what is left is refused at once.
Fitting(n) == IF n.v > Len(n.r.in) THEN [r |-> Fail(n.r, "truncated"), v |-> 0] ELSE n
ListCount(r) == Fitting(Uvarint(r))

Hugeint(r) ==
  LET u == Svarint(r)
      l == Uvarint(u.r)
  IN  [r |-> l.r, v |-> [upper |-> u.v, lower |-> l.v]]

\* A field whose absence ends the decoding: what follows reads nothing.
Required(r, id) == IF Has(r, id) THEN TryField(r, id) ELSE Fail(TryField(r, id), "missing")

\* An optional field with its default.
Optional(r, id, Read(_), default) ==
  IF Has(r, id) THEN Read(TryField(r, id)) ELSE [r |-> TryField(r, id), v |-> default]
=============================================================================
