------------------------------- MODULE Payload -------------------------------
(***************************************************************************)
(* A message on its way: one side encodes it, the network or a peer of     *)
(* another version may damage it, and the other side splits the envelope   *)
(* and decodes the body.                                                   *)
(***************************************************************************)
EXTENDS Codectest, Messages, DriverValues

CONSTANTS Cases,          \* the messages that are sent
          Fragile,        \* those of them that may be damaged on the way
          Garbage         \* the groups a corrupted number may consist of

VARIABLES sent,   \* the message
          wire,   \* its tokens, as they arrive
          fault,  \* what happened to them: none, cut, extended or corrupt
          got     \* what the receiver made of them

vars == <<sent, wire, fault, got>>

Nothing == [e |-> "undecoded"]

Layout(type) ==
  CASE type = Msg.ConnectionRequest  -> ConnectionRequest
    [] type = Msg.ConnectionResponse -> ConnectionResponse
    [] type = Msg.PrepareRequest     -> PrepareRequest
    [] type = Msg.FetchRequest       -> FetchRequest
    [] type = Msg.Error              -> ErrorMessage
    [] type = Msg.Disconnect         -> EmptyBody

\* The messages whose bodies are objects of the layouts above.
Spoken == {Msg.ConnectionRequest, Msg.ConnectionResponse, Msg.PrepareRequest, Msg.FetchRequest, Msg.Error}

EncodeBody(m) ==
  CASE m.header[1] = Msg.PrepareResponse ->
         EncodePrepareBody(m.cols, m.chunks, m.more, m.uuid, m.style, m.nested)
    [] m.header[1] = Msg.FetchResponse -> EncodeFetchBody(m.chunks, m.batch, m.style, m.nested)
    [] OTHER -> Encode(Layout(m.header[1]), m.body)

Encoded(m) == EncodeEnvelope(m.header, EncodeBody(m))

\* The body by its type.  That of a message that says nothing is left unread.
DecodeBody(type, r) ==
  CASE type = Msg.PrepareResponse -> DecodePrepare(r.in)
    [] type = Msg.FetchResponse   -> DecodeFetch(r.in)
    [] type \in Spoken            -> Decode(Layout(type), r.in)
    [] OTHER                      -> Start(r)

Understood(header, body) == [e |-> body.e, header |-> header, body |-> body.v, err |-> body.r.err]

Opened(split) ==
  IF split.e # "" THEN [e |-> split.e, header |-> <<>>, body |-> <<>>, err |-> split.r.err]
  ELSE Understood(split.v, DecodeBody(split.v[1], split.r))

\* Client.roundTrip and Server.ServeHTTP: the envelope, then the body.
Decoded(buf) == Opened(SplitEnvelope(buf))

----------------------------------------------------------------------------
Init ==
  /\ sent \in Cases
  /\ wire = Encoded(sent)
  /\ fault = "none"
  /\ got = Nothing

\* A message that is still on its way and may be damaged.
Whole == sent \in Fragile /\ fault = "none" /\ got = Nothing

Damage(f, w) ==
  /\ fault' = f /\ wire' = w
  /\ UNCHANGED <<sent, got>>

\* The message ends early, possibly inside a number.
Cut == Whole /\ \E n \in 0..(Len(wire) - 1) :
  \/ Damage("cut", SubSeq(wire, 1, n))
  \/ /\ wire[n + 1].k = "varint" /\ Len(wire[n + 1].v) > 1
     /\ Damage("cut", Append(SubSeq(wire, 1, n), [wire[n + 1] EXCEPT !.v = Front(@)]))

\* A newer peer writes a field this version does not know.
Extend == Whole /\ \E n \in 1..Len(wire) :
  /\ wire[n].k = "id"
  /\ Damage("extended", SubSeq(wire, 1, n - 1) \o FieldUvarint(999, 0) \o SubSeq(wire, n, Len(wire)))

\* A count, size, offset, index or type arrives as another number,
\* or as more bits than a number has.
Corrupt == Whole /\ \E n \in 1..Len(wire), g \in Garbage :
  /\ wire[n].k = "varint" /\ wire[n].v # g
  /\ Damage("corrupt", [wire EXCEPT ![n].v = g])

Receive ==
  /\ got = Nothing
  /\ got' = Decoded(wire)
  /\ UNCHANGED <<sent, wire, fault>>

Next == Cut \/ Extend \/ Corrupt \/ Receive

Spec == Init /\ [][Next]_vars

----------------------------------------------------------------------------
Received == got # Nothing

\* Types whose values the codec does not produce, and types made of them.
RECURSIVE Unsupported(_)
Unsupported(t) ==
  \/ t.id \in {Type.SQLNull, Type.Geometry, Type.Union, Type.Variant}
  \/ \E i \in 1..Len(t.child) : Unsupported(t.child[i])
  \/ \E i \in 1..Len(t.fields) : Unsupported(t.fields[i].type)

ColumnOf(c) == [type |-> c.type, vals |-> IF Unsupported(c.type) THEN <<>> ELSE c.vals,
                err |-> IF Unsupported(c.type) THEN "unsupported" ELSE ""]

ChunkOf(cols) == [rows |-> Len(cols[1].vals), cols |-> [i \in 1..Len(cols) |-> ColumnOf(cols[i])]]

ChunksOf(m) == [i \in 1..Len(m.chunks) |-> ChunkOf(m.chunks[i])]

BodyOf(m) ==
  CASE m.header[1] = Msg.PrepareResponse ->
         [schema |-> [i \in 1..Len(m.cols) |-> [name |-> m.cols[i].name, type |-> m.cols[i].type]],
          more |-> m.more, chunks |-> ChunksOf(m), uuid |-> m.uuid]
    [] m.header[1] = Msg.FetchResponse -> [chunks |-> ChunksOf(m), batch |-> m.batch]
    [] OTHER -> m.body

\* An undamaged message arrives as it was sent: header, schema, and in every
\* chunk the values of every column, however the server chose to encode its
\* vectors.  A column of an unsupported type reports that and nothing else,
\* and takes nothing away from the columns around it.
RoundTrip ==
  Received /\ fault = "none" => got = [e |-> "", header |-> sent.header, body |-> BodyOf(sent), err |-> ""]

\* A message that was cut short anywhere, or that contains a field this
\* version has no schema for, is refused as a whole: no read error is lost
\* between the many places that record one and the few that look.
FailsLoudly == Received /\ fault \in {"cut", "extended"} => got.e = "error"

\* No decoder reads bytes as something they were not written as, neither in
\* whole messages nor on the way to the error of a damaged one.
NeverMisreads == Received /\ fault # "corrupt" => got.err # "desync"

\* What has no exact text: bytes that are no UTF-8 inside a nested value, and
\* an offset from UTC with seconds but no minutes.
RECURSIVE Inexact(_, _)
Inexact(v, nested) ==
  CASE v[1] = "bytes"  -> nested /\ \E i \in 1..Len(v[2]) : v[2][i] >= 128
    [] v[1] = "TimeTZ" -> LET p == Parts(IF v[3] < 0 THEN -v[3] ELSE v[3]) IN p[2] = 0 /\ p[3] # 0
    [] v[1] = "list"   -> \E i \in 1..Len(v[2]) : Inexact(v[2][i], TRUE)
    [] v[1] = "Struct" -> \E i \in 1..Len(v[2]) : Inexact(v[2][i].value, TRUE)
    [] v[1] = "map"    -> \E i \in 1..Len(v[2]) : Inexact(v[2][i][1], TRUE) \/ Inexact(v[2][i][2], TRUE)
    [] OTHER           -> FALSE

\* From the driver.Value and the column's type the value can be recovered.
Crosses(t, v) == Recovered(t, toDriverValue(t, v)) = v

\* The values of a result that arrived whole, each with its type.
Arrived ==
  IF Received /\ fault = "none" /\ got.header[1] \in {Msg.PrepareResponse, Msg.FetchResponse}
  THEN UNION {UNION {{<<c.type, c.vals[k]>> : k \in 1..Len(c.vals)} : c \in Range(ch.cols)} :
                ch \in Range(got.body.chunks)}
  ELSE {}

\* Every value of a result that arrives whole reaches the application
\* through rows.Next and toDriverValue exactly, at the ends of every integer
\* range and inside nested values, but for the values without an exact text:
\* those, and no others, do not.
CrossesExactly == \A x \in Arrived : Crosses(x[1], x[2]) <=> ~Inexact(x[2], FALSE)

\* rows.go:84: "Lossless or bust: anything that cannot cross exactly goes as a
\* string": nothing is excepted.
LosslessOrBust == \A x \in Arrived : Crosses(x[1], x[2])

\* Whatever a count, size, offset, index or type is replaced by, no decoder
\* indexes out of range as long as it reads in step with what was written, and
\* every column that claims values has one for every row of its chunk, so
\* that Chunk.Value does not either.  A decoder that falls out of step is
\* followed no further than to the first token of another kind.
InRange ==
  Received => /\ got.e # "panic"
              /\ got.e = "" /\ got.header[1] \in {Msg.PrepareResponse, Msg.FetchResponse} =>
                   \A i \in 1..Len(got.body.chunks) :
                     LET ch == got.body.chunks[i]
                     IN  /\ ch.rows <= MaxChunkRows
                         /\ \A j \in 1..Len(ch.cols) :
                              ch.cols[j].err = "" => Len(ch.cols[j].vals) = ch.rows
=============================================================================
