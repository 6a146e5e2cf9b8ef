-------------------------------- MODULE Codec --------------------------------
(***************************************************************************)
(* codec: the decoders of result payloads.  Every decoder takes a reader   *)
(* and returns the reader it leaves, a value, and an error: "" for none,   *)
(* "unsupported" for a column whose bytes were parsed but whose values     *)
(* this codec does not produce, "error" for anything that ends the         *)
(* decoding of the whole payload, "panic" for an index out of range.       *)
(***************************************************************************)
EXTENDS Qser, Cells

CONSTANTS MaxChunkRows,    \* rows of a chunk and entries of a dictionary
          MaxVectorRows,   \* rows of any vector, children included
          MaxTypeDepth     \* nesting of types and of vectors

ASSUME LimitsAssumption ==
  /\ MaxChunkRows \in Nat /\ MaxVectorRows \in Nat /\ MaxTypeDepth \in Nat

Err(r) == [r |-> r, v |-> <<>>, e |-> "error"]

\* Mutant: the sticky error is not looked at.
DoneUnchecked(r, v) == [r |-> r, v |-> v, e |-> ""]

Done(r, v) == IF r.err = "" THEN [r |-> r, v |-> v, e |-> ""] ELSE Err(r)

unsupportedButParsed(r) ==
  IF r.err = "" THEN [r |-> r, v |-> <<>>, e |-> "unsupported"] ELSE Err(r)

Failed(d) == d.e \in {"error", "panic"}
Panic(r)  == [r |-> r, v |-> <<>>, e |-> "panic"]

\* A result without its error, and one whose object ends here.
Checked(d) == IF d.e # "" THEN d ELSE Done(d.r, d.v)
Closed(d)  == IF d.e # "" THEN d ELSE Done(End(d.r), d.v)

\* Several reads in a row, collected: of fields and of list elements.
Start(r) == [r |-> r, v |-> <<>>, e |-> ""]
Push(acc, read) == [acc EXCEPT !.r = read.r, !.v = Append(@, read.v)]
Must(acc, id, Read(_)) == Push(acc, Read(Required(acc.r, id)))
May(acc, id, Read(_), default) == Push(acc, Optional(acc.r, id, Read, default))

\* The result of an element's own decoder, and that of an object.
PushChecked(acc, d) == IF d.e # "" THEN d ELSE Push(acc, d)
PushClosed(acc, d)  == IF d.e # "" THEN d ELSE Push(acc, [d EXCEPT !.r = End(@)])

\* A loop over the elements of a list, n being its count; an error leaves it.
Repeat(n, Step(_, _)) ==
  FoldLeft(LAMBDA acc, i : IF Failed(acc) THEN acc ELSE Step(acc, i), Start(n.r), [i \in 1..n.v |-> i])

----------------------------------------------------------------------------
(* Types *)

Info == [Generic |-> 1, Decimal |-> 2, String |-> 3, List |-> 4, Struct |-> 5,
         Enum |-> 6, Array |-> 9]

RECURSIVE decodeType(_, _)

\* A type as the child of a list or an array, or as a field of a struct.
withChild(t, c) == IF c.e # "" THEN c ELSE [c EXCEPT !.v = [t EXCEPT !.child = <<c.v>>]]
withName(name, c) == IF c.e # "" THEN c ELSE [c EXCEPT !.v = [name |-> name, type |-> c.v]]

decodeChildType(r, t, depth) == withChild(t, decodeType(Required(r, 200), depth + 1))

decodeStructField(r, depth) ==
  LET name == Optional(r, 0, Bytes, <<>>)
  IN  withName(name.v, decodeType(Required(name.r, 1), depth + 1))

withSize(c) ==
  LET s == Optional(c.r, 201, Uvarint, 0)
  IN  IF c.e # "" THEN c ELSE [c EXCEPT !.r = s.r, !.v.size = s.v]

\* The parameters that follow the kind, alias and extension of a type info.
decodeInfoKind(r, kind, t, depth) ==
  CASE kind = Info.Generic -> [r |-> r, v |-> t, e |-> ""]
    [] kind = Info.Decimal ->
         LET f == May(May(Start(r), 200, Uvarint, 0), 201, Uvarint, 0)
         IN  [f EXCEPT !.v = [t EXCEPT !.width = f.v[1] % 256, !.scale = f.v[2] % 256]]
    [] kind = Info.String -> [r |-> Optional(r, 200, Bytes, <<>>).r, v |-> t, e |-> ""]
    [] kind = Info.List -> decodeChildType(r, t, depth)
    [] kind = Info.Struct ->
         LET fs == Repeat(Optional(r, 200, ListCount, 0),
                          LAMBDA acc, i : PushClosed(acc, decodeStructField(acc.r, depth)))
         IN  [fs EXCEPT !.v = [t EXCEPT !.fields = fs.v]]
    [] kind = Info.Enum ->
         LET n  == Uvarint(Required(r, 200))
             vs == Repeat(Optional(n.r, 201, ListCount, 0), LAMBDA acc, i : Push(acc, Bytes(acc.r)))
         IN  IF Len(vs.v) # n.v THEN Err(vs.r)
             ELSE [r |-> vs.r, v |-> [t EXCEPT !.enum = vs.v], e |-> ""]
    [] kind = Info.Array -> withSize(decodeChildType(r, t, depth))
    [] OTHER -> Err(r)

decodeTypeInfo(r, t, depth) ==
  LET f == May(May(Must(Start(r), 100, Uvarint), 101, Bytes, <<>>), 103, Bool, FALSE)
  IN  IF f.v[3] THEN Err(f.r)
      ELSE Closed(decodeInfoKind(f.r, f.v[1], t, depth))

decodeType(r, depth) ==
  LET f == May(Must(Start(r), 100, Uvarint), 101, Bool, FALSE)
  IN  IF depth > MaxTypeDepth THEN Err(r)
      ELSE Closed(IF f.v[2] THEN decodeTypeInfo(f.r, T(f.v[1]), depth) ELSE [f EXCEPT !.v = T(@[1])])

----------------------------------------------------------------------------
(* Vectors *)

Vec == [Flat |-> 0, FSST |-> 1, Constant |-> 2, Dictionary |-> 3, Sequence |-> 4]

RECURSIVE decodeVector(_, _, _, _)

\* A row is valid if there is no mask or its bit in the mask is set.
valid(mask, row) == IF mask = <<>> THEN TRUE
                    ELSE (mask[((row - 1) \div 8) + 1] \div 2^((row - 1) % 8)) % 2 = 1

\* One value per row, NULL where the row is not valid.
Rows(mask, count, Value(_)) == [i \in 1..count |-> IF valid(mask, i) THEN Value(i) ELSE NULL]

\* The fields every flat vector starts with: the geometry tag, which makes
\* its values unsupported, and the validity mask.
decodeFlatHeader(r, count) ==
  LET geo   == Optional(r, 99, Uvarint, 0)
      nulls == Bool(Required(geo.r, 100))
      mask  == Bytes(Required(nulls.r, 101))
      h     == [r |-> nulls.r, mask |-> <<>>, unsupported |-> Has(r, 99), e |-> ""]
  IN  IF ~nulls.v THEN h
      ELSE IF 8 * Len(mask.v) < count THEN Err(mask.r)
      ELSE [h EXCEPT !.r = mask.r, !.mask = mask.v]

\* VARCHAR, BLOB, BIT, GEOMETRY: a list of strings, one per row.
pushString(acc, t, b) ==
  IF t.id # Type.Bit THEN Push(acc, [b EXCEPT !.v = <<IF t.id = Type.Varchar THEN "string" ELSE "bytes", @>>])
  ELSE IF bitStringOk(b.v) THEN Push(acc, [b EXCEPT !.v = <<"string", bitString(@)>>])
  ELSE Err(b.r)

decodeStrings(h, t, count) ==
  LET skip == h.unsupported \/ t.id = Type.Geometry
      n    == ListCount(Required(h.r, 102))
      cells == Repeat(n, LAMBDA acc, i :
                 IF skip \/ ~valid(h.mask, i) THEN Push(acc, [Bytes(acc.r) EXCEPT !.v = NULL])
                                              ELSE pushString(acc, t, Bytes(acc.r)))
  IN  IF n.v # count THEN Err(n.r)
      ELSE IF skip THEN unsupportedButParsed(cells.r)
      ELSE Checked(cells)

\* STRUCT, UNION, VARIANT: one child vector per field.  All of them are
\* parsed; only a STRUCT whose children are all supported has values.
pushChild(acc, c) ==
  IF Failed(c) THEN c
  ELSE [r |-> End(c.r), v |-> Append(acc.v, c.v), e |-> IF c.e = "" THEN acc.e ELSE c.e]

structRows(h, t, count, cs) ==
  LET n == Len(t.fields)
      Row(i) == <<"Struct", [j \in 1..n |-> [name |-> t.fields[j].name, value |-> cs.v[j][i]]]>>
  IN  IF Failed(cs) THEN cs
      ELSE IF h.unsupported \/ cs.e = "unsupported" \/ t.id # Type.Struct
           THEN unsupportedButParsed(cs.r)
      ELSE IF \E j \in 1..n, i \in 1..count : valid(h.mask, i) /\ i > Len(cs.v[j]) THEN Panic(cs.r)
      ELSE Done(cs.r, Rows(h.mask, count, Row))

decodeFields(h, t, count, depth) ==
  LET n == ListCount(Required(h.r, 103))
  IN  IF n.v # Len(t.fields) THEN Err(n.r)
      ELSE structRows(h, t, count, Repeat(n, LAMBDA acc, i :
             pushChild(acc, decodeVector(acc.r, t.fields[i].type, count, depth + 1))))

\* What a LIST, MAP or ARRAY makes of its child c once that is parsed.  A
\* valid row i that is Outside is refused; it needs Reach(i) child rows.
afterChild(h, c, count, Outside(_), Reach(_), Row(_)) ==
  LET r    == End(c.r)
      rows == {i \in 1..count : valid(h.mask, i)}
  IN  IF Failed(c) THEN c
      ELSE IF h.unsupported \/ c.e = "unsupported" THEN unsupportedButParsed(r)
      ELSE IF \E i \in rows : ~Outside(i) /\ Reach(i) > Len(c.v) THEN Panic(r)
      ELSE IF \E i \in rows : Outside(i) THEN Err(r)
      ELSE Done(r, Rows(h.mask, count, Row))

\* The elements of a LIST row; those of a MAP are its key/value structs.
listRow(t, elems) ==
  IF t.id = Type.List THEN <<"list", elems>>
  ELSE <<"map", [j \in 1..Len(elems) |->
           IF elems[j][1] = "Struct" /\ Len(elems[j][2]) = 2
           THEN <<elems[j][2][1].value, elems[j][2][2].value>> ELSE <<NULL, NULL>>]>>

\* Mutant: the end of the window is computed first.
outsideChildWraps(off, ln, size) == (off + ln) % Word > size

\* A window [off, off + ln) that leaves a child of so many rows, in unsigned
\* arithmetic: off + ln itself may wrap around.
outsideChild(off, ln, size) == ln > size \/ off > size - ln

\* LIST, MAP: the size of the child vector, an [offset, length) window into
\* it per row, and the child.  The windows of valid rows must fit.
listEntry(acc) ==
  LET f == May(May(Start(acc.r), 100, Uvarint, 0), 101, Uvarint, 0)
  IN  Push(acc, [r |-> End(f.r), v |-> [off |-> f.v[1], ln |-> f.v[2]]])

listRows(h, t, count, size, entries, c) ==
  LET off(i) == entries[i].off
      ln(i)  == entries[i].ln
  IN  afterChild(h, c, count, LAMBDA i : outsideChild(off(i), ln(i), size), LAMBDA i : off(i) + ln(i),
                 LAMBDA i : listRow(t, SubSeq(c.v, off(i) + 1, off(i) + ln(i))))

listChild(h, t, count, depth, size, entries) ==
  LET r == Required(entries.r, 106)
  IN  IF t.child = <<>> THEN Err(r)
      ELSE listRows(h, t, count, size, entries.v, decodeVector(r, t.child[1], size, depth + 1))

decodeList(h, t, count, depth) ==
  LET size == Uvarint(Required(h.r, 104))
      n    == ListCount(Required(size.r, 105))
  IN  IF size.v > MaxVectorRows THEN Err(size.r)
      ELSE IF n.v # count THEN Err(n.r)
      ELSE listChild(h, t, count, depth, size.v, Repeat(n, LAMBDA acc, i : listEntry(acc)))

\* ARRAY: as many child rows as rows times the size the vector states.
arrayRows(h, count, size, c) ==
  LET Before(i) == (i - 1) * size
      Elem(k)   == IF k <= Len(c.v) THEN c.v[k] ELSE NULL
  IN  afterChild(h, c, count, LAMBDA i : FALSE, Before,
                 LAMBDA i : <<"list", [j \in 1..size |-> Elem(Before(i) + j)]>>)

decodeArray(h, t, count, depth) ==
  LET size == Uvarint(Required(h.r, 103))
      r    == Required(size.r, 104)
  IN  IF size.v > MaxVectorRows \/ size.v * count > MaxVectorRows
      THEN Err(size.r)
      ELSE IF t.child = <<>> THEN Err(r)
      ELSE arrayRows(h, count, size.v, decodeVector(r, t.child[1], size.v * count, depth + 1))

\* Mutant: the field's id is consumed and its blob is not.
skipBlobId(r) == TryField(r, 102)

\* The cells of a type without a known width, if there are any.
skipBlob(r) == Optional(r, 102, Bytes, <<>>).r

\* Everything else: one blob of cells.
decodeScalars(h, t, count) ==
  LET w    == physicalWidth(t)
      data == Bytes(Required(h.r, 102))
      CellAt(i) == SubSeq(data.v, (i - 1) * w + 1, i * w)
      Row(i) == decodeCell(t, CellAt(i))
  IN  IF w = 0 THEN unsupportedButParsed(skipBlob(h.r))
      ELSE IF Len(data.v) < count * w THEN Err(data.r)
      ELSE IF h.unsupported \/ ~supportedScalar(t) THEN unsupportedButParsed(data.r)
      ELSE IF \E i \in 1..count : valid(h.mask, i) /\ ~CellOk(t, CellAt(i)) THEN Err(data.r)
      ELSE Done(data.r, Rows(h.mask, count, Row))

flatRows(h, t, count, depth) ==
  CASE h.e # "" -> h
    [] h.e = "" /\ t.id \in {Type.Varchar, Type.Blob, Type.Bit, Type.Geometry} -> decodeStrings(h, t, count)
    [] h.e = "" /\ t.id \in {Type.Struct, Type.Union, Type.Variant} -> decodeFields(h, t, count, depth)
    [] h.e = "" /\ t.id \in {Type.List, Type.Map} -> decodeList(h, t, count, depth)
    [] h.e = "" /\ t.id = Type.Array -> decodeArray(h, t, count, depth)
    [] OTHER -> decodeScalars(h, t, count)

decodeFlatVector(r, t, count, depth) == flatRows(decodeFlatHeader(r, count), t, count, depth)

\* A constant vector is one row that stands for all.
decodeConstant(r, t, count, depth) ==
  LET c == decodeVector(r, t, 1, depth + 1)
  IN  IF c.e # "" \/ c.v = <<>> THEN c ELSE [c EXCEPT !.v = [i \in 1..count |-> c.v[1]]]

\* A dictionary vector selects its rows, by indexes of 4 bytes, from another.
selected(sel, count, dict) ==
  LET At(i) == sel[4 * i - 3] + 256 * sel[4 * i - 2]
  IN  IF dict.e # "" THEN dict
      ELSE IF \E i \in 1..count : At(i) >= Len(dict.v) THEN Err(dict.r)
      ELSE [dict EXCEPT !.v = [i \in 1..count |-> dict.v[At(i) + 1]]]

decodeDictionary(r, t, count, depth) ==
  LET f == Must(Must(Start(r), 91, Bytes), 92, Uvarint)
  IN  IF Len(f.v[1]) # 4 * count \/ f.v[2] > MaxChunkRows THEN Err(f.r)
      ELSE selected(f.v[1], count, decodeVector(f.r, t, f.v[2], depth + 1))

\* A sequence vector is a start and an increment.  Read errors are left to
\* whoever consumes the end of the vector.
decodeSequence(r, t, count) ==
  LET f == Must(Must(Start(r), 91, Svarint), 92, Svarint)
  IN  IF f.r.err = "missing" THEN Err(f.r)
      ELSE IF count > 0 /\ t.id \notin SignedInts \cup UnsignedInts THEN Err(f.r)
      ELSE [f EXCEPT !.v = [i \in 1..count |-> sequenceValue(t.id, f.v[1], f.v[2], i - 1)]]

decodeVector(r, t, count, depth) ==
  LET vtype == Optional(r, 90, Uvarint, Vec.Flat)
  IN  IF depth > MaxTypeDepth \/ count > MaxVectorRows THEN Err(r)
      ELSE CASE vtype.v = Vec.Flat       -> decodeFlatVector(vtype.r, t, count, depth)
             [] vtype.v = Vec.Constant   -> decodeConstant(vtype.r, t, count, depth)
             [] vtype.v = Vec.Dictionary -> decodeDictionary(vtype.r, t, count, depth)
             [] vtype.v = Vec.Sequence   -> decodeSequence(vtype.r, t, count)
             [] OTHER                    -> Err(vtype.r)

----------------------------------------------------------------------------
(* Chunks and result messages *)

decodeTypes(n) == Repeat(n, LAMBDA acc, i : PushChecked(acc, decodeType(acc.r, 0)))

\* Columns are decoded one after the other; an unsupported one keeps its
\* error and the others their values.
pushColumn(acc, t, c) ==
  LET end == End(c.r)
  IN  IF Failed(c) THEN c
      ELSE IF end.err # "" THEN Err(end)
      ELSE Push(acc, [r |-> end, v |-> [type |-> t, vals |-> c.v, err |-> c.e]])

decodeColumns(rows, types) ==
  LET n == ListCount(Required(types.r, 102))
  IN  IF types.e # "" THEN types
      ELSE IF n.v # Len(types.v) THEN Err(n.r)
      ELSE Repeat(n, LAMBDA acc, i : pushColumn(acc, types.v[i], decodeVector(acc.r, types.v[i], rows, 0)))

decodeChunkContents(r) ==
  LET rows  == Uvarint(Required(r, 100))
      Chunk(cols) == IF cols.e # "" THEN cols ELSE [cols EXCEPT !.v = [rows |-> rows.v, cols |-> @]]
  IN  IF rows.v > MaxChunkRows THEN Err(rows.r)
      ELSE Closed(Chunk(decodeColumns(rows.v, decodeTypes(ListCount(Required(rows.r, 101))))))

\* Null chunk pointers are passed over.
decodeChunkList(r) ==
  Checked(Repeat(ListCount(r), LAMBDA acc, i :
    LET present == Bool(acc.r)
    IN  IF ~present.v THEN [acc EXCEPT !.r = present.r]
        ELSE PushClosed(acc, decodeChunkContents(Required(present.r, 300)))))

\* An optional chunk list.
chunksField(r, id) ==
  IF Has(r, id) THEN decodeChunkList(TryField(r, id)) ELSE Start(TryField(r, id))

\* Types and names are one list each.
decodeSchema(types) ==
  LET names == Repeat(Optional(types.r, 2, ListCount, 0), LAMBDA acc, i : Push(acc, Bytes(acc.r)))
  IN  IF types.e # "" THEN types
      ELSE IF Len(names.v) # Len(types.v) THEN Err(names.r)
      ELSE [names EXCEPT !.v = [i \in 1..Len(types.v) |-> [name |-> names.v[i], type |-> types.v[i]]]]

prepared(schema, more, chunks) ==
  LET uuid == Hugeint(Required(chunks.r, 5))
  IN  IF chunks.e # "" THEN chunks
      ELSE Done(End(uuid.r), [schema |-> schema, more |-> more, chunks |-> chunks.v, uuid |-> uuid.v])

decodeResult(schema) ==
  LET more == Optional(schema.r, 3, Bool, FALSE)
  IN  IF schema.e # "" THEN schema ELSE prepared(schema.v, more.v, chunksField(more.r, 4))

DecodePrepare(body) ==
  decodeResult(decodeSchema(decodeTypes(Optional(NewReader(body), 1, ListCount, 0))))

fetched(chunks) ==
  LET idx == Optional(chunks.r, 2, Uvarint, OptionalIdxAbsent)
  IN  IF chunks.e # "" THEN chunks
      ELSE Done(End(idx.r), [chunks |-> chunks.v, batch |-> idx.v])

DecodeFetch(body) == fetched(chunksField(NewReader(body), 1))
=============================================================================
