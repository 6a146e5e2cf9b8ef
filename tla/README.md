# A TLA+ verification of duckcall

duckcall is a read-only Go client for DuckDB's Quack protocol, with a
`database/sql` driver on top and a pooling proxy (quackbouncer) beside it. This
directory models the parts of it that are hard to test, checks them with TLC on
small instances, and proves the most important results with TLAPS for every
value of the parameters. Line numbers refer to the files under `src/`.

## The system

| component | state | operations | interacts with |
|---|---|---|---|
| native API (`duckcall.go`) | per Result: the prepared schema and inline chunks, `stop`; per pass of `Chunks`: channels `out` and `done`, a wait group, a derived context, `FetchWorkers` goroutines | `Dial`, `Query`, `Chunks`, `Result.Close`, `Conn.Close` | calls wire and codec; the caller drives it through `range` |
| wire client (`wire/`) | connection id, query counter, `closed` flag | `Connect` (the only retried operation), `Prepare`, `Fetch`, `RoundTripRaw`, `Close` | one HTTP POST per operation |
| codec (`codec/`) | none | decode PREPARE and FETCH bodies into chunks of typed values | pure |
| serializer (`internal/qser`) | read position | variable-length integers, strings, fields | pure |
| driver (`driver/`) | per conn a duckcall.Conn; per rows the current chunk and row | `QueryContext`, `rows.Next`, `rows.Close`, `conn.Close`, `interpolate` | called by `database/sql`, which pools conns and retries on `ErrBadConn` |
| quackbouncer (`cmd/quackbouncer`) | table of virtual connections, pool of idle upstream sessions, metric counters | connect, forward, disconnect, scrape | serves clients over HTTP, one goroutine per request; uses wire upstream |
| server (external; `internal/quacktest` is its double) | sessions, unfetched batches of each result | CONNECT, PREPARE, FETCH (destructive), DISCONNECT, restart | answers the requests |

The hard behaviours: a FETCH pops a batch before its answer is seen, so a lost
answer loses rows; several workers race on one result and one of them sees its
end while others still hold batches; errors, cancellation, `break` and `Close`
end the stream at any point and the goroutines must follow; the bouncer hands
upstream sessions from client to client under two mutexes that are released
before every wait; a server restart invalidates sessions that are cached in
pools. `PROJECT.json` lists each hazard at its line.

What makes each component correct:

* native API: a stream that ends without an error is complete; no fetched row
  twice (the inline chunks are yielded again by every pass, `duckcall.go:90`); a
  failure is never swallowed; goroutines and memory are bounded.
* bouncer: one owner per upstream session; no closed session in service; no
  session lost; every request answered, even when the upstream hangs.
* wire client: only the connect is repeated; one DISCONNECT per session; no
  request after `Close`.
* driver: a query is re-run by `database/sql` only if it never ran; a failure in
  the middle of a result reaches the caller of `Rows.Next`.
* codec, serializer and messages: what was sent arrives exactly, what was
  cut or has unknown fields is refused, no out-of-range read.
* interpolation: exactly the placeholders outside quotes and comments are
  replaced, and no argument changes the meaning of the text around it.

## Modules

| module | models |
|---|---|
| `FetchStream` | `Result.Chunks`, `Result.Close`, the FETCH exchange and the server's batch cursor |
| `ResultContract` | what a `Result` promises, without workers and channels |
| `MCFetchStream` | instances of `FetchStream` |
| `FetchStreamProofs` | inductive invariant, theorems, refinement proof |
| `Bouncer` | `handleConnect`, `forward`, `handleDisconnect`, `pool.get`, `pool.put`, the upstream |
| `MCBouncer` | instances of `Bouncer` |
| `BouncerProofs` | inductive invariant and theorems |
| `WireClient` | one `wire.Client`: `Connect` with its retries, calls and `Close` on a shared client |
| `MCWireClient` | instances of `WireClient` |
| `WireClientProofs` | inductive invariant and theorems |
| `SqlDriver` | the driver's connections and rows under the pool and retry of `database/sql` |
| `QueryContract` | what a query and its rows promise, without pool, retries and fetches |
| `MCSqlDriver` | instances of `SqlDriver` |
| `SqlDriverProofs`, `SqlDriverRefinement` | inductive invariant and theorems; refinement proof |
| `Varint`, `Qser` | variable-length numbers; fields, objects, blobs and the sticky reader of `internal/qser` |
| `Messages` | the envelope and the bodies of `wire/messages.go` |
| `Cells` | types and the storage of single values in `codec` |
| `Codec` | the decoders of types, vectors, chunks and result bodies |
| `Codectest` | the encoder of `codec/codectest`, with the vector encodings of a server |
| `DriverValues` | `toDriverValue` and the JSON of nested values in `driver/rows.go` |
| `Payload` | a message from encoder to decoder, whole or damaged |
| `MCCodec` | instances of `Payload` |
| `Interpolate` | `driver/interpolate.go` |
| `MCInterpolate` | instances of `Interpolate` |
| `InterpolateProofs` | theorems about `interpolate` for every query and argument |
| `MessagesProofs` | theorems about `Varint`, `Qser` and `Messages` for every number, layout and message |
| `Induction` | induction over positions, iterations and concatenations, which the two use |

The modules describe the same system at different grains. `FetchStream` has the
goroutines of a result and takes the connection for granted; `WireClient` has
the life of a connection and takes a fetch for one exchange; `SqlDriver` and
`Bouncer` are the two users of connections that pool them. What the exchanged
messages contain is the subject of `Payload` and the modules it composes, and
what the driver makes of a query's text that of `Interpolate`.

### FetchStream

Processes are the consumer (the goroutine of the `range` loop), the workers, the
closer (`wg.Wait(); close(out)`), the server and the environment. Batch 0 is the
inline part of the PREPARE response; batches `1..LastBatch` wait on the server.
Of a batch only its number and its number of chunks are kept.

| code | model |
|---|---|
| channel `out` (capacity `FetchWorkers`), closed by the closer | `out`, `outClosed` |
| `done`, `r.stop`, the caller's context | `done`, `stop`, `cancelled` |
| derived context, dead once the iterator has returned | `CtxDone` |
| a worker: select at the loop top, `Fetch`, `DecodeFetch`, select on send | `pc`: poll, request, answer or drained, send, exit |
| `batch{err: ...}` | `ErrBatch` |
| a request the worker gave up on that the server may still execute | `orphans` |

`failed` and `delivered` are history variables: the passes in which a fetch
failed while the caller was ranging, and the chunks of each batch it received.
A fetch that ends with a transport error, a bad status, an in-band error
(`FetchRefused`), `ErrClosed` or an undecodable body takes the same path through
the worker, so one operator (`ToError`) models it. Two goroutines ranging over
the same Result at once are not modelled; one goroutine ranging over it
repeatedly is (`pass`).

### Bouncer

A handler goroutine runs in atomic steps between the points where it takes
`proxy.mu` or `pool.mu` or waits for the upstream. `conns` is `proxy.conns`,
`idle` is `pool.idle` (last in, first out), `closed` the `closed` flags of the
wire clients. Clients send connects, forwards and disconnects with any virtual
id they have been told, in any number and order; replies to connects may be
lost; clients may go away; the upstream may restart at any time and forget its
sessions. The dial inside `pool.get` is `wire.Connect` with its retries: an
attempt whose answer is lost leaves a session on the server (`leaked`). Requests
that are answered without a state change (bad token, unknown id) are stuttering
steps. Metrics counters are not part of this model.

The rows an upstream keeps for later FETCHes are not part of this model: no step
of the proxy looks at them or releases them. The comment at `proxy.go:144-145`
says that they "die with the virtual connection"; the proxy does nothing to that
end, and `quacktest.go` keeps them after a DISCONNECT and a restart alike.

### WireClient

| code | model |
|---|---|
| the retry loop: `attempt`, the select between timer and context | `attempt`, `phase` (ready, waiting, backoff, up, failed) |
| the context of `ConnectTimeout` | `ctxDead`; `TimeoutFires` |
| `roundTrip` of the handshake | `dial`; `DialAnswered`, `DialLost` (status 0, retried), `DialTruncated` (status 200, not retried) |
| a handshake nobody waits for any more | `stray`, which the server may still serve |
| `closed.Load()` in `call`, then the POST | `CallBegin`, `Post`: two steps |
| `closed.CompareAndSwap` in `Close`, then the DISCONNECT | `CloseSwap`, `Post` |
| error texts | the two literals of an expiry, texts that quote one, others |

Each call and each `Close` is an invocation of its own and happens once, so that
what the server ran can be told per invocation (`runs`). A call that gave up
leaves its request with the network and the server may serve it at any later
time. `Prepare`, `Fetch` and `RoundTripRaw` share one shape and one set of
actions. A version outside the supported range is refused after the server has
made the session; no DISCONNECT is sent for it, which `LeaksBounded` counts.
The second check of the version in `duckcall.Dial` cannot fail in this build,
where both ranges are 1..1.

### SqlDriver

`database/sql` is modelled from its use of the driver: a query takes an idle
connection or dials, is tried twice on pooled connections and once on a new one
as long as the driver says `ErrBadConn`, closes a connection that was called bad
or that exceeds `MaxIdle`, and stops at the first error of `rows.Next`. The
driver's part is the classification of errors in `QueryContext`, the loop of
`rows.Next` over pulled chunks (`chunk`, `row`), and `conn.Close` with its five
seconds. The racing fetches of a result appear as `FetchServed` and
`FetchFails`; that the workers amount to this is what `FetchStream` shows. A
connection is identified with its session; `runs`, `out` and `died` are
histories. The pool may start with connections of earlier queries. `Quotes` says
whether error texts may repeat pieces of a query.

`QueryContract` is what is left for the application to see: a query runs once,
its rows arrive in order, one outcome ends it and fits what has arrived. Chunks
are numbered in the order in which the client receives them, so the order of the
rows is that of `rows.Next` through what the stream yields; which batch of the
server comes first is up to the workers. A query is open from `db.QueryContext`
to its outcome (`QueryStatus`); an `ErrBadConn` that leads to another try is not
one.

### Payload, Codec and Messages

A message is a sequence of tokens: field ids, variable-length numbers (as their
groups), raw bytes and length-prefixed blobs. The format carries no types, so a
reader that is out of step takes the bytes of one thing for another. The model
makes that visible: a read of one kind of token where another stands is the
error `desync`, which no decoder of the code could notice by itself. The
reader's error is sticky as in `qser.Reader`, and the decoders look at it in
the places where the code does. No property counts `desync` as a refusal:
`NeverMisreads` says that it does not occur in whole, cut and extended messages,
and the theorems about those exclude it. With a corrupted number it does occur,
and `InRange` follows the decoder to that point and no further: where the code
goes on with misread bytes, the model stops.

A value that is sent on as text has its digits, point and sign modelled for
numbers, and the parts of the offset for TIMETZ, with two seconds to a minute and
two minutes to an hour. The texts of clocks, intervals, UUIDs and floats are one
opaque character each (`Rendering`): that they tell values apart is assumed.

| code | model |
|---|---|
| `Reader` with `pos` and `err` | a record of the remaining tokens and the error |
| `Writer` | concatenation |
| an index out of range, a nil dereference | the result `panic` |
| `unsupportedButParsed` | the result `unsupported`, which stays with its column |
| `decodeFlatVector`, one switch | one operator per kind of type |
| 64-bit words in 10 groups of 7 bits (`0x80` values) | `MaxGroups` = 4 groups of `Cont` = 8 values: words of 10 bits |
| bytes of cells | `CellBits` bits each |
| `maxChunkRows`, `maxVectorRows`, `maxTypeDepth` | constants |

A reply is one of `Cases`. Those in `Fragile` may be cut anywhere (inside a
number too), may be extended by a field of a newer version in front of any
other, and may have any number replaced by one of `Garbage`. `codectest` writes
flat vectors only; constant, dictionary and sequence vectors, and the vectors of
types the codec refuses, are what a server writes and are marked external.
`Codec`, `Codectest`, `DriverValues` and `Payload` follow trees of types by
recursion and are for TLC only; `Varint`, `Qser` and `Messages` use recursive
functions over positions and are proved about.

### Interpolate

The application writes a query from `Pieces`, binds `Arguments` and runs it. A
character is one of those the scanner tells apart, or `a` for any other; digits,
keywords and casts are words of `a`. The reference is a reader that goes through
the text once, one character at a time, and knows for each in which region it
stands: code, a string, a quoted identifier, a line or a block comment. The code
jumps from region to region instead (`Starts` is where its loop begins an
iteration, `Placeholders` the question marks among them). The reader knows what
the comment of the code names and no more: comments do not nest and there are no
dollar-quoted strings.

`LiteralsIntact` compares regions, not tokens. Its condition `Apart` leaves out
placeholders next to a quote or to each other (`'a'?`, `??`), where a literal in
quotes would merge with its neighbour; such a text is no expression. Two words
that touch, as in `LIMIT?`, are not told apart from one.

## Runs

| run | shows | instance |
|---|---|---|
| `fetch_safety` | `CleanEndComplete`, `ErrorSurfaces`, `Custody`, `Accounted`, `BoundedBuffering`, types | 2 workers, 6 batches, 1 pass |
| `fetch_live` | `DeliveredOnce`, `ImplementsContract`, `StreamTerminates`, `NoGoroutineLeak` | 2 workers, 2 batches, 2 passes, `ClientSpec` |
| `fetch_short` | violation: a second pass after a failed one ends cleanly but short | 2 passes |
| `bouncer` | `OneOwner`, `PoolBounded`, `ClosedOutOfService`, `LiveAccounted`, `ConnectAndDisconnectEnd`, `EveryRequestEnds`, types | 2 handlers, 2 virtual ids, 2 sessions, pool of 1, 1 retry, `ProxySpec` |
| `bouncer_stale` | violation: a session known to be invalid is pooled again | restart |
| `wire_client` | `AttemptsBounded`, `LeaksBounded`, `AtMostOnce`, `OneDisconnect`, `UnusableAfterClose`, `CloseReleases`, `ExpiredIsTrue`, `ConnectEnds`, types | 2 calls, 2 closes, 1 retry, `FairSpec` |
| `sql_driver` | `NeverShort`, `StaleInvisible`, `RunsOnce`, `ImplementsQuery`, `GoodbyeBounded`, types | 2 goroutines, 2 sessions, 2 idle, chunks of 2, 0 and 1 rows, the first inline, `HungSpec` |
| `sql_quoted` | violation: a query that ran is run again because its error text quotes the literal | `Quotes = TRUE` |
| `codec` | `RoundTrip`, `CrossesExactly`, `FailsLoudly`, `NeverMisreads`, `InRange` | every type, two levels of nesting, four vector encodings, every message, every number of 10 bits |
| `driver_text` | violation: neither the offset of a TIMETZ nor the bytes of a nested BLOB cross exactly | an offset of seconds, a byte that is no UTF-8 |
| `sql_text` | `PlaceholdersMatched`, `LiteralsIntact` | queries of up to 4 pieces, up to 2 arguments |
| `sql_minus` | violation: a negative argument after a minus sign makes the rest of the line a comment | the same |

Bounds. Two workers are the least that race; six batches are one more than they
can have in transit, so the limit on buffering is met and one worker can hold a
batch while others wait in the channel and the other worker meets the end;
batch 2 has two chunks so that a caller can break inside a batch. A pool of one
place is full and empty within a few steps; two handlers race every pair of
requests, and more of them are left to the theorems, which prove each safety
property of the bouncer for any number. The only bound that cuts behaviour is `MaxPasses`
(and `MaxRetries`, which is a parameter of the code); identifiers of the bouncer
are reused once nobody refers to them, so its runs are unbounded in length.
Two calls and two closes cover every pair that can race on a client; an
invocation happens once because nothing in the client remembers earlier ones but
`closed`. One retry meets an attempt that is repeated and one that is not;
the default of three and a negative number are left to the theorem. Two stale
connections in the pool use up both pooled tries of a query, so the third try
on a new connection is reached. Applications of `SqlDriver` query again and
again and sessions are reused once nobody holds them: its runs are unbounded in
length too.
The `codec` run keeps every proportion of the code and shrinks the units: four
groups with one bit in the last, as ten groups with one; cells of one-bit bytes,
so that an 8-byte integer has 256 values and each type is tried at both ends of
its range; a chunk of nine rows, one more than a byte of a validity mask covers;
enums on both sides of their first two limits. The widths and limits are
parameters of the modules, the sizes of the garbage are the smallest and largest
ones and one no number can have. Four pieces hold two delimiters with something
between and something after them, which is what the scanner remembers at most.
Symmetry is used in `fetch_safety` only. Deadlock is not checked where the
system may come to rest: a stream that has ended, a proxy without requests, a
client whose operations have all returned, a message decoded, a query sent. It
is checked in the `sql` runs.

Fairness. `ClientSpec` and `ProxySpec` assume only that goroutines that can run
do run, which the Go scheduler gives; a dial and a goodbye end because of
`ConnectTimeout` and the 5 s context in `pool.put`; a FETCH ends once its context
is dead because `http.Client.Do` returns then. `StreamTerminates` and
`EveryRequestEnds` have the rest as their premise (`Responsive`): the server
answers and, for the stream, the caller keeps ranging. `FairSpec` of
`WireClient` asks for no answer: Connect's own steps, the timer of
`ConnectTimeout` (which `withDefaults` makes positive) and the return of
`http.Client.Do` on a dead context. `HungSpec` of `SqlDriver` has the steps of
`database/sql` and the five seconds of `conn.Close`. There is no fairness
on faults, cancellation or `Close`.

## Proofs

`FetchStreamProofs` proves for every finite set of workers, every number and
size of batches and any number of passes: `TypeOK`, `CleanEndComplete`,
`ErrorSurfaces`, `DeliveredOnce`, `Custody`, `Accounted`, `BoundedBuffering`, and
that the specification implements `ResultContract`. Assumptions are those named
in `FetchStream`: at least one worker (`Config.withDefaults`), and no empty batch
on the server (an empty FETCH answer means drained).

The properties are not inductive by themselves. `IInv` adds what makes them so:
a failure not yet seen is in the channel or in a worker's hands (`Reported`); a
worker of an undisturbed pass exits only when `done` is closed
(`LeavesDrained`); `done` is closed only when the server has nothing left
(`DrainedAtEnd`); a popped batch is delivered or in exactly one place
(`Custody`, `Accounted`); a request outlives its worker only after a failure
(`OrphansFromFailure`). The heart is `RecvClosedStep`: when `out` is closed all
workers have left, no error is queued or held, hence none failed, hence they
left because the result was drained, and nothing is in transit.

`BackPressure` (`BoundedBuffering`) counts: the channel never holds more than
`FetchWorkers` batches (`ChannelBounded`), so the batches in transit are the
union of an image of the workers, the elements of the channel and the one being
read, and the cardinality of each part is bounded by a lemma about images,
elements of sequences and unions of finite sets.

`BouncerProofs` proves `OneOwner`, `ClosedOutOfService`, `LiveAccounted`,
`TypeOK`, `PoolBounded`, and an action property (`SessionKept`): an entry of the connection table stays as it is until a
disconnect takes it out. The strengthening: a busy handler has a virtual id
and, past `pool.get`, a session (`HandsFull`); only the handler that says
goodbye has a closed client (`HandsOpen`); the virtual id of a connect under way
is free (`VidReserved`), so that registering it overwrites no entry.
Most steps hand no session on and
share one lemma (`QuietStep`); the others move a session between the upstream, a
handler, the table and the pool, and have one each.

`WireClientProofs` proves `TypeOK`, `AttemptsBounded`, `AtMostOnce`,
`OneDisconnect`, `UnusableAfterClose`, `CloseReleases`, `ExpiredIsTrue` and
`LeaksBounded` for any numbers of calls, closes and sessions and every integer
`MaxRetries`. The
strengthening: a loop that waits out its backoff has budget left, and requests
sent never exceed attempts begun (`LoopInv`); the client's session has been
handed out, so no later session takes its id (`SessionInv`); a call that has not
been served has not run, and an expiry it was told is still true (`CallInv`);
before the swap every `Close` is idle, and one of them at most is past it with a
request (`CloseInv`). Steps of Connect and steps of the operations do not
disturb each other (`ConnectKeepsOps`, `OpsKeepConnect`). `RetriesLeakLittle`
(`LeaksBounded`) is an account (`LeakInv`): the live sessions without an owner and
the stray handshakes that may still make one are together no more than the
answers that were lost, plus one after a refusal. A step that adds to the left
side adds to the right (`PaidLeak`), the others add nothing (`NoNewLeak`).

`SqlDriverProofs` proves for any goroutines, any finite set of sessions, any
result and split of it into inline and fetched chunks, and any pool limit:
`TypeOK`; that rows which end with `io.EOF` are the whole result
(`EOFMeansAll`); that no connection is in two pairs of hands, or in use and in
the pool (`ConnExclusive`); and, under the hypothesis `~Quotes`, `RunsOnce`,
`NeverShort` and `StaleInvisible`. The hypothesis is what the `sql_quoted` run
shows to be necessary. The assumptions are those named in `SqlDriver`: the
result is a sequence of row counts of which the first `Inline` come inline,
`None` is neither a session nor a reply, and there are finitely many sessions.
`IInv` says of each goroutine:

* `Owned`: it has a connection exactly where the code holds one, and nobody else
  has the same;
* `Answers`: an answer is only there in the state that reads it;
* `Outcomes`: a query has an outcome from the moment its rows or its tries end,
  and `ErrBadConn` only on the way to another try or after the last;
* `Cursor`: while rows are read, the rows handed out are exactly those in front of
  `chunk` and `row`, which is what makes an `io.EOF` at the last chunk complete,
  empty chunks included;
* `Counted` (without quoting texts): a query that may be tried again has not run;
* `LastTry` (without quoting texts): the last try is made on a session that is
  live unless the server has restarted since it was dialed.

`SqlDriverRefinement` proves from `IInv`, under `~Quotes`, that `SqlDriver`
implements `QueryContract`. Steps of the pool, the dial, the cursor and the
fetches are unseen (`QuietSteps`); `RowOut` is the delivery of the next row by
`Cursor`, `ServePrepare` the only run by `Counted`, and what ends a query fits
the rows and runs there were.

`InterpolateProofs` is about one call, so the state machine is trivial there and
the text is not: it proves `PlaceholdersMatched` and `LiteralsIntact` for queries
and string arguments of any length and content. The prover has no induction over
sequences; its place is taken by sets of positions, of which `Induction` shows
that they have a least and a greatest element, so a claim that holds at one end
and passes from each position to its neighbour holds everywhere (`Upwards`,
`Downwards`). The functions that are defined by recursion over positions are
shown to exist in the same way (`PastExists`, `FromExists`).

* `PlaceholdersAreMarks`: wherever an iteration of the loop begins, the reader is
  in code and expects no second half of a delimiter (`Clean`). The three jumps,
  over a quoted region, a line comment and a block comment, land on such a
  position again and pass no placeholder (`SkipQuoted`, `SkipLine`, `SkipBlock`,
  `NextClean`), so the loop and the reader find the same ones.
* `Matched` is that and the order of the early returns.
* `Kept`: reading a concatenation is reading on from where the first part ends
  (`ReadOn`, `ReadConcat`). An escaped string never leaves the quote it stands in
  (`EscapeStaysOpen`), so a literal ends where it began, in code (`LiteralFits`),
  and the text around it is read as before (`Substituted`).

`MessagesProofs` proves for every even size of a group from 4 on and every number
of groups from 2 on, 7 bits and ten groups among them:

* `UvarintBack`, `SvarintBack`: what is written is read, at both ends of the range
  too. What the writer has left after `i` groups is the quotient by the values of
  `i` groups (`Quotients`); what the reader puts together from the groups under
  what is left is the number again (`Regrouped`), modulo a word when all the
  groups are full and the sign has no room (`RegroupedFull`);
* `MessageBack`: for every layout with distinct field ids and every message it
  can carry, strings left out because they are empty included. The document is
  cut into the pieces of its fields (`Laid`); each piece is empty or opens with
  its own id (`Opens`), which no other field of the layout accepts, so an
  optional field that is absent takes nothing from the next one (`FieldBack`);
* `EnvelopeBack`: the header comes back, and the body is left untouched,
  whatever it is;
* `CutRefused`: a message that was cut anywhere, inside a number too, is refused;
  `UnknownRefused`: so is one with a field the reader does not know in front of
  any field or the terminator, whatever follows it. The reader may be of another
  version than the writer, with fields added, missing or in another order, as
  long as a field both have is of the same kind (`Agrees`). Without that nothing
  of the sort holds: read as a number, the length of a string and its bytes may
  be a value and a terminator. The refusal is one the code makes (`Refuses`): an
  error that is not `desync`. Two invariants of the reader carry the proof. It is
  `Stuck`: it has an error, or an unknown field or the end of the document comes
  before any terminator (`Blocked`); `End` turns that into an error (`EndStuck`,
  `Refused`). And it is `Sound`: up to an unknown field every field it knows is
  followed by a value of its kind and then by a field id or the end (`Tracks`),
  so no read meets a token of another kind (`FieldSound`, `EndSound`). A writer
  leaves such a document (`EncodedIsWritten`), and a cut or an unknown field
  keeps what stands before it (`Departs`, `DepartureRefused`).

Nothing of the kind holds for a message whose numbers were replaced: the format
has no checksum.

Only model-checked: all liveness properties (TLAPS has no support for fairness
here), and the five properties of `Payload`. The messages of the wire are covered
by the theorems above; the results, `Codec`, `Codectest`, `DriverValues` and
`Payload`, follow trees of types with RECURSIVE operators, which the prover does
not take.

## Findings

1. `fetch_short` (`duckcall.go:85-87`): ranging again over a Result whose first
   pass failed ends cleanly with rows missing.
2. `bouncer_stale` (`pool.go:11-13`): after an upstream restart, dead sessions
   are pooled and handed out again.
3. `sql_quoted` (`driver.go:79`, `errors.go:45`): the text match for an expired
   session accepts the error of a query that ran, if it quotes the literal;
   `database/sql` then runs the query again, up to three times in all, and the
   application sees `driver: bad connection` in place of the error.
4. `sql_minus` (`interpolate.go:110`): `SELECT a -? + b` with -5 is sent as
   `SELECT a --5 + b`; what follows on the line is a comment. `LiteralsIntact`
   shows that this is the only way an argument changes the meaning of the text
   around it, placeholders that touch a quote or each other aside.
5. `driver_text` (`values.go:145`, `rows.go:237`, `rows.go:206`; `rows.go:84-85`):
   the TIMETZ offsets +05:00:30 and +05:30 have the same text, `+05:30`; and a BLOB
   inside a LIST, STRUCT or MAP crosses as a JSON string in which bytes that are
   no UTF-8 are replaced. `CrossesExactly` shows that of the values the `codec`
   run sends these, and no others, do not cross exactly.

Behaviour worth knowing that no document denies: `Result.Close` stops workers at
their next poll and does not abort a FETCH under way, which ends with its
context.

## What is left

Every invariant that a run checks is also a theorem, those of `Payload` aside.
To prove those, the decoders of types and vectors would have to be written as
functions over positions, as the messages are, with the depth of a type as the
measure. The bouncer has no abstract specification yet: its properties state what
a client of the table and the pool relies on one by one.

## Not modelled

The text of messages and errors, TLS and HTTP details; metrics, whose values feed
back into nothing and whose scrape takes the locks of proxy and pool one at a
time inside its own; flags, the token file and the DSN parser, which are read
once or are pure case by case; the names of types and the texts of clocks,
intervals and UUIDs, which `DriverValues` only tells apart; a LIST or ARRAY type
that arrives without its child, for which the decoders have a check that is in
the model and that no case of the runs reaches. `PROJECT.json` gives
the reason for each component.
