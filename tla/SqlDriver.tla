------------------------------ MODULE SqlDriver ------------------------------
(***************************************************************************)
(* driver/driver.go and driver/rows.go under database/sql.                 *)
(*                                                                         *)
(* Goroutines of the application call db.QueryContext and range over the   *)
(* rows.  database/sql (external) keeps the pool of idle connections, runs *)
(* a query again when the driver says ErrBadConn and closes the connection *)
(* it was said of.  The driver decides what is ErrBadConn, steps through   *)
(* the chunks of a result and bounds the goodbye.  The server restarts and *)
(* forgets its sessions; requests and answers get lost.                    *)
(*                                                                         *)
(* A connection is known by its session id.  Connect is one exchange here  *)
(* (WireClient has its retries) and the concurrent fetches of a result are *)
(* the stream of batches they amount to (FetchStream has the workers).     *)
(***************************************************************************)
EXTENDS Naturals, Sequences, FiniteSets

CONSTANTS
  Apps,        \* goroutines of the application
  Sessions,    \* connection ids the server hands out
  None,        \* no session, no reply
  Parts,       \* the result of a query: row count of every chunk
  Inline,      \* how many chunks ride in the PREPARE_RESPONSE
  MaxIdle,     \* DB.SetMaxIdleConns
  Quotes       \* whether error texts may quote the literals of an expiry

ASSUME PartsAssumption == Parts \in Seq(Nat) /\ Inline \in 0..Len(Parts)
ASSUME IdleAssumption == MaxIdle \in Nat
ASSUME SessionsAssumption == None \notin Sessions /\ IsFiniteSet(Sessions)
ASSUME QuotesAssumption == Quotes \in BOOLEAN

\* maxBadConnRetries of database/sql: two tries on a pooled connection, then
\* one on a new one.
MaxBadConn == 2

VARIABLES
  live,        \* server: sessions it knows
  free,        \* sql.DB: idle connections
  pc,          \* goroutine: control state
  tries,       \* goroutine: bad connections met by this query
  conn,        \* goroutine: the connection in its hands
  reply,       \* goroutine: what the server answered
  fetched,     \* result: chunks that have reached the client
  drained,     \* result: the server has said that there are no more
  broken,      \* result: a fetch failed, or its batch did not decode
  chunk,       \* rows.chunk: its number, 0 for nil
  row,         \* rows.row
  out,         \* rows handed to the application
  result,      \* how the query or its rows ended
  runs,        \* history: how often the server ran this query
  died         \* history: the server restarted since the last dial

rowsVars == <<fetched, drained, broken, chunk, row>>
resultVars == <<rowsVars, out>>
vars == <<live, free, pc, tries, conn, reply, resultVars, result, runs, died>>

N == Len(Parts)
AllRows == UNION {{i} \X (1..Parts[i]) : i \in 1..N}

PCs == {"idle", "get", "dial", "dialed", "submit", "prepare", "rows", "next",
        "release", "retire", "end"}
\* Error texts of the server, and the answers that are none.
Expired == "Invalid connection id"
Failures == {"other text"} \union (IF Quotes THEN {"quoting text"} ELSE {})
Replies == {"result", "badresult", "httperror", "bye", Expired, "other text", "quoting text"}
Results == {"none", "eof", "closed", "error", "expired", "ErrBadConn"}
ASSUME RepliesAssumption == None \notin Replies

\* The pool may hold idle connections of earlier queries.
Init ==
  /\ free \in SUBSET Sessions /\ Cardinality(free) <= MaxIdle
  /\ live = free
  /\ pc = [a \in Apps |-> "idle"] /\ tries = [a \in Apps |-> 0]
  /\ conn = [a \in Apps |-> None] /\ reply = [a \in Apps |-> None]
  /\ fetched = [a \in Apps |-> 0] /\ drained = [a \in Apps |-> FALSE]
  /\ broken = [a \in Apps |-> FALSE]
  /\ chunk = [a \in Apps |-> 0] /\ row = [a \in Apps |-> 0]
  /\ out = [a \in Apps |-> {}]
  /\ result = [a \in Apps |-> "none"] /\ runs = [a \in Apps |-> 0]
  /\ died = [a \in Apps |-> FALSE]

Goto(a, to) == pc' = [pc EXCEPT ![a] = to]
EndsWith(a, r) == result' = [result EXCEPT ![a] = r]

\* rows.Close: the stream is stopped and the rows object is done with. Nothing
\* is sent to the server.
CloseRows(a) ==
  /\ fetched' = [fetched EXCEPT ![a] = 0]
  /\ drained' = [drained EXCEPT ![a] = FALSE]
  /\ broken' = [broken EXCEPT ![a] = FALSE]
  /\ chunk' = [chunk EXCEPT ![a] = 0]
  /\ row' = [row EXCEPT ![a] = 0]

-----------------------------------------------------------------------------
(* database/sql: the pool and the retry *)

\* db.QueryContext, or a statement's Query.
Begin(a) ==
  /\ pc[a] \in {"idle", "end"}
  /\ Goto(a, "get")
  /\ tries' = [tries EXCEPT ![a] = 0] /\ runs' = [runs EXCEPT ![a] = 0]
  /\ died' = [died EXCEPT ![a] = FALSE] /\ EndsWith(a, "none")
  /\ out' = [out EXCEPT ![a] = {}]
  /\ UNCHANGED <<live, free, conn, reply, rowsVars>>

\* DB.conn: a pooled connection while the query has tries left for one.
GetConn(a) ==
  /\ pc[a] = "get"
  /\ \/ /\ tries[a] < MaxBadConn
        /\ \E s \in free :
             /\ free' = free \ {s}
             /\ conn' = [conn EXCEPT ![a] = s]
        /\ Goto(a, "submit")
     \/ /\ tries[a] = MaxBadConn \/ free = {}
        /\ Goto(a, "dial")
        /\ UNCHANGED <<free, conn>>
  /\ UNCHANGED <<live, tries, reply, resultVars, result, runs, died>>

Fresh(s) == s \notin live \union free /\ \A a \in Apps : conn[a] # s

\* connector.Connect: the server opens a session.
ServeDial(a) ==
  /\ pc[a] = "dial"
  /\ \E s \in Sessions :
       /\ Fresh(s)
       /\ live' = live \union {s}
       /\ conn' = [conn EXCEPT ![a] = s]
  /\ died' = [died EXCEPT ![a] = FALSE]
  /\ Goto(a, "dialed")
  /\ UNCHANGED <<free, tries, reply, resultVars, result, runs>>

DialAnswered(a) ==
  /\ pc[a] = "dialed"
  /\ Goto(a, "submit")
  /\ UNCHANGED <<live, free, tries, conn, reply, resultVars, result, runs, died>>

\* Connect fails, before or after the server opened the session; the error is
\* no ErrBadConn and goes to the application.
DialFails(a) ==
  /\ pc[a] \in {"dial", "dialed"}
  /\ Goto(a, "end") /\ EndsWith(a, "error")
  /\ conn' = [conn EXCEPT ![a] = None]
  /\ UNCHANGED <<live, free, tries, reply, resultVars, runs, died>>

-----------------------------------------------------------------------------
(* conn.QueryContext *)

\* interpolate rejects the arguments: nothing is sent, the connection is fine.
InterpolateFails(a) ==
  /\ pc[a] = "submit"
  /\ Goto(a, "release") /\ EndsWith(a, "error")
  /\ UNCHANGED <<live, free, tries, conn, reply, resultVars, runs, died>>

\* The SQL goes out as a PREPARE_REQUEST.
Submit(a) ==
  /\ pc[a] = "submit"
  /\ Goto(a, "prepare")
  /\ UNCHANGED <<live, free, tries, conn, reply, resultVars, result, runs, died>>

\* The server runs the query, or fails before or while it runs it, or does not
\* know the session; or something in front of the server refuses.
ServePrepare(a) ==
  /\ pc[a] = "prepare" /\ reply[a] = None
  /\ \/ /\ conn[a] \in live
        /\ runs' = [runs EXCEPT ![a] = @ + 1]
        /\ \E r \in {"result", "badresult"} \union Failures :
             reply' = [reply EXCEPT ![a] = r]
     \/ /\ conn[a] \in live
        /\ \E r \in Failures : reply' = [reply EXCEPT ![a] = r]
        /\ UNCHANGED runs
     \/ /\ conn[a] \notin live
        /\ reply' = [reply EXCEPT ![a] = Expired]
        /\ UNCHANGED runs
     \/ /\ reply' = [reply EXCEPT ![a] = "httperror"]
        /\ UNCHANGED runs
  /\ UNCHANGED <<live, free, pc, tries, conn, resultVars, result, died>>

\* errors.Is(err, wire.ErrConnectionExpired): a text with a literal in it.
isExpired(r) == r \in {Expired, "quoting text"}

\* Query returned a Result: newRows.
QueryOk(a) ==
  /\ pc[a] = "prepare" /\ reply[a] = "result"
  /\ Goto(a, "rows")
  /\ fetched' = [fetched EXCEPT ![a] = Inline]
  /\ reply' = [reply EXCEPT ![a] = None]
  /\ UNCHANGED <<live, free, tries, conn, drained, broken, chunk, row, out>>
  /\ UNCHANGED <<result, runs, died>>

\* Mutation of QueryExpired: the error goes to the application as it is.
QueryExpiredSurfaces(a) ==
  /\ pc[a] = "prepare" /\ isExpired(reply[a])
  /\ Goto(a, "release") /\ EndsWith(a, "expired")
  /\ reply' = [reply EXCEPT ![a] = None]
  /\ UNCHANGED <<live, free, tries, conn, resultVars, runs, died>>

\* The session is reported as expired: driver.ErrBadConn.
QueryExpired(a) ==
  /\ pc[a] = "prepare" /\ isExpired(reply[a])
  /\ Goto(a, "retire") /\ EndsWith(a, "ErrBadConn")
  /\ reply' = [reply EXCEPT ![a] = None]
  /\ UNCHANGED <<live, free, tries, conn, resultVars, runs, died>>

\* Mutation of QueryFails: a lost answer counts as a bad connection.
QueryFailsBadConn(a) ==
  /\ pc[a] = "prepare"
  /\ Goto(a, "retire") /\ EndsWith(a, "ErrBadConn")
  /\ reply' = [reply EXCEPT ![a] = None]
  /\ UNCHANGED <<live, free, tries, conn, resultVars, runs, died>>

\* Every other failure goes to the application as it is: another answer, a
\* PREPARE_RESPONSE that does not decode, a lost answer, a dead context.
QueryFails(a) ==
  /\ pc[a] = "prepare"
  /\ Goto(a, "release") /\ EndsWith(a, "error")
  /\ reply' = [reply EXCEPT ![a] = None]
  /\ UNCHANGED <<live, free, tries, conn, resultVars, runs, died>>

-----------------------------------------------------------------------------
(* rows.Next over the pulled chunks *)

\* Mutation of Exhausted: > instead of >=.
ExhaustedOneLate(a) == chunk[a] # 0 => row[a] > Parts[chunk[a]]

\* The loop condition of Next: no chunk, or no row left in it.
Exhausted(a) == chunk[a] # 0 => row[a] >= Parts[chunk[a]]

\* rows.Next is called.
NextCalled(a) ==
  /\ pc[a] = "rows"
  /\ Goto(a, "next")
  /\ UNCHANGED <<live, free, tries, conn, reply, resultVars, result, runs, died>>

\* The workers of Chunks run once the inline chunks are used up.
Fetching(a) ==
  /\ pc[a] \in {"rows", "next"} /\ Inline < N
  /\ \/ chunk[a] > Inline
     \/ chunk[a] = Inline /\ Exhausted(a) /\ pc[a] = "next"

\* A FETCH brings the next batch, or the word that there is none.
FetchServed(a) ==
  /\ Fetching(a) /\ conn[a] \in live
  /\ \/ /\ fetched[a] < N
        /\ fetched' = [fetched EXCEPT ![a] = @ + 1]
        /\ UNCHANGED drained
     \/ /\ fetched[a] = N
        /\ drained' = [drained EXCEPT ![a] = TRUE]
        /\ UNCHANGED fetched
  /\ UNCHANGED <<live, free, pc, tries, conn, reply, broken, chunk, row, out>>
  /\ UNCHANGED <<result, runs, died>>

\* A FETCH fails: unknown session, lost answer, dead context, a batch that
\* does not decode.
FetchFails(a) ==
  /\ Fetching(a) /\ ~broken[a]
  /\ broken' = [broken EXCEPT ![a] = TRUE]
  /\ UNCHANGED <<live, free, pc, tries, conn, reply, fetched, drained, chunk, row, out>>
  /\ UNCHANGED <<result, runs, died>>

Pulling(a) == pc[a] = "next" /\ Exhausted(a)

\* Mutation of PullChunk: the row cursor stays where the last chunk left it.
PullChunkKeepsRow(a) ==
  /\ Pulling(a) /\ chunk[a] < fetched[a]
  /\ chunk' = [chunk EXCEPT ![a] = @ + 1]
  /\ UNCHANGED <<live, free, pc, tries, conn, reply, fetched, drained, broken, row, out>>
  /\ UNCHANGED <<result, runs, died>>

\* r.next() yields a chunk; an empty one sends Next round its loop again.
PullChunk(a) ==
  /\ Pulling(a) /\ chunk[a] < fetched[a]
  /\ chunk' = [chunk EXCEPT ![a] = @ + 1]
  /\ row' = [row EXCEPT ![a] = 0]
  /\ UNCHANGED <<live, free, pc, tries, conn, reply, fetched, drained, broken, out>>
  /\ UNCHANGED <<result, runs, died>>

\* Mutation of PullError: a broken stream ends the rows like a finished one.
PullErrorAsEOF(a) ==
  /\ Pulling(a) /\ broken[a]
  /\ Goto(a, "release") /\ EndsWith(a, "eof")
  /\ CloseRows(a)
  /\ UNCHANGED <<live, free, tries, conn, reply, out, runs, died>>

\* r.next() yields an error and Next returns it.
PullError(a) ==
  /\ Pulling(a) /\ broken[a]
  /\ Goto(a, "release") /\ EndsWith(a, "error")
  /\ CloseRows(a)
  /\ UNCHANGED <<live, free, tries, conn, reply, out, runs, died>>

\* r.next() has nothing more: io.EOF.
PullEnd(a) ==
  /\ Pulling(a) /\ chunk[a] = N /\ ~broken[a]
  /\ Inline = N \/ drained[a]
  /\ Goto(a, "release") /\ EndsWith(a, "eof")
  /\ CloseRows(a)
  /\ UNCHANGED <<live, free, tries, conn, reply, out, runs, died>>

\* Next fills dest and moves on, or a value does not convert.
RowOut(a) ==
  /\ pc[a] = "next" /\ ~Exhausted(a)
  /\ \/ /\ out' = [out EXCEPT ![a] = @ \union {<<chunk[a], row[a] + 1>>}]
        /\ row' = [row EXCEPT ![a] = @ + 1]
        /\ Goto(a, "rows")
        /\ UNCHANGED <<result, fetched, drained, broken, chunk>>
     \/ /\ Goto(a, "release") /\ EndsWith(a, "error")
        /\ CloseRows(a)
        /\ UNCHANGED out
  /\ UNCHANGED <<live, free, tries, conn, reply, runs, died>>

\* The application closes the rows before their end, or its context ends.
RowsClose(a) ==
  /\ pc[a] = "rows"
  /\ Goto(a, "release") /\ EndsWith(a, "closed")
  /\ CloseRows(a)
  /\ UNCHANGED <<live, free, tries, conn, reply, out, runs, died>>

-----------------------------------------------------------------------------
(* The connection goes back, or goes away *)

\* database/sql puts the connection back, or closes it when enough are idle.
PutConn(a) ==
  /\ pc[a] = "release"
  /\ \/ /\ Cardinality(free) < MaxIdle
        /\ free' = free \union {conn[a]}
        /\ conn' = [conn EXCEPT ![a] = None]
        /\ Goto(a, "end")
     \/ /\ Cardinality(free) >= MaxIdle
        /\ Goto(a, "retire")
        /\ UNCHANGED <<free, conn>>
  /\ UNCHANGED <<live, tries, reply, resultVars, result, runs, died>>

\* conn.Close: the server serves the DISCONNECT.
ServeBye(a) ==
  /\ pc[a] = "retire" /\ reply[a] = None
  /\ live' = live \ {conn[a]}
  /\ reply' = [reply EXCEPT ![a] = "bye"]
  /\ UNCHANGED <<free, pc, tries, conn, resultVars, result, runs, died>>

\* The connection is gone: the query goes on with another one, or is over.
Retired(a) ==
  /\ conn' = [conn EXCEPT ![a] = None]
  /\ reply' = [reply EXCEPT ![a] = None]
  /\ \/ /\ result[a] = "ErrBadConn" /\ tries[a] < MaxBadConn
        /\ tries' = [tries EXCEPT ![a] = @ + 1]
        /\ Goto(a, "get") /\ EndsWith(a, "none")
     \/ /\ ~(result[a] = "ErrBadConn" /\ tries[a] < MaxBadConn)
        /\ Goto(a, "end")
        /\ UNCHANGED <<tries, result>>
  /\ UNCHANGED <<live, free, resultVars, runs, died>>

\* conn.Close returns: answered, an unknown session included.
ByeAnswered(a) == pc[a] = "retire" /\ reply[a] = "bye" /\ Retired(a)

\* Mutation of ByeFails: conn.Close waits for the server.
ByeWaits(a) == FALSE /\ Retired(a)

\* conn.Close returns: five seconds are over, or the exchange failed.
ByeFails(a) == pc[a] = "retire" /\ Retired(a)

\* A server restart forgets every session.
ExpireConnections ==
  /\ live # {} /\ live' = {}
  /\ died' = [a \in Apps |-> TRUE]
  /\ UNCHANGED <<free, pc, tries, conn, reply, resultVars, result, runs>>

-----------------------------------------------------------------------------
ServerStep(a) == ServeDial(a) \/ ServePrepare(a) \/ FetchServed(a) \/ ServeBye(a)

ClientStep(a) ==
  \/ GetConn(a) \/ DialAnswered(a) \/ DialFails(a)
  \/ InterpolateFails(a) \/ Submit(a)
  \/ QueryOk(a) \/ QueryExpired(a) \/ QueryFails(a)
  \/ PullChunk(a) \/ PullError(a) \/ PullEnd(a) \/ RowOut(a)
  \/ PutConn(a) \/ ByeAnswered(a) \/ ByeFails(a)

AppStep(a) == Begin(a) \/ NextCalled(a) \/ RowsClose(a)

Next ==
  \/ \E a \in Apps : ServerStep(a) \/ ClientStep(a) \/ FetchFails(a) \/ AppStep(a)
  \/ ExpireConnections

Spec == Init /\ [][Next]_vars

\* The goroutine makes its own steps and the five seconds of conn.Close pass.
\* Nothing is asked of the server: it may hang for good.
HungFairness == \A a \in Apps : WF_vars(PutConn(a)) /\ WF_vars(ByeFails(a))

HungSpec == Spec /\ HungFairness

-----------------------------------------------------------------------------
(* Properties *)

TypeOK ==
  /\ live \subseteq Sessions /\ free \subseteq Sessions
  /\ pc \in [Apps -> PCs] /\ tries \in [Apps -> 0..MaxBadConn]
  /\ conn \in [Apps -> Sessions \union {None}]
  /\ reply \in [Apps -> Replies \union {None}]
  /\ fetched \in [Apps -> 0..N] /\ drained \in [Apps -> BOOLEAN]
  /\ broken \in [Apps -> BOOLEAN]
  /\ chunk \in [Apps -> 0..N] /\ row \in [Apps -> Nat]
  /\ out \in [Apps -> SUBSET AllRows]
  /\ result \in [Apps -> Results] /\ runs \in [Apps -> Nat]
  /\ died \in [Apps -> BOOLEAN]

\* ErrBadConn is only said of a query that never ran: however often
\* database/sql tries a query again, the server runs it at most once.
RunsOnce == \A a \in Apps : runs[a] <= 1

\* Rows that end with io.EOF are the whole result of one run of the query,
\* empty chunks or not: a session that expires in mid-result, a lost batch or
\* a failed conversion is never a silently short result.
NeverShort ==
  \A a \in Apps : result[a] = "eof" => out[a] = AllRows /\ runs[a] = 1

\* Sessions that expired before a query is submitted are invisible to the
\* application: submitting fails with ErrBadConn or an expired session only if
\* the server restarted again after the query had dialed a connection of its
\* own, no matter how many stale connections the pool held.  (A session that
\* expires in mid-result is an ordinary error of rows.Next.)
StaleInvisible ==
  \A a \in Apps :
    pc[a] = "end" /\ result[a] \in {"ErrBadConn", "expired"} =>
      died[a] /\ tries[a] = MaxBadConn

(***************************************************************************)
(* Refinement: the pool, the retries, the sessions and the fetches         *)
(* implement the contract.  A query is open from db.QueryContext to its    *)
(* outcome; the ErrBadConn that database/sql answers with another try is   *)
(* none yet.                                                               *)
(***************************************************************************)
QueryStatus(p, r) ==
  IF p = "idle" THEN "idle"
  ELSE IF r = "none" \/ (r = "ErrBadConn" /\ p # "end") THEN "open" ELSE r

queryStatus == [a \in Apps |-> QueryStatus(pc[a], result[a])]

Query == INSTANCE QueryContract WITH
  Rows <- AllRows, status <- queryStatus, rows <- out, ran <- runs

\* Whatever the pool, the retries and the server do, a goroutine sees one run
\* of its query, its rows in order and one outcome that fits them: an expired
\* session in mid-result is an error and never a second run.
ImplementsQuery == Query!Spec

\* A dead server cannot wedge the pool: a goroutine that gives a connection
\* back, or retires it, gets past that even if the server hangs.
GoodbyeBounded ==
  \A a \in Apps : pc[a] \in {"release", "retire"} ~> pc[a] \in {"get", "end"}
=============================================================================
