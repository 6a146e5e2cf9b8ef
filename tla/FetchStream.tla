------------------------------ MODULE FetchStream ------------------------------
(***************************************************************************)
(* Result.Chunks of duckcall.go: the caller ranges over the chunks of one  *)
(* query result while FetchWorkers goroutines race on the result's uuid    *)
(* with destructive FETCH requests.                                        *)
(*                                                                         *)
(* Processes: the consumer (the goroutine that runs the range loop), one   *)
(* goroutine per worker, the closer goroutine (wg.Wait; close(out)), the   *)
(* server that owns the batches, and the environment (the caller's         *)
(* context, Result.Close from any goroutine, loss of the server session).  *)
(*                                                                         *)
(* Data: batch 0 is what the server inlined in the PREPARE response,       *)
(* batches 1..LastBatch wait on the server; of a batch only its number and *)
(* its number of chunks are kept.                                          *)
(***************************************************************************)
EXTENDS Naturals, Sequences, FiniteSets

CONSTANTS
  Workers,     \* the fetch goroutines; their number is Config.FetchWorkers
  LastBatch,   \* number of batches the server holds back for FETCH
  BatchSize,   \* BatchSize[b] = number of chunks in batch b
  MaxPasses    \* bound: how often the caller ranges over the same Result

\* Config.withDefaults makes FetchWorkers at least 1; an empty FETCH answer
\* means "drained", so every batch the server hands out has a chunk in it.
ASSUME WorkersAssumption == IsFiniteSet(Workers) /\ Workers # {}
ASSUME BatchAssumption ==
  /\ LastBatch \in Nat
  /\ BatchSize \in [0..LastBatch -> Nat]
  /\ \A b \in 1..LastBatch : BatchSize[b] > 0
ASSUME PassesAssumption == MaxPasses \in Nat

VARIABLES
  next,        \* server: next batch to hand out (liveResult.next)
  session,     \* server: is the connection id still known
  orphans,     \* FETCH requests under way whose worker has given up on them
  phase,       \* consumer: where in Chunks it is
  outcome,     \* consumer: how the last pass over the result ended
  cur,         \* consumer: batch being yielded
  left,        \* consumer: chunks of cur (or of the inline batch) to yield
  out,         \* the channel from the workers to the consumer
  outClosed,   \* the closer has closed out
  done,        \* channel done is closed: some worker saw the result drained
  stop,        \* channel Result.stop is closed
  cancelled,   \* the caller's context is dead
  pc,          \* worker: control state
  hold,        \* worker: what it is about to send on out
  pass,        \* number of times Chunks has been started
  failed,      \* history: the passes in which a fetch failed under the caller
  delivered    \* history: chunks of each fetched batch the caller received

serverVars == <<next, session, orphans>>
consumerVars == <<phase, outcome, cur, left, pass>>
workerVars == <<pc, hold>>
vars == <<serverVars, consumerVars, workerVars, out, outClosed, done, stop,
          cancelled, failed, delivered>>

Fetchable == 1..LastBatch

\* batch{err: err}: the value of type batch that carries an error. Batch 0
\* never travels through out, so its number is free.
ErrBatch == 0

NeedsMoreFetch == LastBatch > 0

\* ctx inside Chunks is derived from the caller's context and cancelled by
\* the deferred cancel() when the iterator returns.
CtxDone == cancelled \/ phase = "returned"

Streaming == phase \in {"recv", "batch"}

Init ==
  /\ next = 1 /\ session = TRUE /\ orphans = 0
  /\ phase = "idle" /\ outcome = "none" /\ cur = 0 /\ left = 0 /\ pass = 0
  /\ out = <<>> /\ outClosed = FALSE /\ done = FALSE
  /\ stop = FALSE /\ cancelled = FALSE
  /\ pc = [w \in Workers |-> "off"]
  /\ hold = [w \in Workers |-> ErrBatch]
  /\ failed = {}
  /\ delivered = [b \in Fetchable |-> 0]

-----------------------------------------------------------------------------
(* The consumer. *)

Return(how) == phase' = "returned" /\ outcome' = how

\* The caller starts ranging over Chunks(ctx) with a live context. The
\* channels, the wait group and the worker goroutines are local to one pass.
\* A goroutine of an earlier pass that is still winding down can touch
\* nothing of the new pass except through its FETCH request, and that is in
\* orphans; so a new pass waits for their exit without loss of behaviours.
Chunks ==
  /\ phase \in {"idle", "returned"}
  /\ pass < MaxPasses
  /\ \A w \in Workers : pc[w] \in {"off", "exit"}
  /\ phase' = "inline" /\ outcome' = "none" /\ cur' = 0 /\ left' = BatchSize[0]
  /\ pass' = pass + 1
  /\ out' = <<>> /\ outClosed' = FALSE /\ done' = FALSE
  /\ cancelled' = FALSE
  /\ pc' = [w \in Workers |-> "off"]
  /\ hold' = [w \in Workers |-> ErrBatch]
  /\ UNCHANGED <<serverVars, stop, failed, delivered>>

\* yield(ch, nil) for an inline chunk; the loop body may break.
YieldInline ==
  /\ phase = "inline" /\ left > 0
  /\ left' = left - 1
  /\ \/ UNCHANGED <<phase, outcome>>
     \/ Return("break")
  /\ UNCHANGED <<serverVars, cur, pass, workerVars, out, outClosed, done, stop,
                 cancelled, failed, delivered>>

\* The inline chunks are out: nothing more to fetch, or start the workers.
\* Spawning is one step: a goroutine not yet spawned is one not yet scheduled.
InlineDone ==
  /\ phase = "inline" /\ left = 0
  /\ \/ /\ ~NeedsMoreFetch
        /\ Return("clean")
        /\ UNCHANGED pc
     \/ /\ NeedsMoreFetch
        /\ phase' = "recv"
        /\ pc' = [w \in Workers |-> "poll"]
        /\ UNCHANGED outcome
  /\ UNCHANGED <<serverVars, cur, left, pass, hold, out, outClosed, done, stop,
                 cancelled, failed, delivered>>

\* for b := range out, a batch of chunks.
RecvBatch ==
  /\ phase = "recv" /\ out # <<>> /\ Head(out) # ErrBatch
  /\ phase' = "batch"
  /\ cur' = Head(out)
  /\ left' = BatchSize[Head(out)]
  /\ out' = Tail(out)
  /\ UNCHANGED <<serverVars, outcome, pass, workerVars, outClosed, done, stop,
                 cancelled, failed, delivered>>

\* for b := range out, b.err # nil: yield(nil, b.err); return.
RecvError ==
  /\ phase = "recv" /\ out # <<>> /\ Head(out) = ErrBatch
  /\ out' = Tail(out)
  /\ Return("error")
  /\ UNCHANGED <<serverVars, cur, left, pass, workerVars, outClosed, done, stop,
                 cancelled, failed, delivered>>

\* Mutation of RecvClosed: the check of ctx.Err() after the loop is missing.
RecvClosedUnchecked ==
  /\ phase = "recv" /\ out = <<>> /\ outClosed
  /\ Return("clean")
  /\ UNCHANGED <<serverVars, cur, left, pass, workerVars, out, outClosed, done,
                 stop, cancelled, failed, delivered>>

\* out is closed and empty: the range loop ends; a dead context is reported.
RecvClosed ==
  /\ phase = "recv" /\ out = <<>> /\ outClosed
  /\ Return(IF cancelled THEN "error" ELSE "clean")
  /\ UNCHANGED <<serverVars, cur, left, pass, workerVars, out, outClosed, done,
                 stop, cancelled, failed, delivered>>

\* yield(ch, nil) for the next chunk of the batch; the loop body may break.
YieldBatch ==
  /\ phase = "batch"
  /\ delivered' = [delivered EXCEPT ![cur] = @ + 1]
  /\ left' = left - 1
  /\ \/ Return("break")
     \/ /\ phase' = IF left = 1 THEN "recv" ELSE "batch"
        /\ UNCHANGED outcome
  /\ UNCHANGED <<serverVars, cur, pass, workerVars, out, outClosed, done, stop,
                 cancelled, failed>>

Consumer ==
  \/ YieldInline \/ InlineDone
  \/ RecvBatch \/ RecvError \/ RecvClosed \/ YieldBatch

-----------------------------------------------------------------------------
(* A fetch worker. *)

unchangedByWorker == <<consumerVars, outClosed, stop, cancelled, delivered>>

\* Top of the loop: select over ctx.Done(), done and r.stop with a default.
Poll(w) ==
  /\ pc[w] = "poll"
  /\ pc' = [pc EXCEPT ![w] = IF CtxDone \/ done \/ stop THEN "exit" ELSE "request"]
  /\ UNCHANGED <<serverVars, hold, out, done, failed, unchangedByWorker>>

\* The fetch ends without a usable answer; the worker turns to reporting it.
ToError(w) ==
  /\ pc' = [pc EXCEPT ![w] = "send"]
  /\ hold' = [hold EXCEPT ![w] = ErrBatch]
  /\ failed' = IF phase = "returned" THEN failed ELSE failed \union {pass}

\* The POST fails: connection error, non-200 status, response lost. Seen from
\* the client nothing tells whether the server has popped a batch for it, or
\* still will: an unanswered request may live on as an orphan.
Lost(w) ==
  /\ pc[w] \in {"request", "answer", "drained"}
  /\ ToError(w)
  /\ orphans' \in IF pc[w] = "request" THEN {orphans, orphans + 1} ELSE {orphans}
  /\ UNCHANGED <<next, session, out, done, unchangedByWorker>>

FetchFails(w) == Lost(w)

\* http.Client.Do returns once the request's context is dead.
FetchAborted(w) == CtxDone /\ Lost(w)

\* The server no longer knows the connection id: ERROR_RESPONSE in HTTP 200.
FetchRefused(w) ==
  /\ pc[w] = "request" /\ ~session
  /\ ToError(w)
  /\ UNCHANGED <<serverVars, out, done, unchangedByWorker>>

\* DecodeFetch rejects the body of the answer.
DecodeFails(w) ==
  /\ pc[w] \in {"answer", "drained"}
  /\ ToError(w)
  /\ UNCHANGED <<serverVars, out, done, unchangedByWorker>>

\* Mutation of GotBatch: a batch that arrives after another worker has seen
\* the result drained is thrown away.
GotBatchUnlessDone(w) ==
  /\ pc[w] = "answer"
  /\ pc' = [pc EXCEPT ![w] = IF done THEN "exit" ELSE "send"]
  /\ UNCHANGED <<serverVars, hold, out, done, failed, unchangedByWorker>>

\* DecodeFetch returns chunks: offer them to the consumer.
GotBatch(w) ==
  /\ pc[w] = "answer"
  /\ pc' = [pc EXCEPT ![w] = "send"]
  /\ UNCHANGED <<serverVars, hold, out, done, failed, unchangedByWorker>>

\* No chunks: the result is drained; doneOnce closes done.
GotDrained(w) ==
  /\ pc[w] = "drained"
  /\ done' = TRUE
  /\ pc' = [pc EXCEPT ![w] = "exit"]
  /\ UNCHANGED <<serverVars, hold, out, failed, unchangedByWorker>>

\* Mutation of Send: the channel has no capacity limit.
SendUnbounded(w) ==
  /\ pc[w] = "send"
  /\ out' = Append(out, hold[w])
  /\ pc' = [pc EXCEPT ![w] = IF hold[w] = ErrBatch THEN "exit" ELSE "poll"]
  /\ UNCHANGED <<serverVars, hold, done, failed, unchangedByWorker>>

\* Mutation of Send: the worker offers the same batch again.
SendAgain(w) ==
  /\ pc[w] = "send" /\ Len(out) < Cardinality(Workers)
  /\ out' = Append(out, hold[w])
  /\ pc' = [pc EXCEPT ![w] = IF hold[w] = ErrBatch THEN "exit" ELSE "send"]
  /\ UNCHANGED <<serverVars, hold, done, failed, unchangedByWorker>>

\* select case out <- batch: the channel holds as many values as there are
\* workers. A worker that reported an error returns, the others loop.
Send(w) ==
  /\ pc[w] = "send" /\ Len(out) < Cardinality(Workers)
  /\ out' = Append(out, hold[w])
  /\ pc' = [pc EXCEPT ![w] = IF hold[w] = ErrBatch THEN "exit" ELSE "poll"]
  /\ UNCHANGED <<serverVars, hold, done, failed, unchangedByWorker>>

\* Mutation of SendDropped: the select of a send also listens to done.
SendDroppedWhenDone(w) ==
  /\ pc[w] = "send" /\ (CtxDone \/ done)
  /\ pc' = [pc EXCEPT ![w] = "exit"]
  /\ UNCHANGED <<serverVars, hold, out, done, failed, unchangedByWorker>>

\* Mutation of SendDropped: the send is a plain out <- batch, no select.
SendNeverDropped(w) ==
  /\ FALSE
  /\ UNCHANGED vars

\* select case <-ctx.Done(): what the worker held is dropped.
SendDropped(w) ==
  /\ pc[w] = "send" /\ CtxDone
  /\ pc' = [pc EXCEPT ![w] = "exit"]
  /\ UNCHANGED <<serverVars, hold, out, done, failed, unchangedByWorker>>

\* The steps a worker can take without the server's help.
WorkerStep(w) ==
  \/ Poll(w) \/ FetchAborted(w) \/ DecodeFails(w) \/ GotBatch(w)
  \/ GotDrained(w) \/ Send(w) \/ SendDropped(w)

\* Mutation of CloseOut: the closer waits for done instead of the workers.
CloseOutWhenDone ==
  /\ done
  /\ ~outClosed
  /\ outClosed' = TRUE
  /\ UNCHANGED <<serverVars, consumerVars, workerVars, out, done, stop,
                 cancelled, failed, delivered>>

\* go func() { wg.Wait(); close(out) }()
CloseOut ==
  /\ \A w \in Workers : pc[w] = "exit"
  /\ ~outClosed
  /\ outClosed' = TRUE
  /\ UNCHANGED <<serverVars, consumerVars, workerVars, out, done, stop,
                 cancelled, failed, delivered>>

-----------------------------------------------------------------------------
(* The server: a FETCH pops the next batch before the client sees it. *)

\* Mutation of PopNext: the cursor also moves past the last batch.
PopNextPastEnd == next' = next + 1

\* Mutation of PopNext: the batch is handed out but not popped.
PopNextPeek == UNCHANGED next

PopNext == next' = IF next <= LastBatch THEN next + 1 ELSE next

ServeFetch(w) ==
  /\ pc[w] = "request" /\ session
  /\ PopNext
  /\ pc' = [pc EXCEPT ![w] = IF next <= LastBatch THEN "answer" ELSE "drained"]
  /\ hold' = [hold EXCEPT ![w] = IF next <= LastBatch THEN next ELSE ErrBatch]
  /\ UNCHANGED <<session, orphans, out, done, failed, unchangedByWorker>>

\* A request whose worker gave up reaches the server after all.
ServeOrphan ==
  /\ orphans > 0 /\ session
  /\ orphans' = orphans - 1
  /\ PopNext
  /\ UNCHANGED <<session, consumerVars, workerVars, out, outClosed, done, stop,
                 cancelled, failed, delivered>>

\* The server forgets the connection (restart, out-of-band disconnect).
ExpireConnections ==
  /\ session /\ session' = FALSE
  /\ UNCHANGED <<next, orphans, consumerVars, workerVars, out, outClosed, done,
                 stop, cancelled, failed, delivered>>

-----------------------------------------------------------------------------
(* The caller's other goroutines. *)

\* Result.Close: stopOnce closes stop, for this and every later pass.
Close ==
  /\ stop' = TRUE
  /\ UNCHANGED <<serverVars, consumerVars, workerVars, out, outClosed, done,
                 cancelled, failed, delivered>>

CancelCtx ==
  /\ phase \in {"inline", "recv", "batch"} /\ ~cancelled
  /\ cancelled' = TRUE
  /\ UNCHANGED <<serverVars, consumerVars, workerVars, out, outClosed, done,
                 stop, failed, delivered>>

-----------------------------------------------------------------------------

Next ==
  \/ Chunks \/ Consumer \/ CloseOut
  \/ \E w \in Workers : WorkerStep(w) \/ FetchFails(w) \/ FetchRefused(w) \/ ServeFetch(w)
  \/ ServeOrphan \/ ExpireConnections \/ Close \/ CancelCtx

Spec == Init /\ [][Next]_vars

\* Goroutines that can run do run; nothing is assumed of the server, of the
\* network or of the caller.
ClientFairness ==
  /\ \A w \in Workers : WF_vars(WorkerStep(w))
  /\ WF_vars(CloseOut)

\* The server answers every request it receives, and the caller keeps asking
\* for the next chunk.
Responsive ==
  /\ \A w \in Workers : WF_vars(ServeFetch(w)) /\ WF_vars(FetchRefused(w))
  /\ WF_vars(Consumer)

ClientSpec == Spec /\ ClientFairness

-----------------------------------------------------------------------------
(* What one Result promises its caller. *)

TypeOK ==
  /\ next \in 1..(LastBatch + 1) /\ session \in BOOLEAN /\ orphans \in Nat
  /\ phase \in {"idle", "inline", "recv", "batch", "returned"}
  /\ outcome \in {"none", "clean", "error", "break"}
  /\ cur \in 0..LastBatch /\ left \in Nat /\ pass \in 0..MaxPasses
  /\ out \in Seq(0..LastBatch)
  /\ outClosed \in BOOLEAN /\ done \in BOOLEAN
  /\ stop \in BOOLEAN /\ cancelled \in BOOLEAN
  /\ pc \in [Workers -> {"off", "poll", "request", "answer", "drained", "send", "exit"}]
  /\ hold \in [Workers -> 0..LastBatch]
  /\ failed \subseteq 1..MaxPasses
  /\ delivered \in [Fetchable -> Nat]

Complete == \A b \in Fetchable : delivered[b] = BatchSize[b]
EndedClean == phase = "returned" /\ outcome = "clean"

\* A first pass that ends without an error, on a Result nobody closed, has
\* delivered every chunk of every batch, whatever the workers raced on.
CleanEndComplete == EndedClean /\ pass = 1 /\ ~stop => Complete

\* A fetch or decode failure of any worker is never swallowed: the pass it
\* happened in does not end as if the stream had been read to its end.
ErrorSurfaces == EndedClean => pass \notin failed

\* No chunk of a fetched batch reaches the caller twice, over all passes.
DeliveredOnce == \A b \in Fetchable : delivered[b] <= BatchSize[b]

\* Worker w is the one that has batch hold[w].
Holds(w) == pc[w] \in {"answer", "send"} /\ hold[w] # ErrBatch

\* Batch b has left the server and is on its way to the caller.
InTransit(b) ==
  \/ phase = "batch" /\ cur = b
  \/ \E i \in DOMAIN out : out[i] = b
  \/ \E w \in Workers : Holds(w) /\ hold[w] = b

\* The batch a worker holds is nobody else's and untouched.
HeldOnce ==
  \A w \in Workers : Holds(w) =>
    /\ hold[w] < next /\ delivered[hold[w]] = 0
    /\ \A v \in Workers : Holds(v) /\ hold[v] = hold[w] => v = w

\* The same of a batch in the channel.
QueuedOnce ==
  \A i \in DOMAIN out : out[i] # ErrBatch =>
    /\ out[i] < next /\ delivered[out[i]] = 0
    /\ \A j \in DOMAIN out : out[j] = out[i] => j = i
    /\ \A w \in Workers : Holds(w) => hold[w] # out[i]

\* The same of the batch the caller ranges over, up to where it has come.
ReadOnce ==
  phase = "batch" =>
    /\ cur \in Fetchable /\ cur < next /\ left > 0
    /\ delivered[cur] + left = BatchSize[cur]
    /\ \A i \in DOMAIN out : out[i] # cur
    /\ \A w \in Workers : Holds(w) => hold[w] # cur

\* A popped batch is in exactly one place, untouched until the caller ranges
\* over it: two workers never hold the same one, nor does the channel.
Custody == HeldOnce /\ QueuedOnce /\ ReadOnce

\* While a first pass runs undisturbed, every batch the server has given up
\* is delivered in full or still on its way: none is lost between goroutines.
Accounted ==
  Streaming /\ pass = 1 /\ ~cancelled /\ pass \notin failed =>
    \A b \in Fetchable : b < next => delivered[b] = BatchSize[b] \/ InTransit(b)

\* Back pressure: however slow the caller is, the client holds at most one
\* batch per worker, one per place in the channel, and the one being read.
BoundedBuffering ==
  Cardinality({b \in Fetchable : InTransit(b)}) <= 2 * Cardinality(Workers) + 1

\* With a server that answers and a caller that keeps ranging, every pass
\* comes to an end.
StreamTerminates == Responsive => (phase = "recv" ~> phase = "returned")

\* However the iterator was left, and even if the server never answers
\* again, all goroutines it started exit.
NoGoroutineLeak ==
  phase = "returned" ~> \A w \in Workers : pc[w] \in {"off", "exit"}

\* duckcall.go:85-87: a failed fetch is surfaced "never as a silently short
\* result", taken for every pass over the Result.
NeverSilentlyShort == EndedClean /\ failed # {} /\ ~stop => Complete

-----------------------------------------------------------------------------
(* Refinement: the workers, channels and requests implement the contract.  *)

status ==
  CASE phase = "idle" -> "idle"
    [] phase = "returned" -> outcome
    [] OTHER -> "open"

Contract == INSTANCE ResultContract WITH
  Size <- [b \in Fetchable |-> BatchSize[b]], closed <- stop

\* Every behaviour of the streaming code is one the contract of a Result
\* allows: delivery in full or an error, unless Close or a second pass.
ImplementsContract == Contract!Spec

=============================================================================
