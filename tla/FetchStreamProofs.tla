--------------------------- MODULE FetchStreamProofs ---------------------------
(* Proofs about FetchStream, for any number of workers, batches and passes. *)
EXTENDS FetchStream, TLAPS, FiniteSetTheorems

-----------------------------------------------------------------------------
(* The inductive invariant. *)

\* The consumer's phase fixes what the rest of the pass can look like.
PhaseShape ==
  /\ phase = "idle" => pass = 0
  /\ phase # "idle" => pass > 0
  /\ phase \in {"idle", "inline"} =>
        /\ out = <<>> /\ ~outClosed /\ ~done
        /\ \A w \in Workers : pc[w] = "off"
        /\ pass <= 1 => next = 1 /\ orphans = 0
  /\ phase = "inline" => pass \notin failed
  /\ Streaming => \A w \in Workers : pc[w] # "off"
  /\ phase = "returned" => outcome # "none"
  /\ EndedClean => \A w \in Workers : pc[w] \in {"off", "exit"}
  /\ outClosed => \A w \in Workers : pc[w] = "exit"
  /\ \A p \in failed : p <= pass

\* A worker with an answer has one of the batches.
Answered == \A w \in Workers : pc[w] = "answer" => hold[w] \in Fetchable

\* Only a popped batch has been delivered from.
Untouched == \A b \in Fetchable : b >= next => delivered[b] = 0

\* A failure the caller has not seen yet is in the channel or on its way.
Reported ==
  Streaming /\ ~cancelled /\ pass \in failed =>
    \/ \E i \in DOMAIN out : out[i] = ErrBatch
    \/ \E w \in Workers : pc[w] = "send" /\ hold[w] = ErrBatch

\* A worker reports an error only after a failure of this pass.
ErrorsAreFailures ==
  Streaming => \A w \in Workers : pc[w] = "send" /\ hold[w] = ErrBatch => pass \in failed

\* A worker of an undisturbed pass leaves only once the result is drained.
LeavesDrained ==
  Streaming /\ ~cancelled /\ ~stop /\ pass \notin failed =>
    \A w \in Workers : pc[w] = "exit" => done

\* What the workers take for the end of the result is its end.
DrainedAtEnd ==
  /\ done => next = LastBatch + 1
  /\ \A w \in Workers : pc[w] = "drained" => next = LastBatch + 1

\* A request lives on without its worker only after a failure.
OrphansFromFailure == Streaming /\ pass = 1 /\ orphans > 0 => pass \in failed

IInv ==
  /\ TypeOK /\ PhaseShape /\ Answered /\ Untouched /\ Reported /\ ErrorsAreFailures
  /\ LeavesDrained /\ DrainedAtEnd /\ OrphansFromFailure
  /\ Custody /\ Accounted
  /\ DeliveredOnce /\ ErrorSurfaces /\ CleanEndComplete

-----------------------------------------------------------------------------
USE DEF Fetchable, ErrBatch, Streaming, EndedClean, Holds,
        serverVars, consumerVars, workerVars, unchangedByWorker

\* What receiving from the channel takes away, and what sending adds.
LEMMA TailFacts ==
  ASSUME NEW S, NEW s \in Seq(S), s # <<>>
  PROVE  /\ Head(s) \in S /\ Head(s) = s[1] /\ 1 \in DOMAIN s
         /\ Tail(s) \in Seq(S)
         /\ \A i \in DOMAIN Tail(s) : i + 1 \in DOMAIN s /\ Tail(s)[i] = s[i + 1] /\ i # 0
         /\ \A i \in DOMAIN s : i # 1 => i - 1 \in DOMAIN Tail(s) /\ Tail(s)[i - 1] = s[i]
  OBVIOUS

LEMMA AppendFacts ==
  ASSUME NEW S, NEW s \in Seq(S), NEW e \in S
  PROVE  /\ Append(s, e) \in Seq(S)
         /\ Len(s) + 1 \in DOMAIN Append(s, e)
         /\ Len(s) + 1 \notin DOMAIN s
         /\ Append(s, e)[Len(s) + 1] = e
         /\ \A i \in DOMAIN s : i \in DOMAIN Append(s, e) /\ Append(s, e)[i] = s[i]
         /\ \A i \in DOMAIN Append(s, e) : i = Len(s) + 1 \/ i \in DOMAIN s
  OBVIOUS

LEMMA QueueElements ==
  ASSUME TypeOK
  PROVE  \A i \in DOMAIN out : out[i] \in 0..LastBatch /\ out[i] \in Nat
<1>1. ASSUME NEW S, NEW s \in Seq(S) PROVE \A i \in DOMAIN s : s[i] \in S
  OBVIOUS
<1>2. out \in Seq(0..LastBatch)
  BY DEF TypeOK
<1>3. \A i \in DOMAIN out : out[i] \in 0..LastBatch
  BY <1>1, <1>2
<1>. QED BY <1>3

\* A worker that runs belongs to a pass under way or just ended.
LEMMA RunningPass ==
  ASSUME TypeOK, PhaseShape, NEW w \in Workers, pc[w] \notin {"off"}
  PROVE  phase \in {"recv", "batch", "returned"} /\ pass \in 1..MaxPasses
  BY PassesAssumption DEF TypeOK, PhaseShape

-----------------------------------------------------------------------------
(* The consumer's steps. *)

LEMMA InitIInv == Init => IInv
<1>. SUFFICES ASSUME Init PROVE IInv
  OBVIOUS
<1>1. TypeOK
  <2>1. next \in 1..(LastBatch + 1) /\ cur \in 0..LastBatch /\ left \in Nat /\ orphans \in Nat
    BY BatchAssumption DEF Init
  <2>2. hold \in [Workers -> 0..LastBatch] /\ out \in Seq(0..LastBatch) /\ pass \in 0..MaxPasses
    BY BatchAssumption, PassesAssumption DEF Init
  <2>. QED BY <2>1, <2>2 DEF Init, TypeOK
<1>2. PhaseShape /\ Answered /\ ErrorsAreFailures /\ Untouched /\ Reported /\ LeavesDrained
  BY DEF Init, PhaseShape, Answered, ErrorsAreFailures, Untouched, Reported, LeavesDrained
<1>3. DrainedAtEnd /\ OrphansFromFailure /\ Custody /\ Accounted
  BY DEF Init, DrainedAtEnd, OrphansFromFailure, Custody, HeldOnce, QueuedOnce,
         ReadOnce, Accounted
<1>4. DeliveredOnce /\ ErrorSurfaces /\ CleanEndComplete
  BY BatchAssumption DEF Init, DeliveredOnce, ErrorSurfaces, CleanEndComplete
<1>. QED BY <1>1, <1>2, <1>3, <1>4 DEF IInv

\* A new pass starts from nothing; only what was delivered carries over.
LEMMA ChunksStep == ASSUME IInv, Chunks PROVE IInv'
<1>1. TypeOK'
  <2>1. BatchSize[0] \in Nat
    BY BatchAssumption
  <2>2. pass' \in 0..MaxPasses
    BY PassesAssumption DEF IInv, TypeOK, Chunks
  <2>3. out' \in Seq(0..LastBatch) /\ cur' \in 0..LastBatch /\ hold' \in [Workers -> 0..LastBatch]
    BY BatchAssumption DEF Chunks
  <2>. QED BY <2>1, <2>2, <2>3 DEF IInv, TypeOK, Chunks
<1>2. PhaseShape'
  BY PassesAssumption DEF IInv, TypeOK, PhaseShape, Chunks
<1>3. Answered' /\ ErrorsAreFailures' /\ Untouched' /\ Reported' /\ LeavesDrained'
  BY DEF IInv, Answered, ErrorsAreFailures, Untouched, Reported, LeavesDrained, Chunks
<1>4. DrainedAtEnd' /\ OrphansFromFailure' /\ Custody' /\ Accounted'
  BY DEF IInv, DrainedAtEnd, OrphansFromFailure, Custody, HeldOnce, QueuedOnce,
         ReadOnce, Accounted, Chunks
<1>5. DeliveredOnce' /\ ErrorSurfaces' /\ CleanEndComplete'
  BY DEF IInv, DeliveredOnce, ErrorSurfaces, CleanEndComplete, Chunks
<1>. QED BY <1>1, <1>2, <1>3, <1>4, <1>5 DEF IInv

LEMMA YieldInlineStep == ASSUME IInv, YieldInline PROVE IInv'
<1>1. TypeOK' /\ PhaseShape'
  BY DEF IInv, TypeOK, PhaseShape, YieldInline, Return
<1>2. Answered' /\ ErrorsAreFailures' /\ Untouched' /\ Reported' /\ LeavesDrained' /\ DrainedAtEnd' /\ OrphansFromFailure'
  BY DEF IInv, Answered, ErrorsAreFailures, Untouched, Reported, LeavesDrained, DrainedAtEnd,
         OrphansFromFailure, YieldInline, Return
<1>3. Custody' /\ Accounted'
  BY DEF IInv, Custody, HeldOnce, QueuedOnce, ReadOnce, Accounted, YieldInline, Return
<1>4. DeliveredOnce' /\ ErrorSurfaces' /\ CleanEndComplete'
  BY DEF IInv, DeliveredOnce, ErrorSurfaces, CleanEndComplete, YieldInline, Return
<1>. QED BY <1>1, <1>2, <1>3, <1>4 DEF IInv

LEMMA InlineDoneStep == ASSUME IInv, InlineDone PROVE IInv'
<1>. USE DEF InlineDone, Return, NeedsMoreFetch
<1>1. TypeOK'
  BY DEF IInv, TypeOK
<1>2. PhaseShape'
  BY DEF IInv, PhaseShape
<1>3. Answered' /\ ErrorsAreFailures' /\ Untouched' /\ DrainedAtEnd'
  BY DEF IInv, Answered, ErrorsAreFailures, Untouched, DrainedAtEnd, PhaseShape
<1>4. Reported' /\ LeavesDrained' /\ OrphansFromFailure'
  BY DEF IInv, Reported, LeavesDrained, OrphansFromFailure, PhaseShape
<1>5. Custody'
  BY DEF IInv, Custody, HeldOnce, QueuedOnce, ReadOnce, PhaseShape
<1>6. Accounted'
  BY BatchAssumption DEF IInv, Accounted, PhaseShape
<1>7. DeliveredOnce' /\ ErrorSurfaces'
  BY DEF IInv, DeliveredOnce, ErrorSurfaces, PhaseShape
<1>8. CleanEndComplete'
  BY BatchAssumption DEF IInv, CleanEndComplete, Complete
<1>. QED BY <1>1, <1>2, <1>3, <1>4, <1>5, <1>6, <1>7, <1>8 DEF IInv

\* The batch moves from the head of the channel to the caller.
LEMMA RecvBatchStep == ASSUME IInv, RecvBatch PROVE IInv'
<1>. DEFINE h == Head(out)
<1>1. /\ h \in 1..LastBatch /\ h = out[1] /\ 1 \in DOMAIN out
      /\ Tail(out) \in Seq(0..LastBatch)
      /\ \A i \in DOMAIN Tail(out) : i + 1 \in DOMAIN out /\ Tail(out)[i] = out[i + 1] /\ i # 0
      /\ \A i \in DOMAIN out : i # 1 => i - 1 \in DOMAIN Tail(out) /\ Tail(out)[i - 1] = out[i]
  <2>1. out \in Seq(0..LastBatch) /\ out # <<>> /\ h # 0
    BY DEF IInv, TypeOK, RecvBatch
  <2>. HIDE DEF h
  <2>2. h \in 0..LastBatch => h \in 1..LastBatch
    BY <2>1, BatchAssumption
  <2>. QED BY <2>1, <2>2, TailFacts DEF h
<1>2. /\ phase = "recv" /\ phase' = "batch" /\ cur' = h /\ left' = BatchSize[h] /\ out' = Tail(out)
      /\ UNCHANGED <<serverVars, outcome, pass, workerVars, outClosed, done, stop,
                     cancelled, failed, delivered>>
  BY DEF RecvBatch
<1>3. BatchSize[h] \in Nat /\ BatchSize[h] > 0
  BY <1>1, BatchAssumption
<1>. HIDE DEF h
<1>4. TypeOK'
  BY <1>1, <1>2, <1>3 DEF IInv, TypeOK
<1>5. PhaseShape' /\ Answered' /\ ErrorsAreFailures' /\ Untouched' /\ LeavesDrained' /\ DrainedAtEnd' /\ OrphansFromFailure'
  BY <1>2 DEF IInv, PhaseShape, Answered, ErrorsAreFailures, Untouched, LeavesDrained, DrainedAtEnd,
         OrphansFromFailure
<1>6. Reported'
  <2>. SUFFICES ASSUME ~cancelled, pass \in failed
                PROVE  \/ \E i \in DOMAIN Tail(out) : Tail(out)[i] = ErrBatch
                       \/ \E w \in Workers : pc[w] = "send" /\ hold[w] = ErrBatch
    BY <1>2 DEF Reported
  <2>1. ASSUME NEW i \in DOMAIN out, out[i] = ErrBatch
        PROVE  i - 1 \in DOMAIN Tail(out) /\ Tail(out)[i - 1] = ErrBatch
    BY <2>1, <1>1
  <2>. QED BY <1>2, <2>1 DEF IInv, Reported
<1>7. HeldOnce'
  BY <1>2 DEF IInv, Custody, HeldOnce
<1>8. QueuedOnce'
  BY <1>1, <1>2 DEF IInv, Custody, QueuedOnce, TypeOK
<1>9. ReadOnce'
  <2>1. h < next /\ delivered[h] = 0 /\ \A w \in Workers : Holds(w) => hold[w] # h
    BY <1>1 DEF IInv, Custody, QueuedOnce
  <2>2. \A i \in DOMAIN Tail(out) : Tail(out)[i] # h
    BY <1>1 DEF IInv, Custody, QueuedOnce, TypeOK
  <2>. QED BY <1>1, <1>2, <1>3, <2>1, <2>2 DEF ReadOnce
<1>10. Accounted'
  <2>. SUFFICES ASSUME pass = 1, ~cancelled, pass \notin failed,
                       NEW b \in Fetchable, b < next, delivered[b] # BatchSize[b]
                PROVE  InTransit(b)'
    BY <1>2 DEF Accounted
  <2>1. InTransit(b)
    BY <1>2 DEF IInv, Accounted
  <2>2. CASE \E i \in DOMAIN out : out[i] = b
    BY <2>2, <1>1, <1>2 DEF InTransit
  <2>3. CASE \E w \in Workers : Holds(w) /\ hold[w] = b
    BY <2>3, <1>2 DEF InTransit
  <2>. QED BY <1>2, <2>1, <2>2, <2>3 DEF InTransit
<1>11. DeliveredOnce' /\ ErrorSurfaces' /\ CleanEndComplete'
  BY <1>2 DEF IInv, DeliveredOnce, ErrorSurfaces, CleanEndComplete
<1>. QED BY <1>4, <1>5, <1>6, <1>7, <1>8, <1>9, <1>10, <1>11 DEF IInv, Custody

LEMMA RecvErrorStep == ASSUME IInv, RecvError PROVE IInv'
<1>1. /\ Tail(out) \in Seq(0..LastBatch)
      /\ \A i \in DOMAIN Tail(out) : i + 1 \in DOMAIN out /\ Tail(out)[i] = out[i + 1]
  BY TailFacts DEF IInv, TypeOK, RecvError
<1>2. /\ phase' = "returned" /\ outcome' = "error" /\ out' = Tail(out) /\ phase = "recv"
      /\ UNCHANGED <<serverVars, cur, left, pass, workerVars, outClosed, done, stop,
                     cancelled, failed, delivered>>
  BY DEF RecvError, Return
<1>3. TypeOK' /\ PhaseShape'
  BY <1>1, <1>2 DEF IInv, TypeOK, PhaseShape
<1>4. Answered' /\ ErrorsAreFailures' /\ Untouched' /\ Reported' /\ LeavesDrained' /\ DrainedAtEnd' /\ OrphansFromFailure'
  BY <1>2 DEF IInv, Answered, ErrorsAreFailures, Untouched, Reported, LeavesDrained, DrainedAtEnd,
         OrphansFromFailure
<1>5. HeldOnce' /\ ReadOnce' /\ Accounted'
  BY <1>2 DEF IInv, Custody, HeldOnce, ReadOnce, Accounted
<1>6. QueuedOnce'
  BY <1>1, <1>2 DEF IInv, Custody, QueuedOnce, TypeOK
<1>7. DeliveredOnce' /\ ErrorSurfaces' /\ CleanEndComplete'
  BY <1>2 DEF IInv, DeliveredOnce, ErrorSurfaces, CleanEndComplete
<1>. QED BY <1>3, <1>4, <1>5, <1>6, <1>7 DEF IInv, Custody

\* The argument of the module: out is closed, so all workers have left; no
\* error is queued or held, so none failed; so they left because the result
\* was drained, all batches are popped, and none is still on its way.
LEMMA RecvClosedStep == ASSUME IInv, RecvClosed PROVE IInv'
<1>. USE DEF RecvClosed, Return
<1>1. TypeOK' /\ PhaseShape'
  BY DEF IInv, TypeOK, PhaseShape
<1>2. Answered' /\ ErrorsAreFailures' /\ Untouched' /\ Reported' /\ LeavesDrained' /\ DrainedAtEnd' /\ OrphansFromFailure'
  BY DEF IInv, Answered, ErrorsAreFailures, Untouched, Reported, LeavesDrained, DrainedAtEnd,
         OrphansFromFailure
<1>3. Custody' /\ Accounted' /\ DeliveredOnce'
  BY DEF IInv, Custody, HeldOnce, QueuedOnce, ReadOnce, Accounted, DeliveredOnce
<1>4. \A w \in Workers : pc[w] = "exit"
  BY DEF IInv, PhaseShape
<1>5. ~cancelled => pass \notin failed
  BY <1>4 DEF IInv, Reported
<1>6. ErrorSurfaces'
  BY <1>5 DEF ErrorSurfaces
<1>7. CleanEndComplete'
  <2>. SUFFICES ASSUME pass = 1, ~stop, ~cancelled PROVE Complete
    BY DEF CleanEndComplete, Complete
  <2>1. done
    BY <1>4, <1>5, WorkersAssumption DEF IInv, LeavesDrained
  <2>2. next = LastBatch + 1
    BY <2>1 DEF IInv, DrainedAtEnd
  <2>3. \A b \in Fetchable : b < next => delivered[b] = BatchSize[b] \/ InTransit(b)
    BY <1>5 DEF IInv, Accounted
  <2>4. \A b \in Fetchable : ~InTransit(b)
    BY <1>4 DEF InTransit
  <2>. QED BY <2>2, <2>3, <2>4, BatchAssumption DEF Complete
<1>. QED BY <1>1, <1>2, <1>3, <1>6, <1>7 DEF IInv

\* One more chunk of the batch the caller ranges over; nobody else has it.
LEMMA YieldBatchStep == ASSUME IInv, YieldBatch PROVE IInv'
<1>1. /\ cur \in Fetchable /\ cur < next /\ left \in Nat /\ left > 0
      /\ delivered \in [Fetchable -> Nat] /\ delivered[cur] + left = BatchSize[cur]
  BY DEF IInv, Custody, ReadOnce, TypeOK, YieldBatch
<1>2. /\ phase = "batch" /\ left' = left - 1
      /\ delivered' = [delivered EXCEPT ![cur] = @ + 1]
      /\ \/ phase' = "returned" /\ outcome' = "break"
         \/ phase' = (IF left = 1 THEN "recv" ELSE "batch") /\ outcome' = outcome
      /\ UNCHANGED <<serverVars, cur, pass, workerVars, out, outClosed, done, stop,
                     cancelled, failed>>
  BY DEF YieldBatch, Return
<1>3. /\ delivered' \in [Fetchable -> Nat] /\ left' \in Nat
      /\ delivered'[cur] = delivered[cur] + 1
      /\ \A b \in Fetchable : b # cur => delivered'[b] = delivered[b]
  BY <1>1, <1>2
<1>4. TypeOK'
  BY <1>2, <1>3 DEF IInv, TypeOK
<1>5. PhaseShape' /\ Answered' /\ ErrorsAreFailures' /\ Reported' /\ LeavesDrained' /\ DrainedAtEnd' /\ OrphansFromFailure'
  BY <1>2 DEF IInv, PhaseShape, Answered, ErrorsAreFailures, Reported, LeavesDrained, DrainedAtEnd,
         OrphansFromFailure
<1>6. Untouched'
  BY <1>1, <1>2, <1>3 DEF IInv, Untouched, TypeOK
<1>7. HeldOnce'
  BY <1>2, <1>3 DEF IInv, Custody, HeldOnce, ReadOnce, TypeOK
<1>8. QueuedOnce'
  <2>1. \A i \in DOMAIN out : out[i] \in 0..LastBatch /\ out[i] # cur
    BY <1>2, QueueElements DEF IInv, Custody, ReadOnce
  <2>2. \A i \in DOMAIN out : out[i] # ErrBatch => delivered'[out[i]] = delivered[out[i]]
    BY <1>3, <2>1, BatchAssumption
  <2>. QED BY <1>2, <2>2 DEF IInv, Custody, QueuedOnce
<1>9. ReadOnce'
  <2>1. CASE phase' = "batch"
    <3>1. left' > 0 /\ delivered'[cur] + left' = BatchSize[cur]
      BY <1>1, <1>2, <1>3, <2>1
    <3>. QED BY <1>1, <1>2, <3>1 DEF IInv, Custody, ReadOnce
  <2>. QED BY <2>1 DEF ReadOnce
<1>10. Accounted'
  <2>. SUFFICES ASSUME Streaming', pass = 1, ~cancelled, pass \notin failed,
                       NEW b \in Fetchable, b < next, delivered'[b] # BatchSize[b]
                PROVE  InTransit(b)'
    BY <1>2 DEF Accounted
  <2>1. CASE b = cur
    <3>1. left # 1
      BY <1>1, <1>3, <2>1
    <3>. QED BY <1>2, <2>1, <3>1 DEF InTransit
  <2>2. CASE b # cur
    <3>1. delivered[b] # BatchSize[b]
      BY <1>3, <2>2
    <3>2. InTransit(b)
      BY <1>2, <3>1 DEF IInv, Accounted
    <3>. QED BY <1>2, <2>2, <3>2 DEF InTransit
  <2>. QED BY <2>1, <2>2
<1>11. DeliveredOnce'
  <2>1. delivered'[cur] <= BatchSize[cur]
    BY <1>1, <1>3
  <2>2. \A b \in Fetchable : b # cur => delivered'[b] <= BatchSize[b]
    BY <1>3 DEF IInv, DeliveredOnce
  <2>. QED BY <2>1, <2>2 DEF DeliveredOnce
<1>12. ErrorSurfaces' /\ CleanEndComplete'
  BY <1>2 DEF IInv, ErrorSurfaces, CleanEndComplete, PhaseShape
<1>. QED BY <1>4, <1>5, <1>6, <1>7, <1>8, <1>9, <1>10, <1>11, <1>12 DEF IInv, Custody

-----------------------------------------------------------------------------
(* The workers' steps. *)

LEMMA PollStep == ASSUME IInv, NEW w \in Workers, Poll(w) PROVE IInv'
<1>. USE DEF Poll, CtxDone
<1>1. TypeOK' /\ PhaseShape'
  BY DEF IInv, TypeOK, PhaseShape
<1>2. Answered' /\ ErrorsAreFailures' /\ Untouched' /\ DrainedAtEnd' /\ OrphansFromFailure'
  BY DEF IInv, TypeOK, Answered, ErrorsAreFailures, Untouched, DrainedAtEnd, OrphansFromFailure
<1>3. Reported' /\ LeavesDrained'
  BY DEF IInv, TypeOK, Reported, LeavesDrained
<1>4. Custody'
  BY DEF IInv, TypeOK, Custody, HeldOnce, QueuedOnce, ReadOnce
<1>5. Accounted'
  BY DEF IInv, TypeOK, Accounted, InTransit
<1>6. DeliveredOnce' /\ ErrorSurfaces' /\ CleanEndComplete'
  BY DEF IInv, DeliveredOnce, ErrorSurfaces, CleanEndComplete, Complete
<1>. QED BY <1>1, <1>2, <1>3, <1>4, <1>5, <1>6 DEF IInv

\* A failed fetch puts an error in the worker's hands, whatever it had.
LEMMA ToErrorStep ==
  ASSUME IInv, NEW w \in Workers, pc[w] \in {"request", "answer", "drained"}, ToError(w),
         orphans' \in Nat, UNCHANGED <<next, session, out, done, unchangedByWorker>>
  PROVE  IInv'
<1>1. /\ phase \in {"recv", "batch", "returned"} /\ pass \in 1..MaxPasses
      /\ ~EndedClean /\ ~outClosed
  BY RunningPass DEF IInv, PhaseShape
<1>2. /\ pc' = [pc EXCEPT ![w] = "send"] /\ hold' = [hold EXCEPT ![w] = ErrBatch]
      /\ phase # "returned" => failed' = failed \union {pass}
      /\ phase = "returned" => failed' = failed
      /\ phase' = phase /\ pass' = pass /\ outcome' = outcome
  BY DEF ToError
<1>3. TypeOK'
  <2>1. failed' \subseteq 1..MaxPasses
    BY <1>1, <1>2 DEF IInv, TypeOK
  <2>2. hold' \in [Workers -> 0..LastBatch]
    BY <1>2, BatchAssumption DEF IInv, TypeOK
  <2>. QED BY <1>2, <2>1, <2>2 DEF IInv, TypeOK
<1>4. PhaseShape'
  <2>1. \A p \in failed' : p <= pass
    BY <1>1, <1>2 DEF IInv, PhaseShape
  <2>2. Streaming => \A v \in Workers : pc'[v] # "off"
    BY <1>2 DEF IInv, TypeOK, PhaseShape
  <2>. QED BY <1>1, <1>2, <2>1, <2>2 DEF IInv, PhaseShape
<1>5. Answered' /\ ErrorsAreFailures' /\ Untouched' /\ DrainedAtEnd'
  BY <1>2 DEF IInv, TypeOK, Answered, ErrorsAreFailures, Untouched, DrainedAtEnd
<1>6. Reported' /\ LeavesDrained' /\ OrphansFromFailure'
  BY <1>1, <1>2 DEF IInv, TypeOK, Reported, LeavesDrained, OrphansFromFailure
<1>7. Custody'
  BY <1>2 DEF IInv, TypeOK, Custody, HeldOnce, QueuedOnce, ReadOnce
<1>8. Accounted'
  BY <1>1, <1>2 DEF IInv, Accounted
<1>9. DeliveredOnce' /\ ErrorSurfaces' /\ CleanEndComplete'
  BY <1>1, <1>2 DEF IInv, DeliveredOnce, ErrorSurfaces, CleanEndComplete
<1>. QED BY <1>3, <1>4, <1>5, <1>6, <1>7, <1>8, <1>9 DEF IInv

LEMMA LostStep == ASSUME IInv, NEW w \in Workers, Lost(w) PROVE IInv'
<1>1. orphans' \in Nat
  BY DEF Lost, IInv, TypeOK
<1>. QED BY <1>1, ToErrorStep DEF Lost

LEMMA FetchRefusedStep == ASSUME IInv, NEW w \in Workers, FetchRefused(w) PROVE IInv'
  BY ToErrorStep DEF FetchRefused, IInv, TypeOK

LEMMA DecodeFailsStep == ASSUME IInv, NEW w \in Workers, DecodeFails(w) PROVE IInv'
  BY ToErrorStep DEF DecodeFails, IInv, TypeOK

LEMMA GotBatchStep == ASSUME IInv, NEW w \in Workers, GotBatch(w) PROVE IInv'
<1>1. /\ pc[w] = "answer" /\ pc' = [pc EXCEPT ![w] = "send"] /\ hold[w] # ErrBatch
      /\ UNCHANGED <<serverVars, hold, out, done, failed, unchangedByWorker>>
  BY BatchAssumption DEF GotBatch, IInv, Answered, ErrorsAreFailures
<1>2. pc' \in [Workers -> {"off", "poll", "request", "answer", "drained", "send", "exit"}]
  BY <1>1 DEF IInv, TypeOK
<1>3. \A v \in Workers : Holds(v)' <=> Holds(v)
  BY <1>1 DEF IInv, TypeOK
<1>4. TypeOK' /\ PhaseShape'
  BY <1>1, <1>2 DEF IInv, TypeOK, PhaseShape
<1>5. Answered' /\ ErrorsAreFailures' /\ Untouched' /\ DrainedAtEnd' /\ OrphansFromFailure'
  BY <1>1 DEF IInv, TypeOK, Answered, ErrorsAreFailures, Untouched, DrainedAtEnd, OrphansFromFailure
<1>6. Reported' /\ LeavesDrained'
  BY <1>1 DEF IInv, TypeOK, Reported, LeavesDrained
<1>. HIDE DEF Holds
<1>7. Custody' /\ Accounted'
  BY <1>1, <1>3 DEF IInv, Custody, HeldOnce, QueuedOnce, ReadOnce, Accounted, InTransit
<1>8. DeliveredOnce' /\ ErrorSurfaces' /\ CleanEndComplete'
  BY <1>1 DEF IInv, DeliveredOnce, ErrorSurfaces, CleanEndComplete, Complete
<1>. QED BY <1>4, <1>5, <1>6, <1>7, <1>8 DEF IInv

LEMMA GotDrainedStep == ASSUME IInv, NEW w \in Workers, GotDrained(w) PROVE IInv'
<1>. USE DEF GotDrained
<1>1. TypeOK' /\ PhaseShape'
  BY DEF IInv, TypeOK, PhaseShape
<1>2. Answered' /\ ErrorsAreFailures' /\ Untouched' /\ DrainedAtEnd' /\ OrphansFromFailure'
  BY DEF IInv, TypeOK, Answered, ErrorsAreFailures, Untouched, DrainedAtEnd, OrphansFromFailure
<1>3. Reported' /\ LeavesDrained'
  BY DEF IInv, TypeOK, Reported, LeavesDrained
<1>4. Custody'
  BY DEF IInv, TypeOK, Custody, HeldOnce, QueuedOnce, ReadOnce
<1>5. Accounted'
  BY DEF IInv, TypeOK, Accounted, InTransit
<1>6. DeliveredOnce' /\ ErrorSurfaces' /\ CleanEndComplete'
  BY DEF IInv, DeliveredOnce, ErrorSurfaces, CleanEndComplete, Complete
<1>. QED BY <1>1, <1>2, <1>3, <1>4, <1>5, <1>6 DEF IInv

\* What the worker held becomes the last element of the channel.
LEMMA SendStep == ASSUME IInv, NEW w \in Workers, Send(w) PROVE IInv'
<1>. DEFINE e == hold[w]
            n == Len(out) + 1
<1>1. /\ Append(out, e) \in Seq(0..LastBatch)
      /\ n \in DOMAIN Append(out, e) /\ n \notin DOMAIN out /\ Append(out, e)[n] = e
      /\ \A i \in DOMAIN out : i \in DOMAIN Append(out, e) /\ Append(out, e)[i] = out[i]
      /\ \A i \in DOMAIN Append(out, e) : i = n \/ i \in DOMAIN out
  <2>1. out \in Seq(0..LastBatch) /\ hold[w] \in 0..LastBatch
    BY DEF IInv, TypeOK
  <2>. QED BY <2>1, AppendFacts
<1>2. /\ pc[w] = "send" /\ out' = Append(out, e)
      /\ pc' = [pc EXCEPT ![w] = IF e = ErrBatch THEN "exit" ELSE "poll"]
      /\ UNCHANGED <<serverVars, hold, done, failed, unchangedByWorker>>
  BY DEF Send
<1>. HIDE DEF n
<1>3. /\ pc'[w] \in {"exit", "poll"} /\ (pc'[w] = "exit" <=> e = ErrBatch)
      /\ \A v \in Workers : v # w => pc'[v] = pc[v]
      /\ pc' \in [Workers -> {"off", "poll", "request", "answer", "drained", "send", "exit"}]
  BY <1>2 DEF IInv, TypeOK
<1>4. ~EndedClean /\ ~outClosed /\ phase \in {"recv", "batch", "returned"}
  BY <1>2, RunningPass DEF IInv, PhaseShape
<1>5. TypeOK' /\ PhaseShape'
  BY <1>1, <1>2, <1>3, <1>4 DEF IInv, TypeOK, PhaseShape
<1>6. Answered' /\ ErrorsAreFailures' /\ Untouched' /\ DrainedAtEnd' /\ OrphansFromFailure'
  BY <1>2, <1>3 DEF IInv, Answered, ErrorsAreFailures, Untouched, DrainedAtEnd, OrphansFromFailure
<1>7. Reported'
  <2>. SUFFICES ASSUME Streaming, ~cancelled, pass \in failed
                PROVE  \/ \E i \in DOMAIN out' : out'[i] = ErrBatch
                       \/ \E v \in Workers : pc'[v] = "send" /\ hold[v] = ErrBatch
    BY <1>2 DEF Reported
  <2>1. CASE \E i \in DOMAIN out : out[i] = ErrBatch
    BY <1>1, <1>2, <2>1
  <2>2. CASE \E v \in Workers : pc[v] = "send" /\ hold[v] = ErrBatch
    BY <1>1, <1>2, <1>3, <2>2
  <2>. QED BY <2>1, <2>2 DEF IInv, Reported
<1>8. LeavesDrained'
  <2>. SUFFICES ASSUME Streaming, ~cancelled, ~stop, pass \notin failed,
                       NEW v \in Workers, pc'[v] = "exit"
                PROVE  done
    BY <1>2 DEF LeavesDrained
  <2>1. CASE v = w
    <3>1. e = ErrBatch
      BY <1>3, <2>1
    <3>. QED BY <1>2, <3>1 DEF IInv, ErrorsAreFailures
  <2>2. CASE v # w
    BY <1>3, <2>2 DEF IInv, LeavesDrained
  <2>. QED BY <2>1, <2>2
<1>9. \A v \in Workers : Holds(v)' => v # w /\ Holds(v)
  BY <1>2, <1>3
<1>10. e # ErrBatch => Holds(w)
  BY <1>2
<1>11. HeldOnce'
  BY <1>2, <1>9 DEF IInv, Custody, HeldOnce
<1>12. QueuedOnce'
  <2>. SUFFICES ASSUME NEW i \in DOMAIN out', out'[i] # ErrBatch
                PROVE  /\ out'[i] < next /\ delivered[out'[i]] = 0
                       /\ \A j \in DOMAIN out' : out'[j] = out'[i] => j = i
                       /\ \A v \in Workers : Holds(v)' => hold[v] # out'[i]
    BY <1>2 DEF QueuedOnce
  <2>1. CASE i = n
    <3>1. out'[i] = e /\ Holds(w)
      BY <1>1, <1>2, <1>10, <2>1
    <3>. QED BY <1>1, <1>2, <1>9, <2>1, <3>1 DEF IInv, Custody, HeldOnce, QueuedOnce
  <2>2. CASE i \in DOMAIN out
    BY <1>1, <1>2, <1>9, <1>10, <2>2 DEF IInv, Custody, QueuedOnce
  <2>. QED BY <1>1, <1>2, <2>1, <2>2
<1>13. ReadOnce'
  BY <1>1, <1>2, <1>9, <1>10 DEF IInv, Custody, ReadOnce
<1>14. Accounted'
  <2>. SUFFICES ASSUME Streaming, pass = 1, ~cancelled, pass \notin failed,
                       NEW b \in Fetchable, b < next, delivered[b] # BatchSize[b]
                PROVE  InTransit(b)'
    BY <1>2 DEF Accounted
  <2>1. InTransit(b)
    BY DEF IInv, Accounted
  <2>2. CASE \E i \in DOMAIN out : out[i] = b
    BY <1>1, <1>2, <2>2 DEF InTransit
  <2>3. CASE \E v \in Workers : Holds(v) /\ hold[v] = b
    <3>1. PICK v \in Workers : Holds(v) /\ hold[v] = b
      BY <2>3
    <3>2. CASE v = w
      BY <1>1, <1>2, <3>1, <3>2 DEF InTransit
    <3>3. CASE v # w
      <4>1. Holds(v)' /\ hold'[v] = b
        BY <1>2, <1>3, <3>1, <3>3
      <4>. QED BY <4>1 DEF InTransit
    <3>. QED BY <3>2, <3>3
  <2>. QED BY <1>2, <2>1, <2>2, <2>3 DEF InTransit
<1>15. DeliveredOnce' /\ ErrorSurfaces' /\ CleanEndComplete'
  BY <1>2 DEF IInv, DeliveredOnce, ErrorSurfaces, CleanEndComplete, Complete
<1>. QED BY <1>5, <1>6, <1>7, <1>8, <1>11, <1>12, <1>13, <1>14, <1>15 DEF IInv, Custody

LEMMA SendDroppedStep == ASSUME IInv, NEW w \in Workers, SendDropped(w) PROVE IInv'
<1>. USE DEF SendDropped, CtxDone
<1>1. TypeOK' /\ PhaseShape'
  BY DEF IInv, TypeOK, PhaseShape
<1>2. Answered' /\ ErrorsAreFailures' /\ Untouched' /\ DrainedAtEnd' /\ OrphansFromFailure'
  BY DEF IInv, TypeOK, Answered, ErrorsAreFailures, Untouched, DrainedAtEnd, OrphansFromFailure
<1>3. Reported' /\ LeavesDrained' /\ Accounted'
  BY DEF IInv, TypeOK, Reported, LeavesDrained, Accounted
<1>4. Custody'
  BY DEF IInv, TypeOK, Custody, HeldOnce, QueuedOnce, ReadOnce
<1>5. DeliveredOnce' /\ ErrorSurfaces' /\ CleanEndComplete'
  BY DEF IInv, DeliveredOnce, ErrorSurfaces, CleanEndComplete, Complete
<1>. QED BY <1>1, <1>2, <1>3, <1>4, <1>5 DEF IInv

LEMMA CloseOutStep == ASSUME IInv, CloseOut PROVE IInv'
<1>. USE DEF CloseOut
<1>1. TypeOK' /\ PhaseShape'
  BY WorkersAssumption DEF IInv, TypeOK, PhaseShape
<1>2. Answered' /\ ErrorsAreFailures' /\ Untouched' /\ DrainedAtEnd' /\ OrphansFromFailure' /\ Reported' /\ LeavesDrained'
  BY DEF IInv, Answered, ErrorsAreFailures, Untouched, DrainedAtEnd, OrphansFromFailure, Reported, LeavesDrained
<1>3. Custody' /\ Accounted'
  BY DEF IInv, Custody, HeldOnce, QueuedOnce, ReadOnce, Accounted, InTransit
<1>4. DeliveredOnce' /\ ErrorSurfaces' /\ CleanEndComplete'
  BY DEF IInv, DeliveredOnce, ErrorSurfaces, CleanEndComplete, Complete
<1>. QED BY <1>1, <1>2, <1>3, <1>4 DEF IInv

-----------------------------------------------------------------------------
(* The steps of the server and of the environment. *)

\* The server gives the next batch to exactly one worker.
LEMMA ServeFetchStep == ASSUME IInv, NEW w \in Workers, ServeFetch(w) PROVE IInv'
<1>1. phase \in {"recv", "batch", "returned"} /\ ~EndedClean /\ ~outClosed /\ pc[w] = "request"
  BY RunningPass DEF IInv, PhaseShape, ServeFetch
<1>2. UNCHANGED <<session, orphans, out, done, failed, unchangedByWorker>>
  BY DEF ServeFetch
<1>3. /\ pc'[w] \in {"answer", "drained"} /\ \A v \in Workers : v # w => pc'[v] = pc[v]
      /\ pc' \in [Workers -> {"off", "poll", "request", "answer", "drained", "send", "exit"}]
  BY DEF ServeFetch, IInv, TypeOK
<1>4. /\ hold' \in [Workers -> 0..LastBatch] /\ \A v \in Workers : v # w => hold'[v] = hold[v]
      /\ next \in Nat /\ next' \in 1..(LastBatch + 1)
      /\ \/ next <= LastBatch /\ next' = next + 1 /\ pc'[w] = "answer" /\ hold'[w] = next
         \/ next = LastBatch + 1 /\ next' = next /\ pc'[w] = "drained"
  BY BatchAssumption DEF ServeFetch, PopNext, IInv, TypeOK
<1>5. TypeOK' /\ PhaseShape'
  BY <1>1, <1>2, <1>3, <1>4 DEF IInv, TypeOK, PhaseShape
<1>6. Answered' /\ Untouched'
  <2>1. next \in 1..(LastBatch + 1)
    BY DEF IInv, TypeOK
  <2>2. pc'[w] = "answer" => hold'[w] \in Fetchable
    BY <1>4, <2>1, BatchAssumption
  <2>3. \A b \in Fetchable : b >= next' => b >= next
    BY <1>4, BatchAssumption
  <2>. QED BY <1>2, <1>3, <1>4, <2>2, <2>3 DEF IInv, Answered, Untouched
<1>15. ErrorsAreFailures'
  BY <1>2, <1>3, <1>4 DEF IInv, ErrorsAreFailures
<1>7. DrainedAtEnd' /\ OrphansFromFailure'
  BY <1>2, <1>3, <1>4, BatchAssumption DEF IInv, TypeOK, DrainedAtEnd, OrphansFromFailure
<1>8. Reported' /\ LeavesDrained'
  BY <1>1, <1>2, <1>3, <1>4 DEF IInv, Reported, LeavesDrained
<1>9. /\ \A v \in Workers : v # w => (Holds(v)' <=> Holds(v)) /\ hold'[v] = hold[v]
      /\ Holds(w)' => hold'[w] = next /\ next' = next + 1 /\ delivered[next] = 0
      /\ ~Holds(w)
  BY <1>1, <1>3, <1>4, BatchAssumption DEF IInv, Untouched
<1>10. HeldOnce'
  <2>. SUFFICES ASSUME NEW u \in Workers, Holds(u)'
                PROVE  /\ hold'[u] < next' /\ delivered[hold'[u]] = 0
                       /\ \A v \in Workers : Holds(v)' /\ hold'[v] = hold'[u] => v = u
    BY <1>2 DEF HeldOnce
  <2>. HIDE DEF Holds
  <2>0. \A v \in Workers : Holds(v) => hold[v] < next /\ hold[v] \in Nat
    BY <1>9 DEF IInv, Custody, HeldOnce, TypeOK
  <2>1. CASE u = w
    BY <1>4, <1>9, <2>0, <2>1
  <2>2. CASE u # w
    BY <1>4, <1>9, <2>0, <2>2 DEF IInv, Custody, HeldOnce
  <2>. QED BY <2>1, <2>2
<1>. HIDE DEF Holds
<1>11. QueuedOnce'
  <2>1. \A i \in DOMAIN out : out[i] \in Nat
    BY QueueElements DEF IInv
  <2>. QED BY <1>2, <1>4, <1>9, <2>1 DEF IInv, Custody, QueuedOnce
<1>12. ReadOnce'
  <2>1. unchangedByWorker' = unchangedByWorker /\ cur \in Nat
    BY <1>2 DEF IInv, TypeOK
  <2>. QED BY <1>2, <1>4, <1>9, <2>1 DEF IInv, Custody, ReadOnce
<1>13. Accounted'
  <2>. SUFFICES ASSUME Streaming, pass = 1, ~cancelled, pass \notin failed,
                       NEW b \in Fetchable, b < next', delivered[b] # BatchSize[b]
                PROVE  InTransit(b)'
    BY <1>2 DEF Accounted
  <2>1. CASE b < next
    <3>1. InTransit(b)
      BY <2>1 DEF IInv, Accounted
    <3>. QED BY <1>2, <1>9, <3>1 DEF InTransit
  <2>2. CASE ~(b < next)
    <3>1. b = next /\ pc'[w] = "answer" /\ hold'[w] = b
      BY <1>4, <2>2, BatchAssumption
    <3>2. Holds(w)'
      BY <3>1 DEF Holds
    <3>. QED BY <3>1, <3>2 DEF InTransit
  <2>. QED BY <2>1, <2>2
<1>14. DeliveredOnce' /\ ErrorSurfaces' /\ CleanEndComplete'
  BY <1>1, <1>2 DEF IInv, DeliveredOnce, ErrorSurfaces, CleanEndComplete
<1>. QED BY <1>5, <1>6, <1>7, <1>8, <1>10, <1>11, <1>12, <1>13, <1>14, <1>15 DEF IInv, Custody

\* A batch popped for nobody: only a pass that has failed meets it.
LEMMA ServeOrphanStep == ASSUME IInv, ServeOrphan PROVE IInv'
<1>1. /\ orphans > 0 /\ orphans' = orphans - 1
      /\ UNCHANGED <<session, consumerVars, workerVars, out, outClosed, done, stop,
                     cancelled, failed, delivered>>
  BY DEF ServeOrphan
<1>2. /\ next \in Nat /\ next' \in 1..(LastBatch + 1) /\ next <= next'
      /\ next = LastBatch + 1 => next' = next
  BY BatchAssumption DEF ServeOrphan, PopNext, IInv, TypeOK
<1>3. TypeOK' /\ PhaseShape'
  BY <1>1, <1>2 DEF IInv, TypeOK, PhaseShape
<1>4. Answered' /\ ErrorsAreFailures' /\ Reported' /\ LeavesDrained'
  BY <1>1 DEF IInv, Answered, ErrorsAreFailures, Reported, LeavesDrained
<1>5. Untouched' /\ DrainedAtEnd' /\ OrphansFromFailure'
  BY <1>1, <1>2, BatchAssumption DEF IInv, TypeOK, Untouched, DrainedAtEnd, OrphansFromFailure
<1>6. HeldOnce'
  BY <1>1, <1>2 DEF IInv, TypeOK, Custody, HeldOnce
<1>7. QueuedOnce'
  <2>1. \A i \in DOMAIN out : out[i] \in Nat
    BY QueueElements DEF IInv
  <2>. QED BY <1>1, <1>2, <2>1 DEF IInv, Custody, QueuedOnce
<1>8. ReadOnce'
  BY <1>1, <1>2 DEF IInv, TypeOK, Custody, ReadOnce
<1>9. Accounted'
  BY <1>1 DEF IInv, Accounted, OrphansFromFailure
<1>10. DeliveredOnce' /\ ErrorSurfaces' /\ CleanEndComplete'
  BY <1>1 DEF IInv, DeliveredOnce, ErrorSurfaces, CleanEndComplete, Complete
<1>. QED BY <1>3, <1>4, <1>5, <1>6, <1>7, <1>8, <1>9, <1>10 DEF IInv, Custody

LEMMA EnvironmentStep == ASSUME IInv, ExpireConnections \/ Close \/ CancelCtx PROVE IInv'
<1>. USE DEF ExpireConnections, Close, CancelCtx
<1>1. TypeOK'
  BY DEF IInv, TypeOK
<1>5. PhaseShape'
  BY DEF IInv, PhaseShape
<1>2. Answered' /\ ErrorsAreFailures' /\ Untouched' /\ DrainedAtEnd' /\ OrphansFromFailure' /\ Reported' /\ LeavesDrained'
  BY DEF IInv, Answered, ErrorsAreFailures, Untouched, DrainedAtEnd, OrphansFromFailure, Reported, LeavesDrained
<1>3. Custody' /\ Accounted'
  BY DEF IInv, Custody, HeldOnce, QueuedOnce, ReadOnce, Accounted, InTransit
<1>4. DeliveredOnce' /\ ErrorSurfaces' /\ CleanEndComplete'
  BY DEF IInv, DeliveredOnce, ErrorSurfaces, CleanEndComplete, Complete
<1>. QED BY <1>1, <1>2, <1>3, <1>4, <1>5 DEF IInv

LEMMA StutterStep == ASSUME IInv, UNCHANGED vars PROVE IInv'
<1>. USE DEF vars
<1>1. TypeOK' /\ PhaseShape'
  BY DEF IInv, TypeOK, PhaseShape
<1>2. Answered' /\ ErrorsAreFailures' /\ Untouched' /\ DrainedAtEnd' /\ OrphansFromFailure' /\ Reported' /\ LeavesDrained'
  BY DEF IInv, Answered, ErrorsAreFailures, Untouched, DrainedAtEnd, OrphansFromFailure, Reported, LeavesDrained
<1>3. Custody' /\ Accounted'
  BY DEF IInv, Custody, HeldOnce, QueuedOnce, ReadOnce, Accounted, InTransit
<1>4. DeliveredOnce' /\ ErrorSurfaces' /\ CleanEndComplete'
  BY DEF IInv, DeliveredOnce, ErrorSurfaces, CleanEndComplete, Complete
<1>. QED BY <1>1, <1>2, <1>3, <1>4 DEF IInv

-----------------------------------------------------------------------------
(* The theorems. *)

\* The invariant holds in every reachable state of the streaming code.
THEOREM Invariance == Spec => []IInv
<1>1. Init => IInv
  BY InitIInv
<1>2. IInv /\ [Next]_vars => IInv'
  <2>. SUFFICES ASSUME IInv, [Next]_vars PROVE IInv'
    OBVIOUS
  <2>1. CASE Chunks
    BY <2>1, ChunksStep
  <2>2. CASE Consumer
    BY <2>2, YieldInlineStep, InlineDoneStep, RecvBatchStep, RecvErrorStep,
       RecvClosedStep, YieldBatchStep DEF Consumer
  <2>3. CASE CloseOut
    BY <2>3, CloseOutStep
  <2>4. ASSUME NEW w \in Workers,
               WorkerStep(w) \/ FetchFails(w) \/ FetchRefused(w) \/ ServeFetch(w)
        PROVE  IInv'
    BY <2>4, PollStep, LostStep, FetchRefusedStep, DecodeFailsStep, GotBatchStep,
       GotDrainedStep, SendStep, SendDroppedStep, ServeFetchStep
       DEF WorkerStep, FetchFails, FetchAborted
  <2>5. CASE ServeOrphan
    BY <2>5, ServeOrphanStep
  <2>6. CASE ExpireConnections \/ Close \/ CancelCtx
    BY <2>6, EnvironmentStep
  <2>7. CASE UNCHANGED vars
    BY <2>7, StutterStep
  <2>. QED BY <2>1, <2>2, <2>3, <2>4, <2>5, <2>6, <2>7 DEF Next
<1>. QED BY <1>1, <1>2, PTL DEF Spec

\* Every variable of Chunks, its workers and the server keeps its type.
THEOREM TypeCorrect == Spec => []TypeOK
<1>1. IInv => TypeOK
  BY DEF IInv
<1>. QED BY <1>1, Invariance, PTL

\* A pass of Chunks that ends without an error, on a Result that is neither
\* closed nor ranged over before, has delivered the whole result.
THEOREM CleanEndIsComplete == Spec => []CleanEndComplete
<1>1. IInv => CleanEndComplete
  BY DEF IInv
<1>. QED BY <1>1, Invariance, PTL

\* No failed fetch or decode of Chunks is swallowed.
THEOREM ErrorsSurface == Spec => []ErrorSurfaces
<1>1. IInv => ErrorSurfaces
  BY DEF IInv
<1>. QED BY <1>1, Invariance, PTL

\* No chunk of a fetched batch reaches the caller twice, over any number of
\* passes (the inline chunks are yielded again by every pass).
THEOREM ChunksDeliveredOnce == Spec => []DeliveredOnce
<1>1. IInv => DeliveredOnce
  BY DEF IInv
<1>. QED BY <1>1, Invariance, PTL

\* Every popped batch is in one place only: one worker, one place in the
\* channel, or the caller's hands.
THEOREM BatchCustody == Spec => []Custody
<1>1. IInv => Custody
  BY DEF IInv
<1>. QED BY <1>1, Invariance, PTL

\* Every batch a pass has popped is delivered in full or on its way, as long as
\* nothing failed: a racing worker never drops a batch between the FETCH and the
\* channel.
THEOREM NothingLost == Spec => []Accounted
<1>1. IInv => Accounted
  BY DEF IInv
<1>. QED BY <1>1, Invariance, PTL

-----------------------------------------------------------------------------
(* Back pressure. *)

\* The channel of Chunks is made with room for one value per worker.
ChannelBounded == Len(out) <= Cardinality(Workers)

LEMMA WorkersCount == Cardinality(Workers) \in Nat
  BY FS_CardinalityType, WorkersAssumption

\* Only Send adds to the channel, and it blocks on a full one.
LEMMA ChannelStep ==
  ASSUME TypeOK, ChannelBounded, [Next]_vars
  PROVE  ChannelBounded'
<1>1. out \in Seq(0..LastBatch)
  BY DEF TypeOK
<1>2. CASE UNCHANGED out
  BY <1>2 DEF ChannelBounded
<1>3. CASE Chunks
  BY <1>3, WorkersCount DEF ChannelBounded, Chunks
<1>4. CASE out # <<>> /\ out' = Tail(out)
  BY <1>1, <1>4, WorkersCount DEF ChannelBounded
<1>5. ASSUME NEW w \in Workers, Send(w) PROVE ChannelBounded'
  <2>1. hold[w] \in 0..LastBatch
    BY DEF TypeOK
  <2>. QED BY <1>1, <1>5, <2>1, WorkersCount DEF ChannelBounded, Send
<1>6. CASE Consumer
  BY <1>2, <1>4, <1>6 DEF Consumer, YieldInline, InlineDone, RecvBatch, RecvError, RecvClosed,
     YieldBatch
<1>7. ASSUME NEW w \in Workers,
             WorkerStep(w) \/ FetchFails(w) \/ FetchRefused(w) \/ ServeFetch(w)
      PROVE  ChannelBounded'
  BY <1>2, <1>5, <1>7 DEF WorkerStep, FetchFails, FetchAborted, Poll, Lost, FetchRefused,
     DecodeFails, GotBatch, GotDrained, SendDropped, ServeFetch
<1>8. CASE CloseOut \/ ServeOrphan \/ ExpireConnections \/ Close \/ CancelCtx \/ UNCHANGED vars
  BY <1>2, <1>8 DEF CloseOut, ServeOrphan, ExpireConnections, Close, CancelCtx, vars
<1>. QED BY <1>3, <1>6, <1>7, <1>8 DEF Next

\* The values of a function are no more than its arguments.
LEMMA ImageBound ==
  ASSUME NEW S, IsFiniteSet(S), NEW T, NEW f \in [S -> T]
  PROVE  LET I == {f[x] : x \in S} IN IsFiniteSet(I) /\ Cardinality(I) <= Cardinality(S)
<1>1. f \in Surjection(S, {f[x] : x \in S})
  BY DEF Surjection
<1>. QED BY <1>1, FS_Surjection

\* A sequence has no more elements than places.
LEMMA ElementsBound ==
  ASSUME NEW S, NEW s \in Seq(S)
  PROVE  LET E == {s[i] : i \in 1..Len(s)} IN IsFiniteSet(E) /\ Cardinality(E) <= Len(s)
<1>1. s \in [1..Len(s) -> S] /\ Len(s) \in Nat
  OBVIOUS
<1>2. IsFiniteSet(1..Len(s)) /\ Cardinality(1..Len(s)) = Len(s)
  <2>1. 1 \in Int /\ Len(s) \in Int /\ (IF 1 > Len(s) THEN 0 ELSE Len(s) - 1 + 1) = Len(s)
    BY <1>1
  <2>2. \A m, n \in Int : IsFiniteSet(m..n) /\ Cardinality(m..n) = IF m > n THEN 0 ELSE n - m + 1
    BY FS_Interval
  <2>. QED BY <2>1, <2>2
<1>. QED BY <1>1, <1>2, ImageBound

\* A union is no larger than its parts together.
LEMMA UnionBound ==
  ASSUME NEW S, IsFiniteSet(S), NEW T, IsFiniteSet(T)
  PROVE  IsFiniteSet(S \union T) /\ Cardinality(S \union T) <= Cardinality(S) + Cardinality(T)
<1>1. IsFiniteSet(S \cap T)
  BY FS_Intersection
<1>2. /\ Cardinality(S) \in Nat /\ Cardinality(T) \in Nat /\ Cardinality(S \cap T) \in Nat
  BY <1>1, FS_CardinalityType
<1>3. /\ IsFiniteSet(S \union T)
      /\ Cardinality(S \union T) = Cardinality(S) + Cardinality(T) - Cardinality(S \cap T)
  BY FS_Union
<1>. QED BY <1>2, <1>3

\* A batch in transit is being read, lies in the channel or is a worker's.
LEMMA TransitBound ==
  ASSUME TypeOK, ChannelBounded
  PROVE  BoundedBuffering
<1>. DEFINE Queued == {out[i] : i \in 1..Len(out)}
            Held == {hold[w] : w \in Workers}
            Moving == {b \in Fetchable : InTransit(b)}
<1>1. IsFiniteSet(Held) /\ Cardinality(Held) <= Cardinality(Workers)
  BY ImageBound, WorkersAssumption DEF TypeOK
<1>2. IsFiniteSet(Queued) /\ Cardinality(Queued) <= Len(out) /\ Len(out) \in Nat
  <2>1. out \in Seq(0..LastBatch) /\ Len(out) \in Nat
    BY DEF TypeOK
  <2>. QED BY <2>1, ElementsBound
<1>3. Moving \subseteq {cur} \union (Queued \union Held)
  <2>1. \A i \in DOMAIN out : i \in 1..Len(out)
    BY DEF TypeOK
  <2>. QED BY <2>1 DEF InTransit
<1>. HIDE DEF Moving, Queued, Held
<1>4. IsFiniteSet({cur}) /\ Cardinality({cur}) = 1
  BY FS_Singleton
<1>5. /\ IsFiniteSet(Queued \union Held)
      /\ Cardinality(Queued \union Held) <= Cardinality(Queued) + Cardinality(Held)
  BY <1>1, <1>2, UnionBound
<1>6. /\ IsFiniteSet({cur} \union (Queued \union Held))
      /\ Cardinality({cur} \union (Queued \union Held))
           <= Cardinality({cur}) + Cardinality(Queued \union Held)
  BY <1>4, <1>5, UnionBound
<1>7. IsFiniteSet(Moving) /\ Cardinality(Moving) <= Cardinality({cur} \union (Queued \union Held))
  BY <1>3, <1>6, FS_Subset
<1>8. /\ Cardinality(Moving) \in Nat /\ Cardinality(Queued) \in Nat /\ Cardinality(Held) \in Nat
      /\ Cardinality(Queued \union Held) \in Nat
      /\ Cardinality({cur} \union (Queued \union Held)) \in Nat
  <2>1. \A S : IsFiniteSet(S) => Cardinality(S) \in Nat
    BY FS_CardinalityType
  <2>. QED BY <1>1, <1>2, <1>5, <1>6, <1>7, <2>1
<1>9. Cardinality(Moving) <= 2 * Cardinality(Workers) + 1
  BY <1>1, <1>2, <1>4, <1>5, <1>6, <1>7, <1>8, WorkersCount DEF ChannelBounded
<1>. QED BY <1>9 DEF BoundedBuffering, Moving

\* However slow the caller is, the client buffers at most one batch per worker,
\* one per place in the channel and the one being read: the select in the
\* workers' send is the stream's back pressure.
THEOREM BackPressure == Spec => []BoundedBuffering
<1>1. Init => ChannelBounded
  BY WorkersCount DEF Init, ChannelBounded
<1>2. IInv /\ ChannelBounded /\ [Next]_vars => ChannelBounded'
  BY ChannelStep DEF IInv
<1>3. IInv /\ ChannelBounded => BoundedBuffering
  BY TransitBound DEF IInv
<1>. QED BY <1>1, <1>2, <1>3, Invariance, PTL DEF Spec

-----------------------------------------------------------------------------
(* The streaming code implements the contract of a Result. *)

\* Steps that neither deliver, end a pass nor close are invisible.
LEMMA InvisibleStep ==
  ASSUME UNCHANGED <<phase, outcome, delivered, stop, pass>>
  PROVE  UNCHANGED Contract!vars
  BY DEF Contract!vars, status

\* A pass that is left with an outcome.
LEMMA StatusAtReturn ==
  ASSUME phase \in {"inline", "recv", "batch"}, phase' = "returned"
  PROVE  status = "open" /\ status' = outcome'
  BY DEF status

LEMMA ChunksRefines == ASSUME IInv, Chunks PROVE Contract!Begin
<1>1. status \in {"idle", "clean", "error", "break"} /\ status' = "open"
  BY DEF status, Chunks, IInv, TypeOK, PhaseShape
<1>. QED BY <1>1 DEF Contract!Begin, Contract!Ended, Chunks

LEMMA YieldInlineRefines ==
  ASSUME IInv, YieldInline PROVE Contract!GiveUp \/ UNCHANGED Contract!vars
<1>1. CASE Return("break")
  <2>1. status = "open" /\ status' = "break"
    BY <1>1, StatusAtReturn DEF YieldInline, Return
  <2>. QED BY <2>1 DEF Contract!GiveUp, YieldInline
<1>2. CASE UNCHANGED <<phase, outcome>>
  BY <1>2, InvisibleStep DEF YieldInline
<1>. QED BY <1>1, <1>2 DEF YieldInline

\* The only clean ends are the ones CleanEndComplete allows.
LEMMA CleanEndRefines ==
  ASSUME IInv, IInv', InlineDone \/ RecvClosed, phase' = "returned", outcome' = "clean"
  PROVE  Contract!Finish
<1>1. /\ phase \in {"inline", "recv"} /\ UNCHANGED <<delivered, stop, pass>>
  BY DEF InlineDone, RecvClosed
<1>2. status = "open" /\ status' = "clean"
  BY <1>1, StatusAtReturn
<1>3. Complete \/ stop \/ pass # 1
  BY <1>1 DEF IInv, CleanEndComplete, Complete
<1>4. pass # 1 => pass > 1
  BY <1>1 DEF IInv, TypeOK, PhaseShape
<1>. QED BY <1>1, <1>2, <1>3, <1>4 DEF Contract!Finish, Complete

LEMMA InlineDoneRefines ==
  ASSUME IInv, IInv', InlineDone PROVE Contract!Finish \/ UNCHANGED Contract!vars
<1>1. CASE Return("clean")
  BY <1>1, CleanEndRefines DEF Return
<1>2. CASE phase' = "recv" /\ UNCHANGED outcome
  BY <1>2 DEF InlineDone, status, Contract!vars
<1>. QED BY <1>1, <1>2 DEF InlineDone

LEMMA RecvBatchRefines == ASSUME RecvBatch PROVE UNCHANGED Contract!vars
  BY DEF RecvBatch, status, Contract!vars

LEMMA RecvErrorRefines == ASSUME RecvError PROVE Contract!GiveUp
<1>1. status = "open" /\ status' = "error"
  BY StatusAtReturn DEF RecvError, Return
<1>. QED BY <1>1 DEF Contract!GiveUp, RecvError

LEMMA RecvClosedRefines ==
  ASSUME IInv, IInv', RecvClosed PROVE Contract!Finish \/ Contract!GiveUp
<1>1. CASE cancelled
  <2>1. status = "open" /\ status' = "error"
    BY <1>1, StatusAtReturn DEF RecvClosed, Return
  <2>. QED BY <2>1 DEF Contract!GiveUp, RecvClosed
<1>2. CASE ~cancelled
  BY <1>2, CleanEndRefines DEF RecvClosed, Return
<1>. QED BY <1>1, <1>2

LEMMA YieldBatchRefines == ASSUME IInv, YieldBatch PROVE Contract!Deliver
<1>1. status = "open" /\ status' \in {"open", "break"}
  BY DEF YieldBatch, Return, status
<1>2. cur \in Fetchable /\ delivered[cur] < BatchSize[cur]
  <2>1. cur \in Fetchable /\ left \in Nat /\ left > 0 /\ delivered[cur] + left = BatchSize[cur]
    BY DEF IInv, TypeOK, Custody, ReadOnce, YieldBatch
  <2>2. delivered[cur] \in Nat
    BY <2>1 DEF IInv, TypeOK
  <2>. QED BY <2>1, <2>2
<1>3. delivered' = [delivered EXCEPT ![cur] = @ + 1] /\ UNCHANGED <<stop, pass>>
  BY DEF YieldBatch
<1>. QED BY <1>1, <1>2, <1>3 DEF Contract!Deliver

LEMMA CloseRefines == ASSUME Close PROVE Contract!CloseResult
  BY DEF Close, Contract!CloseResult, status

LEMMA WorkerRefines ==
  ASSUME NEW w \in Workers,
         WorkerStep(w) \/ FetchFails(w) \/ FetchRefused(w) \/ ServeFetch(w)
  PROVE  UNCHANGED Contract!vars
<1>1. UNCHANGED <<phase, outcome, delivered, stop, pass>>
  BY DEF WorkerStep, FetchFails, FetchAborted, Poll, Lost, FetchRefused, DecodeFails,
         GotBatch, GotDrained, Send, SendDropped, ServeFetch
<1>. QED BY <1>1, InvisibleStep

\* Every step of the streaming code, in a reachable state, is a step of the
\* contract or invisible to it.
LEMMA StepRefines ==
  ASSUME IInv, IInv', [Next]_vars
  PROVE  [Contract!Next]_(Contract!vars)
<1>. USE DEF Contract!Next
<1>1. CASE Chunks
  BY <1>1, ChunksRefines
<1>2. CASE Consumer
  BY <1>2, YieldInlineRefines, InlineDoneRefines, RecvBatchRefines, RecvErrorRefines,
     RecvClosedRefines, YieldBatchRefines DEF Consumer
<1>3. ASSUME NEW w \in Workers,
             WorkerStep(w) \/ FetchFails(w) \/ FetchRefused(w) \/ ServeFetch(w)
      PROVE  UNCHANGED Contract!vars
  BY <1>3, WorkerRefines
<1>4. CASE CloseOut \/ ServeOrphan \/ ExpireConnections \/ CancelCtx \/ UNCHANGED vars
  <2>1. UNCHANGED <<phase, outcome, delivered, stop, pass>>
    BY <1>4 DEF CloseOut, ServeOrphan, ExpireConnections, CancelCtx, vars
  <2>. QED BY <2>1, InvisibleStep
<1>5. CASE Close
  BY <1>5, CloseRefines
<1>. QED BY <1>1, <1>2, <1>3, <1>4, <1>5 DEF Next

\* Result.Chunks with its racing workers implements the contract: a first
\* pass over an open Result delivers everything, once, or ends in an error.
THEOREM Refinement == Spec => ImplementsContract
<1>1. Init => Contract!Init
  BY DEF Init, Contract!Init, status
<1>2. IInv /\ IInv' /\ [Next]_vars => [Contract!Next]_(Contract!vars)
  BY StepRefines
<1>. QED BY <1>1, <1>2, Invariance, PTL DEF Spec, ImplementsContract, Contract!Spec

=============================================================================
