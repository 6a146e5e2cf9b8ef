------------------------- MODULE SqlDriverRefinement -------------------------
(***************************************************************************)
(* SqlDriver implements QueryContract: every step of the pool, the driver, *)
(* the server and the network is a step of the contract or unseen by it.   *)
(***************************************************************************)
EXTENDS SqlDriverProofs

USE DEF MaxBadConn, Expired, Goto, EndsWith, rowsVars, resultVars,
        Holding, Trying, Reading

-----------------------------------------------------------------------------
\* How the step of one goroutine shows in the status of the contract.
LEMMA StatusStep ==
  ASSUME TypeOK, NEW a \in Apps, NEW p, NEW r,
         pc' = [pc EXCEPT ![a] = p], result' = [result EXCEPT ![a] = r]
  PROVE  queryStatus' = [queryStatus EXCEPT ![a] = QueryStatus(p, r)]
  BY DEF TypeOK, queryStatus

\* A step that changes neither the status of the query nor its rows or runs is
\* one the contract does not see.
LEMMA Unseen ==
  ASSUME TypeOK, NEW a \in Apps, NEW p, NEW r,
         pc' = [pc EXCEPT ![a] = p], result' = [result EXCEPT ![a] = r],
         QueryStatus(p, r) = QueryStatus(pc[a], result[a]),
         UNCHANGED <<out, runs>>
  PROVE  UNCHANGED Query!vars
  <1>1. queryStatus' = [queryStatus EXCEPT ![a] = QueryStatus(p, r)]
    BY StatusStep
  <1>2. queryStatus' = queryStatus
    BY <1>1 DEF queryStatus
  <1> QED
    BY <1>2 DEF Query!vars

\* A step that gives an open query its outcome.
LEMMA Ends ==
  ASSUME TypeOK, NEW a \in Apps, NEW p, NEW r \in Query!Ended,
         pc' = [pc EXCEPT ![a] = p], result' = [result EXCEPT ![a] = r],
         QueryStatus(pc[a], result[a]) = "open", QueryStatus(p, r) = r,
         r = "eof" => out[a] = AllRows /\ runs[a] = 1,
         r = "closed" => runs[a] = 1,
         r = "ErrBadConn" => out[a] = {} /\ runs[a] = 0,
         UNCHANGED <<out, runs>>
  PROVE  Query!End(a)
  <1>1. queryStatus' = [queryStatus EXCEPT ![a] = r]
    <2>1. queryStatus' = [queryStatus EXCEPT ![a] = QueryStatus(p, r)]
      BY DEF TypeOK, queryStatus
    <2> QED
      BY <2>1
  <1>2. queryStatus[a] = "open"
    BY DEF queryStatus
  <1> QED
    BY <1>1, <1>2 DEF Query!End

\* The states of the driver start as the contract says.
LEMMA ContractInit == Init => Query!Init
  BY DEF Init, Query!Init, queryStatus, QueryStatus

\* Begin starts a query.
LEMMA BeginStarts ==
  ASSUME IInv, NEW a \in Apps, Begin(a)
  PROVE  Query!Start(a)
  <1>1. TypeOK /\ Outcomes(a)
    BY DEF IInv, Sound
  <1>2. queryStatus' = [queryStatus EXCEPT ![a] = QueryStatus("get", "none")]
    BY <1>1, StatusStep DEF Begin
  <1>3. queryStatus[a] \in {"idle"} \union Query!Ended
    BY <1>1 DEF Begin, TypeOK, Outcomes, Results, queryStatus, QueryStatus, Query!Ended
  <1> QED
    BY <1>2, <1>3 DEF Begin, QueryStatus, Query!Start

\* ServePrepare runs the query, which has not run before, or is unseen.
LEMMA ServePrepareRuns ==
  ASSUME ~Quotes, IInv, NEW a \in Apps, ServePrepare(a)
  PROVE  Query!Run(a) \/ UNCHANGED Query!vars
  <1>1. TypeOK /\ Outcomes(a) /\ Cursor(a) /\ Counted(a)
    BY DEF IInv, Sound
  <1>2. queryStatus' = queryStatus /\ queryStatus[a] = "open"
    BY <1>1 DEF ServePrepare, Outcomes, queryStatus, QueryStatus
  <1>3. runs[a] = 0 /\ out[a] = {} /\ out' = out
    BY <1>1 DEF ServePrepare, Counted, Cursor
  <1>4. runs' = runs \/ runs' = [runs EXCEPT ![a] = @ + 1]
    BY DEF ServePrepare
  <1>5. CASE runs' = runs
    BY <1>2, <1>3, <1>5 DEF Query!vars
  <1>6. CASE runs' = [runs EXCEPT ![a] = @ + 1]
    <2>1. runs' = [runs EXCEPT ![a] = 1]
      BY <1>3, <1>6
    <2> QED
      BY <1>2, <1>3, <2>1 DEF Query!Run
  <1> QED
    BY <1>4, <1>5, <1>6

\* RowOut delivers the row behind the cursor, which is the next one.
LEMMA RowOutDelivers ==
  ASSUME ~Quotes, IInv, NEW a \in Apps, RowOut(a)
  PROVE  Query!Deliver(a) \/ Query!End(a)
  <1>1. TypeOK /\ Outcomes(a) /\ Cursor(a) /\ Counted(a)
    BY DEF IInv, Sound
  <1>2. pc[a] = "next" /\ result[a] = "none" /\ runs' = runs
    BY <1>1 DEF RowOut, Outcomes
  <1>3. CASE /\ pc' = [pc EXCEPT ![a] = "release"]
             /\ result' = [result EXCEPT ![a] = "error"] /\ out' = out
    BY <1>1, <1>2, <1>3, Ends DEF QueryStatus, Query!Ended
  <1>4. CASE /\ out' = [out EXCEPT ![a] = @ \union {<<chunk[a], row[a] + 1>>}]
             /\ pc' = [pc EXCEPT ![a] = "rows"] /\ result' = result
    <2>1. queryStatus' = queryStatus /\ queryStatus[a] = "open"
      BY <1>1, <1>2, <1>4 DEF TypeOK, queryStatus, QueryStatus
    <2>2. runs[a] = 1
      BY <1>1, <1>2 DEF Counted
    <2> DEFINE p == <<chunk[a], row[a] + 1>>
    <2>3. chunk[a] \in 1..N /\ row[a] + 1 \in 1..Parts[chunk[a]] /\ row[a] \in Nat
      BY <1>1, PartsFacts DEF RowOut, Exhausted, TypeOK
    <2>4. p \in AllRows \ out[a]
      <3>1. p \in AllRows
        BY <2>3, PartsFacts DEF AllRows
      <3>2. ~Before(a, chunk[a], row[a] + 1)
        BY <2>3, PartsFacts DEF Before
      <3> QED
        BY <1>1, <1>2, <2>3, <3>1, <3>2 DEF Cursor
    <2>5. ASSUME NEW q \in AllRows, Query!Earlier(q, p) PROVE q \in out[a]
      <3>1. PICK i \in 1..N : q \in {i} \X (1..Parts[i])
        BY DEF AllRows
      <3>2. PICK j \in 1..Parts[i] : q = <<i, j>>
        BY <3>1
      <3>3. i < chunk[a] \/ (i = chunk[a] /\ j < row[a] + 1)
        BY <2>5, <3>2 DEF Query!Earlier
      <3>4. Before(a, i, j)
        BY <2>3, <3>3, PartsFacts DEF Before
      <3> QED
        BY <1>1, <1>2, <3>2, <3>4 DEF Cursor
    <2> QED
      BY <1>2, <1>4, <2>1, <2>2, <2>4, <2>5 DEF Query!Deliver
  <1> QED
    BY <1>1, <1>3, <1>4 DEF RowOut, CloseRows

\* Retired tries again, which is unseen, or gives up.
LEMMA RetiredEnds ==
  ASSUME ~Quotes, IInv, NEW a \in Apps, pc[a] = "retire", Retired(a)
  PROVE  Query!End(a) \/ UNCHANGED Query!vars
  <1>1. TypeOK /\ Outcomes(a) /\ Cursor(a) /\ Counted(a)
    BY DEF IInv, Sound
  <1>2. UNCHANGED <<out, runs>>
    BY DEF Retired
  <1>3. CASE result[a] = "ErrBadConn" /\ tries[a] < MaxBadConn
    BY <1>1, <1>2, <1>3, Unseen DEF Retired, QueryStatus
  <1>4. CASE result[a] = "ErrBadConn" /\ ~(tries[a] < MaxBadConn)
    <2>1. pc' = [pc EXCEPT ![a] = "end"] /\ result' = [result EXCEPT ![a] = "ErrBadConn"]
      BY <1>1, <1>4 DEF Retired, TypeOK
    <2>2. out[a] = {} /\ runs[a] = 0
      BY <1>1, <1>4 DEF Cursor, Counted
    <2> QED
      BY <1>1, <1>2, <1>4, <2>1, <2>2, Ends DEF QueryStatus, Query!Ended
  <1>5. CASE result[a] # "ErrBadConn"
    <2>1. pc' = [pc EXCEPT ![a] = "end"] /\ result' = [result EXCEPT ![a] = result[a]]
      BY <1>1, <1>5 DEF Retired, TypeOK
    <2>2. QueryStatus("end", result[a]) = QueryStatus(pc[a], result[a])
      BY <1>1, <1>5 DEF Outcomes, QueryStatus
    <2> QED
      BY <1>1, <1>2, <2>1, <2>2, Unseen
  <1> QED
    BY <1>3, <1>4, <1>5

\* io.EOF after the last row, the error of a broken stream, or rows closed early:
\* the query has run.
LEMMA RowsEnd ==
  ASSUME ~Quotes, IInv, NEW a \in Apps, PullEnd(a) \/ PullError(a) \/ RowsClose(a)
  PROVE  Query!End(a)
  <1>1. TypeOK /\ Outcomes(a) /\ Cursor(a) /\ Counted(a) /\ Cursor(a)' /\ TypeOK'
    BY PullEndStep, PullErrorStep, RowsCloseStep DEF IInv, Sound
  <1>2. UNCHANGED <<out, runs>> /\ pc[a] \in Reading
    BY DEF PullEnd, PullError, RowsClose, Pulling
  <1>3. PICK r \in {"eof", "error", "closed"} :
          pc' = [pc EXCEPT ![a] = "release"] /\ result' = [result EXCEPT ![a] = r]
    BY DEF PullEnd, PullError, RowsClose
  <1>4. runs[a] = 1 /\ QueryStatus(pc[a], result[a]) = "open"
    BY <1>1, <1>2 DEF Counted, Outcomes, QueryStatus
  <1>5. r = "eof" => out[a] = AllRows
    BY <1>1, <1>2, <1>3 DEF Cursor, TypeOK
  <1> QED
    BY <1>1, <1>2, <1>3, <1>4, <1>5, Ends DEF QueryStatus, Query!Ended

\* A failed dial, refused arguments and every failure of the submission.
LEMMA QueryEnds ==
  ASSUME IInv, NEW a \in Apps, DialFails(a) \/ InterpolateFails(a) \/ QueryFails(a)
  PROVE  Query!End(a)
  <1>1. TypeOK /\ Outcomes(a)
    BY DEF IInv, Sound
  <1>2. /\ result' = [result EXCEPT ![a] = "error"] /\ UNCHANGED <<out, runs>>
        /\ pc[a] \in Trying
    BY DEF DialFails, InterpolateFails, QueryFails
  <1>3. PICK p \in {"end", "release"} : pc' = [pc EXCEPT ![a] = p]
    BY DEF DialFails, InterpolateFails, QueryFails
  <1>4. QueryStatus(pc[a], result[a]) = "open"
    BY <1>1, <1>2 DEF Outcomes, QueryStatus
  <1> QED
    BY <1>1, <1>2, <1>3, <1>4, Ends DEF QueryStatus, Query!Ended

\* The pool, the dial, the submission, the cursor and the fetches are unseen.
LEMMA QuietSteps ==
  ASSUME IInv, NEW a \in Apps,
         \/ GetConn(a) \/ ServeDial(a) \/ DialAnswered(a) \/ Submit(a)
         \/ QueryOk(a) \/ QueryExpired(a) \/ NextCalled(a) \/ FetchServed(a)
         \/ FetchFails(a) \/ PullChunk(a) \/ PutConn(a) \/ ServeBye(a)
  PROVE  UNCHANGED Query!vars
  <1>1. TypeOK /\ Outcomes(a)
    BY DEF IInv, Sound
  <1>2. CASE \/ GetConn(a) \/ ServeDial(a) \/ DialAnswered(a)
             \/ Submit(a) \/ QueryOk(a) \/ NextCalled(a)
    <2>1. PICK p \in Trying \union Reading : pc' = [pc EXCEPT ![a] = p]
      BY <1>2 DEF GetConn, ServeDial, DialAnswered, Submit, QueryOk, NextCalled
    <2>2. UNCHANGED <<out, runs, result>> /\ pc[a] \in Trying \union Reading
      BY <1>2 DEF GetConn, ServeDial, DialAnswered, Submit, QueryOk, NextCalled
    <2>3. result' = [result EXCEPT ![a] = "none"] /\ result[a] = "none"
      BY <1>1, <2>2 DEF Outcomes, TypeOK
    <2> QED
      BY <1>1, <2>1, <2>2, <2>3, Unseen DEF QueryStatus
  <1>3. CASE QueryExpired(a)
    <2>1. result[a] = "none"
      BY <1>1, <1>3 DEF QueryExpired, Outcomes
    <2> QED
      BY <1>1, <1>3, <2>1, Unseen DEF QueryExpired, QueryStatus
  <1>4. CASE FetchServed(a) \/ FetchFails(a) \/ PullChunk(a) \/ ServeBye(a)
    BY <1>4 DEF FetchServed, FetchFails, PullChunk, ServeBye, Query!vars, queryStatus
  <1>5. CASE PutConn(a)
    <2>1. PICK p \in {"end", "retire"} : pc' = [pc EXCEPT ![a] = p]
      BY <1>5 DEF PutConn
    <2>2. UNCHANGED <<out, runs, result>> /\ pc[a] = "release"
      BY <1>5 DEF PutConn
    <2>3. result' = [result EXCEPT ![a] = result[a]]
      BY <1>1, <2>2 DEF TypeOK
    <2>4. QueryStatus(p, result[a]) = QueryStatus(pc[a], result[a])
      BY <1>1, <2>2 DEF Outcomes, QueryStatus
    <2> QED
      BY <1>1, <2>1, <2>2, <2>3, <2>4, Unseen
  <1> QED
    BY <1>2, <1>3, <1>4, <1>5

\* Every step is one of the contract, or one it does not see.
LEMMA ContractStep ==
  ASSUME ~Quotes, IInv, [Next]_vars
  PROVE  [Query!Next]_(Query!vars)
  <1>1. CASE UNCHANGED vars
    BY <1>1 DEF vars, Query!vars, queryStatus
  <1>2. CASE ExpireConnections
    BY <1>2 DEF ExpireConnections, Query!vars, queryStatus
  <1>3. ASSUME NEW a \in Apps, ServerStep(a) PROVE [Query!Next]_(Query!vars)
    BY <1>3, QuietSteps, ServePrepareRuns DEF ServerStep, Query!Next
  <1>4. ASSUME NEW a \in Apps, ClientStep(a) PROVE [Query!Next]_(Query!vars)
    <2>1. CASE DialFails(a) \/ InterpolateFails(a) \/ QueryFails(a)
      BY <2>1, QueryEnds DEF Query!Next
    <2>2. CASE PullError(a) \/ PullEnd(a) \/ RowOut(a)
      BY <2>2, RowsEnd, RowOutDelivers DEF Query!Next
    <2>3. CASE ByeAnswered(a) \/ ByeFails(a)
      BY <2>3, RetiredEnds DEF ByeAnswered, ByeFails, Query!Next
    <2> QED
      BY <1>4, <2>1, <2>2, <2>3, QuietSteps DEF ClientStep
  <1>5. ASSUME NEW a \in Apps, FetchFails(a) \/ AppStep(a) PROVE [Query!Next]_(Query!vars)
    BY <1>5, QuietSteps, BeginStarts, RowsEnd DEF AppStep, Query!Next
  <1> QED
    BY <1>1, <1>2, <1>3, <1>4, <1>5 DEF Next

\* With error texts that do not quote the literals of an expiry, the pool, the
\* retries and the fetches implement the contract of a query.
THEOREM Refinement ==
  ASSUME ~Quotes
  PROVE  Spec => ImplementsQuery
  <1>1. IInv /\ [Next]_vars => [Query!Next]_(Query!vars)
    BY ContractStep
  <1> QED
    BY <1>1, ContractInit, Invariance, PTL DEF Spec, ImplementsQuery, Query!Spec
=============================================================================
