--------------------------- MODULE SqlDriverProofs ---------------------------
(***************************************************************************)
(* The safety of SqlDriver, for any number of goroutines and sessions, any *)
(* result, any split of it into inline and fetched chunks and any pool.    *)
(***************************************************************************)
EXTENDS SqlDriver, TLAPS

\* Where a goroutine has a connection in its hands, is on its way to a result,
\* or has a rows object.
Holding == {"dialed", "submit", "prepare", "rows", "next", "release", "retire"}
Trying == {"get", "dial", "dialed", "submit", "prepare"}
Reading == {"rows", "next"}

\* The parts of TypeOK: connections, control, rows, flags.
PoolType ==
  live \subseteq Sessions /\ free \subseteq Sessions /\ conn \in [Apps -> Sessions \union {None}]
ControlType ==
  /\ pc \in [Apps -> PCs] /\ tries \in [Apps -> 0..MaxBadConn]
  /\ reply \in [Apps -> Replies \union {None}]
  /\ result \in [Apps -> Results] /\ runs \in [Apps -> Nat]
RowsType ==
  /\ fetched \in [Apps -> 0..N] /\ chunk \in [Apps -> 0..N] /\ row \in [Apps -> Nat]
  /\ out \in [Apps -> SUBSET AllRows]
FlagsType ==
  /\ drained \in [Apps -> BOOLEAN] /\ broken \in [Apps -> BOOLEAN]
  /\ died \in [Apps -> BOOLEAN]

\* A connection is in the hands of one goroutine or in the pool, never both.
Owned(a) ==
  /\ conn[a] \in Sessions <=> pc[a] \in Holding
  /\ conn[a] \notin free
  /\ \A b \in Apps : a # b /\ conn[a] \in Sessions => conn[a] # conn[b]

\* Answers are read in the state that waits for them.
Answers(a) ==
  /\ pc[a] \notin {"prepare", "retire"} => reply[a] = None
  /\ pc[a] = "retire" => reply[a] \in {None, "bye"}
  /\ ~Quotes => reply[a] # "quoting text"

\* The outcome of a query, and when a query may have none.
Outcomes(a) ==
  /\ pc[a] \in Trying \union Reading => result[a] = "none"
  /\ pc[a] \in {"release", "retire", "end"} => result[a] # "none"
  /\ result[a] # "expired"
  /\ result[a] = "ErrBadConn" => pc[a] \in {"retire", "end"}
  /\ result[a] = "ErrBadConn" /\ pc[a] = "end" => tries[a] = MaxBadConn

\* The rows handed out are the ones in front of the cursor of rows.Next.
Before(a, i, j) == i < chunk[a] \/ (i = chunk[a] /\ j <= row[a])

Cursor(a) ==
  /\ pc[a] \in Trying \/ result[a] = "ErrBadConn" => out[a] = {}
  /\ pc[a] \notin Reading => chunk[a] = 0 /\ row[a] = 0 /\ fetched[a] = 0
  /\ chunk[a] <= fetched[a]
  /\ chunk[a] = 0 => row[a] = 0
  /\ chunk[a] # 0 => row[a] <= Parts[chunk[a]]
  /\ pc[a] \in Reading =>
       \A i \in 1..N : \A j \in 1..Parts[i] : <<i, j>> \in out[a] <=> Before(a, i, j)
  /\ result[a] = "eof" => out[a] = AllRows

\* A query has run at most once, and not at all while it may be tried again.
Counted(a) ==
  /\ runs[a] \in {0, 1}
  /\ pc[a] \in Trying \ {"prepare"} => runs[a] = 0
  /\ pc[a] = "prepare" /\ reply[a] \in {None, Expired} => runs[a] = 0
  /\ reply[a] = "result" \/ pc[a] \in Reading => runs[a] = 1
  /\ result[a] = "ErrBadConn" => runs[a] = 0
  /\ result[a] = "eof" => runs[a] = 1

\* The last try is made on a connection of its own, which only a restart ends.
LastTry(a) == tries[a] = MaxBadConn =>
  /\ pc[a] \in {"dialed", "submit", "prepare"} => conn[a] \in live \/ died[a]
  /\ reply[a] = Expired => died[a]
  /\ result[a] = "ErrBadConn" => died[a]

Sound(a) ==
  /\ Owned(a) /\ Answers(a) /\ Outcomes(a) /\ Cursor(a)
  /\ ~Quotes => Counted(a) /\ LastTry(a)

IInv == TypeOK /\ \A a \in Apps : Sound(a)

USE DEF MaxBadConn, Expired, Goto, EndsWith, rowsVars, resultVars,
        Holding, Trying, Reading

-----------------------------------------------------------------------------
\* What the assumption on Parts says in terms of N.
LEMMA PartsFacts ==
  N \in Nat /\ Parts \in [1..N -> Nat] /\ Inline \in 0..N
  BY PartsAssumption DEF N

\* TypeOK taken apart, now and after a step.
LEMMA TypeParts ==
  /\ TypeOK <=> PoolType /\ ControlType /\ RowsType /\ FlagsType
  /\ TypeOK' <=> PoolType' /\ ControlType' /\ RowsType' /\ FlagsType'
  BY DEF TypeOK, PoolType, ControlType, RowsType, FlagsType

\* The initial states satisfy the invariant: nobody holds a connection.
LEMMA InitIInv == Init => IInv
  <1> SUFFICES ASSUME Init PROVE IInv
    OBVIOUS
  <1>1. TypeOK
    BY PartsFacts DEF Init, TypeOK, PCs, Results
  <1> SUFFICES ASSUME NEW a \in Apps PROVE Sound(a)
    BY <1>1 DEF IInv
  <1>2. Owned(a) /\ Answers(a) /\ Outcomes(a)
    BY SessionsAssumption, RepliesAssumption
    DEF Init, Owned, Answers, Outcomes, Replies
  <1>3. Cursor(a)
    BY DEF Init, Cursor
  <1>4. Counted(a) /\ LastTry(a)
    BY RepliesAssumption DEF Init, Counted, LastTry, Replies
  <1> QED
    BY <1>1, <1>2, <1>3, <1>4 DEF Sound

\* A goroutine starts a query: outcome, rows and count of the last one are gone.
LEMMA BeginStep ==
  ASSUME IInv, NEW a \in Apps, Begin(a)
  PROVE  IInv'
  <1>1. TypeOK'
    <2>1. PoolType'
      BY DEF Begin, IInv, TypeOK, PoolType
    <2>2. ControlType'
      <3>1. pc' \in [Apps -> PCs] /\ result' \in [Apps -> Results] /\ reply' = reply
        BY DEF Begin, IInv, TypeOK, PCs, Results
      <3>2. tries' \in [Apps -> 0..MaxBadConn] /\ runs' \in [Apps -> Nat]
        BY DEF Begin, IInv, TypeOK
      <3> QED
        BY <3>1, <3>2 DEF IInv, TypeOK, ControlType
    <2>3. RowsType'
      BY DEF Begin, IInv, TypeOK, RowsType
    <2>4. FlagsType'
      BY DEF Begin, IInv, TypeOK, FlagsType
    <2> QED
      BY <2>1, <2>2, <2>3, <2>4, TypeParts
  <1> SUFFICES ASSUME NEW b \in Apps PROVE Sound(b)'
    BY <1>1 DEF IInv
  <1>2. TypeOK /\ Sound(a) /\ Sound(b)
    BY DEF IInv
  <1>3. Owned(b)' /\ Answers(b)' /\ Outcomes(b)'
    BY <1>2 DEF Begin, Sound, TypeOK, Owned, Answers, Outcomes
  <1>4. Cursor(b)'
    BY <1>2 DEF Begin, Sound, TypeOK, Cursor, Before
  <1>5. ~Quotes => Counted(b)'
    <2>1. CASE b # a
      BY <1>2, <2>1 DEF Begin, Sound, TypeOK, Counted
    <2>2. CASE b = a
      <3>1. pc'[a] = "get" /\ reply'[a] = None /\ runs'[a] = 0 /\ result'[a] = "none"
        BY <1>2 DEF Begin, Sound, TypeOK, Answers
      <3> QED
        BY <2>2, <3>1, RepliesAssumption DEF Counted, Replies
    <2> QED
      BY <2>1, <2>2
  <1>6. ~Quotes => LastTry(b)'
    BY <1>2, RepliesAssumption DEF Begin, Sound, TypeOK, Answers, LastTry, Replies
  <1> QED
    BY <1>3, <1>4, <1>5, <1>6 DEF Sound

\* A pooled connection leaves the pool for one pair of hands; the last try
\* does not take one.
LEMMA GetConnStep ==
  ASSUME IInv, NEW a \in Apps, GetConn(a)
  PROVE  IInv'
  <1>1. TypeOK'
    BY DEF GetConn, IInv, TypeOK, PCs
  <1> SUFFICES ASSUME NEW b \in Apps PROVE Sound(b)'
    BY <1>1 DEF IInv
  <1>2. TypeOK /\ Sound(a) /\ Sound(b)
    BY DEF IInv
  <1>3. Owned(b)'
    <2>1. CASE pc'[a] = "dial"
      BY <1>2, <2>1 DEF GetConn, Sound, TypeOK, Owned
    <2>2. CASE pc'[a] # "dial"
      <3>1. PICK s \in free : free' = free \ {s} /\ conn' = [conn EXCEPT ![a] = s]
        BY <1>2, <2>2 DEF GetConn, TypeOK
      <3>2. pc' = [pc EXCEPT ![a] = "submit"]
        BY <1>2, <2>2 DEF GetConn
      <3>3. \A c \in Apps : Owned(c)
        BY DEF IInv, Sound
      <3> QED
        BY <1>2, <3>1, <3>2, <3>3 DEF TypeOK, Owned
    <2> QED
      BY <2>1, <2>2
  <1>4. Answers(b)' /\ Outcomes(b)'
    BY <1>2 DEF GetConn, Sound, TypeOK, Answers, Outcomes
  <1>5. Cursor(b)'
    BY <1>2 DEF GetConn, Sound, TypeOK, Cursor, Before
  <1>6. ~Quotes => Counted(b)'
    BY <1>2 DEF GetConn, Sound, TypeOK, Counted
  <1>7. ~Quotes => LastTry(b)'
    <2>1. CASE b # a
      BY <1>2, <2>1 DEF GetConn, Sound, TypeOK, LastTry
    <2>2. CASE b = a
      <3>1. /\ pc[a] = "get" /\ reply' = reply /\ result' = result /\ tries' = tries
            /\ tries[a] = MaxBadConn => pc'[a] = "dial"
        BY <1>2 DEF GetConn, TypeOK
      <3> QED
        BY <1>2, <2>2, <3>1, RepliesAssumption
        DEF Sound, Answers, Outcomes, LastTry, Replies
    <2> QED
      BY <2>1, <2>2
  <1> QED
    BY <1>3, <1>4, <1>5, <1>6, <1>7 DEF Sound

\* The new session is in nobody's hands and not in the pool, and it is live:
\* this is where the last try gets the connection that only a restart ends.
LEMMA ServeDialStep ==
  ASSUME IInv, NEW a \in Apps, ServeDial(a)
  PROVE  IInv'
  <1>1. TypeOK'
    <2>1. PoolType'
      BY DEF ServeDial, Fresh, IInv, TypeOK, PoolType
    <2>2. ControlType'
      BY DEF ServeDial, Fresh, IInv, TypeOK, ControlType, PCs
    <2>3. RowsType'
      BY DEF ServeDial, Fresh, IInv, TypeOK, RowsType
    <2>4. FlagsType'
      BY DEF ServeDial, Fresh, IInv, TypeOK, FlagsType
    <2> QED
      BY <2>1, <2>2, <2>3, <2>4, TypeParts
  <1> SUFFICES ASSUME NEW b \in Apps PROVE Sound(b)'
    BY <1>1 DEF IInv
  <1>2. TypeOK /\ Sound(a) /\ Sound(b)
    BY DEF IInv
  <1>3. Owned(b)'
    <2>1. PICK s \in Sessions : Fresh(s) /\ conn' = [conn EXCEPT ![a] = s]
      BY DEF ServeDial
    <2>2. free' = free /\ pc' = [pc EXCEPT ![a] = "dialed"]
      BY DEF ServeDial
    <2>3. \A c \in Apps : Owned(c)
      BY DEF IInv, Sound
    <2> QED
      BY <1>2, <2>1, <2>2, <2>3 DEF Fresh, TypeOK, Owned
  <1>4. Answers(b)' /\ Outcomes(b)'
    BY <1>2 DEF ServeDial, Sound, TypeOK, Answers, Outcomes
  <1>5. Cursor(b)'
    BY <1>2 DEF ServeDial, Fresh, Sound, Cursor, Before
  <1>6. ~Quotes => Counted(b)' /\ LastTry(b)'
    BY <1>2, RepliesAssumption
    DEF ServeDial, Fresh, Sound, TypeOK, Answers, Outcomes, Counted, LastTry, Replies
  <1> QED
    BY <1>3, <1>4, <1>5, <1>6 DEF Sound

\* Connect returns the connection.
LEMMA DialAnsweredStep ==
  ASSUME IInv, NEW a \in Apps, DialAnswered(a)
  PROVE  IInv'
  <1>1. TypeOK'
    BY DEF DialAnswered, IInv, TypeOK, PCs
  <1> SUFFICES ASSUME NEW b \in Apps PROVE Sound(b)'
    BY <1>1 DEF IInv
  <1>2. TypeOK /\ Sound(a) /\ Sound(b)
    BY DEF IInv
  <1>3. Owned(b)' /\ Answers(b)' /\ Outcomes(b)'
    BY <1>2 DEF DialAnswered, Sound, TypeOK, Owned, Answers, Outcomes
  <1>4. Cursor(b)'
    BY <1>2 DEF DialAnswered, Sound, Cursor, Before
  <1>5. ~Quotes => Counted(b)' /\ LastTry(b)'
    BY <1>2 DEF DialAnswered, Sound, TypeOK, Counted, LastTry
  <1> QED
    BY <1>3, <1>4, <1>5 DEF Sound

\* Connect fails; the session it may have opened is in nobody's hands.
LEMMA DialFailsStep ==
  ASSUME IInv, NEW a \in Apps, DialFails(a)
  PROVE  IInv'
  <1>1. TypeOK'
    BY DEF DialFails, IInv, TypeOK, PCs, Results
  <1> SUFFICES ASSUME NEW b \in Apps PROVE Sound(b)'
    BY <1>1 DEF IInv
  <1>2. TypeOK /\ Sound(a) /\ Sound(b)
    BY DEF IInv
  <1>3. Owned(b)' /\ Answers(b)' /\ Outcomes(b)'
    BY <1>2, SessionsAssumption
    DEF DialFails, Sound, TypeOK, Owned, Answers, Outcomes
  <1>4. Cursor(b)'
    BY <1>2 DEF DialFails, Sound, Cursor, Before
  <1>5. ~Quotes => Counted(b)' /\ LastTry(b)'
    BY <1>2 DEF DialFails, Sound, TypeOK, Counted, LastTry
  <1> QED
    BY <1>3, <1>4, <1>5 DEF Sound

\* The arguments are refused: the query never reaches the server.
LEMMA InterpolateFailsStep ==
  ASSUME IInv, NEW a \in Apps, InterpolateFails(a)
  PROVE  IInv'
  <1>1. TypeOK'
    BY DEF InterpolateFails, IInv, TypeOK, PCs, Results
  <1> SUFFICES ASSUME NEW b \in Apps PROVE Sound(b)'
    BY <1>1 DEF IInv
  <1>2. TypeOK /\ Sound(a) /\ Sound(b)
    BY DEF IInv
  <1>3. Owned(b)' /\ Answers(b)' /\ Outcomes(b)'
    BY <1>2 DEF InterpolateFails, Sound, TypeOK, Owned, Answers, Outcomes
  <1>4. Cursor(b)'
    BY <1>2 DEF InterpolateFails, Sound, Cursor, Before
  <1>5. ~Quotes => Counted(b)' /\ LastTry(b)'
    BY <1>2 DEF InterpolateFails, Sound, TypeOK, Counted, LastTry
  <1> QED
    BY <1>3, <1>4, <1>5 DEF Sound

\* The request goes out; the query has not run yet.
LEMMA SubmitStep ==
  ASSUME IInv, NEW a \in Apps, Submit(a)
  PROVE  IInv'
  <1>1. TypeOK'
    BY DEF Submit, IInv, TypeOK, PCs
  <1> SUFFICES ASSUME NEW b \in Apps PROVE Sound(b)'
    BY <1>1 DEF IInv
  <1>2. TypeOK /\ Sound(a) /\ Sound(b)
    BY DEF IInv
  <1>3. Owned(b)' /\ Answers(b)' /\ Outcomes(b)'
    BY <1>2 DEF Submit, Sound, TypeOK, Owned, Answers, Outcomes
  <1>4. Cursor(b)'
    BY <1>2 DEF Submit, Sound, Cursor, Before
  <1>5. ~Quotes => Counted(b)' /\ LastTry(b)'
    BY <1>2 DEF Submit, Sound, TypeOK, Counted, LastTry
  <1> QED
    BY <1>3, <1>4, <1>5 DEF Sound

\* The only step that runs the query.  It answers with the literal of an expiry
\* only when it has not run it.
LEMMA ServePrepareStep ==
  ASSUME IInv, NEW a \in Apps, ServePrepare(a)
  PROVE  IInv'
  <1>1. TypeOK'
    <2>1. PoolType'
      BY DEF ServePrepare, Failures, IInv, TypeOK, PoolType
    <2>2. ControlType'
      <3>1. pc' = pc /\ tries' = tries /\ result' = result
        BY DEF ServePrepare
      <3>2. reply' \in [Apps -> Replies \union {None}]
        <4>1. PICK r \in Replies : reply' = [reply EXCEPT ![a] = r]
          BY DEF ServePrepare, Failures, Replies
        <4> QED
          BY <4>1 DEF IInv, TypeOK
      <3>3. runs' = runs \/ runs' = [runs EXCEPT ![a] = @ + 1]
        BY DEF ServePrepare
      <3>4. runs' \in [Apps -> Nat]
        BY <3>3 DEF IInv, TypeOK
      <3> QED
        BY <3>1, <3>2, <3>4 DEF IInv, TypeOK, ControlType
    <2>3. RowsType'
      BY DEF ServePrepare, Failures, IInv, TypeOK, RowsType
    <2>4. FlagsType'
      BY DEF ServePrepare, Failures, IInv, TypeOK, FlagsType
    <2> QED
      BY <2>1, <2>2, <2>3, <2>4, TypeParts
  <1> SUFFICES ASSUME NEW b \in Apps PROVE Sound(b)'
    BY <1>1 DEF IInv
  <1>2. TypeOK /\ Sound(a) /\ Sound(b)
    BY DEF IInv
  <1>3. Owned(b)' /\ Answers(b)' /\ Outcomes(b)'
    BY <1>2 DEF ServePrepare, Failures, Sound, TypeOK, Owned, Answers, Outcomes
  <1>4. Cursor(b)'
    BY <1>2 DEF ServePrepare, Failures, Sound, Cursor, Before
  <1>5. ~Quotes => Counted(b)'
    <2>1. CASE b # a
      BY <1>2, <2>1 DEF ServePrepare, Sound, TypeOK, Counted
    <2>2. CASE b = a
      <3> SUFFICES ASSUME ~Quotes PROVE Counted(a)'
        BY <2>2
      <3>1. pc[a] = "prepare" /\ pc' = pc /\ result'[a] = "none" /\ runs[a] = 0
        BY <1>2 DEF ServePrepare, Sound, Outcomes, Counted
      <3>2. CASE runs'[a] = 1 /\ reply'[a] \in {"result", "badresult", "other text"}
        BY <3>1, <3>2, RepliesAssumption DEF Counted, Replies
      <3>3. CASE runs'[a] = 0 /\ reply'[a] \in {"other text", Expired, "httperror"}
        BY <3>1, <3>3 DEF Counted
      <3>4. \/ runs'[a] = 0 + 1 /\ reply'[a] \in {"result", "badresult", "other text"}
            \/ runs'[a] = 0 /\ reply'[a] \in {"other text", Expired, "httperror"}
        BY <1>2, <3>1 DEF ServePrepare, Failures, TypeOK
      <3>5. runs'[a] = 0 + 1 => runs'[a] = 1
        OBVIOUS
      <3> QED
        BY <3>2, <3>3, <3>4, <3>5
    <2> QED
      BY <2>1, <2>2
  <1>6. ~Quotes => LastTry(b)'
    BY <1>2 DEF ServePrepare, Failures, Sound, TypeOK, LastTry
  <1> QED
    BY <1>3, <1>4, <1>5, <1>6 DEF Sound

\* newRows: the cursor stands in front of the first row.
LEMMA QueryOkStep ==
  ASSUME IInv, NEW a \in Apps, QueryOk(a)
  PROVE  IInv'
  <1>1. TypeOK'
    BY PartsFacts DEF QueryOk, IInv, TypeOK, PCs
  <1> SUFFICES ASSUME NEW b \in Apps PROVE Sound(b)'
    BY <1>1 DEF IInv
  <1>2. TypeOK /\ Sound(a) /\ Sound(b)
    BY DEF IInv
  <1>3. Owned(b)' /\ Answers(b)' /\ Outcomes(b)'
    BY <1>2, RepliesAssumption
    DEF QueryOk, Sound, TypeOK, Owned, Answers, Outcomes, Replies
  <1>4. Cursor(b)'
    BY <1>2, PartsFacts DEF QueryOk, Sound, TypeOK, Cursor, Before
  <1>5. ~Quotes => Counted(b)' /\ LastTry(b)'
    BY <1>2, RepliesAssumption DEF QueryOk, Sound, TypeOK, Counted, LastTry, Replies
  <1> QED
    BY <1>3, <1>4, <1>5 DEF Sound

\* The driver says ErrBadConn: the query has not run, and a session that the
\* last try dialed is gone because the server restarted.
LEMMA QueryExpiredStep ==
  ASSUME IInv, NEW a \in Apps, QueryExpired(a)
  PROVE  IInv'
  <1>1. TypeOK'
    BY DEF QueryExpired, isExpired, IInv, TypeOK, PCs, Results
  <1> SUFFICES ASSUME NEW b \in Apps PROVE Sound(b)'
    BY <1>1 DEF IInv
  <1>2. TypeOK /\ Sound(a) /\ Sound(b)
    BY DEF IInv
  <1>3. Owned(b)' /\ Answers(b)' /\ Outcomes(b)'
    BY <1>2, RepliesAssumption
    DEF QueryExpired, isExpired, Sound, TypeOK, Owned, Answers, Outcomes, Replies
  <1>4. Cursor(b)'
    BY <1>2 DEF QueryExpired, isExpired, Sound, TypeOK, Cursor, Before
  <1>5. ~Quotes => Counted(b)' /\ LastTry(b)'
    BY <1>2, RepliesAssumption
    DEF QueryExpired, isExpired, Sound, TypeOK, Answers, Counted, LastTry, Replies
  <1> QED
    BY <1>3, <1>4, <1>5 DEF Sound

\* The error goes to the application; whether the query ran is unknown.
LEMMA QueryFailsStep ==
  ASSUME IInv, NEW a \in Apps, QueryFails(a)
  PROVE  IInv'
  <1>1. TypeOK'
    BY DEF QueryFails, IInv, TypeOK, PCs, Results
  <1> SUFFICES ASSUME NEW b \in Apps PROVE Sound(b)'
    BY <1>1 DEF IInv
  <1>2. TypeOK /\ Sound(a) /\ Sound(b)
    BY DEF IInv
  <1>3. Owned(b)' /\ Answers(b)' /\ Outcomes(b)'
    BY <1>2, RepliesAssumption
    DEF QueryFails, Sound, TypeOK, Owned, Answers, Outcomes, Replies
  <1>4. Cursor(b)'
    BY <1>2 DEF QueryFails, Sound, Cursor, Before
  <1>5. ~Quotes => Counted(b)' /\ LastTry(b)'
    BY <1>2, RepliesAssumption
    DEF QueryFails, Sound, TypeOK, Counted, LastTry, Replies
  <1> QED
    BY <1>3, <1>4, <1>5 DEF Sound

\* rows.Next is called.
LEMMA NextCalledStep ==
  ASSUME IInv, NEW a \in Apps, NextCalled(a)
  PROVE  IInv'
  <1>1. TypeOK'
    BY DEF NextCalled, IInv, TypeOK, PCs
  <1> SUFFICES ASSUME NEW b \in Apps PROVE Sound(b)'
    BY <1>1 DEF IInv
  <1>2. TypeOK /\ Sound(a) /\ Sound(b)
    BY DEF IInv
  <1>3. Owned(b)' /\ Answers(b)' /\ Outcomes(b)'
    BY <1>2 DEF NextCalled, Sound, TypeOK, Owned, Answers, Outcomes
  <1>4. Cursor(b)'
    BY <1>2 DEF NextCalled, Sound, Cursor, Before
  <1>5. ~Quotes => Counted(b)' /\ LastTry(b)'
    BY <1>2 DEF NextCalled, Sound, TypeOK, Counted, LastTry
  <1> QED
    BY <1>3, <1>4, <1>5 DEF Sound

\* A batch arrives behind the cursor.
LEMMA FetchServedStep ==
  ASSUME IInv, NEW a \in Apps, FetchServed(a)
  PROVE  IInv'
  <1>1. TypeOK'
    <2>1. PoolType'
      BY DEF FetchServed, IInv, TypeOK, PoolType
    <2>2. ControlType'
      BY DEF FetchServed, IInv, TypeOK, ControlType
    <2>3. RowsType'
      <3>1. /\ chunk' = chunk /\ row' = row /\ out' = out
            /\ \/ fetched' = fetched
               \/ fetched[a] < N /\ fetched' = [fetched EXCEPT ![a] = @ + 1]
        BY DEF FetchServed
      <3>2. fetched' \in [Apps -> 0..N]
        <4>1. fetched \in [Apps -> 0..N] /\ (fetched[a] < N => fetched[a] + 1 \in 0..N)
          BY PartsFacts DEF IInv, TypeOK
        <4> QED
          BY <3>1, <4>1
      <3> QED
        BY <3>1, <3>2 DEF IInv, TypeOK, RowsType
    <2>4. FlagsType'
      BY DEF FetchServed, IInv, TypeOK, FlagsType
    <2> QED
      BY <2>1, <2>2, <2>3, <2>4, TypeParts
  <1> SUFFICES ASSUME NEW b \in Apps PROVE Sound(b)'
    BY <1>1 DEF IInv
  <1>2. TypeOK /\ Sound(a) /\ Sound(b)
    BY DEF IInv
  <1>3. Owned(b)' /\ Answers(b)' /\ Outcomes(b)'
    BY <1>2 DEF FetchServed, Sound, Owned, Answers, Outcomes
  <1>4. Cursor(b)'
    BY <1>2 DEF FetchServed, Fetching, Sound, TypeOK, Cursor, Before
  <1>5. ~Quotes => Counted(b)' /\ LastTry(b)'
    BY <1>2 DEF FetchServed, Sound, Counted, LastTry
  <1> QED
    BY <1>3, <1>4, <1>5 DEF Sound

\* A fetch fails; no row is gained or lost.
LEMMA FetchFailsStep ==
  ASSUME IInv, NEW a \in Apps, FetchFails(a)
  PROVE  IInv'
  <1>1. TypeOK'
    BY DEF FetchFails, IInv, TypeOK
  <1> SUFFICES ASSUME NEW b \in Apps PROVE Sound(b)'
    BY <1>1 DEF IInv
  <1>2. TypeOK /\ Sound(a) /\ Sound(b)
    BY DEF IInv
  <1>3. Owned(b)' /\ Answers(b)' /\ Outcomes(b)'
    BY <1>2 DEF FetchFails, Sound, Owned, Answers, Outcomes
  <1>4. Cursor(b)'
    BY <1>2 DEF FetchFails, Sound, Cursor, Before
  <1>5. ~Quotes => Counted(b)' /\ LastTry(b)'
    BY <1>2 DEF FetchFails, Sound, Counted, LastTry
  <1> QED
    BY <1>3, <1>4, <1>5 DEF Sound

\* The cursor passes from the end of a chunk to the start of the next one: the
\* rows in front of it are the same.
LEMMA PullChunkStep ==
  ASSUME IInv, NEW a \in Apps, PullChunk(a)
  PROVE  IInv'
  <1>1. TypeOK'
    <2>1. PoolType'
      BY DEF PullChunk, IInv, TypeOK, PoolType
    <2>2. ControlType'
      BY DEF PullChunk, IInv, TypeOK, ControlType
    <2>3. RowsType'
      BY PartsFacts DEF PullChunk, IInv, TypeOK, RowsType
    <2>4. FlagsType'
      BY DEF PullChunk, IInv, TypeOK, FlagsType
    <2> QED
      BY <2>1, <2>2, <2>3, <2>4, TypeParts
  <1> SUFFICES ASSUME NEW b \in Apps PROVE Sound(b)'
    BY <1>1 DEF IInv
  <1>2. TypeOK /\ Sound(a) /\ Sound(b)
    BY DEF IInv
  <1>3. Owned(b)' /\ Answers(b)' /\ Outcomes(b)'
    BY <1>2 DEF PullChunk, Sound, Owned, Answers, Outcomes
  <1>4. Cursor(b)'
    <2>1. CASE b # a
      BY <1>2, <2>1 DEF PullChunk, Sound, Cursor, Before
    <2>2. CASE b = a
      <3>1. /\ pc[a] = "next" /\ pc' = pc /\ result' = result /\ out' = out /\ fetched' = fetched
            /\ chunk'[a] = chunk[a] + 1 /\ row'[a] = 0 /\ chunk[a] < fetched[a]
            /\ chunk[a] \in 0..N /\ fetched[a] \in 0..N /\ row[a] \in Nat
        BY <1>2 DEF PullChunk, Pulling, TypeOK
      <3>2. chunk[a] # 0 => row[a] >= Parts[chunk[a]]
        BY DEF PullChunk, Pulling, Exhausted
      <3>3. ASSUME NEW i \in 1..N, NEW j \in 1..Parts[i]
            PROVE  Before(a, i, j)' <=> Before(a, i, j)
        BY <3>1, <3>2, PartsFacts DEF Before
      <3>4. 0 <= Parts[chunk[a] + 1]
        BY <3>1, PartsFacts
      <3> QED
        BY <1>2, <2>2, <3>1, <3>3, <3>4 DEF Sound, Cursor
    <2> QED
      BY <2>1, <2>2
  <1>5. ~Quotes => Counted(b)' /\ LastTry(b)'
    BY <1>2 DEF PullChunk, Sound, Counted, LastTry
  <1> QED
    BY <1>3, <1>4, <1>5 DEF Sound

\* The rows end with an error.
LEMMA PullErrorStep ==
  ASSUME IInv, NEW a \in Apps, PullError(a)
  PROVE  IInv'
  <1>1. TypeOK'
    <2>1. PoolType'
      BY DEF PullError, IInv, TypeOK, PoolType
    <2>2. ControlType'
      BY DEF PullError, IInv, TypeOK, ControlType, PCs, Results
    <2>3. RowsType'
      BY PartsFacts DEF PullError, CloseRows, IInv, TypeOK, RowsType
    <2>4. FlagsType'
      BY DEF PullError, CloseRows, IInv, TypeOK, FlagsType
    <2> QED
      BY <2>1, <2>2, <2>3, <2>4, TypeParts
  <1> SUFFICES ASSUME NEW b \in Apps PROVE Sound(b)'
    BY <1>1 DEF IInv
  <1>2. TypeOK /\ Sound(a) /\ Sound(b)
    BY DEF IInv
  <1>3. Owned(b)' /\ Answers(b)' /\ Outcomes(b)'
    BY <1>2 DEF PullError, Pulling, Sound, TypeOK, Owned, Answers, Outcomes
  <1>4. Cursor(b)'
    BY <1>2 DEF PullError, CloseRows, Sound, TypeOK, Cursor, Before
  <1>5. ~Quotes => Counted(b)' /\ LastTry(b)'
    BY <1>2 DEF PullError, Sound, TypeOK, Counted, LastTry
  <1> QED
    BY <1>3, <1>4, <1>5 DEF Sound

\* io.EOF: every row is in front of a cursor at the end of the last chunk.
LEMMA PullEndStep ==
  ASSUME IInv, NEW a \in Apps, PullEnd(a)
  PROVE  IInv'
  <1>1. TypeOK'
    <2>1. PoolType'
      BY DEF PullEnd, IInv, TypeOK, PoolType
    <2>2. ControlType'
      BY DEF PullEnd, IInv, TypeOK, ControlType, PCs, Results
    <2>3. RowsType'
      BY DEF PullEnd, CloseRows, IInv, TypeOK, RowsType
    <2>4. FlagsType'
      BY DEF PullEnd, CloseRows, IInv, TypeOK, FlagsType
    <2> QED
      BY <2>1, <2>2, <2>3, <2>4, TypeParts
  <1> SUFFICES ASSUME NEW b \in Apps PROVE Sound(b)'
    BY <1>1 DEF IInv
  <1>2. TypeOK /\ Sound(a) /\ Sound(b)
    BY DEF IInv
  <1>3. Owned(b)' /\ Answers(b)' /\ Outcomes(b)'
    BY <1>2 DEF PullEnd, Pulling, Sound, TypeOK, Owned, Answers, Outcomes
  <1>4. Cursor(b)'
    <2>1. CASE b # a
      BY <1>2, <2>1 DEF PullEnd, CloseRows, Sound, Cursor, Before
    <2>2. CASE b = a
      <3>1. AllRows \subseteq out[a]
        <4> SUFFICES ASSUME NEW i \in 1..N, NEW j \in 1..Parts[i]
                     PROVE  <<i, j>> \in out[a]
          BY DEF AllRows
        <4>1. pc[a] = "next" /\ chunk[a] = N /\ (chunk[a] # 0 => row[a] >= Parts[chunk[a]])
          BY DEF PullEnd, Pulling, Exhausted
        <4>2. Before(a, i, j)
          BY <1>2, <4>1, PartsFacts DEF TypeOK, Before
        <4> QED
          BY <1>2, <4>1, <4>2 DEF Sound, Cursor
      <3>2. out'[a] = AllRows
        BY <1>2, <3>1 DEF PullEnd, TypeOK
      <3>3. pc'[a] = "release" /\ result'[a] = "eof" /\ chunk'[a] = 0 /\ row'[a] = 0 /\ fetched'[a] = 0
        BY <1>2 DEF PullEnd, CloseRows, TypeOK
      <3> QED
        BY <2>2, <3>2, <3>3 DEF Cursor
    <2> QED
      BY <2>1, <2>2
  <1>5. ~Quotes => Counted(b)' /\ LastTry(b)'
    BY <1>2 DEF PullEnd, Pulling, Sound, TypeOK, Counted, LastTry
  <1> QED
    BY <1>3, <1>4, <1>5 DEF Sound

\* The row handed out is the one the cursor passes, or the conversion fails.
LEMMA RowOutStep ==
  ASSUME IInv, NEW a \in Apps, RowOut(a)
  PROVE  IInv'
  <1>1. TypeOK'
    <2>1. PoolType'
      BY DEF RowOut, IInv, TypeOK, PoolType
    <2>2. ControlType'
      BY DEF RowOut, IInv, TypeOK, ControlType, PCs, Results
    <2>3. RowsType'
      <3>1. chunk[a] \in 1..N /\ row[a] + 1 \in 1..Parts[chunk[a]]
        BY PartsFacts DEF RowOut, Exhausted, IInv, TypeOK
      <3>2. <<chunk[a], row[a] + 1>> \in AllRows
        BY <3>1 DEF AllRows
      <3>3. out' \in [Apps -> SUBSET AllRows]
        BY <3>2 DEF RowOut, IInv, TypeOK
      <3>4. fetched' \in [Apps -> 0..N] /\ chunk' \in [Apps -> 0..N]
        <4>1. \/ fetched' = fetched /\ chunk' = chunk
              \/ fetched' = [fetched EXCEPT ![a] = 0] /\ chunk' = [chunk EXCEPT ![a] = 0]
          BY DEF RowOut, CloseRows
        <4>2. fetched \in [Apps -> 0..N] /\ chunk \in [Apps -> 0..N] /\ 0 \in 0..N
          BY PartsFacts DEF IInv, TypeOK
        <4> QED
          BY <4>1, <4>2
      <3>5. row' = [row EXCEPT ![a] = @ + 1] \/ row' = [row EXCEPT ![a] = 0]
        BY DEF RowOut, CloseRows
      <3>6. row' \in [Apps -> Nat]
        BY <3>5 DEF IInv, TypeOK
      <3> QED
        BY <3>3, <3>4, <3>6 DEF RowsType
    <2>4. FlagsType'
      BY DEF RowOut, CloseRows, IInv, TypeOK, FlagsType
    <2> QED
      BY <2>1, <2>2, <2>3, <2>4, TypeParts
  <1> SUFFICES ASSUME NEW b \in Apps PROVE Sound(b)'
    BY <1>1 DEF IInv
  <1>2. TypeOK /\ Sound(a) /\ Sound(b)
    BY DEF IInv
  <1>3. Owned(b)' /\ Answers(b)' /\ Outcomes(b)'
    BY <1>2 DEF RowOut, Sound, TypeOK, Owned, Answers, Outcomes
  <1>4. Cursor(b)'
    <2>1. CASE b # a
      BY <1>2, <2>1 DEF RowOut, CloseRows, Sound, TypeOK, Cursor, Before
    <2>2. CASE b = a /\ pc'[a] = "release"
      BY <1>2, <2>2 DEF RowOut, CloseRows, TypeOK, Sound, Cursor
    <2>3. CASE b = a /\ pc'[a] # "release"
      <3>1. /\ pc[a] = "next" /\ pc'[a] = "rows" /\ result'[a] = result[a]
            /\ fetched'[a] = fetched[a] /\ chunk'[a] = chunk[a] /\ row'[a] = row[a] + 1
            /\ out'[a] = out[a] \union {<<chunk[a], row[a] + 1>>}
            /\ chunk[a] \in 1..N /\ row[a] \in Nat /\ row[a] < Parts[chunk[a]]
        BY <1>2, <2>3, PartsFacts DEF RowOut, Exhausted, TypeOK
      <3>2. ASSUME NEW i \in 1..N, NEW j \in 1..Parts[i]
            PROVE  <<i, j>> \in out'[a] <=> Before(a, i, j)'
        <4>1. <<i, j>> \in out[a] <=> Before(a, i, j)
          BY <1>2, <3>1 DEF Sound, Cursor
        <4>2. <<i, j>> = <<chunk[a], row[a] + 1>> <=> i = chunk[a] /\ j = row[a] + 1
          OBVIOUS
        <4> QED
          BY <3>1, <4>1, <4>2 DEF Before
      <3>3. row[a] + 1 <= Parts[chunk[a]]
        BY <3>1, PartsFacts
      <3> QED
        BY <1>2, <2>3, <3>1, <3>2, <3>3 DEF Sound, Outcomes, Cursor
    <2> QED
      BY <2>1, <2>2, <2>3
  <1>5. ~Quotes => Counted(b)' /\ LastTry(b)'
    BY <1>2 DEF RowOut, Sound, TypeOK, Counted, LastTry
  <1> QED
    BY <1>3, <1>4, <1>5 DEF Sound

\* The application stops early.
LEMMA RowsCloseStep ==
  ASSUME IInv, NEW a \in Apps, RowsClose(a)
  PROVE  IInv'
  <1>1. TypeOK'
    <2>1. PoolType'
      BY DEF RowsClose, IInv, TypeOK, PoolType
    <2>2. ControlType'
      BY DEF RowsClose, IInv, TypeOK, ControlType, PCs, Results
    <2>3. RowsType'
      BY PartsFacts DEF RowsClose, CloseRows, IInv, TypeOK, RowsType
    <2>4. FlagsType'
      BY DEF RowsClose, CloseRows, IInv, TypeOK, FlagsType
    <2> QED
      BY <2>1, <2>2, <2>3, <2>4, TypeParts
  <1> SUFFICES ASSUME NEW b \in Apps PROVE Sound(b)'
    BY <1>1 DEF IInv
  <1>2. TypeOK /\ Sound(a) /\ Sound(b)
    BY DEF IInv
  <1>3. Owned(b)' /\ Answers(b)' /\ Outcomes(b)'
    BY <1>2 DEF RowsClose, Sound, TypeOK, Owned, Answers, Outcomes
  <1>4. Cursor(b)'
    BY <1>2 DEF RowsClose, CloseRows, Sound, TypeOK, Cursor, Before
  <1>5. ~Quotes => Counted(b)' /\ LastTry(b)'
    BY <1>2 DEF RowsClose, Sound, TypeOK, Counted, LastTry
  <1> QED
    BY <1>3, <1>4, <1>5 DEF Sound

\* The connection goes from the goroutine's hands to the pool, or is closed.
LEMMA PutConnStep ==
  ASSUME IInv, NEW a \in Apps, PutConn(a)
  PROVE  IInv'
  <1>1. TypeOK'
    <2>1. PoolType'
      <3>1. conn[a] \in Sessions
        BY DEF PutConn, IInv, Sound, Owned
      <3> QED
        BY <3>1 DEF PutConn, IInv, TypeOK, PoolType
    <2>2. ControlType'
      BY DEF PutConn, IInv, TypeOK, ControlType, PCs
    <2>3. RowsType'
      BY DEF PutConn, IInv, TypeOK, RowsType
    <2>4. FlagsType'
      BY DEF PutConn, IInv, TypeOK, FlagsType
    <2> QED
      BY <2>1, <2>2, <2>3, <2>4, TypeParts
  <1> SUFFICES ASSUME NEW b \in Apps PROVE Sound(b)'
    BY <1>1 DEF IInv
  <1>2. TypeOK /\ Sound(a) /\ Sound(b)
    BY DEF IInv
  <1>3. Owned(b)'
    BY <1>2, SessionsAssumption DEF PutConn, Sound, TypeOK, Owned
  <1>4. Answers(b)' /\ Outcomes(b)'
    BY <1>2 DEF PutConn, Sound, TypeOK, Answers, Outcomes
  <1>5. Cursor(b)'
    BY <1>2 DEF PutConn, Sound, TypeOK, Cursor, Before
  <1>6. ~Quotes => Counted(b)' /\ LastTry(b)'
    BY <1>2 DEF PutConn, Sound, TypeOK, Counted, LastTry
  <1> QED
    BY <1>3, <1>4, <1>5, <1>6 DEF Sound

\* The server forgets the session of the goodbye, which nobody else uses.
LEMMA ServeByeStep ==
  ASSUME IInv, NEW a \in Apps, ServeBye(a)
  PROVE  IInv'
  <1>1. TypeOK'
    BY DEF ServeBye, IInv, TypeOK, Replies
  <1> SUFFICES ASSUME NEW b \in Apps PROVE Sound(b)'
    BY <1>1 DEF IInv
  <1>2. TypeOK /\ Sound(a) /\ Sound(b)
    BY DEF IInv
  <1>3. Owned(b)' /\ Answers(b)' /\ Outcomes(b)'
    BY <1>2 DEF ServeBye, Sound, TypeOK, Owned, Answers, Outcomes
  <1>4. Cursor(b)'
    BY <1>2 DEF ServeBye, Sound, Cursor, Before
  <1>5. ~Quotes => Counted(b)' /\ LastTry(b)'
    BY <1>2 DEF ServeBye, Sound, TypeOK, Owned, Counted, LastTry
  <1> QED
    BY <1>3, <1>4, <1>5 DEF Sound

\* conn.Close has returned, whichever way.
LEMMA RetiredStep ==
  ASSUME IInv, NEW a \in Apps, pc[a] = "retire", Retired(a)
  PROVE  IInv'
  <1>1. TypeOK'
    <2>1. PoolType'
      BY DEF Retired, IInv, TypeOK, PoolType
    <2>2. ControlType'
      <3>1. pc' \in [Apps -> PCs] /\ result' \in [Apps -> Results] /\ runs' = runs
        BY DEF Retired, IInv, TypeOK, PCs, Results
      <3>2. reply' \in [Apps -> Replies \union {None}]
        BY DEF Retired, IInv, TypeOK
      <3>3. tries' = tries \/ (tries[a] < MaxBadConn /\ tries' = [tries EXCEPT ![a] = @ + 1])
        BY DEF Retired
      <3>4. tries' \in [Apps -> 0..MaxBadConn]
        BY <3>3 DEF IInv, TypeOK
      <3> QED
        BY <3>1, <3>2, <3>4 DEF IInv, TypeOK, ControlType
    <2>3. RowsType' /\ FlagsType'
      BY DEF Retired, IInv, TypeOK, RowsType, FlagsType
    <2> QED
      BY <2>1, <2>2, <2>3, TypeParts
  <1> SUFFICES ASSUME NEW b \in Apps PROVE Sound(b)'
    BY <1>1 DEF IInv
  <1>2. TypeOK /\ Sound(a) /\ Sound(b)
    BY DEF IInv
  <1>3. Owned(b)'
    BY <1>2, SessionsAssumption DEF Retired, Sound, TypeOK, Owned
  <1>4. Answers(b)'
    BY <1>2, RepliesAssumption DEF Retired, Sound, TypeOK, Answers, Replies
  <1>5. Outcomes(b)'
    BY <1>2 DEF Retired, Sound, TypeOK, Outcomes
  <1>6. Cursor(b)'
    <2>1. CASE b # a
      BY <1>2, <2>1 DEF Retired, Sound, TypeOK, Cursor, Before
    <2>2. CASE b = a
      <3>1. /\ pc'[a] \in {"get", "end"}
            /\ pc'[a] = "get" => result[a] = "ErrBadConn"
            /\ result'[a] \in {"none", result[a]}
        BY <1>2 DEF Retired, TypeOK
      <3> QED
        BY <1>2, <2>2, <3>1 DEF Retired, Sound, Cursor
    <2> QED
      BY <2>1, <2>2
  <1>7. ~Quotes => Counted(b)'
    BY <1>2, RepliesAssumption DEF Retired, Sound, TypeOK, Counted, Replies
  <1>8. ~Quotes => LastTry(b)'
    BY <1>2, RepliesAssumption DEF Retired, Sound, TypeOK, LastTry, Replies
  <1> QED
    BY <1>3, <1>4, <1>5, <1>6, <1>7, <1>8 DEF Sound

\* The server restarts.
LEMMA ExpireConnectionsStep == IInv /\ ExpireConnections => IInv'
  <1> SUFFICES ASSUME IInv, ExpireConnections PROVE IInv'
    OBVIOUS
  <1>1. TypeOK'
    BY DEF ExpireConnections, IInv, TypeOK
  <1>2. ASSUME NEW b \in Apps PROVE Sound(b)'
    <2>1. Sound(b)
      BY DEF IInv
    <2>2. Owned(b)' /\ Answers(b)' /\ Outcomes(b)'
      BY <2>1 DEF ExpireConnections, Sound, Owned, Answers, Outcomes
    <2>3. Cursor(b)' /\ (~Quotes => Counted(b)')
      BY <2>1 DEF ExpireConnections, Sound, Cursor, Before, Counted
    <2>4. LastTry(b)'
      BY DEF ExpireConnections, LastTry
    <2> QED
      BY <2>2, <2>3, <2>4 DEF Sound
  <1> QED
    BY <1>1, <1>2 DEF IInv

\* A stuttering step.
LEMMA StutterStep == IInv /\ UNCHANGED vars => IInv'
  <1> SUFFICES ASSUME IInv, UNCHANGED vars PROVE IInv'
    OBVIOUS
  <1>1. TypeOK'
    BY DEF IInv, TypeOK, vars
  <1>2. ASSUME NEW b \in Apps PROVE Sound(b)'
    <2>1. Sound(b)
      BY DEF IInv
    <2> QED
      BY <2>1
      DEF vars, Sound, Owned, Answers, Outcomes, Cursor, Before, Counted, LastTry
  <1> QED
    BY <1>1, <1>2 DEF IInv

\* Every step keeps the invariant.
LEMMA StepIInv == IInv /\ [Next]_vars => IInv'
  <1> SUFFICES ASSUME IInv, Next PROVE IInv'
    BY StutterStep
  <1>1. CASE ExpireConnections
    BY <1>1, ExpireConnectionsStep
  <1>2. ASSUME NEW a \in Apps, ServerStep(a) PROVE IInv'
    BY <1>2, ServeDialStep, ServePrepareStep, FetchServedStep, ServeByeStep
    DEF ServerStep
  <1>3. ASSUME NEW a \in Apps, ClientStep(a) PROVE IInv'
    <2>1. CASE GetConn(a) \/ DialAnswered(a) \/ DialFails(a) \/ InterpolateFails(a) \/ Submit(a)
      BY <2>1, GetConnStep, DialAnsweredStep, DialFailsStep, InterpolateFailsStep, SubmitStep
    <2>2. CASE QueryOk(a) \/ QueryExpired(a) \/ QueryFails(a)
      BY <2>2, QueryOkStep, QueryExpiredStep, QueryFailsStep
    <2>3. CASE PullChunk(a) \/ PullError(a) \/ PullEnd(a) \/ RowOut(a)
      BY <2>3, PullChunkStep, PullErrorStep, PullEndStep, RowOutStep
    <2>4. CASE PutConn(a) \/ ByeAnswered(a) \/ ByeFails(a)
      BY <2>4, PutConnStep, RetiredStep DEF ByeAnswered, ByeFails
    <2> QED
      BY <1>3, <2>1, <2>2, <2>3, <2>4 DEF ClientStep
  <1>4. ASSUME NEW a \in Apps, FetchFails(a) \/ AppStep(a) PROVE IInv'
    BY <1>4, FetchFailsStep, BeginStep, NextCalledStep, RowsCloseStep DEF AppStep
  <1> QED
    BY <1>1, <1>2, <1>3, <1>4 DEF Next

\* The inductive invariant holds in every state of every behaviour.
THEOREM Invariance == Spec => []IInv
  BY InitIInv, StepIInv, PTL DEF Spec

\* Every variable of the driver, the pool and the server keeps its type.
THEOREM TypeCorrect == Spec => []TypeOK
  BY Invariance, PTL DEF IInv

\* With error texts that do not quote the literals of an expiry, the driver says
\* ErrBadConn only of a query that has not run, so the retries of database/sql
\* never run a query twice.
THEOREM NothingRunsTwice ==
  ASSUME ~Quotes
  PROVE  Spec => []RunsOnce
  <1>1. IInv => RunsOnce
    <2> SUFFICES ASSUME IInv, NEW a \in Apps PROVE runs[a] <= 1
      BY DEF RunsOnce
    <2>1. runs[a] = 0 \/ runs[a] = 1
      BY DEF IInv, Sound, Counted
    <2> QED
      BY <2>1
  <1> QED
    BY <1>1, Invariance, PTL

\* With such texts, rows that end with io.EOF are the whole result of one run:
\* rows.Next never turns a failure into a short result.
THEOREM NothingIsShort ==
  ASSUME ~Quotes
  PROVE  Spec => []NeverShort
  <1>1. IInv => NeverShort
    BY DEF IInv, Sound, Cursor, Counted, NeverShort
  <1> QED
    BY <1>1, Invariance, PTL

\* With such texts, the application sees ErrBadConn only if the server restarted
\* while the last try was under way: conn.QueryContext never lets a stale pooled
\* session through.
THEOREM ExpiryIsInvisible ==
  ASSUME ~Quotes
  PROVE  Spec => []StaleInvisible
  <1>1. IInv => StaleInvisible
    BY DEF IInv, Sound, Outcomes, LastTry, StaleInvisible
  <1> QED
    BY <1>1, Invariance, PTL

\* Whatever the error texts quote, rows that end with io.EOF are the whole
\* result: only the number of runs depends on the texts.
THEOREM EOFMeansAll ==
  Spec => [](\A a \in Apps : result[a] = "eof" => out[a] = AllRows)
  <1>1. IInv => \A a \in Apps : result[a] = "eof" => out[a] = AllRows
    BY DEF IInv, Sound, Cursor
  <1> QED
    BY <1>1, Invariance, PTL

\* database/sql never hands one connection to two goroutines, and never keeps
\* one in the pool that a goroutine uses: the driver's conn needs no lock.
THEOREM ConnExclusive ==
  Spec => [](\A a, b \in Apps : conn[a] # None =>
                conn[a] \notin free /\ (a # b => conn[a] # conn[b]))
  <1>1. IInv => \A a, b \in Apps : conn[a] # None =>
                  conn[a] \notin free /\ (a # b => conn[a] # conn[b])
    BY DEF IInv, TypeOK, Sound, Owned
  <1> QED
    BY <1>1, Invariance, PTL
=============================================================================
