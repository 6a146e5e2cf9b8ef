-------------------------- MODULE WireClientProofs --------------------------
(***************************************************************************)
(* Proofs about WireClient, for any numbers of calls, closers and sessions *)
(* and any configured MaxRetries.                                          *)
(***************************************************************************)
EXTENDS WireClient, TLAPS, FiniteSetTheorems

\* The retry loop: a request has been sent for every attempt that is over,
\* and an attempt that is waited out may be followed by another one.
LoopInv ==
  /\ attempt <= (IF Retries < 0 THEN 0 ELSE Retries)
  /\ sends <= attempt + 1
  /\ phase = "ready" => sends <= attempt
  /\ phase = "backoff" => attempt < Retries
  /\ phase = "waiting" \/ dial = NoDial

\* The client's session was handed out by the server, so no other client of
\* the model can be given the same one.
SessionInv ==
  /\ phase = "up" => connID \in issued
  /\ dial.net = "served" /\ dial.answer = "welcome" => dial.id \in issued
  /\ phase # "up" => \A o \in Ops : op[o] = "idle"

\* A call: its request leaves the client once and is run when it is served.
CallInv ==
  \A c \in Calls :
    /\ op[c] \in {"idle", "open", "ErrClosed"} => net[c] = "none"
    /\ net[c] # "served" => runs[c] = 0
    /\ runs[c] <= 1
    /\ net[c] = "served" /\ answer[c] \in Expiries =>
         connID \notin live /\ runs[c] = 0
    /\ op[c] = "expired" =>
         net[c] = "served" /\ answer[c] \in Expiries \union {"quoting text"}
    /\ c \in late => op[c] = "ErrClosed"

Won(k) == op[k] \in {"open", "waiting"} \/ net[k] # "none"

\* Close: one goroutine wins the swap, and the flag is set before any of them
\* returns.
CloseInv ==
  /\ ~closed => \A k \in Closers : op[k] = "idle"
  /\ \A k \in Closers :
       /\ op[k] \in {"idle", "open"} => net[k] = "none"
       /\ net[k] = "served" => answer[k] \in {"success", "already disconnected", "httperror"}
       /\ net[k] = "served" /\ answer[k] # "httperror" => connID \notin live
       /\ op[k] = "ok" /\ net[k] # "none" =>
            net[k] = "served" /\ answer[k] = "success"
       /\ op[k] = "expired" =>
            net[k] = "served" /\ answer[k] = "already disconnected"
  /\ \A k1, k2 \in Closers : Won(k1) /\ Won(k2) => k1 = k2

IInv == TypeOK /\ LoopInv /\ SessionInv /\ CallInv /\ CloseInv

USE DEF Ops

-----------------------------------------------------------------------------
LEMMA InitIInv == Init => IInv
  <1> SUFFICES ASSUME Init PROVE IInv
    OBVIOUS
  <1>1. TypeOK
    BY DEF Init, TypeOK, NoDial, Phases, OpStates
  <1>2. LoopInv /\ SessionInv
    BY RetriesAssumption DEF Init, LoopInv, SessionInv, Retries, NoDial
  <1>3. CallInv
    BY DEF Init, CallInv
  <1>4. CloseInv
    BY DEF Init, CloseInv, Won
  <1> QED
    BY <1>1, <1>2, <1>3, <1>4 DEF IInv

\* A step of Connect leaves the operations alone: all of them are idle, or the
\* step only serves a request that nobody waits for any more.
LEMMA ConnectKeepsOps ==
  ASSUME IInv, UNCHANGED clientVars,
         phase = "up" => connID' = connID /\ (connID \notin live => connID \notin live'),
         phase # "up" => \A o \in Ops : op[o] = "idle"
  PROVE  CallInv' /\ CloseInv'
  <1>1. CASE phase = "up"
    BY <1>1 DEF IInv, CallInv, CloseInv, Won, clientVars
  <1>2. CASE phase # "up"
    <2>1. \A o \in Ops : op[o] = "idle" /\ net[o] = "none"
      BY <1>2 DEF IInv, CallInv, CloseInv
    <2> QED
      BY <2>1 DEF IInv, CallInv, CloseInv, Won, clientVars
  <1> QED
    BY <1>1, <1>2

LEMMA ConnectStep == IInv /\ ConnectNext => IInv'
  <1> SUFFICES ASSUME IInv, ConnectNext PROVE IInv'
    OBVIOUS
  <1> USE RetriesAssumption, NoneAssumption
  <1>1. CASE TimeoutFires
    BY <1>1, ConnectKeepsOps
    DEF IInv, TypeOK, LoopInv, SessionInv, TimeoutFires, clientVars, serverVars
  <1>2. CASE DialSend
    <2>1. TypeOK' /\ LoopInv' /\ SessionInv'
      BY <1>2 DEF IInv, TypeOK, LoopInv, SessionInv, DialSend, NoDial,
                  clientVars, serverVars, Retries, Phases
    <2>2. CallInv' /\ CloseInv'
      BY <1>2, ConnectKeepsOps DEF IInv, SessionInv, DialSend, clientVars, serverVars
    <2> QED BY <2>1, <2>2 DEF IInv
  <1>3. CASE DialDead
    <2>1. TypeOK' /\ LoopInv' /\ SessionInv'
      BY <1>3 DEF IInv, TypeOK, LoopInv, SessionInv, DialDead, Retry, GiveUp, NoDial,
                  clientVars, serverVars, Retries, Phases
    <2>2. CallInv' /\ CloseInv'
      BY <1>3, ConnectKeepsOps DEF IInv, SessionInv, DialDead, clientVars, serverVars
    <2> QED BY <2>1, <2>2 DEF IInv
  <1>4. CASE ServeDial
    <2>0. phase = "waiting"
      BY <1>4 DEF ServeDial, IInv, LoopInv, NoDial
    <2>1. TypeOK' /\ LoopInv' /\ SessionInv'
      BY <1>4, <2>0 DEF IInv, TypeOK, LoopInv, SessionInv, ServeDial, NoDial,
                  clientVars, serverVars, Retries, Accepts, DialAnswers
    <2>2. CallInv' /\ CloseInv'
      BY <1>4, <2>0, ConnectKeepsOps DEF IInv, SessionInv, ServeDial
    <2> QED BY <2>1, <2>2 DEF IInv
  <1>5. CASE ServeStray
    <2>1. TypeOK' /\ LoopInv' /\ SessionInv'
      BY <1>5 DEF IInv, TypeOK, LoopInv, SessionInv, ServeStray, clientVars, serverVars
    <2>2. phase = "up" => connID' = connID /\ (connID \notin live => connID \notin live')
      BY <1>5 DEF IInv, SessionInv, ServeStray, serverVars
    <2>3. CallInv' /\ CloseInv'
      BY <1>5, <2>2, ConnectKeepsOps DEF IInv, SessionInv, ServeStray
    <2> QED BY <2>1, <2>3 DEF IInv
  <1>6. CASE DialAnswered
    <2>1. TypeOK' /\ LoopInv' /\ SessionInv'
      BY <1>6 DEF IInv, TypeOK, LoopInv, SessionInv, DialAnswered, Retry, GiveUp,
                  NoDial, clientVars, serverVars, Retries, Phases, DialAnswers, Accepts
    <2>2. CallInv' /\ CloseInv'
      BY <1>6, ConnectKeepsOps DEF IInv, SessionInv, DialAnswered, serverVars
    <2> QED BY <2>1, <2>2 DEF IInv
  <1>7. CASE DialLost
    <2>1. TypeOK' /\ LoopInv' /\ SessionInv'
      BY <1>7 DEF IInv, TypeOK, LoopInv, SessionInv, DialLost, Retry, GiveUp,
                  NoDial, clientVars, serverVars, Retries, Phases
    <2>2. CallInv' /\ CloseInv'
      BY <1>7, ConnectKeepsOps DEF IInv, SessionInv, DialLost, serverVars
    <2> QED BY <2>1, <2>2 DEF IInv
  <1>8. CASE DialTruncated
    <2>1. TypeOK' /\ LoopInv' /\ SessionInv'
      BY <1>8 DEF IInv, TypeOK, LoopInv, SessionInv, DialTruncated, Retry, GiveUp,
                  NoDial, clientVars, serverVars, Retries, Phases
    <2>2. CallInv' /\ CloseInv'
      BY <1>8, ConnectKeepsOps DEF IInv, SessionInv, DialTruncated, serverVars
    <2> QED BY <2>1, <2>2 DEF IInv
  <1>9. CASE BackoffOver \/ BackoffCancelled
    <2>1. TypeOK' /\ LoopInv' /\ SessionInv'
      BY <1>9 DEF IInv, TypeOK, LoopInv, SessionInv, BackoffOver, BackoffCancelled,
                  NoDial, clientVars, serverVars, Retries, Phases
    <2>2. CallInv' /\ CloseInv'
      BY <1>9, ConnectKeepsOps
      DEF IInv, SessionInv, BackoffOver, BackoffCancelled, serverVars
    <2> QED BY <2>1, <2>2 DEF IInv
  <1> QED
    BY <1>1, <1>2, <1>3, <1>4, <1>5, <1>6, <1>7, <1>8, <1>9 DEF ConnectNext

-----------------------------------------------------------------------------
\* Steps of calls and closers change neither Connect nor the sessions issued.
LEMMA OpsKeepConnect ==
  ASSUME IInv, UNCHANGED connectVars, UNCHANGED issued,
         phase = "up" \/ UNCHANGED op
  PROVE  LoopInv' /\ SessionInv'
  BY DEF IInv, LoopInv, SessionInv, connectVars, Retries, NoDial

\* An operation that is not idle belongs to a connected client.
LEMMA BusyIsUp ==
  ASSUME IInv, NEW o \in Ops, op[o] # "idle"
  PROVE  phase = "up"
  BY DEF IInv, SessionInv

LEMMA CallStep ==
  ASSUME IInv, NEW c \in Calls, CallBegin(c) \/ ServeCall(c) \/ CallFails(c)
  PROVE  IInv'
  <1> USE OpsAssumption, NoneAssumption
  <1>1. CASE CallBegin(c)
    <2>1. TypeOK'
      BY <1>1 DEF IInv, TypeOK, CallBegin, Becomes, connectVars, serverVars,
                  OpStates, Returned
    <2>2. LoopInv' /\ SessionInv'
      BY <1>1, OpsKeepConnect DEF CallBegin, serverVars
    <2>3. late' \subseteq late \union {c} /\ (c \in late' => closed \/ c \in late)
      BY <1>1 DEF CallBegin, IInv, CloseInv, Returned
    <2>4. CallInv'
      BY <1>1, <2>3 DEF IInv, TypeOK, CallInv, CallBegin, Becomes, connectVars, serverVars
    <2>5. CloseInv'
      BY <1>1 DEF IInv, TypeOK, CloseInv, Won, CallBegin, Becomes, connectVars, serverVars
    <2> QED BY <2>1, <2>2, <2>4, <2>5 DEF IInv
  <1>2. CASE ServeCall(c)
    <2>0. PICK a \in Answers :
            /\ Answer(c, a)
            /\ a \in Expiries => connID \notin live /\ UNCHANGED runs
            /\ UNCHANGED runs \/ runs' = [runs EXCEPT ![c] = @ + 1]
      BY <1>2 DEF ServeCall, Answers, Failures, Expiries
    <2>a. net' = [net EXCEPT ![c] = "served"] /\ answer' = [answer EXCEPT ![c] = a]
      BY <2>0 DEF Answer
    <2>b. /\ net[c] = "sent"
          /\ UNCHANGED <<connectVars, serverVars, closed, op, late>>
      BY <1>2 DEF ServeCall
    <2>c. /\ net' \in [Ops -> {"none", "sent", "served"}]
          /\ answer' \in [Ops -> Answers \union {None}]
      BY <2>a DEF IInv, TypeOK
    <2>d. runs' \in [Calls -> Nat]
      BY <2>0 DEF IInv, TypeOK
    <2>1. TypeOK'
      BY <2>b, <2>c, <2>d DEF IInv, TypeOK, connectVars, serverVars
    <2>2. LoopInv' /\ SessionInv'
      BY <2>b, OpsKeepConnect DEF serverVars
    <2>3. CallInv'
      <3>1. \A d \in Calls \ {c} :
              net'[d] = net[d] /\ answer'[d] = answer[d] /\ runs'[d] = runs[d]
        BY <2>0, <2>a DEF IInv, TypeOK
      <3>a. runs[c] = 0 /\ op[c] \notin {"idle", "open", "ErrClosed", "expired"}
        BY <2>b DEF IInv, CallInv
      <3>b. net'[c] = "served" /\ answer'[c] = a
        BY <2>a DEF IInv, TypeOK
      <3>c. runs'[c] <= 1
        BY <2>0, <3>a DEF IInv, TypeOK
      <3>2. /\ net'[c] = "served" /\ answer'[c] = a
            /\ runs[c] = 0 /\ runs'[c] <= 1
            /\ a \in Expiries => connID \notin live /\ runs'[c] = 0
            /\ op[c] \notin {"idle", "open", "ErrClosed", "expired"}
        BY <2>0, <3>a, <3>b, <3>c
      <3>3. UNCHANGED <<op, connID, live, late>>
        BY <2>b DEF connectVars, serverVars
      <3> QED
        BY <3>1, <3>2, <3>3 DEF IInv, CallInv
    <2>4. CloseInv'
      BY <2>a, <2>b DEF IInv, TypeOK, CloseInv, Won, connectVars, serverVars
    <2> QED BY <2>1, <2>2, <2>3, <2>4 DEF IInv
  <1>3. CASE CallFails(c)
    <2>0. phase = "up"
      BY <1>3, BusyIsUp DEF CallFails
    <2>1. TypeOK'
      BY <1>3 DEF IInv, TypeOK, CallFails, Becomes, connectVars, serverVars,
                  OpStates, Returned
    <2>2. LoopInv' /\ SessionInv'
      BY <1>3, <2>0, OpsKeepConnect DEF CallFails, serverVars
    <2>3. CallInv'
      BY <1>3 DEF IInv, TypeOK, CallInv, CallFails, Becomes, connectVars, serverVars
    <2>4. CloseInv'
      BY <1>3 DEF IInv, TypeOK, CloseInv, Won, CallFails, Becomes, connectVars, serverVars
    <2> QED BY <2>1, <2>2, <2>3, <2>4 DEF IInv
  <1> QED
    BY <1>1, <1>2, <1>3

LEMMA CloseStep ==
  ASSUME IInv, NEW k \in Closers, CloseSwap(k) \/ ServeDisconnect(k) \/ CloseFails(k)
  PROVE  IInv'
  <1> USE OpsAssumption, NoneAssumption
  <1>1. CASE CloseSwap(k)
    <2>1. TypeOK'
      BY <1>1 DEF IInv, TypeOK, CloseSwap, Becomes, connectVars, serverVars,
                  OpStates, Returned
    <2>2. LoopInv' /\ SessionInv'
      BY <1>1, OpsKeepConnect DEF CloseSwap, serverVars
    <2>3. CallInv'
      BY <1>1 DEF IInv, TypeOK, CallInv, CloseSwap, Becomes, connectVars, serverVars
    <2>4. CloseInv'
      <3>1. /\ UNCHANGED <<connID, live, net, answer>>
            /\ \A j \in Closers \ {k} : op'[j] = op[j]
        BY <1>1 DEF IInv, TypeOK, CloseSwap, Becomes, connectVars, serverVars
      <3>2. op[k] = "idle" /\ net[k] = "none" /\ closed' = TRUE
        BY <1>1 DEF IInv, TypeOK, CloseInv, CloseSwap
      <3>3. op'[k] = "ok" \/ (~closed /\ op'[k] = "open")
        BY <1>1 DEF IInv, TypeOK, CloseSwap, Becomes
      <3>4. ~closed => \A j \in Closers : op[j] = "idle" /\ net[j] = "none"
        BY DEF IInv, CloseInv
      <3>5. \A k1, k2 \in Closers : Won(k1)' /\ Won(k2)' => k1 = k2
        <4>1. \A j \in Closers \ {k} : Won(j)' <=> Won(j)
          BY <3>1 DEF Won
        <4>2. CASE op'[k] = "ok"
          <5>1. ~Won(k)'
            BY <3>1, <3>2, <4>2 DEF Won
          <5> QED
            BY <4>1, <5>1 DEF IInv, CloseInv
        <4>3. CASE ~closed
          <5>1. \A j \in Closers \ {k} : ~Won(j)
            BY <3>4, <4>3 DEF Won
          <5> QED
            BY <4>1, <5>1
        <4> QED
          BY <3>3, <4>2, <4>3
      <3> QED
        BY <3>1, <3>2, <3>3, <3>5 DEF IInv, CloseInv
    <2> QED BY <2>1, <2>2, <2>3, <2>4 DEF IInv
  <1>2. CASE ServeDisconnect(k)
    <2>0. PICK a \in Answers : Answer(k, a)
      BY <1>2 DEF ServeDisconnect, Answers, Expiries
    <2>a. /\ net' \in [Ops -> {"none", "sent", "served"}]
          /\ answer' \in [Ops -> Answers \union {None}]
      BY <2>0 DEF IInv, TypeOK, Answer
    <2>b. live' \subseteq live
      BY <1>2 DEF ServeDisconnect
    <2>1. TypeOK'
      BY <1>2, <2>a, <2>b DEF IInv, TypeOK, ServeDisconnect, connectVars
    <2>2. LoopInv' /\ SessionInv'
      BY <1>2, OpsKeepConnect DEF ServeDisconnect
    <2>3. live' \subseteq live /\ UNCHANGED connID
      BY <1>2 DEF ServeDisconnect, connectVars
    <2>4. CallInv'
      BY <1>2, <2>3 DEF IInv, TypeOK, CallInv, ServeDisconnect, Answer
    <2>5. CloseInv'
      <3>1. \A j \in Closers \ {k} : net'[j] = net[j] /\ answer'[j] = answer[j]
        BY <2>0 DEF IInv, TypeOK, Answer
      <3>2. /\ net[k] = "sent" /\ net'[k] = "served"
            /\ answer'[k] \in {"success", "already disconnected", "httperror"}
            /\ answer'[k] # "httperror" => connID \notin live'
        BY <1>2 DEF IInv, TypeOK, ServeDisconnect, Answer
      <3>3. UNCHANGED <<op, closed, connID>>
        BY <1>2 DEF ServeDisconnect, connectVars
      <3> QED
        BY <2>3, <3>1, <3>2, <3>3 DEF IInv, CloseInv, Won
    <2> QED BY <2>1, <2>2, <2>4, <2>5 DEF IInv
  <1>3. CASE CloseFails(k)
    <2>0. phase = "up"
      BY <1>3, BusyIsUp DEF CloseFails
    <2>1. TypeOK'
      BY <1>3 DEF IInv, TypeOK, CloseFails, Becomes, connectVars, serverVars,
                  OpStates, Returned
    <2>2. LoopInv' /\ SessionInv'
      BY <1>3, <2>0, OpsKeepConnect DEF CloseFails, serverVars
    <2>3. CallInv'
      BY <1>3 DEF IInv, TypeOK, CallInv, CloseFails, Becomes, connectVars, serverVars
    <2>4. CloseInv'
      BY <1>3 DEF IInv, TypeOK, CloseInv, Won, CloseFails, Becomes, connectVars, serverVars
    <2> QED BY <2>1, <2>2, <2>3, <2>4 DEF IInv
  <1> QED
    BY <1>1, <1>2, <1>3

LEMMA OpStep ==
  ASSUME IInv, NEW o \in Ops, Post(o) \/ Answered(o)
  PROVE  IInv'
  <1> USE OpsAssumption, NoneAssumption
  <1>0. phase = "up"
    BY BusyIsUp DEF Post, Answered
  <1>1. CASE Post(o)
    <2>1. TypeOK'
      BY <1>1 DEF IInv, TypeOK, Post, Becomes, connectVars, serverVars, OpStates
    <2>2. LoopInv' /\ SessionInv'
      BY <1>0, <1>1, OpsKeepConnect DEF Post, serverVars
    <2>3. CallInv'
      BY <1>1 DEF IInv, TypeOK, CallInv, Post, Becomes, connectVars, serverVars
    <2>4. CloseInv'
      BY <1>1 DEF IInv, TypeOK, CloseInv, Won, Post, Becomes, connectVars, serverVars
    <2> QED BY <2>1, <2>2, <2>3, <2>4 DEF IInv
  <1>2. CASE Answered(o)
    <2>0. /\ Outcome(answer[o]) \in {"ok", "expired", "error"}
          /\ Outcome(answer[o]) = "ok" => answer[o] \in {"result", "success"}
          /\ Outcome(answer[o]) = "expired" =>
               answer[o] \in Expiries \union {"quoting text"}
      BY DEF Outcome, connectionExpired
    <2>1. TypeOK'
      BY <1>2, <2>0 DEF IInv, TypeOK, Answered, Becomes, connectVars, serverVars,
                        OpStates, Returned
    <2>2. LoopInv' /\ SessionInv'
      BY <1>0, <1>2, OpsKeepConnect DEF Answered, serverVars
    <2>3. CallInv'
      BY <1>2, <2>0 DEF IInv, TypeOK, CallInv, Answered, Becomes, connectVars, serverVars
    <2>4. CloseInv'
      BY <1>2, <2>0
      DEF IInv, TypeOK, CloseInv, Won, Answered, Becomes, connectVars, serverVars, Expiries
    <2> QED BY <2>1, <2>2, <2>3, <2>4 DEF IInv
  <1> QED
    BY <1>1, <1>2

LEMMA RestartStep == IInv /\ ExpireConnections => IInv'
  <1> SUFFICES ASSUME IInv, ExpireConnections PROVE IInv'
    OBVIOUS
  <1>1. TypeOK'
    BY DEF IInv, TypeOK, ExpireConnections, connectVars, clientVars
  <1>2. LoopInv' /\ SessionInv'
    BY DEF IInv, LoopInv, SessionInv, NoDial, Retries, ExpireConnections, connectVars, clientVars
  <1>3. CallInv'
    BY DEF IInv, CallInv, ExpireConnections, connectVars, clientVars
  <1>4. CloseInv'
    BY DEF IInv, CloseInv, Won, ExpireConnections, connectVars, clientVars
  <1> QED
    BY <1>1, <1>2, <1>3, <1>4 DEF IInv

LEMMA StutterStep == IInv /\ UNCHANGED vars => IInv'
  <1> SUFFICES ASSUME IInv, UNCHANGED vars PROVE IInv'
    OBVIOUS
  <1>1. TypeOK'
    BY DEF IInv, TypeOK, vars, connectVars, clientVars, serverVars
  <1>2. LoopInv' /\ SessionInv'
    BY DEF IInv, LoopInv, SessionInv, NoDial, Retries, vars, connectVars, clientVars, serverVars
  <1>3. CallInv'
    BY DEF IInv, CallInv, vars, connectVars, clientVars, serverVars
  <1>4. CloseInv'
    BY DEF IInv, CloseInv, Won, vars, connectVars, clientVars, serverVars
  <1> QED
    BY <1>1, <1>2, <1>3, <1>4 DEF IInv

\* IInv is inductive: the strengthening on which the theorems below rest.
THEOREM Invariance == Spec => []IInv
  <1>1. IInv /\ [Next]_vars => IInv'
    BY ConnectStep, CallStep, CloseStep, OpStep, RestartStep, StutterStep DEF Next
  <1> QED
    BY InitIInv, <1>1, PTL DEF Spec

-----------------------------------------------------------------------------
\* Every variable of the client keeps its type.
THEOREM TypeCorrect == Spec => []TypeOK
  <1>1. IInv => TypeOK
    BY DEF IInv
  <1> QED
    BY Invariance, <1>1, PTL

\* Connect never posts more requests than Config.MaxRetries allows.
THEOREM RetryBudget == Spec => []AttemptsBounded
  <1>1. IInv => AttemptsBounded
    BY RetriesAssumption DEF IInv, TypeOK, LoopInv, AttemptsBounded, Retries
  <1> QED
    BY Invariance, <1>1, PTL

\* call never makes the server run a prepare or a fetch twice.
THEOREM CallsRunAtMostOnce == Spec => []AtMostOnce
  <1>1. IInv => AtMostOnce
    BY DEF IInv, CallInv, AtMostOnce
  <1> QED
    BY Invariance, <1>1, PTL

\* Racing Closes send one DISCONNECT.
THEOREM SingleDisconnect == Spec => []OneDisconnect
  <1>1. IInv => OneDisconnect
    BY DEF IInv, CloseInv, Won, OneDisconnect
  <1> QED
    BY Invariance, <1>1, PTL

\* No call that begins after a Close has returned leaves the client.
THEOREM ClosedClientIsUnusable == Spec => []UnusableAfterClose
  <1>1. IInv => UnusableAfterClose
    BY DEF IInv, TypeOK, CallInv, UnusableAfterClose
  <1> QED
    BY Invariance, <1>1, PTL

\* A Close that sent its DISCONNECT and returned nil has released the session.
THEOREM CloseReleasesSession == Spec => []CloseReleases
  <1>1. IInv => CloseReleases
    BY DEF IInv, CloseInv, CloseReleases
  <1> QED
    BY Invariance, <1>1, PTL

\* ErrConnectionExpired is never reported of a session the server knows, nor
\* of a call it ran, unless the error text quotes the literal.
THEOREM ExpiryIsGenuine == Spec => []ExpiredIsTrue
  <1>1. IInv => ExpiredIsTrue
    BY DEF IInv, CallInv, CloseInv, ExpiredIsTrue, Expiries
  <1> QED
    BY Invariance, <1>1, PTL
-----------------------------------------------------------------------------
(* Sessions without an owner *)

\* Connect has been given a session that it has not looked at yet.
Given == dial.net = "served" /\ dial.answer \in Accepts

\* The sessions of the server that nobody owns: not the client's, and not on
\* their way to it.
Ownerless == {s \in live : ~(phase = "up" /\ s = connID) /\ ~(Given /\ s = dial.id)}

\* Connect's refusal of a version.
Refusal == IF phase = "failed" THEN 1 ELSE 0

\* A lost answer pays for one session or for one request that nobody waits for.
LeakInv ==
  /\ Given => dial.id \in issued
  /\ IsFiniteSet(live)
  /\ Cardinality(Ownerless) + stray <= lost + Refusal

\* The cardinalities the argument counts with.
LEMMA CountFacts ==
  ASSUME NEW S, IsFiniteSet(S)
  PROVE  /\ Cardinality(S) \in Nat
         /\ \A T \in SUBSET S :
              IsFiniteSet(T) /\ Cardinality(T) \in Nat /\ Cardinality(T) <= Cardinality(S)
         /\ \A x : IsFiniteSet(S \union {x}) /\ Cardinality(S \union {x}) <= Cardinality(S) + 1
  <1>1. Cardinality(S) \in Nat
    BY FS_CardinalityType
  <1>2. ASSUME NEW T \in SUBSET S
        PROVE  IsFiniteSet(T) /\ Cardinality(T) \in Nat /\ Cardinality(T) <= Cardinality(S)
    BY FS_Subset, FS_CardinalityType
  <1>3. ASSUME NEW x
        PROVE  IsFiniteSet(S \union {x}) /\ Cardinality(S \union {x}) <= Cardinality(S) + 1
    <2>1. /\ IsFiniteSet(S \union {x})
          /\ Cardinality(S \union {x}) = IF x \in S THEN Cardinality(S) ELSE Cardinality(S) + 1
      BY FS_AddElement
    <2> QED
      BY <1>1, <2>1
  <1> QED
    BY <1>1, <1>2, <1>3

\* The account of sessions before and after a step that adds at most one.
LEMMA Balance ==
  ASSUME NEW n1 \in Nat, NEW n2 \in Nat, NEW s1 \in Nat, NEW s2 \in Nat, NEW l1 \in Nat,
         NEW l2 \in Nat, NEW r1 \in Nat, NEW r2 \in Nat, n1 + s1 <= l1 + r1
  PROVE  /\ n2 <= n1 /\ s2 + l1 + r1 <= s1 + l2 + r2 => n2 + s2 <= l2 + r2
         /\ n2 <= n1 + 1 /\ s2 + 1 + l1 + r1 <= s1 + l2 + r2 => n2 + s2 <= l2 + r2
  OBVIOUS

\* A step that orphans no session and pays for every new stray request.
LEMMA NoNewLeak ==
  ASSUME TypeOK, TypeOK', LeakInv, Given' => dial'.id \in issued',
         IsFiniteSet(live'), Ownerless' \subseteq Ownerless,
         stray' + lost + Refusal <= stray + lost' + Refusal'
  PROVE  LeakInv'
  <1>1. IsFiniteSet(Ownerless) /\ Cardinality(Ownerless) \in Nat
    <2>1. Ownerless \in SUBSET live
      BY DEF Ownerless
    <2> QED
      BY <2>1, CountFacts DEF LeakInv
  <1>2. Cardinality(Ownerless') \in Nat /\ Cardinality(Ownerless') <= Cardinality(Ownerless)
    BY <1>1, CountFacts
  <1>3. /\ stray \in Nat /\ stray' \in Nat /\ lost \in Nat /\ lost' \in Nat
        /\ Refusal \in Nat /\ Refusal' \in Nat
    BY DEF TypeOK, Refusal
  <1>4. Cardinality(Ownerless) + stray <= lost + Refusal
    BY DEF LeakInv
  <1>5. Cardinality(Ownerless') + stray' <= lost' + Refusal'
    BY <1>1, <1>2, <1>3, <1>4, Balance
  <1> QED
    BY <1>5 DEF LeakInv

\* A step that orphans one session and pays for it.
LEMMA PaidLeak ==
  ASSUME TypeOK, TypeOK', LeakInv, Given' => dial'.id \in issued',
         IsFiniteSet(live'), NEW s, Ownerless' \subseteq Ownerless \union {s},
         stray' + 1 + lost + Refusal <= stray + lost' + Refusal'
  PROVE  LeakInv'
  <1>1. IsFiniteSet(Ownerless) /\ Cardinality(Ownerless) \in Nat
    <2>1. Ownerless \in SUBSET live
      BY DEF Ownerless
    <2> QED
      BY <2>1, CountFacts DEF LeakInv
  <1>2. /\ IsFiniteSet(Ownerless \union {s}) /\ Cardinality(Ownerless \union {s}) \in Nat
        /\ Cardinality(Ownerless \union {s}) <= Cardinality(Ownerless) + 1
    BY <1>1, CountFacts
  <1>3. /\ Cardinality(Ownerless') \in Nat
        /\ Cardinality(Ownerless') <= Cardinality(Ownerless \union {s})
    BY <1>2, CountFacts
  <1>4. /\ stray \in Nat /\ stray' \in Nat /\ lost \in Nat /\ lost' \in Nat
        /\ Refusal \in Nat /\ Refusal' \in Nat
    BY DEF TypeOK, Refusal
  <1>5. Cardinality(Ownerless) + stray <= lost + Refusal
    BY DEF LeakInv
  <1>6. Cardinality(Ownerless') <= Cardinality(Ownerless) + 1
    BY <1>1, <1>2, <1>3
  <1>7. Cardinality(Ownerless') + stray' <= lost' + Refusal'
    BY <1>1, <1>3, <1>4, <1>5, <1>6, Balance
  <1> QED
    BY <1>7 DEF LeakInv

\* The steps of Connect: a session goes from the server to the answer to the
\* client, and drops out of that line only where an answer is lost or a version
\* refused.
LEMMA ConnectLeaks ==
  ASSUME IInv, IInv', LeakInv, ConnectNext
  PROVE  LeakInv'
  <1> USE DEF Given, Ownerless, Refusal, clientVars, serverVars
  <1>0. TypeOK /\ TypeOK' /\ IsFiniteSet(live)
    BY DEF IInv, LeakInv
  <1>1. CASE TimeoutFires
    BY <1>0, <1>1, NoNewLeak DEF TypeOK, LeakInv, TimeoutFires
  <1>2. CASE DialSend
    BY <1>0, <1>2, NoNewLeak DEF TypeOK, IInv, LoopInv, NoDial, DialSend
  <1>3. CASE DialDead
    <2>1. /\ dial = NoDial /\ dial' = NoDial /\ phase = "ready" /\ phase' \in {"failed", "backoff"}
          /\ UNCHANGED <<stray, lost, connID, live, issued>>
      BY <1>3 DEF IInv, LoopInv, DialDead, Retry
    <2>2. ~Given /\ ~Given' /\ Ownerless' \subseteq Ownerless
      BY <2>1 DEF NoDial
    <2>3. stray' + lost + Refusal <= stray + lost' + Refusal'
      BY <1>0, <2>1 DEF TypeOK
    <2> QED
      BY <1>0, <2>1, <2>2, <2>3, NoNewLeak
  <1>4. CASE ServeDial
    <2>1. phase = "waiting" /\ dial.net = "sent" /\ phase' = phase /\ stray' = stray /\ lost' = lost
      BY <1>4 DEF ServeDial, IInv, LoopInv, NoDial
    <2>2. ASSUME NEW a \in Accepts, NEW s \in Sessions \ issued,
                 dial' = [net |-> "served", answer |-> a, id |-> s],
                 live' = live \union {s}, issued' = issued \union {s}
          PROVE  LeakInv'
      <3>1. IsFiniteSet(live')
        BY <1>0, <2>2, CountFacts
      <3>2. Ownerless' \subseteq Ownerless
        BY <2>1, <2>2
      <3> QED
        BY <1>0, <2>1, <2>2, <3>1, <3>2, NoNewLeak DEF TypeOK
    <2>3. ASSUME NEW a \in DialAnswers \ Accepts,
                 dial' = [net |-> "served", answer |-> a, id |-> None], UNCHANGED serverVars
          PROVE  LeakInv'
      BY <1>0, <2>1, <2>3, NoNewLeak DEF TypeOK
    <2> QED
      BY <1>4, <2>2, <2>3 DEF ServeDial
  <1>5. CASE ServeStray
    <2>1. /\ stray > 0 /\ stray' = stray - 1
          /\ UNCHANGED <<phase, dial, connID, lost>>
      BY <1>5 DEF ServeStray
    <2>2. ASSUME NEW s \in Sessions \ issued,
                 live' = live \union {s}, issued' = issued \union {s}
          PROVE  LeakInv'
      <3>1. IsFiniteSet(live')
        BY <1>0, <2>2, CountFacts
      <3>2. Ownerless' \subseteq Ownerless \union {s}
        BY <2>1, <2>2
      <3>3. Given' => dial'.id \in issued'
        BY <2>1, <2>2 DEF LeakInv
      <3>4. stray' + 1 + lost + Refusal <= stray + lost' + Refusal'
        BY <1>0, <2>1 DEF TypeOK
      <3> QED
        BY <1>0, <3>1, <3>2, <3>3, <3>4, PaidLeak
    <2>3. CASE UNCHANGED serverVars
      BY <1>0, <2>1, <2>3, NoNewLeak DEF TypeOK, LeakInv
    <2> QED
      BY <1>5, <2>2, <2>3 DEF ServeStray
  <1>6. CASE DialAnswered
    <2>1. /\ phase = "waiting" /\ dial.net = "served" /\ dial' = NoDial
          /\ UNCHANGED <<stray, lost, live, issued>>
      BY <1>6 DEF DialAnswered, Retry
    <2>2. CASE dial.answer = "welcome"
      BY <1>0, <1>6, <2>1, <2>2, NoNewLeak DEF TypeOK, DialAnswered, NoDial, Accepts
    <2>3. CASE dial.answer = "otherversion"
      <3>1. phase' = "failed"
        BY <1>6, <2>3 DEF DialAnswered, Retry, GiveUp
      <3>2. Ownerless' \subseteq Ownerless \union {dial.id}
        BY <2>1
      <3>3. ~Given' /\ live' = live
        BY <2>1 DEF NoDial
      <3>4. stray' + 1 + lost + Refusal <= stray + lost' + Refusal'
        BY <1>0, <2>1, <3>1 DEF TypeOK
      <3> QED
        BY <1>0, <3>2, <3>3, <3>4, PaidLeak
    <2>4. CASE dial.answer \notin Accepts
      BY <1>0, <1>6, <2>1, <2>4, NoNewLeak DEF TypeOK, DialAnswered, Retry, NoDial, Accepts
    <2> QED
      BY <2>2, <2>3, <2>4 DEF Accepts
  <1>7. CASE DialLost
    <2>1. /\ phase = "waiting" /\ dial' = NoDial /\ lost' = lost + 1
          /\ phase' \in {"failed", "backoff"} /\ UNCHANGED <<live, issued>>
      BY <1>7 DEF DialLost, Retry
    <2>2. CASE dial.net = "sent" /\ stray' = stray + 1
      BY <1>0, <2>1, <2>2, NoNewLeak DEF TypeOK, NoDial
    <2>3. CASE stray' = stray
      <3>1. Ownerless' \subseteq Ownerless \union {dial.id}
        BY <2>1
      <3>2. ~Given' /\ live' = live
        BY <2>1 DEF NoDial
      <3>3. stray' + 1 + lost + Refusal <= stray + lost' + Refusal'
        BY <1>0, <2>1, <2>3 DEF TypeOK
      <3> QED
        BY <1>0, <3>1, <3>2, <3>3, PaidLeak
    <2> QED
      BY <1>7, <2>2, <2>3 DEF DialLost
  <1>8. CASE DialTruncated
    <2>1. /\ phase = "waiting" /\ dial' = NoDial /\ lost' = lost + 1 /\ phase' = "failed"
          /\ UNCHANGED <<live, issued, stray>>
      BY <1>8 DEF DialTruncated, Retry, GiveUp
    <2>2. Ownerless' \subseteq Ownerless \union {dial.id}
      BY <2>1
    <2>3. ~Given' /\ live' = live
      BY <2>1 DEF NoDial
    <2>4. stray' + 1 + lost + Refusal <= stray + lost' + Refusal'
      BY <1>0, <2>1 DEF TypeOK
    <2> QED
      BY <1>0, <2>2, <2>3, <2>4, PaidLeak
  <1>9. CASE BackoffOver \/ BackoffCancelled
    <2>1. /\ dial = NoDial /\ dial' = NoDial /\ phase = "backoff" /\ phase' \in {"failed", "ready"}
          /\ UNCHANGED <<stray, lost, connID, live, issued>>
      BY <1>9 DEF IInv, LoopInv, BackoffOver, BackoffCancelled
    <2>2. ~Given /\ ~Given' /\ Ownerless' \subseteq Ownerless
      BY <2>1 DEF NoDial
    <2>3. stray' + lost + Refusal <= stray + lost' + Refusal'
      BY <1>0, <2>1 DEF TypeOK
    <2> QED
      BY <1>0, <2>1, <2>2, <2>3, NoNewLeak
  <1> QED
    BY <1>1, <1>2, <1>3, <1>4, <1>5, <1>6, <1>7, <1>8, <1>9 DEF ConnectNext

\* Calls, Close and restarts make no session and lose none.
LEMMA OthersLeakNothing ==
  ASSUME IInv, IInv', LeakInv, UNCHANGED connectVars, UNCHANGED issued, live' \subseteq live
  PROVE  LeakInv'
  <1>1. TypeOK /\ TypeOK' /\ IsFiniteSet(live')
    BY CountFacts DEF IInv, LeakInv
  <1>2. Ownerless' \subseteq Ownerless
    BY DEF Ownerless, Given, connectVars
  <1> QED
    BY <1>1, <1>2, NoNewLeak DEF TypeOK, LeakInv, Given, Refusal, connectVars

\* Connect's retries cost the server no more sessions than answers were lost,
\* and one for a refused version.
THEOREM RetriesLeakLittle == Spec => []LeaksBounded
  <1>1. Init => LeakInv
    <2> SUFFICES ASSUME Init PROVE LeakInv
      OBVIOUS
    <2>1. Ownerless = {} /\ live = {}
      BY DEF Init, Ownerless
    <2> QED
      BY <2>1, FS_EmptySet DEF Init, LeakInv, Given, NoDial, Refusal
  <1>2. IInv /\ IInv' /\ LeakInv /\ [Next]_vars => LeakInv'
    <2> SUFFICES ASSUME IInv, IInv', LeakInv, [Next]_vars PROVE LeakInv'
      OBVIOUS
    <2>1. CASE ConnectNext
      BY <2>1, ConnectLeaks
    <2>2. CASE ~ConnectNext
      <3>1. UNCHANGED connectVars /\ UNCHANGED issued /\ live' \subseteq live
        BY <2>2 DEF Next, CallBegin, ServeCall, CallFails, CloseSwap, ServeDisconnect,
             CloseFails, Post, Answered, ExpireConnections, vars, serverVars
      <3> QED
        BY <3>1, OthersLeakNothing
    <2> QED
      BY <2>1, <2>2
  <1>3. IInv /\ LeakInv => LeaksBounded
    <2> SUFFICES ASSUME IInv, LeakInv, phase \in {"up", "failed"}
                 PROVE  Cardinality(live \ {connID}) <= lost + Refusal
      BY DEF LeaksBounded, Refusal
    <2>1. dial = NoDial
      BY DEF IInv, LoopInv
    <2>2. live \ {connID} \subseteq Ownerless /\ Ownerless \in SUBSET live
      BY <2>1 DEF Ownerless, Given, NoDial
    <2>3. IsFiniteSet(Ownerless) /\ Cardinality(Ownerless) \in Nat
      BY <2>2, CountFacts DEF LeakInv
    <2>4. /\ Cardinality(live \ {connID}) \in Nat
          /\ Cardinality(live \ {connID}) <= Cardinality(Ownerless)
      BY <2>2, <2>3, CountFacts
    <2>5. stray \in Nat /\ lost \in Nat /\ Refusal \in Nat
      BY DEF IInv, TypeOK, Refusal
    <2> QED
      BY <2>3, <2>4, <2>5 DEF LeakInv
  <1> QED
    BY <1>1, <1>2, <1>3, Invariance, PTL DEF Spec
=============================================================================
