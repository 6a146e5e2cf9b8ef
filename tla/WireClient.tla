------------------------------ MODULE WireClient ------------------------------
(***************************************************************************)
(* wire/client.go: the life of one wire.Client.  Connect with its retry    *)
(* loop and its timeout, then any number of goroutines that share the      *)
(* client: calls (Prepare, Fetch, RoundTripRaw) racing with Close.         *)
(*                                                                         *)
(* A request is under way on its own: the goroutine that sent it may give  *)
(* up (context, reset connection) and the server may still serve it later. *)
(* The server is the one of internal/quacktest: sessions, a restart that   *)
(* forgets them, and error texts that are told apart only by what          *)
(* connectionExpired reads into them.  Query ids are only labels for the   *)
(* server's log and are left out.                                          *)
(***************************************************************************)
EXTENDS Integers, FiniteSets

CONSTANTS
  Calls,       \* invocations of Prepare, Fetch or RoundTripRaw
  Closers,     \* invocations of Close
  Sessions,    \* connection ids the server hands out, each one once
  None,        \* no session, no answer
  MaxRetries   \* wire.Config.MaxRetries as configured

ASSUME OpsAssumption == Calls \intersect Closers = {}
ASSUME NoneAssumption == None \notin Sessions
ASSUME RetriesAssumption == MaxRetries \in Int

VARIABLES
  phase,       \* Connect: control state
  attempt,     \* Connect: the counter of the retry loop
  ctxDead,     \* Connect: its context has ended
  dial,        \* Connect: the request it waits for, [net, answer, id]
  stray,       \* connection requests under way that nobody waits for
  connID,      \* Client.connID
  closed,      \* Client.closed
  op,          \* call or Close: control state, at the end its outcome
  net,         \* call or Close: where its request is
  answer,      \* call or Close: what the server answered
  live,        \* server: sessions it knows
  issued,      \* server: sessions it has ever handed out
  runs,        \* history: how often the server ran each call
  sends,       \* history: connection requests sent
  lost,        \* history: connection requests whose answer never arrived
  late         \* history: calls begun after some Close had returned

connectVars == <<phase, attempt, ctxDead, dial, stray, connID, sends, lost>>
clientVars == <<closed, op, net, answer, runs, late>>
serverVars == <<live, issued>>
vars == <<connectVars, clientVars, serverVars>>

Ops == Calls \union Closers

\* Config.withDefaults: the retry budget that retry() works with.
Retries == IF MaxRetries = 0 THEN 3 ELSE MaxRetries

Phases == {"ready", "waiting", "backoff", "up", "failed"}
\* What the server makes of a connection request: a session, a session with a
\* version this build does not speak, an in-band error, a retryable HTTP
\* status, another HTTP status.
Accepts == {"welcome", "otherversion"}
DialAnswers == Accepts \union {"error", "busy", "httperror"}
\* Returned ones: the outcome the caller of the operation sees.
Returned == {"ok", "ErrClosed", "expired", "error"}
OpStates == {"idle", "open", "waiting"} \union Returned
\* In-band error texts. A quoting text is the failure of a query that repeats
\* a piece of the query in which one of the two literals occurs.
Expiries == {"Invalid connection id", "already disconnected"}
Failures == {"other text", "quoting text"}
Answers == Expiries \union Failures \union {"result", "success", "httperror"}

NoDial == [net |-> "none", answer |-> None, id |-> None]

Init ==
  /\ phase = "ready" /\ attempt = 0 /\ ctxDead = FALSE
  /\ dial = NoDial /\ stray = 0 /\ sends = 0 /\ lost = 0
  /\ connID = None /\ closed = FALSE
  /\ op = [o \in Ops |-> "idle"]
  /\ net = [o \in Ops |-> "none"]
  /\ answer = [o \in Ops |-> None]
  /\ runs = [c \in Calls |-> 0]
  /\ late = {}
  /\ live = {} /\ issued = {}

-----------------------------------------------------------------------------
(* Connect *)

\* Mutation of TimeoutFires: Connect runs on a context without a deadline.
TimeoutNever == FALSE /\ UNCHANGED vars

\* The deadline of context.WithTimeout, or the caller's own cancellation.
TimeoutFires ==
  /\ phase \in {"ready", "waiting", "backoff"}
  /\ ~ctxDead /\ ctxDead' = TRUE
  /\ UNCHANGED <<phase, attempt, dial, stray, connID, sends, lost>>
  /\ UNCHANGED <<clientVars, serverVars>>

\* Mutation of GiveUp: the budget is compared with > instead of >=.
GiveUpOneLate(retryable) == ~retryable \/ attempt > Retries \/ ctxDead

\* The condition under which retry returns the last error.
GiveUp(retryable) == ~retryable \/ attempt >= Retries \/ ctxDead

\* What retry does with a failed attempt.
Retry(retryable) ==
  /\ phase' = IF GiveUp(retryable) THEN "failed" ELSE "backoff"
  /\ dial' = NoDial

\* roundTrip posts the connection request.
DialSend ==
  /\ phase = "ready" /\ ~ctxDead
  /\ phase' = "waiting"
  /\ dial' = [NoDial EXCEPT !.net = "sent"]
  /\ sends' = sends + 1
  /\ UNCHANGED <<attempt, ctxDead, stray, connID, lost>>
  /\ UNCHANGED <<clientVars, serverVars>>

\* The context ended before the request was sent: roundTrip fails at once.
DialDead ==
  /\ phase = "ready" /\ ctxDead
  /\ Retry(TRUE)
  /\ UNCHANGED <<attempt, ctxDead, stray, connID, sends, lost>>
  /\ UNCHANGED <<clientVars, serverVars>>

\* The server serves the request Connect waits for.
ServeDial ==
  /\ dial.net = "sent"
  /\ \/ \E a \in Accepts, s \in Sessions \ issued :
          /\ dial' = [net |-> "served", answer |-> a, id |-> s]
          /\ live' = live \union {s}
          /\ issued' = issued \union {s}
     \/ \E a \in DialAnswers \ Accepts :
          /\ dial' = [net |-> "served", answer |-> a, id |-> None]
          /\ UNCHANGED serverVars
  /\ UNCHANGED <<phase, attempt, ctxDead, stray, connID, sends, lost>>
  /\ UNCHANGED clientVars

\* A request nobody waits for reaches the server, or is lost or refused.
ServeStray ==
  /\ stray > 0 /\ stray' = stray - 1
  /\ \/ \E s \in Sessions \ issued :
          /\ live' = live \union {s}
          /\ issued' = issued \union {s}
     \/ UNCHANGED serverVars
  /\ UNCHANGED <<phase, attempt, ctxDead, dial, connID, sends, lost>>
  /\ UNCHANGED clientVars

\* Mutation of DialAnswered: the version is checked inside the retried
\* function, so a server of another version is asked again and again.
DialAnsweredRetriesVersion ==
  /\ phase = "waiting" /\ dial.net = "served"
  /\ \/ /\ dial.answer = "welcome"
        /\ phase' = "up" /\ connID' = dial.id /\ dial' = NoDial
     \/ /\ dial.answer # "welcome"
        /\ Retry(dial.answer \in {"busy", "otherversion"})
        /\ UNCHANGED connID
  /\ UNCHANGED <<attempt, ctxDead, stray, sends, lost>>
  /\ UNCHANGED <<clientVars, serverVars>>

\* The answer arrives whole. Only a retryable HTTP status goes back into the
\* loop; an in-band error, another status or another version ends Connect,
\* and a session the server made for the latter is not disconnected.
DialAnswered ==
  /\ phase = "waiting" /\ dial.net = "served"
  /\ \/ /\ dial.answer = "welcome"
        /\ phase' = "up" /\ connID' = dial.id /\ dial' = NoDial
     \/ /\ dial.answer \in DialAnswers \ {"welcome"}
        /\ Retry(dial.answer = "busy")
        /\ UNCHANGED connID
  /\ UNCHANGED <<attempt, ctxDead, stray, sends, lost>>
  /\ UNCHANGED <<clientVars, serverVars>>

\* No answer: HTTPClient.Do fails with status 0. A request that had not been
\* served may still be on its way.
DialLost ==
  /\ phase = "waiting"
  /\ \/ dial.net = "sent" /\ stray' = stray + 1
     \/ UNCHANGED stray
  /\ lost' = lost + 1
  /\ Retry(TRUE)
  /\ UNCHANGED <<attempt, ctxDead, connID, sends>>
  /\ UNCHANGED <<clientVars, serverVars>>

\* Status 200 arrives and the body is cut off: an error that is not retried.
DialTruncated ==
  /\ phase = "waiting" /\ dial.net = "served"
  /\ dial.answer \in Accepts \union {"error"}
  /\ lost' = lost + 1
  /\ Retry(FALSE)
  /\ UNCHANGED <<attempt, ctxDead, stray, connID, sends>>
  /\ UNCHANGED <<clientVars, serverVars>>

\* select between the timer and the context.
BackoffOver ==
  /\ phase = "backoff"
  /\ phase' = "ready" /\ attempt' = attempt + 1
  /\ UNCHANGED <<ctxDead, dial, stray, connID, sends, lost>>
  /\ UNCHANGED <<clientVars, serverVars>>

BackoffCancelled ==
  /\ phase = "backoff" /\ ctxDead
  /\ phase' = "failed"
  /\ UNCHANGED <<attempt, ctxDead, dial, stray, connID, sends, lost>>
  /\ UNCHANGED <<clientVars, serverVars>>

ConnectNext ==
  \/ TimeoutFires \/ DialSend \/ DialDead \/ ServeDial \/ ServeStray
  \/ DialAnswered \/ DialLost \/ DialTruncated
  \/ BackoffOver \/ BackoffCancelled

-----------------------------------------------------------------------------
(* Calls and Close on a connected client *)

Becomes(o, state) == op' = [op EXCEPT ![o] = state]

\* call and RoundTripRaw: closed.Load().
CallBegin(c) ==
  /\ phase = "up" /\ op[c] = "idle"
  /\ Becomes(c, IF closed THEN "ErrClosed" ELSE "open")
  /\ late' = IF \E k \in Closers : op[k] \in Returned
             THEN late \union {c} ELSE late
  /\ UNCHANGED <<connectVars, serverVars, closed, net, answer, runs>>

\* roundTrip posts the request of a call or a DISCONNECT.
Post(o) ==
  /\ op[o] = "open"
  /\ Becomes(o, "waiting")
  /\ net' = [net EXCEPT ![o] = "sent"]
  /\ UNCHANGED <<connectVars, serverVars, closed, answer, runs, late>>

Answer(o, a) ==
  /\ net' = [net EXCEPT ![o] = "served"]
  /\ answer' = [answer EXCEPT ![o] = a]

\* The server, or a proxy in front of it, serves a call. An unknown session
\* is refused before the handler runs.
ServeCall(c) ==
  /\ net[c] = "sent"
  /\ \/ /\ connID \in live
        /\ \E a \in Failures \union {"result"} : Answer(c, a)
        /\ runs' = [runs EXCEPT ![c] = @ + 1]
     \/ /\ connID \in live
        /\ \E a \in Failures : Answer(c, a)
        /\ UNCHANGED runs
     \/ /\ connID \notin live
        /\ Answer(c, "Invalid connection id")
        /\ UNCHANGED runs
     \/ /\ Answer(c, "httperror")
        /\ UNCHANGED runs
  /\ UNCHANGED <<connectVars, serverVars, closed, op, late>>

\* The server serves a DISCONNECT.
ServeDisconnect(k) ==
  /\ net[k] = "sent"
  /\ \/ /\ connID \in live
        /\ live' = live \ {connID}
        /\ Answer(k, "success")
     \/ /\ connID \notin live
        /\ Answer(k, "already disconnected")
        /\ UNCHANGED live
     \/ /\ Answer(k, "httperror")
        /\ UNCHANGED live
  /\ UNCHANGED <<connectVars, closed, op, runs, late, issued>>

\* Mutation of connectionExpired: every in-band error is an expired session.
connectionExpiredAny(a) == a \in Expiries \union Failures

\* ServerError.Is(ErrConnectionExpired): an in-band text with a literal in it.
connectionExpired(a) == a \in Expiries \union {"quoting text"}

\* The answer arrives: what the call or Close returns.
Outcome(a) ==
  CASE a \in {"result", "success"} -> "ok"
    [] connectionExpired(a) -> "expired"
    [] OTHER -> "error"

Answered(o) ==
  /\ op[o] = "waiting" /\ net[o] = "served"
  /\ Becomes(o, Outcome(answer[o]))
  /\ UNCHANGED <<connectVars, serverVars, closed, net, answer, runs, late>>

\* Mutation of CallFails: a call is retried after a transport error.
CallFailsRetry(c) ==
  /\ op[c] = "waiting"
  /\ Becomes(c, "open")
  /\ UNCHANGED <<connectVars, serverVars, closed, net, answer, runs, late>>

\* Mutation of CallFails: the call returns without an error and no body.
CallFailsBare(c) ==
  /\ op[c] = "waiting"
  /\ Becomes(c, None)
  /\ UNCHANGED <<connectVars, serverVars, closed, net, answer, runs, late>>

\* Transport error or dead context: an error, and no retry. A request that was
\* sent may still be served.
CallFails(c) ==
  /\ op[c] = "waiting"
  /\ Becomes(c, "error")
  /\ UNCHANGED <<connectVars, serverVars, closed, net, answer, runs, late>>

\* Mutation of CloseSwap: the flag is set without looking at it.
CloseSwapUnchecked(k) ==
  /\ phase = "up" /\ op[k] = "idle"
  /\ Becomes(k, "open") /\ closed' = TRUE
  /\ UNCHANGED <<connectVars, serverVars, net, answer, runs, late>>

\* Close: CompareAndSwap(false, true). Whoever loses it returns nil at once.
CloseSwap(k) ==
  /\ phase = "up" /\ op[k] = "idle"
  /\ \/ closed /\ Becomes(k, "ok") /\ UNCHANGED closed
     \/ ~closed /\ Becomes(k, "open") /\ closed' = TRUE
  /\ UNCHANGED <<connectVars, serverVars, net, answer, runs, late>>

\* Mutation of CloseFails: the client is opened again so that Close can be
\* tried once more.
CloseFailsReopens(k) ==
  /\ op[k] = "waiting"
  /\ Becomes(k, "error") /\ closed' = FALSE
  /\ UNCHANGED <<connectVars, serverVars, net, answer, runs, late>>

\* Mutation of CloseFails: a failed goodbye is reported as a success.
CloseFailsQuietly(k) ==
  /\ op[k] = "waiting"
  /\ Becomes(k, "ok")
  /\ UNCHANGED <<connectVars, serverVars, closed, net, answer, runs, late>>

\* The DISCONNECT gets no answer: Close returns the error.
CloseFails(k) ==
  /\ op[k] = "waiting"
  /\ Becomes(k, "error")
  /\ UNCHANGED <<connectVars, serverVars, closed, net, answer, runs, late>>

\* A server restart forgets every session.
ExpireConnections ==
  /\ live # {} /\ live' = {}
  /\ UNCHANGED <<connectVars, clientVars, issued>>

Next ==
  \/ ConnectNext
  \/ \E c \in Calls : CallBegin(c) \/ ServeCall(c) \/ CallFails(c)
  \/ \E k \in Closers : CloseSwap(k) \/ ServeDisconnect(k) \/ CloseFails(k)
  \/ \E o \in Ops : Post(o) \/ Answered(o)
  \/ ExpireConnections

Spec == Init /\ [][Next]_vars

\* Connect makes its own steps, its deadline fires, and HTTPClient.Do returns
\* once the context is dead. Nothing is asked of the server or the network.
ConnectFairness ==
  /\ WF_vars(TimeoutFires)
  /\ WF_vars(DialSend \/ DialDead)
  /\ WF_vars(ctxDead /\ DialLost)
  /\ WF_vars(BackoffOver \/ BackoffCancelled)

FairSpec == Spec /\ ConnectFairness

-----------------------------------------------------------------------------
(* Properties *)

TypeOK ==
  /\ phase \in Phases /\ attempt \in Nat /\ ctxDead \in BOOLEAN
  /\ dial \in [net : {"none", "sent", "served"},
               answer : DialAnswers \union {None},
               id : Sessions \union {None}]
  /\ stray \in Nat /\ sends \in Nat /\ lost \in Nat
  /\ connID \in Sessions \union {None} /\ closed \in BOOLEAN
  /\ op \in [Ops -> OpStates]
  /\ net \in [Ops -> {"none", "sent", "served"}]
  /\ answer \in [Ops -> Answers \union {None}]
  /\ live \subseteq issued /\ issued \subseteq Sessions
  /\ runs \in [Calls -> Nat] /\ late \subseteq Calls

\* Config.MaxRetries means what it says: Connect posts at most MaxRetries + 1
\* connection requests, four when it is zero and one when it is negative,
\* whatever mix of lost answers and retryable statuses it meets.
AttemptsBounded ==
  sends <= (IF MaxRetries = 0 THEN 4 ELSE IF MaxRetries < 0 THEN 1
            ELSE MaxRetries + 1)

\* The price of retrying the handshake: a lost answer costs the server at most
\* one session without an owner, and Connect's own refusal of a version costs
\* one more. Nothing else the loop does leaves a session behind.
LeaksBounded ==
  phase \in {"up", "failed"} =>
    Cardinality(live \ {connID}) <= lost + (IF phase = "failed" THEN 1 ELSE 0)

\* A prepare or a fetch is never run twice for one call: call sends its
\* request once, also when the answer is lost or comes too late.
AtMostOnce == \A c \in Calls : runs[c] <= 1

\* However many goroutines race in Close, one DISCONNECT leaves the client.
OneDisconnect ==
  \A k1, k2 \in Closers :
    net[k1] # "none" /\ net[k2] # "none" => k1 = k2

\* The client is unusable after Close: a call that begins after some Close has
\* returned, with whatever outcome, gets ErrClosed and never leaves the client.
UnusableAfterClose ==
  \A c \in late : op[c] = "ErrClosed" /\ net[c] = "none"

\* A Close that sent its DISCONNECT and returned nil has released the session.
CloseReleases ==
  \A k \in Closers :
    op[k] = "ok" /\ net[k] # "none" => connID \notin live

\* ErrConnectionExpired means what its comment says: the server does not know
\* the session any more and did not run the call. The one exception is a
\* failed query whose error text quotes the literal.
ExpiredIsTrue ==
  \A o \in Ops :
    op[o] = "expired" /\ answer[o] # "quoting text" =>
      /\ connID \notin live
      /\ o \in Calls => runs[o] = 0

\* Connect returns, even when the server or the network never answers: the
\* deadline of ConnectTimeout ends the exchange and the retry loop.
ConnectEnds == <>(phase \in {"up", "failed"})
=============================================================================
