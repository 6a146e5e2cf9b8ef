------------------------------- MODULE Bouncer -------------------------------
(***************************************************************************)
(* cmd/quackbouncer: the proxy's connection table (proxy.go), the pool of  *)
(* idle upstream sessions (pool.go) and the upstream server they talk to.  *)
(*                                                                         *)
(* Processes: one handler goroutine per HTTP request under way.  A handler *)
(* runs in atomic steps between the points where it takes proxy.mu or      *)
(* pool.mu, or waits for the upstream.  Clients, the network and upstream  *)
(* restarts are the environment.                                           *)
(*                                                                         *)
(* Identifiers that nobody can refer to any more may be used again: that   *)
(* keeps the model finite and is sound because both kinds are random.      *)
(* Requests that are answered without touching the state (bad token, bad   *)
(* envelope, unknown virtual id) are stuttering steps.                     *)
(***************************************************************************)
EXTENDS Naturals, Sequences, FiniteSets

CONSTANTS
  Handlers,    \* HTTP requests the proxy may serve at the same time
  Vids,        \* virtual connection ids, drawn by rand.Text
  Sessions,    \* upstream connection ids
  None,        \* no session, no virtual id
  PoolMax,     \* pool.max: how many idle sessions are kept
  MaxRetries   \* wire.Config.MaxRetries of the upstream connect

ASSUME NoneAssumption == None \notin Vids \union Sessions
ASSUME PoolMaxAssumption == PoolMax \in Nat
ASSUME RetriesAssumption == MaxRetries \in Nat

VARIABLES
  live,        \* upstream: sessions it knows
  conns,       \* proxy.conns: virtual id -> session, None when absent
  idle,        \* pool.idle, the last one is the next one out
  closed,      \* sessions whose wire.Client is closed
  known,       \* virtual ids that clients have been told and remember
  pc,          \* handler: control state
  vid,         \* handler: virtual id it works for
  up,          \* handler: the *wire.Client it has in its hands
  tries,       \* handler: attempts of wire.Connect made
  leaked,      \* history: live sessions whose connect or disconnect was lost
  refused      \* history: sessions a client was told to be invalid

upstreamVars == <<live, leaked, refused>>
tableVars == <<conns, idle, closed>>
handlerVars == <<pc, vid, up, tries>>
vars == <<upstreamVars, tableVars, handlerVars, known>>

Range(s) == {s[i] : i \in DOMAIN s}
Mapped == {v \in Vids : conns[v] # None}

FreshVid(v) == v \notin known \union Mapped /\ \A h \in Handlers : vid[h] # v
FreshSession(s) ==
  /\ s \notin live \union Range(idle)
  /\ \A v \in Vids : conns[v] # s
  /\ \A h \in Handlers : up[h] # s

Init ==
  /\ live = {} /\ leaked = {} /\ refused = {}
  /\ conns = [v \in Vids |-> None] /\ idle = <<>> /\ closed = {}
  /\ known = {}
  /\ pc = [h \in Handlers |-> "free"]
  /\ vid = [h \in Handlers |-> None]
  /\ up = [h \in Handlers |-> None]
  /\ tries = [h \in Handlers |-> 0]

At(h, from) == pc[h] = from
Goto(h, to) == pc' = [pc EXCEPT ![h] = to]

\* The handler writes its reply and returns.
Finish(h) ==
  /\ Goto(h, "free")
  /\ vid' = [vid EXCEPT ![h] = None]
  /\ up' = [up EXCEPT ![h] = None]
  /\ tries' = [tries EXCEPT ![h] = 0]

-----------------------------------------------------------------------------
(* handleConnect *)

\* A CONNECTION_REQUEST with an accepted token. The virtual id is drawn now:
\* nobody sees it before Register.
HandleConnect(h) ==
  /\ At(h, "free")
  /\ \E v \in Vids : FreshVid(v) /\ vid' = [vid EXCEPT ![h] = v]
  /\ Goto(h, "get")
  /\ UNCHANGED <<upstreamVars, tableVars, known, up, tries>>

\* pool.get under pool.mu: the most recently returned session, or dial.
PoolGet(h) ==
  /\ At(h, "get")
  /\ \/ /\ idle # <<>>
        /\ up' = [up EXCEPT ![h] = idle[Len(idle)]]
        /\ idle' = SubSeq(idle, 1, Len(idle) - 1)
        /\ Goto(h, "register")
     \/ /\ idle = <<>>
        /\ Goto(h, "dial")
        /\ UNCHANGED <<up, idle>>
  /\ UNCHANGED <<upstreamVars, conns, closed, known, vid, tries>>

\* The upstream accepts the CONNECTION_REQUEST of wire.Connect.
DialServed(h) ==
  /\ At(h, "dial")
  /\ \E s \in Sessions :
       /\ FreshSession(s)
       /\ live' = live \union {s}
       /\ closed' = closed \ {s}
       /\ refused' = refused \ {s}
       /\ up' = [up EXCEPT ![h] = s]
  /\ Goto(h, "dialed")
  /\ UNCHANGED <<leaked, conns, idle, known, vid, tries>>

\* Its CONNECTION_RESPONSE arrives and is accepted.
DialAnswered(h) ==
  /\ At(h, "dialed")
  /\ Goto(h, "register")
  /\ UNCHANGED <<upstreamVars, tableVars, known, vid, up, tries>>

\* Mutation of DialFails: one attempt too many.
DialFailsOneMore(h) ==
  /\ pc[h] \in {"dial", "dialed"}
  /\ leaked' = leaked \union ({up[h]} \intersect live)
  /\ \/ /\ tries[h] <= MaxRetries
        /\ Goto(h, "dial")
        /\ tries' = [tries EXCEPT ![h] = @ + 1]
        /\ up' = [up EXCEPT ![h] = None]
        /\ UNCHANGED vid
     \/ Finish(h)
  /\ UNCHANGED <<live, refused, tableVars, known>>

\* An attempt of wire.Connect fails: no answer, an error, a response it
\* rejects. If the upstream had made a session nobody has its id. retry()
\* goes on while the attempts last, unless the failure is final or the
\* context is dead; then the client gets an error reply.
DialFails(h) ==
  /\ pc[h] \in {"dial", "dialed"}
  /\ leaked' = leaked \union ({up[h]} \intersect live)
  /\ \/ /\ tries[h] < MaxRetries
        /\ Goto(h, "dial")
        /\ tries' = [tries EXCEPT ![h] = @ + 1]
        /\ up' = [up EXCEPT ![h] = None]
        /\ UNCHANGED vid
     \/ Finish(h)
  /\ UNCHANGED <<live, refused, tableVars, known>>

\* p.conns[vid] = up under proxy.mu.
Register(h) ==
  /\ At(h, "register")
  /\ conns' = [conns EXCEPT ![vid[h]] = up[h]]
  /\ Goto(h, "connected")
  /\ UNCHANGED <<upstreamVars, idle, closed, known, vid, up, tries>>

\* The CONNECTION_RESPONSE with the virtual id reaches the client, or not.
ReplyConnect(h) ==
  /\ At(h, "connected")
  /\ known' \in {known, known \union {vid[h]}}
  /\ Finish(h)
  /\ UNCHANGED <<upstreamVars, tableVars>>

-----------------------------------------------------------------------------
(* forward *)

\* Look up the virtual id under proxy.mu; the lock is released before use.
HandleForward(h, v) ==
  /\ At(h, "free") /\ v \in known /\ conns[v] # None
  /\ vid' = [vid EXCEPT ![h] = v]
  /\ up' = [up EXCEPT ![h] = conns[v]]
  /\ Goto(h, "send")
  /\ UNCHANGED <<upstreamVars, tableVars, known, tries>>

\* Mutation of SendUpstream: a closed client is waited for, not refused.
SendUpstreamWaits(h) ==
  /\ At(h, "send")
  /\ up[h] \notin closed /\ Goto(h, "sent") /\ UNCHANGED <<vid, up, tries>>
  /\ UNCHANGED <<upstreamVars, tableVars, known>>

\* RoundTripRaw: ErrClosed on a closed client, else POST. A request that is
\* given up here while the upstream still runs it is one that stays "sent".
SendUpstream(h) ==
  /\ At(h, "send")
  /\ \/ up[h] \in closed /\ Finish(h)
     \/ up[h] \notin closed /\ Goto(h, "sent") /\ UNCHANGED <<vid, up, tries>>
  /\ UNCHANGED <<upstreamVars, tableVars, known>>

\* The upstream looks for the session and runs the message, or answers with an
\* error when it knows no such session; the proxy relays either unread. What
\* the upstream keeps of a result is not modelled: no step of the proxy looks
\* at it or changes it.
UpstreamServes(h) ==
  /\ At(h, "sent")
  /\ refused' = refused \union ({up[h]} \ live)
  /\ Goto(h, "answered")
  /\ UNCHANGED <<live, leaked, tableVars, known, vid, up, tries>>

ForwardReply(h) ==
  /\ At(h, "answered")
  /\ Finish(h)
  /\ UNCHANGED <<upstreamVars, tableVars, known>>

\* Transport error, or the client's request context is dead.
ForwardFails(h) ==
  /\ At(h, "sent")
  /\ Finish(h)
  /\ UNCHANGED <<upstreamVars, tableVars, known>>

-----------------------------------------------------------------------------
(* handleDisconnect *)

\* Mutation of HandleDisconnect: the entry is looked up but not deleted.
HandleDisconnectKeeps(h, v) ==
  /\ At(h, "free") /\ v \in known /\ conns[v] # None
  /\ vid' = [vid EXCEPT ![h] = v]
  /\ up' = [up EXCEPT ![h] = conns[v]]
  /\ Goto(h, "put")
  /\ UNCHANGED <<upstreamVars, tableVars, known, tries>>

\* Lookup and delete in one section under proxy.mu.
HandleDisconnect(h, v) ==
  /\ At(h, "free") /\ v \in known /\ conns[v] # None
  /\ vid' = [vid EXCEPT ![h] = v]
  /\ up' = [up EXCEPT ![h] = conns[v]]
  /\ conns' = [conns EXCEPT ![v] = None]
  /\ Goto(h, "put")
  /\ UNCHANGED <<upstreamVars, idle, closed, known, tries>>

\* Mutation of PoolPut: the bound is off by one.
PoolPutOneMore(h) ==
  /\ At(h, "put")
  /\ \/ /\ Len(idle) <= PoolMax
        /\ idle' = Append(idle, up[h])
        /\ Goto(h, "disconnected")
     \/ /\ Len(idle) > PoolMax
        /\ Goto(h, "close")
        /\ UNCHANGED idle
  /\ UNCHANGED <<upstreamVars, conns, closed, known, vid, up, tries>>

\* Mutation of PoolPut: a session that does not fit is dropped, not closed.
PoolPutDrops(h) ==
  /\ At(h, "put")
  /\ idle' = IF Len(idle) < PoolMax THEN Append(idle, up[h]) ELSE idle
  /\ Goto(h, "disconnected")
  /\ UNCHANGED <<upstreamVars, conns, closed, known, vid, up, tries>>

\* pool.put under pool.mu: keep the session, or leave the lock to close it.
PoolPut(h) ==
  /\ At(h, "put")
  /\ \/ /\ Len(idle) < PoolMax
        /\ idle' = Append(idle, up[h])
        /\ Goto(h, "disconnected")
     \/ /\ Len(idle) >= PoolMax
        /\ Goto(h, "close")
        /\ UNCHANGED idle
  /\ UNCHANGED <<upstreamVars, conns, closed, known, vid, up, tries>>

\* wire.Client.Close: the first one through CompareAndSwap says goodbye.
CloseClient(h) ==
  /\ At(h, "close")
  /\ closed' = closed \union {up[h]}
  /\ Goto(h, IF up[h] \in closed THEN "disconnected" ELSE "bye")
  /\ UNCHANGED <<upstreamVars, conns, idle, known, vid, up, tries>>

\* The upstream drops the session.
ByeServed(h) ==
  /\ At(h, "bye")
  /\ live' = live \ {up[h]}
  /\ Goto(h, "disconnected")
  /\ UNCHANGED <<leaked, refused, tableVars, known, vid, up, tries>>

\* Mutation of ByeTimeout: the goodbye has no context of its own to time out.
ByeUnbounded(h) ==
  /\ FALSE
  /\ UNCHANGED vars

\* The goodbye fails or its 5 s are over; put ignores the error.
ByeTimeout(h) ==
  /\ At(h, "bye")
  /\ leaked' = leaked \union ({up[h]} \intersect live)
  /\ Goto(h, "disconnected")
  /\ UNCHANGED <<live, refused, tableVars, known, vid, up, tries>>

ReplyDisconnect(h) ==
  /\ At(h, "disconnected")
  /\ Finish(h)
  /\ UNCHANGED <<upstreamVars, tableVars, known>>

-----------------------------------------------------------------------------
(* The environment. *)

\* A client drops a virtual id: after its disconnect, or by going away.
ClientForgets(v) ==
  /\ v \in known
  /\ known' = known \ {v}
  /\ UNCHANGED <<upstreamVars, tableVars, handlerVars>>

\* The upstream forgets every session, as a restart would make it.
UpstreamRestart ==
  /\ live # {}
  /\ live' = {} /\ leaked' = {}
  /\ UNCHANGED <<refused, tableVars, handlerVars, known>>

-----------------------------------------------------------------------------

\* Steps the proxy takes by itself. A dial and a goodbye end by themselves:
\* ConnectTimeout and the 5 s context of pool.put.
ProxyStep(h) ==
  \/ PoolGet(h) \/ DialAnswered(h) \/ DialFails(h) \/ Register(h) \/ ReplyConnect(h)
  \/ SendUpstream(h) \/ ForwardReply(h)
  \/ PoolPut(h) \/ CloseClient(h) \/ ByeTimeout(h) \/ ReplyDisconnect(h)

UpstreamStep(h) == DialServed(h) \/ UpstreamServes(h) \/ ByeServed(h)

Request(h) ==
  \/ HandleConnect(h)
  \/ \E v \in Vids : HandleForward(h, v) \/ HandleDisconnect(h, v)

Next ==
  \/ \E h \in Handlers : Request(h) \/ ProxyStep(h) \/ UpstreamStep(h) \/ ForwardFails(h)
  \/ \E v \in Vids : ClientForgets(v)
  \/ UpstreamRestart

Spec == Init /\ [][Next]_vars

\* Handler goroutines that can run do run; the upstream may hang forever.
ProxySpec == Spec /\ \A h \in Handlers : WF_vars(ProxyStep(h))

\* The upstream answers what is forwarded to it.
Responsive == \A h \in Handlers : WF_vars(UpstreamServes(h))

-----------------------------------------------------------------------------
(* Properties. *)

TypeOK ==
  /\ live \subseteq Sessions
  /\ leaked \subseteq Sessions /\ refused \subseteq Sessions /\ closed \subseteq Sessions
  /\ conns \in [Vids -> Sessions \union {None}]
  /\ idle \in Seq(Sessions)
  /\ known \subseteq Vids
  /\ pc \in [Handlers -> {"free", "get", "dial", "dialed", "register", "connected", "send",
                          "sent", "answered", "put", "close", "bye", "disconnected"}]
  /\ vid \in [Handlers -> Vids \union {None}]
  /\ up \in [Handlers -> Sessions \union {None}]
  /\ tries \in [Handlers -> 0..MaxRetries]

\* The session in the handler's hands is its own: not yet in the table or no
\* longer in it. A forwarding handler only borrows the session.
Owns(h) == pc[h] \in {"dialed", "register", "put", "close", "bye"}

TableOnce == \A v, w \in Vids : conns[v] # None /\ conns[v] = conns[w] => v = w
PoolOnce == \A i, j \in DOMAIN idle : idle[i] = idle[j] => i = j
HandsOnce == \A h, k \in Handlers : Owns(h) /\ Owns(k) /\ up[h] = up[k] => h = k
PlacesDisjoint ==
  /\ \A v \in Vids : \A i \in DOMAIN idle : conns[v] # idle[i]
  /\ \A h \in Handlers : Owns(h) =>
       (\A v \in Vids : conns[v] # up[h]) /\ (\A i \in DOMAIN idle : idle[i] # up[h])

\* No upstream session is ever given to two virtual connections, nor is one
\* in use also waiting in the pool, however connects and disconnects race.
OneOwner == TableOnce /\ PoolOnce /\ HandsOnce /\ PlacesDisjoint

\* The pool never outgrows its limit, however many disconnects race.
PoolBounded == Len(idle) <= PoolMax

\* A closed wire.Client is never in the pool or in the table: no client is
\* handed one that can only answer ErrClosed.
ClosedOutOfService ==
  /\ \A v \in Vids : conns[v] \notin closed
  /\ \A i \in DOMAIN idle : idle[i] \notin closed

\* Every session the upstream keeps is in the table, in the pool or in a
\* handler's hands, except when a connect or disconnect exchange was lost.
LiveAccounted ==
  \A s \in live \ leaked :
    \/ \E v \in Vids : conns[v] = s
    \/ \E i \in DOMAIN idle : idle[i] = s
    \/ \E h \in Handlers : Owns(h) /\ up[h] = s

\* With an upstream that hangs, connects and disconnects are still answered:
\* no lock is held while waiting, and both waits are bounded.
ConnectAndDisconnectEnd ==
  \A h \in Handlers :
    pc[h] \in {"get", "dial", "dialed", "register", "connected",
               "put", "close", "bye", "disconnected"} ~> pc[h] = "free"

\* With an upstream that answers, every request is answered.
EveryRequestEnds ==
  Responsive => \A h \in Handlers : pc[h] # "free" ~> pc[h] = "free"

\* pool.go:13: "one upstream session is as good as another": a session that
\* clients have been told is invalid does not wait in the pool for the next.
IdleIsUsable == \A i \in DOMAIN idle : idle[i] \notin refused
=============================================================================
