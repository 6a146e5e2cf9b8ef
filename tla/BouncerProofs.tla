----------------------------- MODULE BouncerProofs -----------------------------
(* Proofs about Bouncer, for any number of handlers, sessions and clients. *)
EXTENDS Bouncer, TLAPS

-----------------------------------------------------------------------------
(* The inductive invariant. *)

\* A busy handler works for a virtual id, and past pool.get with a session.
HandsFull ==
  \A h \in Handlers :
    /\ pc[h] # "free" => vid[h] \in Vids
    /\ pc[h] \notin {"free", "get", "dial"} => up[h] \in Sessions

\* Only the handler that says goodbye has a closed client in its hands.
HandsOpen == \A h \in Handlers : Owns(h) /\ pc[h] # "bye" => up[h] \notin closed

Connecting(h) == pc[h] \in {"get", "dial", "dialed", "register"}

\* The virtual id of a connect under way is free and nobody else's, so that
\* registering it overwrites no entry of the table.
VidReserved ==
  \A h \in Handlers : Connecting(h) =>
    /\ vid[h] \in Vids /\ conns[vid[h]] = None
    /\ \A k \in Handlers : Connecting(k) /\ vid[k] = vid[h] => k = h

IInv ==
  /\ TypeOK /\ HandsFull /\ HandsOpen /\ VidReserved
  /\ OneOwner /\ PoolBounded /\ ClosedOutOfService /\ LiveAccounted

-----------------------------------------------------------------------------
USE DEF Owns, Connecting, At, Goto

\* What pool.get leaves in the pool.
LEMMA PopFacts ==
  ASSUME NEW S, NEW s \in Seq(S), s # <<>>
  PROVE  /\ s[Len(s)] \in S /\ Len(s) \in DOMAIN s
         /\ SubSeq(s, 1, Len(s) - 1) \in Seq(S)
         /\ Len(SubSeq(s, 1, Len(s) - 1)) = Len(s) - 1
         /\ \A i \in DOMAIN SubSeq(s, 1, Len(s) - 1) :
              i \in DOMAIN s /\ i # Len(s) /\ SubSeq(s, 1, Len(s) - 1)[i] = s[i]
         /\ \A i \in DOMAIN s : i # Len(s) =>
              i \in DOMAIN SubSeq(s, 1, Len(s) - 1) /\ SubSeq(s, 1, Len(s) - 1)[i] = s[i]
<1>. DEFINE t == SubSeq(s, 1, Len(s) - 1)
<1>1. Len(s) \in Nat /\ Len(s) > 0 /\ DOMAIN s = 1..Len(s) /\ \A i \in 1..Len(s) : s[i] \in S
  OBVIOUS
<1>2. t = [i \in 1..(Len(s) - 1) |-> s[i]]
  BY <1>1
<1>3. t \in Seq(S) /\ Len(t) = Len(s) - 1 /\ DOMAIN t = 1..(Len(s) - 1)
  BY <1>1, <1>2
<1>. QED BY <1>1, <1>2, <1>3

\* What pool.put leaves in the pool.
LEMMA PushFacts ==
  ASSUME NEW S, NEW s \in Seq(S), NEW e \in S
  PROVE  /\ Append(s, e) \in Seq(S) /\ Len(Append(s, e)) = Len(s) + 1
         /\ Len(s) + 1 \in DOMAIN Append(s, e) /\ Append(s, e)[Len(s) + 1] = e
         /\ Len(s) + 1 \notin DOMAIN s
         /\ \A i \in DOMAIN s : i \in DOMAIN Append(s, e) /\ Append(s, e)[i] = s[i]
         /\ \A i \in DOMAIN Append(s, e) : i = Len(s) + 1 \/ i \in DOMAIN s
  OBVIOUS

-----------------------------------------------------------------------------
(* Types. *)

LEMMA FinishType ==
  ASSUME TypeOK, NEW h \in Handlers, Finish(h)
  PROVE  /\ pc' \in [Handlers -> {"free", "get", "dial", "dialed", "register", "connected",
                                  "send", "sent", "answered", "put", "close", "bye",
                                  "disconnected"}]
         /\ vid' \in [Handlers -> Vids \union {None}]
         /\ up' \in [Handlers -> Sessions \union {None}]
         /\ tries' \in [Handlers -> 0..MaxRetries]
  BY RetriesAssumption DEF TypeOK, Finish

LEMMA TypeStep == ASSUME TypeOK, HandsFull, [Next]_vars PROVE TypeOK'
<1>. USE DEF upstreamVars, tableVars, handlerVars
<1>1. ASSUME NEW h \in Handlers, Request(h) PROVE TypeOK'
  <2>1. CASE HandleConnect(h)
    BY <2>1 DEF HandleConnect, TypeOK
  <2>2. ASSUME NEW v \in Vids, HandleForward(h, v) PROVE TypeOK'
    BY <2>2 DEF HandleForward, TypeOK
  <2>3. ASSUME NEW v \in Vids, HandleDisconnect(h, v) PROVE TypeOK'
    BY <2>3 DEF HandleDisconnect, TypeOK
  <2>. QED BY <1>1, <2>1, <2>2, <2>3 DEF Request
<1>2. ASSUME NEW h \in Handlers, PoolGet(h) PROVE TypeOK'
  <2>1. CASE idle = <<>>
    BY <1>2, <2>1 DEF PoolGet, TypeOK
  <2>2. CASE idle # <<>>
    <3>1. idle[Len(idle)] \in Sessions /\ SubSeq(idle, 1, Len(idle) - 1) \in Seq(Sessions)
      BY <2>2, PopFacts DEF TypeOK
    <3>. QED BY <1>2, <2>2, <3>1 DEF PoolGet, TypeOK
  <2>. QED BY <2>1, <2>2
<1>3. ASSUME NEW h \in Handlers, DialServed(h) \/ DialAnswered(h) \/ Register(h) PROVE TypeOK'
  BY <1>3 DEF DialServed, DialAnswered, Register, TypeOK
<1>4. ASSUME NEW h \in Handlers, DialFails(h) PROVE TypeOK'
  <2>1. leaked' \subseteq Sessions
    BY <1>4 DEF DialFails, TypeOK
  <2>2. CASE Finish(h)
    BY <1>4, <2>1, <2>2, FinishType DEF DialFails, TypeOK
  <2>3. CASE tries[h] < MaxRetries /\ Goto(h, "dial") /\ UNCHANGED vid
             /\ tries' = [tries EXCEPT ![h] = @ + 1] /\ up' = [up EXCEPT ![h] = None]
    <3>1. tries[h] + 1 \in 0..MaxRetries
      BY <2>3, RetriesAssumption DEF TypeOK
    <3>2. tries' \in [Handlers -> 0..MaxRetries]
      BY <2>3, <3>1 DEF TypeOK
    <3>. QED BY <1>4, <2>1, <2>3, <3>2 DEF DialFails, TypeOK
  <2>. QED BY <1>4, <2>2, <2>3 DEF DialFails
<1>5. ASSUME NEW h \in Handlers, ReplyConnect(h) PROVE TypeOK'
  <2>1. known' \subseteq Vids
    BY <1>5 DEF ReplyConnect, TypeOK, HandsFull
  <2>. QED BY <1>5, <2>1, FinishType DEF ReplyConnect, TypeOK
<1>6. ASSUME NEW h \in Handlers, ForwardReply(h) \/ ForwardFails(h) \/ ReplyDisconnect(h)
      PROVE  TypeOK'
  BY <1>6, FinishType DEF ForwardReply, ForwardFails, ReplyDisconnect, TypeOK
<1>7. ASSUME NEW h \in Handlers, SendUpstream(h) PROVE TypeOK'
  <2>1. CASE Finish(h)
    BY <1>7, <2>1, FinishType DEF SendUpstream, TypeOK
  <2>2. CASE Goto(h, "sent") /\ UNCHANGED <<vid, up, tries>>
    BY <1>7, <2>2 DEF SendUpstream, TypeOK
  <2>. QED BY <1>7, <2>1, <2>2 DEF SendUpstream
<1>8. ASSUME NEW h \in Handlers, UpstreamServes(h) PROVE TypeOK'
  <2>1. up[h] \in Sessions
    BY <1>8 DEF UpstreamServes, HandsFull
  <2>2. refused' \subseteq Sessions
    BY <1>8, <2>1 DEF UpstreamServes, TypeOK
  <2>. QED BY <1>8, <2>2 DEF UpstreamServes, TypeOK
<1>9. ASSUME NEW h \in Handlers, PoolPut(h) PROVE TypeOK'
  <2>1. up[h] \in Sessions
    BY <1>9 DEF PoolPut, HandsFull
  <2>2. Append(idle, up[h]) \in Seq(Sessions)
    BY <2>1, PushFacts DEF TypeOK
  <2>. QED BY <1>9, <2>2 DEF PoolPut, TypeOK
<1>10. ASSUME NEW h \in Handlers, CloseClient(h) \/ ByeServed(h) \/ ByeTimeout(h) PROVE TypeOK'
  <2>1. up[h] \in Sessions
    BY <1>10 DEF CloseClient, ByeServed, ByeTimeout, HandsFull
  <2>2. closed' \subseteq Sessions /\ live' \subseteq Sessions /\ leaked' \subseteq Sessions
    BY <1>10, <2>1 DEF CloseClient, ByeServed, ByeTimeout, TypeOK
  <2>3. pc' \in [Handlers -> {"free", "get", "dial", "dialed", "register", "connected", "send",
                              "sent", "answered", "put", "close", "bye", "disconnected"}]
    BY <1>10 DEF CloseClient, ByeServed, ByeTimeout, TypeOK
  <2>. QED BY <1>10, <2>2, <2>3 DEF CloseClient, ByeServed, ByeTimeout, TypeOK
<1>11. CASE (\E v \in Vids : ClientForgets(v)) \/ UpstreamRestart \/ UNCHANGED vars
  BY <1>11 DEF ClientForgets, UpstreamRestart, vars, TypeOK
<1>. QED BY <1>1, <1>2, <1>3, <1>4, <1>5, <1>6, <1>7, <1>8, <1>9, <1>10, <1>11
     DEF Next, ProxyStep, UpstreamStep

LEMMA HandsFullStep == ASSUME TypeOK, HandsFull, [Next]_vars PROVE HandsFull'
<1>. USE DEF TypeOK, HandsFull
<1>1. ASSUME NEW h \in Handlers, Request(h) PROVE HandsFull'
  <2>1. CASE HandleConnect(h)
    <3>1. PICK v \in Vids : vid' = [vid EXCEPT ![h] = v]
      BY <2>1 DEF HandleConnect
    <3>2. pc' = [pc EXCEPT ![h] = "get"] /\ up' = up
      BY <2>1 DEF HandleConnect
    <3>. QED BY <3>1, <3>2
  <2>2. ASSUME NEW v \in Vids, HandleForward(h, v) \/ HandleDisconnect(h, v) PROVE HandsFull'
    <3>1. conns[v] \in Sessions
      BY <2>2 DEF HandleForward, HandleDisconnect
    <3>2. vid' = [vid EXCEPT ![h] = v] /\ up' = [up EXCEPT ![h] = conns[v]]
      BY <2>2 DEF HandleForward, HandleDisconnect
    <3>3. \A k \in Handlers : k # h => pc'[k] = pc[k]
      BY <2>2 DEF HandleForward, HandleDisconnect
    <3>. QED BY <3>1, <3>2, <3>3
  <2>. QED BY <1>1, <2>1, <2>2 DEF Request
<1>2. ASSUME NEW h \in Handlers, PoolGet(h) PROVE HandsFull'
  <2>1. idle # <<>> => idle[Len(idle)] \in Sessions
    BY PopFacts
  <2>. QED BY <1>2, <2>1 DEF PoolGet
<1>3. ASSUME NEW h \in Handlers, DialServed(h) \/ DialAnswered(h) \/ Register(h) PROVE HandsFull'
  BY <1>3 DEF DialServed, DialAnswered, Register
<1>4. ASSUME NEW h \in Handlers, Finish(h) PROVE HandsFull'
  BY <1>4 DEF Finish
<1>5. ASSUME NEW h \in Handlers, DialFails(h) PROVE HandsFull'
  BY <1>4, <1>5 DEF DialFails
<1>6. ASSUME NEW h \in Handlers, SendUpstream(h) \/ UpstreamServes(h) PROVE HandsFull'
  BY <1>4, <1>6 DEF SendUpstream, UpstreamServes
<1>7. ASSUME NEW h \in Handlers, ReplyConnect(h) \/ ForwardReply(h) \/ ForwardFails(h)
                                 \/ ReplyDisconnect(h)
      PROVE  HandsFull'
  BY <1>4, <1>7 DEF ReplyConnect, ForwardReply, ForwardFails, ReplyDisconnect
<1>8. ASSUME NEW h \in Handlers, PoolPut(h) \/ CloseClient(h) \/ ByeServed(h) \/ ByeTimeout(h)
      PROVE  HandsFull'
  BY <1>8 DEF PoolPut, CloseClient, ByeServed, ByeTimeout
<1>9. CASE (\E v \in Vids : ClientForgets(v)) \/ UpstreamRestart \/ UNCHANGED vars
  BY <1>9 DEF ClientForgets, UpstreamRestart, vars, handlerVars
<1>. QED BY <1>1, <1>2, <1>3, <1>5, <1>6, <1>7, <1>8, <1>9 DEF Next, ProxyStep, UpstreamStep

-----------------------------------------------------------------------------
(* Steps that hand no session on: handlers at most let go of what they own. *)

LEMMA QuietStep ==
  ASSUME IInv, TypeOK', UNCHANGED tableVars,
         \A k \in Handlers : Owns(k)' =>
           Owns(k) /\ up'[k] = up[k] /\ (pc[k] = "bye" => pc'[k] = "bye"),
         \A k \in Handlers : Connecting(k)' => Connecting(k) /\ vid'[k] = vid[k],
         live' \ leaked' \subseteq live \ leaked,
         \A k \in Handlers : Owns(k) /\ ~Owns(k)' => up[k] \notin live' \ leaked',
         HandsFull'
  PROVE  IInv'
<1>. USE DEF tableVars
<1>1. HandsOpen'
  BY DEF IInv, HandsOpen
<1>2. VidReserved'
  BY DEF IInv, VidReserved
<1>3. OneOwner'
  BY DEF IInv, OneOwner, TableOnce, PoolOnce, HandsOnce, PlacesDisjoint
<1>4. PoolBounded' /\ ClosedOutOfService'
  BY DEF IInv, PoolBounded, ClosedOutOfService
<1>5. LiveAccounted'
  BY DEF IInv, LiveAccounted
<1>. QED BY <1>1, <1>2, <1>3, <1>4, <1>5 DEF IInv

LEMMA FinishQuiet ==
  ASSUME IInv, TypeOK', HandsFull', NEW h \in Handlers, Finish(h), ~Owns(h),
         UNCHANGED <<live, leaked, tableVars>>
  PROVE  IInv'
<1>1. \A k \in Handlers : k # h => pc'[k] = pc[k] /\ up'[k] = up[k] /\ vid'[k] = vid[k]
  BY DEF Finish, IInv, TypeOK
<1>2. pc'[h] = "free"
  BY DEF Finish, IInv, TypeOK
<1>. QED BY <1>1, <1>2, QuietStep

\* The handler takes one of the steps that leave the tables alone.
LEMMA HandlerQuiet ==
  ASSUME IInv, TypeOK', HandsFull', NEW h \in Handlers,
         \/ \E v \in Vids : HandleForward(h, v)
         \/ DialAnswered(h) \/ DialFails(h) \/ ReplyConnect(h)
         \/ SendUpstream(h) \/ UpstreamServes(h) \/ ForwardReply(h) \/ ForwardFails(h)
         \/ ByeServed(h) \/ ByeTimeout(h) \/ ReplyDisconnect(h)
  PROVE  IInv'
<1>. USE DEF upstreamVars
<1>1. CASE ReplyConnect(h) \/ ForwardReply(h) \/ ForwardFails(h) \/ ReplyDisconnect(h)
  BY <1>1, FinishQuiet DEF ReplyConnect, ForwardReply, ForwardFails, ReplyDisconnect
<1>2. CASE SendUpstream(h)
  <2>1. CASE Finish(h)
    BY <1>2, <2>1, FinishQuiet DEF SendUpstream
  <2>2. CASE Goto(h, "sent") /\ UNCHANGED <<vid, up>>
    <3>1. \A k \in Handlers : k # h => pc'[k] = pc[k]
      BY <2>2 DEF IInv, TypeOK
    <3>2. pc[h] = "send" /\ pc'[h] = "sent"
      BY <1>2, <2>2 DEF SendUpstream, IInv, TypeOK
    <3>. QED BY <1>2, <2>2, <3>1, <3>2, QuietStep DEF SendUpstream
  <2>. QED BY <1>2, <2>1, <2>2 DEF SendUpstream
<1>3. CASE DialAnswered(h) \/ UpstreamServes(h)
  <2>1. \A k \in Handlers : k # h => pc'[k] = pc[k]
    BY <1>3 DEF DialAnswered, UpstreamServes, IInv, TypeOK
  <2>2. \/ pc[h] = "dialed" /\ pc'[h] = "register"
        \/ pc[h] = "sent" /\ pc'[h] = "answered"
    <3>1. DOMAIN pc = Handlers
      BY DEF IInv, TypeOK
    <3>. QED BY <1>3, <3>1 DEF DialAnswered, UpstreamServes
  <2>. QED BY <1>3, <2>1, <2>2, QuietStep DEF DialAnswered, UpstreamServes
<1>4. CASE \E v \in Vids : HandleForward(h, v)
  <2>1. \A k \in Handlers : k # h => pc'[k] = pc[k] /\ up'[k] = up[k] /\ vid'[k] = vid[k]
    BY <1>4 DEF HandleForward, IInv, TypeOK
  <2>2. pc[h] = "free" /\ pc'[h] = "send"
    BY <1>4 DEF HandleForward, IInv, TypeOK
  <2>. QED BY <1>4, <2>1, <2>2, QuietStep DEF HandleForward
<1>5. CASE DialFails(h)
  <2>1. \A k \in Handlers : k # h => pc'[k] = pc[k] /\ up'[k] = up[k] /\ vid'[k] = vid[k]
    BY <1>5 DEF DialFails, Finish, IInv, TypeOK
  <2>2. /\ pc[h] \in {"dial", "dialed"}
        /\ pc'[h] = "free" \/ (pc'[h] = "dial" /\ vid'[h] = vid[h])
        /\ live' = live /\ leaked' = leaked \union ({up[h]} \intersect live)
    <3>1. DOMAIN pc = Handlers
      BY DEF IInv, TypeOK
    <3>2. pc'[h] = "free" \/ (pc'[h] = "dial" /\ vid'[h] = vid[h])
      BY <1>5, <3>1 DEF DialFails, Finish
    <3>. QED BY <1>5, <3>2 DEF DialFails
  <2>3. up[h] \notin live' \ leaked'
    BY <2>2
  <2>. QED BY <1>5, <2>1, <2>2, <2>3, QuietStep DEF DialFails
<1>6. CASE ByeServed(h) \/ ByeTimeout(h)
  <2>1. \A k \in Handlers : k # h => pc'[k] = pc[k]
    BY <1>6 DEF ByeServed, ByeTimeout, IInv, TypeOK
  <2>2. pc[h] = "bye" /\ pc'[h] = "disconnected" /\ up' = up /\ vid' = vid
    BY <1>6 DEF ByeServed, ByeTimeout, IInv, TypeOK
  <2>3. up[h] \notin live' \ leaked' /\ live' \ leaked' \subseteq live \ leaked
    BY <1>6 DEF ByeServed, ByeTimeout
  <2>. QED BY <1>6, <2>1, <2>2, <2>3, QuietStep DEF ByeServed, ByeTimeout
<1>. QED BY <1>1, <1>2, <1>3, <1>4, <1>5, <1>6

LEMMA EnvironmentQuiet ==
  ASSUME IInv, TypeOK', HandsFull',
         (\E v \in Vids : ClientForgets(v)) \/ UpstreamRestart \/ UNCHANGED vars
  PROVE  IInv'
<1>1. UNCHANGED handlerVars /\ UNCHANGED tableVars /\ live' \ leaked' \subseteq live \ leaked
  BY DEF ClientForgets, UpstreamRestart, vars, upstreamVars, tableVars, handlerVars
<1>. QED BY <1>1, QuietStep DEF handlerVars

-----------------------------------------------------------------------------
(* Steps that hand a session on. *)

LEMMA HandleConnectStep ==
  ASSUME IInv, TypeOK', HandsFull', NEW h \in Handlers, HandleConnect(h) PROVE IInv'
<1>1. /\ pc[h] = "free" /\ pc'[h] = "get" /\ vid'[h] \in Vids
      /\ conns[vid'[h]] = None /\ \A k \in Handlers : vid[k] # vid'[h]
  BY DEF HandleConnect, FreshVid, Mapped, IInv, TypeOK
<1>2. \A k \in Handlers : k # h => pc'[k] = pc[k] /\ vid'[k] = vid[k]
  BY DEF HandleConnect, IInv, TypeOK
<1>3. UNCHANGED <<live, leaked, conns, idle, closed, up>>
  BY DEF HandleConnect, upstreamVars, tableVars
<1>4. \A k \in Handlers : (Owns(k)' <=> Owns(k)) /\ (Owns(k) => pc'[k] = pc[k])
  BY <1>1, <1>2
<1>5. VidReserved'
  BY <1>1, <1>2, <1>3 DEF IInv, VidReserved
<1>. HIDE DEF Owns
<1>6. HandsOpen' /\ OneOwner'
  BY <1>3, <1>4 DEF IInv, HandsOpen, OneOwner, TableOnce, PoolOnce, HandsOnce, PlacesDisjoint
<1>7. PoolBounded' /\ ClosedOutOfService' /\ LiveAccounted'
  BY <1>3, <1>4 DEF IInv, PoolBounded, ClosedOutOfService, LiveAccounted
<1>. QED BY <1>5, <1>6, <1>7 DEF IInv

\* From the pool into the handler's hands.
LEMMA PoolGetStep ==
  ASSUME IInv, TypeOK', HandsFull', NEW h \in Handlers, PoolGet(h) PROVE IInv'
<1>1. /\ pc[h] = "get" /\ \A k \in Handlers : k # h => pc'[k] = pc[k] /\ up'[k] = up[k]
      /\ UNCHANGED <<live, leaked, conns, closed, vid>>
  BY DEF PoolGet, upstreamVars, IInv, TypeOK
<1>2. CASE idle = <<>>
  <2>1. pc'[h] = "dial" /\ idle' = idle /\ up' = up
    BY <1>2 DEF PoolGet, IInv, TypeOK
  <2>. QED BY <1>1, <2>1, QuietStep DEF tableVars
<1>3. CASE idle # <<>>
  <2>. DEFINE n == Len(idle)
              s == idle[n]
  <2>1. /\ s \in Sessions /\ n \in DOMAIN idle /\ Len(idle') = n - 1 /\ n \in Nat
        /\ \A i \in DOMAIN idle' : i \in DOMAIN idle /\ i # n /\ idle'[i] = idle[i]
        /\ \A i \in DOMAIN idle : i # n => i \in DOMAIN idle' /\ idle'[i] = idle[i]
    <3>1. idle \in Seq(Sessions) /\ idle' = SubSeq(idle, 1, Len(idle) - 1)
      BY <1>3 DEF PoolGet, IInv, TypeOK
    <3>. QED BY <1>3, <3>1, PopFacts
  <2>2. pc'[h] = "register" /\ up'[h] = s
    BY <1>3 DEF PoolGet, IInv, TypeOK
  <2>. HIDE DEF n, s
  <2>3. /\ \A k \in Handlers : k # h => (Owns(k)' <=> Owns(k)) /\ up'[k] = up[k] /\ pc'[k] = pc[k]
        /\ Owns(h)' /\ ~Owns(h) /\ up'[h] = s
    BY <1>1, <2>2
  <2>4. VidReserved'
    BY <1>1, <2>2 DEF IInv, VidReserved
  <2>. HIDE DEF Owns
  <2>5. HandsOpen'
    BY <1>1, <2>1, <2>3 DEF IInv, HandsOpen, ClosedOutOfService, s
  <2>6. TableOnce' /\ PoolOnce'
    BY <1>1, <2>1 DEF IInv, OneOwner, TableOnce, PoolOnce
  <2>7. HandsOnce'
    BY <2>1, <2>3 DEF IInv, OneOwner, HandsOnce, PlacesDisjoint, s
  <2>8. PlacesDisjoint'
    BY <1>1, <2>1, <2>3 DEF IInv, OneOwner, PoolOnce, PlacesDisjoint, s
  <2>9. PoolBounded' /\ ClosedOutOfService'
    BY <1>1, <2>1, PoolMaxAssumption DEF IInv, PoolBounded, ClosedOutOfService, n
  <2>10. LiveAccounted'
    BY <1>1, <2>1, <2>3 DEF IInv, LiveAccounted, s
  <2>. QED BY <2>4, <2>5, <2>6, <2>7, <2>8, <2>9, <2>10 DEF IInv, OneOwner
<1>. QED BY <1>2, <1>3

\* A new session comes into being in the handler's hands.
LEMMA DialServedStep ==
  ASSUME IInv, TypeOK', HandsFull', NEW h \in Handlers, DialServed(h) PROVE IInv'
<1>1. PICK s \in Sessions : /\ FreshSession(s) /\ live' = live \union {s}
                            /\ closed' = closed \ {s} /\ up' = [up EXCEPT ![h] = s]
  BY DEF DialServed
<1>2. /\ \A k \in Handlers : k # h => (Owns(k)' <=> Owns(k)) /\ up'[k] = up[k] /\ pc'[k] = pc[k]
      /\ Owns(h)' /\ ~Owns(h) /\ up'[h] = s
  BY <1>1 DEF DialServed, IInv, TypeOK
<1>3. /\ UNCHANGED <<leaked, conns, idle, vid>> /\ pc[h] = "dial" /\ pc'[h] = "dialed"
  BY DEF DialServed, IInv, TypeOK
<1>4. /\ \A v \in Vids : conns[v] # s
      /\ \A i \in DOMAIN idle : idle[i] # s
      /\ \A k \in Handlers : up[k] # s
  BY <1>1 DEF FreshSession, Range
<1>5. VidReserved'
  BY <1>2, <1>3 DEF IInv, VidReserved
<1>. HIDE DEF Owns
<1>6. HandsOpen'
  BY <1>1, <1>2 DEF IInv, HandsOpen
<1>7. TableOnce' /\ PoolOnce' /\ PoolBounded' /\ ClosedOutOfService'
  BY <1>1, <1>3 DEF IInv, OneOwner, TableOnce, PoolOnce, PoolBounded, ClosedOutOfService
<1>8. HandsOnce' /\ PlacesDisjoint'
  BY <1>2, <1>3, <1>4 DEF IInv, OneOwner, HandsOnce, PlacesDisjoint
<1>9. LiveAccounted'
  BY <1>1, <1>2, <1>3, <1>4 DEF IInv, LiveAccounted
<1>. QED BY <1>5, <1>6, <1>7, <1>8, <1>9 DEF IInv, OneOwner

\* From the handler's hands into the table.
LEMMA RegisterStep ==
  ASSUME IInv, TypeOK', HandsFull', NEW h \in Handlers, Register(h) PROVE IInv'
<1>1. /\ pc[h] = "register" /\ pc'[h] = "connected"
      /\ \A k \in Handlers : k # h => pc'[k] = pc[k]
      /\ UNCHANGED <<live, leaked, idle, closed, vid, up>>
  BY DEF Register, upstreamVars, IInv, TypeOK
<1>2. /\ vid[h] \in Vids /\ conns[vid[h]] = None
      /\ \A k \in Handlers : k # h /\ Connecting(k) => vid[k] # vid[h]
  BY <1>1 DEF IInv, VidReserved
<1>3. /\ conns'[vid[h]] = up[h] /\ \A v \in Vids : v # vid[h] => conns'[v] = conns[v]
  BY <1>2 DEF Register, IInv, TypeOK
<1>4. /\ \A k \in Handlers : k # h => (Owns(k)' <=> Owns(k)) /\ pc'[k] = pc[k]
      /\ Owns(h) /\ ~Owns(h)'
  BY <1>1
<1>5. /\ up[h] \notin closed /\ up[h] # None
      /\ \A v \in Vids : conns[v] # up[h]
      /\ \A i \in DOMAIN idle : idle[i] # up[h]
  BY <1>1, <1>4, NoneAssumption DEF IInv, HandsOpen, HandsFull, OneOwner, PlacesDisjoint
<1>6. VidReserved'
  BY <1>1, <1>2, <1>3 DEF IInv, VidReserved
<1>. HIDE DEF Owns
<1>7. HandsOpen' /\ HandsOnce' /\ PoolOnce' /\ PoolBounded'
  BY <1>1, <1>4 DEF IInv, HandsOpen, OneOwner, HandsOnce, PoolOnce, PoolBounded
<1>8. TableOnce' /\ ClosedOutOfService'
  BY <1>1, <1>3, <1>5 DEF IInv, OneOwner, TableOnce, ClosedOutOfService
<1>9. PlacesDisjoint'
  BY <1>1, <1>3, <1>4, <1>5 DEF IInv, OneOwner, HandsOnce, PlacesDisjoint
<1>10. LiveAccounted'
  <2>. SUFFICES ASSUME NEW s \in live \ leaked
                PROVE  \/ \E v \in Vids : conns'[v] = s
                       \/ \E i \in DOMAIN idle : idle[i] = s
                       \/ \E k \in Handlers : Owns(k)' /\ up[k] = s
    BY <1>1 DEF LiveAccounted
  <2>1. s # None
    BY NoneAssumption DEF IInv, TypeOK
  <2>2. ASSUME NEW v \in Vids, conns[v] = s PROVE conns'[v] = s
    BY <1>2, <1>3, <2>1, <2>2
  <2>3. ASSUME NEW k \in Handlers, Owns(k), up[k] = s
        PROVE  Owns(k)' \/ conns'[vid[h]] = s
    BY <1>3, <1>4, <2>3
  <2>. QED BY <1>2, <2>2, <2>3 DEF IInv, LiveAccounted
<1>. QED BY <1>6, <1>7, <1>8, <1>9, <1>10 DEF IInv, OneOwner

\* From the table into the handler's hands.
LEMMA HandleDisconnectStep ==
  ASSUME IInv, TypeOK', HandsFull', NEW h \in Handlers, NEW v \in Vids, HandleDisconnect(h, v)
  PROVE  IInv'
<1>1. /\ pc[h] = "free" /\ pc'[h] = "put" /\ up'[h] = conns[v] /\ conns[v] # None
      /\ \A k \in Handlers : k # h => pc'[k] = pc[k] /\ up'[k] = up[k] /\ vid'[k] = vid[k]
      /\ conns'[v] = None /\ \A w \in Vids : w # v => conns'[w] = conns[w]
      /\ UNCHANGED <<live, leaked, idle, closed>>
  BY DEF HandleDisconnect, upstreamVars, IInv, TypeOK
<1>2. /\ \A k \in Handlers : k # h => (Owns(k)' <=> Owns(k)) /\ up'[k] = up[k] /\ pc'[k] = pc[k]
      /\ Owns(h)' /\ ~Owns(h)
  BY <1>1
<1>3. VidReserved'
  BY <1>1 DEF IInv, VidReserved
<1>. HIDE DEF Owns
<1>4. \A i \in DOMAIN idle : idle[i] # None
  <2>1. idle \in Seq(Sessions)
    BY DEF IInv, TypeOK
  <2>2. \A i \in DOMAIN idle : idle[i] \in Sessions
    BY <2>1
  <2>. QED BY <2>2, NoneAssumption
<1>5. \A k \in Handlers : Owns(k) => up[k] # None
  BY NoneAssumption DEF IInv, HandsFull, Owns
<1>6. HandsOpen'
  BY <1>1, <1>2 DEF IInv, HandsOpen, ClosedOutOfService
<1>7. TableOnce' /\ PoolOnce' /\ PoolBounded'
  BY <1>1 DEF IInv, OneOwner, TableOnce, PoolOnce, PoolBounded
<1>8. HandsOnce'
  BY <1>1, <1>2 DEF IInv, OneOwner, HandsOnce, PlacesDisjoint
<1>9. PlacesDisjoint'
  <2>1. \A w \in Vids : \A i \in DOMAIN idle' : conns'[w] # idle'[i]
    BY <1>1, <1>4 DEF IInv, OneOwner, PlacesDisjoint
  <2>2. \A k \in Handlers : Owns(k)' => \A w \in Vids : conns'[w] # up'[k]
    BY <1>1, <1>2, <1>5 DEF IInv, OneOwner, TableOnce, PlacesDisjoint
  <2>3. \A k \in Handlers : Owns(k)' => \A i \in DOMAIN idle' : idle'[i] # up'[k]
    BY <1>1, <1>2 DEF IInv, OneOwner, PlacesDisjoint
  <2>. QED BY <2>1, <2>2, <2>3 DEF PlacesDisjoint
<1>10. ClosedOutOfService'
  <2>1. None \notin closed
    BY NoneAssumption DEF IInv, TypeOK
  <2>. QED BY <1>1, <2>1 DEF IInv, ClosedOutOfService
<1>11. LiveAccounted'
  BY <1>1, <1>2 DEF IInv, LiveAccounted
<1>. QED BY <1>3, <1>6, <1>7, <1>8, <1>9, <1>10, <1>11 DEF IInv, OneOwner

\* From the handler's hands into the pool, if it has room.
LEMMA PoolPutStep ==
  ASSUME IInv, TypeOK', HandsFull', NEW h \in Handlers, PoolPut(h) PROVE IInv'
<1>1. /\ pc[h] = "put" /\ \A k \in Handlers : k # h => pc'[k] = pc[k]
      /\ UNCHANGED <<live, leaked, conns, closed, vid, up>>
  BY DEF PoolPut, upstreamVars, IInv, TypeOK
<1>2. CASE Len(idle) >= PoolMax /\ pc'[h] = "close" /\ idle' = idle
  BY <1>1, <1>2, QuietStep DEF tableVars
<1>3. CASE Len(idle) < PoolMax /\ pc'[h] = "disconnected" /\ idle' = Append(idle, up[h])
  <2>. DEFINE n == Len(idle) + 1
  <2>1. idle \in Seq(Sessions) /\ up[h] \in Sessions /\ Len(idle) \in Nat
    <3>1. idle \in Seq(Sessions) /\ up[h] \in Sessions
      BY <1>1 DEF IInv, TypeOK, HandsFull
    <3>. QED BY <3>1
  <2>2. /\ Len(idle') = n /\ n \in DOMAIN idle' /\ idle'[n] = up[h] /\ n \notin DOMAIN idle
        /\ \A i \in DOMAIN idle : i \in DOMAIN idle' /\ idle'[i] = idle[i]
        /\ \A i \in DOMAIN idle' : i = n \/ i \in DOMAIN idle
    BY <1>3, <2>1, PushFacts
  <2>3. PoolBounded'
    BY <1>3, <2>1, <2>2, PoolMaxAssumption DEF PoolBounded
  <2>. HIDE DEF n
  <2>4. /\ \A k \in Handlers : k # h => (Owns(k)' <=> Owns(k)) /\ pc'[k] = pc[k]
        /\ Owns(h) /\ ~Owns(h)' /\ pc[h] # "bye"
    BY <1>1, <1>3
  <2>5. VidReserved'
    BY <1>1, <1>3 DEF IInv, VidReserved
  <2>. HIDE DEF Owns
  <2>6. HandsOpen' /\ TableOnce' /\ HandsOnce'
    BY <1>1, <2>4 DEF IInv, HandsOpen, OneOwner, TableOnce, HandsOnce
  <2>7. PoolOnce'
    BY <2>2, <2>4 DEF IInv, OneOwner, PoolOnce, PlacesDisjoint
  <2>8. PlacesDisjoint'
    BY <1>1, <2>2, <2>4 DEF IInv, OneOwner, HandsOnce, PlacesDisjoint
  <2>9. ClosedOutOfService'
    BY <1>1, <2>2, <2>4 DEF IInv, ClosedOutOfService, HandsOpen
  <2>10. LiveAccounted'
    BY <1>1, <2>2, <2>4 DEF IInv, LiveAccounted
  <2>. QED BY <2>3, <2>5, <2>6, <2>7, <2>8, <2>9, <2>10 DEF IInv, OneOwner
<1>. QED BY <1>2, <1>3 DEF PoolPut, IInv, TypeOK

\* The client is closed while nobody else can have it.
LEMMA CloseClientStep ==
  ASSUME IInv, TypeOK', HandsFull', NEW h \in Handlers, CloseClient(h) PROVE IInv'
<1>1. /\ pc[h] = "close" /\ \A k \in Handlers : k # h => pc'[k] = pc[k]
      /\ UNCHANGED <<live, leaked, conns, idle, vid, up>> /\ closed' = closed \union {up[h]}
  BY DEF CloseClient, upstreamVars, IInv, TypeOK
<1>2. up[h] \notin closed
  BY <1>1 DEF IInv, HandsOpen
<1>3. pc'[h] = "bye"
  BY <1>2 DEF CloseClient, IInv, TypeOK
<1>4. \A k \in Handlers : (Owns(k)' <=> Owns(k)) /\ (k # h => pc'[k] = pc[k])
  BY <1>1, <1>3
<1>5. VidReserved'
  BY <1>1, <1>3 DEF IInv, VidReserved
<1>6. Owns(h)
  BY <1>1
<1>. HIDE DEF Owns
<1>7. HandsOpen'
  BY <1>1, <1>3, <1>4, <1>6 DEF IInv, HandsOpen, OneOwner, HandsOnce
<1>8. OneOwner' /\ PoolBounded' /\ LiveAccounted'
  BY <1>1, <1>4 DEF IInv, OneOwner, TableOnce, PoolOnce, HandsOnce, PlacesDisjoint,
         PoolBounded, LiveAccounted
<1>9. ClosedOutOfService'
  BY <1>1, <1>6 DEF IInv, ClosedOutOfService, OneOwner, PlacesDisjoint
<1>. QED BY <1>5, <1>7, <1>8, <1>9 DEF IInv

-----------------------------------------------------------------------------
(* The theorems. *)

\* The invariant holds in every reachable state of the proxy.
THEOREM Invariance == Spec => []IInv
<1>1. Init => IInv
  BY NoneAssumption, PoolMaxAssumption, RetriesAssumption
     DEF Init, IInv, TypeOK, HandsFull, HandsOpen, VidReserved, OneOwner, TableOnce,
         PoolOnce, HandsOnce, PlacesDisjoint, PoolBounded, ClosedOutOfService, LiveAccounted
<1>2. IInv /\ [Next]_vars => IInv'
  <2>. SUFFICES ASSUME IInv, [Next]_vars PROVE IInv'
    OBVIOUS
  <2>1. TypeOK' /\ HandsFull'
    BY TypeStep, HandsFullStep DEF IInv
  <2>2. ASSUME NEW h \in Handlers,
               Request(h) \/ ProxyStep(h) \/ UpstreamStep(h) \/ ForwardFails(h)
        PROVE  IInv'
    BY <2>1, <2>2, HandlerQuiet, HandleConnectStep, PoolGetStep, DialServedStep,
       RegisterStep, HandleDisconnectStep, PoolPutStep, CloseClientStep
       DEF Request, ProxyStep, UpstreamStep
  <2>3. CASE (\E v \in Vids : ClientForgets(v)) \/ UpstreamRestart \/ UNCHANGED vars
    BY <2>1, <2>3, EnvironmentQuiet
  <2>. QED BY <2>2, <2>3 DEF Next
<1>. QED BY <1>1, <1>2, PTL DEF Spec

\* No upstream session is ever shared by two virtual connections, or both in
\* use and in the pool.
THEOREM SessionsHaveOneOwner == Spec => []OneOwner
<1>1. IInv => OneOwner
  BY DEF IInv
<1>. QED BY <1>1, Invariance, PTL

\* No closed client is in the pool or in the connection table.
THEOREM NoClosedClientInService == Spec => []ClosedOutOfService
<1>1. IInv => ClosedOutOfService
  BY DEF IInv
<1>. QED BY <1>1, Invariance, PTL

\* The proxy loses no upstream session except by a lost exchange.
THEOREM NoSessionLost == Spec => []LiveAccounted
<1>1. IInv => LiveAccounted
  BY DEF IInv
<1>. QED BY <1>1, Invariance, PTL

\* Every variable of the proxy, the pool and the upstream keeps its type.
THEOREM TypeCorrect == Spec => []TypeOK
<1>1. IInv => TypeOK
  BY DEF IInv
<1>. QED BY <1>1, Invariance, PTL

\* The pool keeps its limit, however many disconnects race in pool.put.
THEOREM PoolKeepsItsLimit == Spec => []PoolBounded
<1>1. IInv => PoolBounded
  BY DEF IInv
<1>. QED BY <1>1, Invariance, PTL

\* An entry of the table stays as it is until a disconnect takes it out: no
\* connect writes over it, and no other step drops it.
SessionKept ==
  \A v \in Vids : conns[v] # None =>
    conns'[v] = conns[v] \/ (conns'[v] = None /\ \E h \in Handlers : HandleDisconnect(h, v))

\* A virtual connection keeps the session it was registered with, whatever the
\* other connects, disconnects, expiries and failures do: proxy.forward finds the
\* same one for it every time until its client disconnects.
THEOREM VirtualConnKeepsItsSession == Spec => [][SessionKept]_vars
<1>1. IInv /\ [Next]_vars => [SessionKept]_vars
  <2>. SUFFICES ASSUME IInv, Next PROVE SessionKept
    OBVIOUS
  <2>1. CASE conns' = conns
    BY <2>1 DEF SessionKept
  <2>2. ASSUME NEW h \in Handlers, Register(h) PROVE SessionKept
    <3>1. vid[h] \in Vids /\ conns[vid[h]] = None
      BY <2>2 DEF Register, IInv, VidReserved
    <3>. QED BY <2>2, <3>1 DEF Register, IInv, TypeOK, SessionKept
  <2>3. ASSUME NEW h \in Handlers, NEW w \in Vids, HandleDisconnect(h, w) PROVE SessionKept
    <3>1. conns'[w] = None /\ \A v \in Vids : v # w => conns'[v] = conns[v]
      BY <2>3 DEF HandleDisconnect, IInv, TypeOK
    <3>. QED BY <2>3, <3>1 DEF SessionKept
  <2>4. ASSUME NEW h \in Handlers, ProxyStep(h), ~Register(h) PROVE conns' = conns
    BY <2>4 DEF ProxyStep, PoolGet, DialAnswered, DialFails, ReplyConnect, SendUpstream,
       ForwardReply, PoolPut, CloseClient, ByeTimeout, ReplyDisconnect, tableVars
  <2>5. ASSUME NEW h \in Handlers, UpstreamStep(h) \/ ForwardFails(h) PROVE conns' = conns
    BY <2>5 DEF UpstreamStep, DialServed, UpstreamServes, ByeServed, ForwardFails, tableVars
  <2>6. ASSUME NEW h \in Handlers, NEW w \in Vids, HandleConnect(h) \/ HandleForward(h, w)
        PROVE  conns' = conns
    BY <2>6 DEF HandleConnect, HandleForward, tableVars
  <2>7. CASE (\E v \in Vids : ClientForgets(v)) \/ UpstreamRestart
    BY <2>1, <2>7 DEF ClientForgets, UpstreamRestart, tableVars
  <2>. QED BY <2>1, <2>2, <2>3, <2>4, <2>5, <2>6, <2>7 DEF Next, Request, HandleConnect, tableVars
<1>. QED BY <1>1, Invariance, PTL DEF Spec

=============================================================================
