--------------------------- MODULE RtpMediaProofs ---------------------------
(***************************************************************************)
(* Proofs about the media side of RtpManager: the bridge manager's maps,   *)
(* the UDP sockets, and the playbacks' registry, contexts and channels.    *)
(* The port pool and the session maps are in RtpManagerProofs.             *)
(***************************************************************************)
EXTENDS RtpManagerProofs

-----------------------------------------------------------------------------
(* The life of a session object.  Handlers keep copies of a session's       *)
(* endpoint across critical sections, in which the session may be           *)
(* destroyed.  The copies stay meaningful because an id names one session   *)
(* object for ever, whose call and port never change.                       *)

\* A session object that was ever created has a call and a port, and is live
\* or has its context cancelled.
SessionLife ==
    \A s \in Sid : ~Fresh(s) =>
        /\ sess[s].call \in Call /\ sess[s].port \in RtpPorts
        /\ s \in sessions \/ sess[s].ctxDone

\* What a step may do to the session objects that exist.
SessionKept ==
    /\ \A s \in Sid : ~Fresh(s) => sess'[s].call = sess[s].call
                                   /\ sess'[s].port = sess[s].port
    /\ \A s \in Sid : ~Fresh(s) => ~Fresh(s)'

LEMMA LiveIsCreated ==
    ASSUME SessInv PROVE \A s \in sessions : ~Fresh(s)
BY NoneIsFresh DEF SessInv, LiveSessions, Fresh

LEMMA SessionStep ==
    ASSUME TypeOK, SessInv, SessionLife, [Next]_vars
    PROVE  SessionLife' /\ SessionKept
<1>0. ASSUME UNCHANGED sessVars PROVE SessionLife' /\ SessionKept
  BY <1>0 DEF sessVars, SessionLife, SessionKept, Fresh
<1>1. ASSUME NEW c \in Call, NEW s \in Sid, NEW r \in Remote,
             CreateSession(c, s, r)
      PROVE  SessionLife' /\ SessionKept
  <2>1. PICK p \in pool.avail :
             sess' = [sess EXCEPT ![s] =
                   [call |-> c, port |-> p, remote |-> r, ctxDone |-> FALSE]]
    BY <1>1 DEF CreateSession
  <2>2. p \in RtpPorts /\ Fresh(s) /\ sessions' = sessions \cup {s}
    BY <1>1 DEF CreateSession, TypeOK
  <2>3. sess'[s].call = c /\ sess'[s].port = p
        /\ \A t \in Sid \ {s} : sess'[t] = sess[t]
    BY <2>1 DEF TypeOK
  <2> QED BY <2>2, <2>3 DEF SessionLife, SessionKept, Fresh
<1>2. ASSUME NEW c \in Call, CreateSessionNoCodec(c)
      PROVE  SessionLife' /\ SessionKept
  BY <1>2 DEF CreateSessionNoCodec, SessionLife, SessionKept, Fresh
<1>3. ASSUME NEW s \in Sid, NEW r \in Remote, UpdateRemoteEndpoint(s, r)
      PROVE  SessionLife' /\ SessionKept
  <2>1. \A t \in Sid : /\ sess'[t].call = sess[t].call
                       /\ sess'[t].port = sess[t].port
                       /\ sess'[t].ctxDone = sess[t].ctxDone
    BY <1>3 DEF UpdateRemoteEndpoint, TypeOK, Session
  <2>2. sessions' = sessions
    BY <1>3 DEF UpdateRemoteEndpoint
  <2> QED BY <2>1, <2>2 DEF SessionLife, SessionKept, Fresh
<1>4. ASSUME NEW s \in Sid, DestroySession(s)
      PROVE  SessionLife' /\ SessionKept
  <2>1. \A t \in Sid : /\ sess'[t].call = sess[t].call
                       /\ sess'[t].port = sess[t].port
                       /\ t # s => sess'[t].ctxDone = sess[t].ctxDone
    BY <1>4 DEF DestroySession, TypeOK, Session
  <2>2. sess'[s].ctxDone /\ sessions' = sessions \ {s}
    BY <1>4 DEF DestroySession, TypeOK, Session
  <2> QED BY <2>1, <2>2 DEF SessionLife, SessionKept, Fresh
<1>5. CASE CloseAll
  <2>1. \A t \in Sid : /\ sess'[t].call = sess[t].call
                       /\ sess'[t].port = sess[t].port
                       /\ t \in sessions => sess'[t].ctxDone
                       /\ t \notin sessions => sess'[t].ctxDone = sess[t].ctxDone
    BY <1>5 DEF CloseAll, TypeOK, Session
  <2> QED BY <2>1 DEF SessionLife, SessionKept, Fresh
<1>6. ASSUME NEW b \in Bid, BridgeHandler(b) \/ UnbridgeMedia(b)
      PROVE  SessionLife' /\ SessionKept
  BY <1>0, <1>6 DEF BridgeHandler, BridgeMediaGetB, CreateBridge, UnbridgeMedia
<1>7. ASSUME NEW p \in Pid, Handler(p) \/ Goroutine(p)
      PROVE  SessionLife' /\ SessionKept
  BY <1>0, <1>7 DEF Handler, PlayStart, ServeStarted, ServeFinal, Goroutine,
                    StreamBind, StreamFail, StreamCancel, StreamComplete,
                    StreamReturn, PlayEnd
<1>8. ASSUME NEW s \in Sid, StopAudio(s) \/ UnbridgeBySession(s)
      PROVE  SessionLife' /\ SessionKept
  BY <1>0, <1>8 DEF StopAudio, UnbridgeBySession
<1>9. ASSUME NEW b \in Bid, NEW s \in Sid, NEW t \in Sid, BridgeMedia(b, s, t)
      PROVE  SessionLife' /\ SessionKept
  BY <1>0, <1>9 DEF BridgeMedia
<1>10. ASSUME NEW p \in Pid, NEW s \in Sid, PlayAudio(p, s)
       PROVE  SessionLife' /\ SessionKept
  BY <1>0, <1>10 DEF PlayAudio
<1>11. ASSUME NEW c \in Call, StopAudioCancel(c)
       PROVE  SessionLife' /\ SessionKept
  BY <1>0, <1>11 DEF StopAudioCancel
<1>12. CASE GracefulStop \/ UNCHANGED vars
  BY <1>0, <1>12 DEF GracefulStop, vars
<1> QED
  BY <1>1, <1>2, <1>3, <1>4, <1>5, <1>6, <1>7, <1>8, <1>9, <1>10, <1>11,
     <1>12 DEF Next

LEMMA SessionLifeInvariant == Spec => []SessionLife
<1>1. Init => SessionLife
  BY DEF Init, SessionLife, Fresh, NoSession
<1>2. TypeOK /\ SessInv /\ SessionLife /\ [Next]_vars => SessionLife'
  BY SessionStep
<1> QED BY <1>1, <1>2, TypeCorrect, SessInvariant, PTL DEF Spec

-----------------------------------------------------------------------------
(* Bridges.  BridgeMedia copies two endpoints in two critical sections and  *)
(* CreateBridge works on the copies.  That a bridge has two different sides *)
(* follows from its two ports being different, which needs that a copy has  *)
(* the port of the session it names.                                        *)

\* A copy of the endpoint of a session that was created.
Copied(e) ==
    e.sid \in Sid /\ ~Fresh(e.sid) /\ e.port = sess[e.sid].port

BridgeCopies ==
    /\ \A b \in Bid : br[b].pc \in {"gotA", "gotB"} =>
          b \notin bridges /\ Copied(br[b].a) /\ br[b].b.sid \in Sid
    /\ \A b \in Bid : br[b].pc = "gotB" => Copied(br[b].b)
    /\ \A b \in bridges :
          br[b].pc = "done" /\ Copied(br[b].a) /\ Copied(br[b].b)

\* The two halves of SocketOwnership.
BridgeSockets ==
    \A n \in RtpPorts, b \in Bid :
        bound[n] = b <=> b \in bridges /\ n \in {br[b].a.port, br[b].b.port}

PlaySockets ==
    \A n \in RtpPorts, p \in Pid :
        bound[n] = p <=>
            play[p].pc \in {"streaming", "closing"} /\ play[p].port = n

BridgeInv == BridgeCopies /\ BridgeIndex /\ BridgeSockets

LEMMA BridgeInit == Init => BridgeInv
BY NoneIsFresh DEF Init, BridgeInv, BridgeCopies, BridgeIndex, BridgeSockets

\* A step that leaves the bridges and their sockets alone.
LEMMA BridgeFrame ==
    ASSUME BridgeInv, SessionKept, UNCHANGED bridgeVars,
           \A n \in RtpPorts, b \in Bid : bound'[n] = b <=> bound[n] = b
    PROVE  BridgeInv'
<1>1. BridgeCopies'
  BY DEF BridgeInv, BridgeCopies, Copied, SessionKept, Fresh, bridgeVars
<1>2. BridgeIndex' /\ BridgeSockets'
  BY DEF BridgeInv, BridgeIndex, BridgeSockets, bridgeVars
<1> QED BY <1>1, <1>2 DEF BridgeInv

\* The destruction of some of the bridges leaves both maps and the sockets
\* of the others as they were.
LEMMA BridgeDestroy ==
    ASSUME TypeOK, BridgeInv, SessionKept, NEW bs \in SUBSET bridges,
           DestroyBridges(bs)
    PROVE  BridgeInv'
<1>1. /\ bridges' = bridges \ bs
      /\ \A b \in Bid \ bs : br'[b] = br[b]
      /\ \A b \in bs : br'[b] = Finished
  BY DEF DestroyBridges, TypeOK
<1>2. BridgeCopies'
  <2>1. Finished.pc = "done"
    BY DEF Finished
  <2> QED BY <1>1, <2>1 DEF BridgeInv, BridgeCopies, Copied, SessionKept, Fresh,
                            TypeOK
<1>3. BridgeIndex'
  <2>1. \A b \in bridges' : br'[b].a.sid # br'[b].b.sid
    BY <1>1 DEF BridgeInv, BridgeIndex, TypeOK
  <2>2. ASSUME NEW s \in Sid, NEW b \in Bid
        PROVE  sessionMap'[s] = b <=>
                  b \in bridges' /\ s \in {br'[b].a.sid, br'[b].b.sid}
    <3>1. CASE \E x \in bs : s \in {br[x].a.sid, br[x].b.sid}
      <4>1. PICK x \in bs : s \in {br[x].a.sid, br[x].b.sid}
        BY <3>1
      <4>2. sessionMap[s] = x /\ sessionMap'[s] = None
        BY <3>1, <4>1 DEF DestroyBridges, BridgeInv, BridgeIndex, TypeOK
      <4>3. b \notin bs => ~(b \in bridges /\ s \in {br[b].a.sid, br[b].b.sid})
        BY <4>2 DEF BridgeInv, BridgeIndex
      <4> QED BY <1>1, <4>2, <4>3, NoneIsFresh
    <3>2. CASE ~\E x \in bs : s \in {br[x].a.sid, br[x].b.sid}
      <4>1. sessionMap'[s] = sessionMap[s]
        BY <3>2 DEF DestroyBridges
      <4>2. b \notin bs => br'[b] = br[b]
        BY <1>1
      <4> QED BY <1>1, <3>2, <4>1, <4>2 DEF BridgeInv, BridgeIndex
    <3> QED BY <3>1, <3>2
  <2> QED BY <2>1, <2>2 DEF BridgeIndex
<1>4. BridgeSockets'
  <2> SUFFICES ASSUME NEW n \in RtpPorts, NEW b \in Bid
               PROVE  bound'[n] = b <=>
                        b \in bridges' /\ n \in {br'[b].a.port, br'[b].b.port}
    BY DEF BridgeSockets
  <2>1. bound'[n] = IF bound[n] \in bs THEN None ELSE bound[n]
    BY DEF DestroyBridges
  <2>2. bound[n] = b <=> b \in bridges /\ n \in {br[b].a.port, br[b].b.port}
    BY DEF BridgeInv, BridgeSockets
  <2>3. CASE b \in bs
    BY <1>1, <2>1, <2>3, NoneIsFresh
  <2>4. CASE b \notin bs
    BY <1>1, <2>1, <2>2, <2>4, NoneIsFresh
  <2> QED BY <2>3, <2>4
<1> QED BY <1>2, <1>3, <1>4 DEF BridgeInv

\* CreateBridge, once it has found both sessions unbridged and bound both
\* ports.
LEMMA BridgeCreate ==
    ASSUME TypeOK, SessionLife, BridgeInv, NEW b \in Bid, CreateBridge(b)
    PROVE  BridgeInv'
<1> DEFINE x == br[b].a
           y == br[b].b
<1>1. /\ br[b].pc = "gotB" /\ b \notin bridges
      /\ Copied(x) /\ Copied(y) /\ x.port \in RtpPorts /\ y.port \in RtpPorts
  BY DEF CreateBridge, BridgeInv, BridgeCopies, Copied, SessionLife
<1>2. sess' = sess
  BY DEF CreateBridge, sessVars
<1>3. CASE sessionMap[x.sid] = None /\ sessionMap[y.sid] = None /\ CanBind(x, y)
  <2>1. /\ br' = [br EXCEPT ![b].pc = "done"]
        /\ bridges' = bridges \cup {b}
        /\ sessionMap' = [sessionMap EXCEPT ![x.sid] = b, ![y.sid] = b]
        /\ bound' = [bound EXCEPT ![x.port] = b, ![y.port] = b]
    BY <1>3 DEF CreateBridge
  <2>2. /\ br'[b].pc = "done" /\ br'[b].a = x /\ br'[b].b = y
        /\ \A c \in Bid \ {b} : br'[c] = br[c]
    BY <2>1 DEF TypeOK, BridgeReq
  <2>3. x.port # y.port /\ bound[x.port] = None /\ bound[y.port] = None
    BY <1>3 DEF CanBind
  <2>4. x.sid # y.sid
    BY <1>1, <2>3 DEF Copied
  <2>5. BridgeCopies'
    BY <1>1, <1>2, <2>1, <2>2, ZenonT(30)
       DEF BridgeInv, BridgeCopies, Copied, Fresh, TypeOK
  <2>6. BridgeIndex'
    <3>1. x.sid \in Sid /\ y.sid \in Sid
      BY <1>1 DEF Copied
    <3>2. \A s \in Sid : sessionMap'[s] = IF s \in {x.sid, y.sid} THEN b
                                                            ELSE sessionMap[s]
      BY <2>1, <3>1 DEF TypeOK
    <3>3. \A c \in bridges : x.sid \notin {br[c].a.sid, br[c].b.sid}
                          /\ y.sid \notin {br[c].a.sid, br[c].b.sid}
      BY <1>3, <3>1, NoneIsFresh DEF BridgeInv, BridgeIndex, TypeOK
    <3>4. \A c \in bridges' : br'[c].a.sid # br'[c].b.sid
      BY <2>1, <2>2, <2>4 DEF BridgeInv, BridgeIndex, TypeOK
    <3>5. ASSUME NEW s \in Sid, NEW c \in Bid
          PROVE  sessionMap'[s] = c <=>
                    c \in bridges' /\ s \in {br'[c].a.sid, br'[c].b.sid}
      <4>1. sessionMap[s] = c <=>
               c \in bridges /\ s \in {br[c].a.sid, br[c].b.sid}
        BY DEF BridgeInv, BridgeIndex
      <4>2. CASE c = b
        BY <1>1, <2>1, <2>2, <3>2, <4>1, <4>2, ZenonT(30)
      <4>3. CASE c # b
        <5>1. br'[c] = br[c] /\ (c \in bridges' <=> c \in bridges)
          BY <2>1, <2>2, <4>3
        <5>2. CASE s \in {x.sid, y.sid}
          BY <3>2, <3>3, <4>3, <5>1, <5>2
        <5>3. CASE s \notin {x.sid, y.sid}
          BY <3>2, <4>1, <5>1, <5>3
        <5> QED BY <5>2, <5>3
      <4> QED BY <4>2, <4>3
    <3> QED BY <3>4, <3>5 DEF BridgeIndex
  <2>7. BridgeSockets'
    <3>1. \A n \in RtpPorts : bound'[n] = IF n \in {x.port, y.port} THEN b
                                                                ELSE bound[n]
      BY <1>1, <2>1 DEF TypeOK
    <3>2. ASSUME NEW n \in RtpPorts, NEW c \in Bid
          PROVE  bound'[n] = c <=>
                    c \in bridges' /\ n \in {br'[c].a.port, br'[c].b.port}
      <4>1. bound[n] = c <=> c \in bridges /\ n \in {br[c].a.port, br[c].b.port}
        BY DEF BridgeInv, BridgeSockets
      <4>2. CASE c = b
        BY <1>1, <2>1, <2>2, <3>1, <4>1, <4>2, ZenonT(30)
      <4>3. CASE c # b
        <5>1. br'[c] = br[c] /\ (c \in bridges' <=> c \in bridges)
          BY <2>1, <2>2, <4>3
        <5>2. CASE n \in {x.port, y.port}
          <6>1. bound'[n] = b /\ bound[n] = None
            BY <2>3, <3>1, <5>2
          <6> QED BY <4>1, <4>3, <5>1, <6>1, NoneIsFresh
        <5>3. CASE n \notin {x.port, y.port}
          BY <3>1, <4>1, <5>1, <5>3
        <5> QED BY <5>2, <5>3
      <4> QED BY <4>2, <4>3
    <3> QED BY <3>2 DEF BridgeSockets
  <2> QED BY <2>5, <2>6, <2>7 DEF BridgeInv
<1>4. CASE ~(sessionMap[x.sid] = None /\ sessionMap[y.sid] = None /\ CanBind(x, y))
  <2>1. /\ br' = [br EXCEPT ![b] = Finished]
        /\ UNCHANGED <<bridges, sessionMap, bound>>
    BY <1>4 DEF CreateBridge
  <2>2. br'[b].pc = "done" /\ \A c \in Bid \ {b} : br'[c] = br[c]
    BY <2>1 DEF TypeOK, Finished
  <2>3. bridges \subseteq Bid /\ b \notin bridges
    BY <1>1 DEF TypeOK
  <2>4. BridgeCopies'
    BY <1>2, <2>1, <2>2, <2>3 DEF BridgeInv, BridgeCopies, Copied, Fresh
  <2>5. BridgeIndex'
    BY <2>1, <2>2, <2>3 DEF BridgeInv, BridgeIndex
  <2>6. BridgeSockets'
    BY <2>1, <2>2, <2>3 DEF BridgeInv, BridgeSockets
  <2> QED BY <2>4, <2>5, <2>6 DEF BridgeInv
<1> QED BY <1>3, <1>4

\* The two steps that read the endpoints touch neither map.
LEMMA BridgeRequest ==
    ASSUME TypeOK, SessInv, BridgeInv, NEW b \in Bid,
           BridgeMediaGetB(b) \/ \E s, t \in Sid : BridgeMedia(b, s, t)
    PROVE  BridgeInv'
<1>1. UNCHANGED <<sess, bridges, sessionMap, bound>> /\ b \notin bridges
  BY DEF BridgeMediaGetB, BridgeMedia, sessVars, BridgeInv, BridgeCopies
<1>2. \A c \in Bid \ {b} : br'[c] = br[c]
  BY DEF BridgeMediaGetB, BridgeMedia, TypeOK
<1>3. \A s \in sessions : s \in Sid /\ Copied(EndpointOf(s))
  BY LiveIsCreated DEF Copied, EndpointOf, TypeOK
<1>4. \/ br'[b].pc = "done"
      \/ br'[b].pc = "gotA" /\ Copied(br'[b].a) /\ br'[b].b.sid \in Sid
      \/ br'[b].pc = "gotB" /\ Copied(br'[b].a) /\ Copied(br'[b].b)
  <2>1. CASE BridgeMediaGetB(b)
    <3>1. br[b].pc = "gotA" /\ Copied(br[b].a)
      BY <2>1 DEF BridgeMediaGetB, BridgeInv, BridgeCopies
    <3>2. CASE br[b].b.sid \in sessions
      <4>1. br'[b] = [br[b] EXCEPT !.pc = "gotB", !.b = EndpointOf(br[b].b.sid)]
        BY <2>1, <3>2 DEF BridgeMediaGetB, TypeOK
      <4>2. br'[b].pc = "gotB" /\ br'[b].a = br[b].a
            /\ br'[b].b = EndpointOf(br[b].b.sid)
        BY <4>1 DEF TypeOK, BridgeReq
      <4> QED BY <1>3, <3>1, <3>2, <4>2
    <3>3. CASE br[b].b.sid \notin sessions
      BY <2>1, <3>3 DEF BridgeMediaGetB, TypeOK, Finished
    <3> QED BY <3>2, <3>3
  <2>2. ASSUME NEW s \in Sid, NEW t \in Sid, BridgeMedia(b, s, t)
        PROVE  br'[b].pc = "gotA" /\ Copied(br'[b].a) /\ br'[b].b.sid \in Sid
    <3>1. br'[b] = [pc |-> "gotA", a |-> EndpointOf(s),
                    b |-> [NoEndpoint EXCEPT !.sid = t]]
      BY <2>2 DEF BridgeMedia, TypeOK
    <3>2. s \in sessions /\ br'[b].b.sid = t
      BY <2>2, <3>1 DEF BridgeMedia, NoEndpoint
    <3> QED BY <1>3, <3>1, <3>2
  <2> QED BY <2>1, <2>2
<1>5. Copied(br'[b].b) => br'[b].b.sid \in Sid
  BY DEF Copied
<1>6. BridgeCopies'
  <2>1. \A c \in Bid \ {b} :
           /\ br'[c].pc \in {"gotA", "gotB"} =>
                 c \notin bridges' /\ Copied(br'[c].a) /\ br'[c].b.sid \in Sid
           /\ br'[c].pc = "gotB" => Copied(br'[c].b)
    BY <1>1, <1>2 DEF BridgeInv, BridgeCopies
  <2>2. \A c \in bridges' :
           br'[c].pc = "done" /\ Copied(br'[c].a) /\ Copied(br'[c].b)
    BY <1>1, <1>2 DEF BridgeInv, BridgeCopies, TypeOK
  <2>3. \A c \in Bid :
           /\ br'[c].pc \in {"gotA", "gotB"} =>
                 c \notin bridges' /\ Copied(br'[c].a) /\ br'[c].b.sid \in Sid
           /\ br'[c].pc = "gotB" => Copied(br'[c].b)
    BY <1>1, <1>4, <1>5, <2>1
  <2> QED BY <1>1, <2>2, <2>3 DEF BridgeCopies, Copied, Fresh
<1>7. BridgeIndex' /\ BridgeSockets'
  BY <1>1, <1>2 DEF BridgeInv, BridgeIndex, BridgeSockets, TypeOK
<1> QED BY <1>6, <1>7 DEF BridgeInv

\* The sockets of bridges are no playback's.
LEMMA CloseKeepsBridges ==
    ASSUME NEW p \in Pid, CloseSocket(p)
    PROVE  \A n \in RtpPorts, b \in Bid : bound'[n] = b <=> bound[n] = b
BY IdsDisjoint, NoneIsFresh DEF CloseSocket

LEMMA BridgeNext ==
    ASSUME TypeOK, SessInv, SessionLife, BridgeInv, [Next]_vars
    PROVE  BridgeInv'
<1>0. SessionKept
  BY SessionStep
<1>1. ASSUME UNCHANGED <<bridgeVars, bound>> PROVE BridgeInv'
  BY <1>0, <1>1, BridgeFrame DEF bridgeVars
<1>2. ASSUME NEW c \in Call, NEW s \in Sid, NEW r \in Remote,
             CreateSession(c, s, r) PROVE BridgeInv'
  BY <1>1, <1>2 DEF CreateSession
<1>3. ASSUME NEW c \in Call, CreateSessionNoCodec(c) \/ StopAudioCancel(c)
      PROVE  BridgeInv'
  BY <1>1, <1>3 DEF CreateSessionNoCodec, StopAudioCancel
<1>4. ASSUME NEW s \in Sid, DestroySession(s) \/ StopAudio(s) PROVE BridgeInv'
  BY <1>1, <1>4 DEF DestroySession, StopAudio
<1>5. ASSUME NEW s \in Sid, NEW r \in Remote, UpdateRemoteEndpoint(s, r)
      PROVE  BridgeInv'
  BY <1>1, <1>5 DEF UpdateRemoteEndpoint
<1>6. ASSUME NEW b \in Bid, NEW s \in Sid, NEW t \in Sid, BridgeMedia(b, s, t)
      PROVE  BridgeInv'
  BY <1>6, BridgeRequest
<1>7. ASSUME NEW b \in Bid, BridgeHandler(b) PROVE BridgeInv'
  BY <1>7, BridgeRequest, BridgeCreate DEF BridgeHandler
<1>8. ASSUME NEW b \in Bid, UnbridgeMedia(b) PROVE BridgeInv'
  <2>1. DestroyBridges({b}) /\ {b} \in SUBSET bridges
    BY <1>8 DEF UnbridgeMedia
  <2> QED BY <1>0, <2>1, BridgeDestroy
<1>9. ASSUME NEW s \in Sid, UnbridgeBySession(s) PROVE BridgeInv'
  <2>1. DestroyBridges({sessionMap[s]}) /\ {sessionMap[s]} \in SUBSET bridges
    BY <1>9 DEF UnbridgeBySession
  <2> QED BY <1>0, <2>1, BridgeDestroy
<1>10. ASSUME NEW p \in Pid, NEW s \in Sid, PlayAudio(p, s) PROVE BridgeInv'
  BY <1>1, <1>10 DEF PlayAudio
<1>11. ASSUME NEW p \in Pid, Handler(p) PROVE BridgeInv'
  BY <1>1, <1>11 DEF Handler, PlayStart, ServeStarted, ServeFinal
<1>12. ASSUME NEW p \in Pid, Goroutine(p) PROVE BridgeInv'
  <2>1. UNCHANGED bridgeVars
    BY <1>12 DEF Goroutine, StreamBind, StreamFail, StreamCancel,
                 StreamComplete, StreamReturn, PlayEnd
  <2>2. CASE CloseSocket(p)
    BY <1>0, <2>1, <2>2, CloseKeepsBridges, BridgeFrame
  <2>3. CASE StreamBind(p)
    <3>1. \A n \in RtpPorts, b \in Bid : bound'[n] = b <=> bound[n] = b
      BY <2>3, IdsDisjoint, NoneIsFresh DEF StreamBind, TypeOK
    <3> QED BY <1>0, <2>1, <3>1, BridgeFrame
  <2>4. CASE UNCHANGED bound
    BY <1>1, <2>1, <2>4
  <2> QED BY <1>12, <2>2, <2>3, <2>4
          DEF Goroutine, StreamFail, StreamCancel, StreamComplete, StreamReturn,
              PlayEnd
<1>13. CASE GracefulStop \/ UNCHANGED vars
  BY <1>1, <1>13 DEF GracefulStop, vars
<1>14. CASE CloseAll
  <2>1. DestroyBridges(bridges) /\ bridges \in SUBSET bridges
    BY <1>14 DEF CloseAll
  <2> QED BY <1>0, <2>1, BridgeDestroy
<1> QED
  BY <1>2, <1>3, <1>4, <1>5, <1>6, <1>7, <1>8, <1>9, <1>10, <1>11, <1>12,
     <1>13, <1>14 DEF Next

LEMMA BridgeInvariant == Spec => []BridgeInv
<1>1. TypeOK /\ SessInv /\ SessionLife /\ BridgeInv /\ [Next]_vars => BridgeInv'
  BY BridgeNext
<1> QED BY <1>1, BridgeInit, TypeCorrect, SessInvariant, SessionLifeInvariant,
           PTL DEF Spec

\* The bridge manager's two maps agree in every reachable state, whatever
\* sessions were destroyed between BridgeMedia's lookups and CreateBridge.
THEOREM BridgesIndexed == Spec => []BridgeIndex
<1>1. BridgeInv => BridgeIndex
  BY DEF BridgeInv
<1> QED BY <1>1, BridgeInvariant, PTL

-----------------------------------------------------------------------------
(* Playbacks *)

\* What is known of a playback request at each stage of its life.
PlayStages ==
    \A p \in Pid :
        /\ play[p].pc # "idle" =>
              Copied(play[p]) /\ play[p].call = sess[play[p].sid].call
        /\ play[p].pc \in {"idle", "found"} => ~play[p].cancelled
        /\ play[p].ch # "open" => play[p].pc \in {"closing", "ending", "done"}

PlayInv == PlayStages /\ TrackedIsRunning /\ PlaySockets

LEMMA PlayInit == Init => PlayInv
BY NoneIsFresh DEF Init, PlayInv, PlayStages, TrackedIsRunning, PlaySockets

\* A step that leaves the playbacks and their sockets alone.
LEMMA PlayFrame ==
    ASSUME PlayInv, SessionKept, UNCHANGED <<play, activeCalls>>,
           \A n \in RtpPorts, p \in Pid : bound'[n] = p <=> bound[n] = p
    PROVE  PlayInv'
<1>1. PlayStages'
  BY DEF PlayInv, PlayStages, Copied, SessionKept, Fresh
<1>2. TrackedIsRunning' /\ PlaySockets'
  BY DEF PlayInv, TrackedIsRunning, PlaySockets
<1> QED BY <1>1, <1>2 DEF PlayInv

\* Stopping the playbacks of some calls, as DestroySession, StopAudio and
\* Server.Close do: no two calls track the same playback.
LEMMA PlayStop ==
    ASSUME TypeOK, PlayInv, SessionKept,
           \A n \in RtpPorts, p \in Pid : bound'[n] = p <=> bound[n] = p,
           NEW cs \in SUBSET Call,
           \A p \in Pid : play'[p] =
               IF \E c \in cs : activeCalls[c] = p
               THEN [play[p] EXCEPT !.cancelled = TRUE] ELSE play[p],
           \A c \in Call : activeCalls'[c] =
               IF c \in cs THEN None ELSE activeCalls[c]
    PROVE  PlayInv'
<1>1. \A p \in Pid : /\ play'[p].pc = play[p].pc /\ play'[p].sid = play[p].sid
                     /\ play'[p].call = play[p].call
                     /\ play'[p].port = play[p].port /\ play'[p].ch = play[p].ch
  <2> SUFFICES ASSUME NEW p \in Pid
               PROVE  /\ play'[p].pc = play[p].pc /\ play'[p].sid = play[p].sid
                      /\ play'[p].call = play[p].call
                      /\ play'[p].port = play[p].port /\ play'[p].ch = play[p].ch
    OBVIOUS
  <2>1. play[p] \in Playback
    BY DEF TypeOK
  <2>2. play'[p] = [play[p] EXCEPT !.cancelled = TRUE] \/ play'[p] = play[p]
    OBVIOUS
  <2> QED BY <2>1, <2>2 DEF Playback
<1>2. \A p \in Pid : (\A c \in cs : activeCalls[c] # p) => play'[p] = play[p]
  OBVIOUS
<1>3. \A p \in Pid : play[p].pc \in {"idle", "found"} =>
                        \A c \in Call : activeCalls[c] # p
  BY NoneIsFresh DEF PlayInv, TrackedIsRunning
<1>4. \A c, d \in Call :
         activeCalls[c] # None /\ activeCalls[c] = activeCalls[d] => c = d
  BY DEF PlayInv, TrackedIsRunning
<1>5. PlayStages'
  <2> SUFFICES ASSUME NEW p \in Pid
               PROVE  /\ play'[p].pc # "idle" =>
                            /\ Copied(play[p])'
                            /\ play'[p].call = sess'[play'[p].sid].call
                      /\ play'[p].pc \in {"idle", "found"} => ~play'[p].cancelled
                      /\ play'[p].ch # "open" =>
                            play'[p].pc \in {"closing", "ending", "done"}
    BY DEF PlayStages
  <2>1. play'[p].pc \in {"idle", "found"} => ~play'[p].cancelled
    BY <1>1, <1>2, <1>3 DEF PlayInv, PlayStages
  <2> QED BY <1>1, <2>1 DEF PlayInv, PlayStages, Copied, SessionKept, Fresh
<1>6. TrackedIsRunning'
  <2> SUFFICES ASSUME NEW c \in Call, activeCalls'[c] # None
               PROVE  /\ play'[activeCalls'[c]].call = c
                      /\ ~play'[activeCalls'[c]].cancelled
                      /\ play'[activeCalls'[c]].pc \notin {"idle", "found", "done"}
    BY DEF TrackedIsRunning
  <2>1. c \notin cs /\ activeCalls'[c] = activeCalls[c]
    OBVIOUS
  <2>2. activeCalls[c] \in Pid
    BY <2>1 DEF TypeOK
  <2>3. play'[activeCalls[c]] = play[activeCalls[c]]
    BY <1>2, <1>4, <2>1, <2>2
  <2> QED BY <2>1, <2>3 DEF PlayInv, TrackedIsRunning
<1>7. PlaySockets'
  BY <1>1 DEF PlayInv, PlaySockets
<1> QED BY <1>5, <1>6, <1>7 DEF PlayInv

LEMMA PlayStopOne ==
    ASSUME TypeOK, PlayInv, SessionKept, UNCHANGED bound, NEW c \in Call, Stop(c)
    PROVE  PlayInv'
<1>1. CASE activeCalls[c] = None
  BY <1>1, PlayFrame DEF Stop
<1>2. CASE activeCalls[c] # None
  <2>1. activeCalls[c] \in Pid
    BY <1>2 DEF TypeOK
  <2>2. \A p \in Pid : play'[p] = IF \E d \in {c} : activeCalls[d] = p
                             THEN [play[p] EXCEPT !.cancelled = TRUE] ELSE play[p]
    BY <1>2, <2>1 DEF Stop, TypeOK
  <2>3. \A d \in Call : activeCalls'[d] = IF d \in {c} THEN None
                                                       ELSE activeCalls[d]
    BY <1>2 DEF Stop, TypeOK
  <2>4. {c} \in SUBSET Call
    OBVIOUS
  <2> QED BY <2>2, <2>3, <2>4, PlayStop
<1> QED BY <1>1, <1>2

\* One playback moves on, and the registry with it: Play enters it, the
\* deferred delete may remove an entry that is not its own.
LEMMA PlayAdvance ==
    ASSUME TypeOK, SessionKept, PlayStages, TrackedIsRunning, NEW p \in Pid,
           \A q \in Pid \ {p} : play'[q] = play[q],
           /\ play'[p].sid = play[p].sid /\ play'[p].port = play[p].port
           /\ play'[p].call = play[p].call
           /\ play'[p].cancelled = play[p].cancelled,
           \/ play'[p].pc = play[p].pc
           \/ play[p].pc # "idle" /\ play'[p].pc \notin {"idle", "found"},
           play'[p].ch # "open" => play'[p].pc \in {"closing", "ending", "done"},
           \A c \in Call :
               \/ activeCalls'[c] = None
               \/ activeCalls'[c] = activeCalls[c]
               \/ /\ activeCalls'[c] = p /\ play[p].call = c
                  /\ ~play[p].cancelled /\ play'[p].pc = "starting",
           play'[p].pc = "done" => \A c \in Call : activeCalls'[c] # p
    PROVE  PlayStages' /\ TrackedIsRunning'
<1>1. PlayStages'
  BY DEF PlayStages, Copied, SessionKept, Fresh
<1>2. ASSUME NEW c \in Call, activeCalls'[c] # None
      PROVE  /\ play'[activeCalls'[c]].call = c
             /\ ~play'[activeCalls'[c]].cancelled
             /\ play'[activeCalls'[c]].pc \notin {"idle", "found", "done"}
  <2>1. CASE activeCalls'[c] = activeCalls[c]
    <3>1. activeCalls[c] \in Pid
      BY <1>2, <2>1 DEF TypeOK
    <3>2. /\ play[activeCalls[c]].call = c /\ ~play[activeCalls[c]].cancelled
          /\ play[activeCalls[c]].pc \notin {"idle", "found", "done"}
      BY <1>2, <2>1 DEF TrackedIsRunning
    <3>3. CASE activeCalls[c] = p
      BY <2>1, <3>2, <3>3
    <3>4. CASE activeCalls[c] # p
      BY <2>1, <3>1, <3>2, <3>4
    <3> QED BY <3>3, <3>4
  <2>2. CASE activeCalls'[c] # activeCalls[c]
    BY <1>2, <2>2
  <2> QED BY <2>1, <2>2
<1> QED BY <1>1, <1>2 DEF TrackedIsRunning

\* The effect of each step on the fields of its playback.
LEMMA PlayFields ==
    ASSUME NEW q \in Playback
    PROVE  /\ \A x : LET n == [q EXCEPT !.pc = x] IN
                 /\ n.pc = x /\ n.sid = q.sid /\ n.call = q.call /\ n.port = q.port
                 /\ n.cancelled = q.cancelled /\ n.ch = q.ch
           /\ \A x, y : LET n == [q EXCEPT !.pc = x, !.ch = y] IN
                 /\ n.pc = x /\ n.sid = q.sid /\ n.call = q.call /\ n.port = q.port
                 /\ n.cancelled = q.cancelled /\ n.ch = y
           /\ \A x : LET n == [q EXCEPT !.rpc = x] IN
                 /\ n.pc = q.pc /\ n.sid = q.sid /\ n.call = q.call
                 /\ n.port = q.port /\ n.cancelled = q.cancelled /\ n.ch = q.ch
           /\ \A x, y, z : LET n == [q EXCEPT !.pc = x, !.ch = y, !.rpc = z] IN
                 /\ n.pc = x /\ n.sid = q.sid /\ n.call = q.call /\ n.port = q.port
                 /\ n.cancelled = q.cancelled /\ n.ch = y
BY DEF Playback

\* What the handler of a PlayAudio request does to its playback.
LEMMA HandlerEffect ==
    ASSUME TypeOK, NEW p \in Pid, Handler(p)
    PROVE  /\ \A q \in Pid \ {p} : play'[q] = play[q]
           /\ play'[p].sid = play[p].sid /\ play'[p].port = play[p].port
           /\ play'[p].call = play[p].call
           /\ play'[p].cancelled = play[p].cancelled
           /\ UNCHANGED bound
           /\ \/ /\ play[p].pc = "found" /\ play'[p].pc = "done"
                 /\ UNCHANGED activeCalls
              \/ /\ play[p].pc = "found" /\ play'[p].pc = "starting"
                 /\ play'[p].ch = play[p].ch
                 /\ activeCalls' = [activeCalls EXCEPT ![play[p].call] = p]
              \/ /\ play'[p].pc = play[p].pc /\ play'[p].ch = play[p].ch
                 /\ UNCHANGED activeCalls
<1>0. play \in [Pid -> Playback] /\ play[p] \in Playback
  BY DEF TypeOK
<1>1. CASE PlayStart(p)
  <2>1. CASE sess[play[p].sid].remote = "none" \/ activeCalls[play[p].call] # None
    <3>1. /\ play' = [play EXCEPT ![p] = [@ EXCEPT !.pc = "done", !.ch = "error",
                                                   !.rpc = "returned"]]
          /\ UNCHANGED <<activeCalls, bound>> /\ play[p].pc = "found"
      BY <1>1, <2>1 DEF PlayStart
    <3>2. play'[p] = [play[p] EXCEPT !.pc = "done", !.ch = "error",
                                     !.rpc = "returned"]
          /\ \A q \in Pid \ {p} : play'[q] = play[q]
      BY <1>0, <3>1
    <3> QED BY <1>0, <3>1, <3>2, PlayFields
  <2>2. CASE ~(sess[play[p].sid].remote = "none" \/ activeCalls[play[p].call] # None)
    <3>1. /\ play' = [play EXCEPT ![p].pc = "starting"]
          /\ activeCalls' = [activeCalls EXCEPT ![play[p].call] = p]
          /\ UNCHANGED bound /\ play[p].pc = "found"
      BY <1>1, <2>2 DEF PlayStart
    <3>2. play'[p] = [play[p] EXCEPT !.pc = "starting"]
          /\ \A q \in Pid \ {p} : play'[q] = play[q]
      BY <1>0, <3>1
    <3> QED BY <1>0, <3>1, <3>2, PlayFields
  <2> QED BY <2>1, <2>2
<1>2. CASE ServeStarted(p) \/ ServeFinal(p)
  <2>1. PICK x : play' = [play EXCEPT ![p].rpc = x]
    BY <1>2 DEF ServeStarted, ServeFinal
  <2>2. UNCHANGED <<activeCalls, bound>>
    BY <1>2 DEF ServeStarted, ServeFinal
  <2>3. play'[p] = [play[p] EXCEPT !.rpc = x]
        /\ \A q \in Pid \ {p} : play'[q] = play[q]
    BY <1>0, <2>1
  <2> QED BY <1>0, <2>2, <2>3, PlayFields
<1> QED BY <1>1, <1>2 DEF Handler

\* What the goroutine of a playback does to it.
LEMMA GoroutineEffect ==
    ASSUME TypeOK, NEW p \in Pid, Goroutine(p)
    PROVE  /\ \A q \in Pid \ {p} : play'[q] = play[q]
           /\ play'[p].sid = play[p].sid /\ play'[p].port = play[p].port
           /\ play'[p].call = play[p].call
           /\ play'[p].cancelled = play[p].cancelled
           /\ \/ /\ play[p].pc = "starting" /\ play'[p].pc = "streaming"
                 /\ play'[p].ch = play[p].ch
                 /\ bound[play[p].port] = None
                 /\ bound' = [bound EXCEPT ![play[p].port] = p]
                 /\ UNCHANGED activeCalls
              \/ /\ play[p].pc \in {"starting", "streaming", "closing"}
                 /\ play'[p].pc = "ending" /\ CloseSocket(p)
                 /\ \/ play'[p].ch = play[p].ch
                    \/ play[p].pc \in {"starting", "streaming"}
                 /\ UNCHANGED activeCalls
              \/ /\ play[p].pc = "streaming" /\ play'[p].pc = "closing"
                 /\ UNCHANGED <<activeCalls, bound>>
              \/ /\ play[p].pc = "ending" /\ play'[p].pc = "done"
                 /\ play'[p].ch = play[p].ch /\ UNCHANGED bound
                 /\ activeCalls' = [activeCalls EXCEPT ![play[p].call] = None]
<1>0. play \in [Pid -> Playback] /\ play[p] \in Playback
  BY DEF TypeOK
<1>1. CASE StreamBind(p) \/ StreamCancel(p) \/ StreamReturn(p) \/ PlayEnd(p)
  <2>1. PICK x : play' = [play EXCEPT ![p].pc = x]
    BY <1>1 DEF StreamBind, StreamCancel, StreamReturn, PlayEnd
  <2>2. play'[p] = [play[p] EXCEPT !.pc = x]
        /\ \A q \in Pid \ {p} : play'[q] = play[q]
    BY <1>0, <2>1
  <2>3. /\ play'[p].pc = x /\ play'[p].sid = play[p].sid
        /\ play'[p].port = play[p].port /\ play'[p].call = play[p].call
        /\ play'[p].cancelled = play[p].cancelled /\ play'[p].ch = play[p].ch
    BY <1>0, <2>2, PlayFields
  <2>4. \A y : play' = [play EXCEPT ![p].pc = y] => y = x
    BY <1>0, <2>3, PlayFields
  <2> QED BY <1>1, <2>2, <2>3, <2>4
          DEF StreamBind, StreamCancel, StreamReturn, PlayEnd
<1>2. CASE StreamFail(p)
  <2>1. play'[p] = [play[p] EXCEPT !.pc = "ending", !.ch = "error"]
        /\ \A q \in Pid \ {p} : play'[q] = play[q]
    BY <1>0, <1>2 DEF StreamFail
  <2> QED BY <1>0, <1>2, <2>1, PlayFields DEF StreamFail
<1>3. CASE StreamComplete(p)
  <2>1. play'[p] = [play[p] EXCEPT !.pc = "closing", !.ch = "completed"]
        /\ \A q \in Pid \ {p} : play'[q] = play[q]
    BY <1>0, <1>3 DEF StreamComplete
  <2> QED BY <1>0, <1>3, <2>1, PlayFields DEF StreamComplete
<1> QED BY <1>1, <1>2, <1>3 DEF Goroutine

LEMMA PlayHandlers ==
    ASSUME TypeOK, PlayInv, SessionKept, NEW p \in Pid, Handler(p)
    PROVE  PlayInv'
<1> USE DEF PlayInv
<1>1. /\ play[p].pc \in {"idle", "found"} => ~play[p].cancelled
      /\ play[p].ch # "open" => play[p].pc \in {"closing", "ending", "done"}
      /\ play[p].pc \in {"idle", "found", "done"} =>
            \A c \in Call : activeCalls[c] # p
  BY NoneIsFresh DEF PlayStages, TrackedIsRunning
<1>2. PlayStages' /\ TrackedIsRunning'
  <2>1. CASE UNCHANGED activeCalls
    BY <1>1, <2>1, HandlerEffect, PlayAdvance
  <2>2. CASE activeCalls' # activeCalls
    <3>1. /\ play[p].pc = "found" /\ play'[p].pc = "starting"
          /\ play'[p].ch = play[p].ch
          /\ activeCalls' = [activeCalls EXCEPT ![play[p].call] = p]
      BY <2>2, HandlerEffect
    <3>2. \A c \in Call : \/ activeCalls'[c] = activeCalls[c]
                          \/ activeCalls'[c] = p /\ play[p].call = c
      BY <3>1 DEF TypeOK
    <3> QED BY <1>1, <3>1, <3>2, HandlerEffect, PlayAdvance
  <2> QED BY <2>1, <2>2
<1>3. PlaySockets'
  BY HandlerEffect DEF PlaySockets
<1> QED BY <1>2, <1>3

LEMMA PlayGoroutines ==
    ASSUME TypeOK, PlayInv, SessionKept, SessionLife, NEW p \in Pid, Goroutine(p)
    PROVE  PlayInv'
<1> USE DEF PlayInv
<1>1. /\ play[p].pc \in {"starting", "streaming", "closing", "ending"}
      /\ play'[p].sid = play[p].sid /\ play'[p].port = play[p].port
      /\ play'[p].call = play[p].call /\ play'[p].cancelled = play[p].cancelled
      /\ play'[p].pc \in {"streaming", "closing", "ending", "done"}
      /\ \A q \in Pid \ {p} : play'[q] = play[q]
  BY GoroutineEffect
<1>2. play'[p].ch # "open" => play'[p].pc \in {"closing", "ending", "done"}
  BY GoroutineEffect DEF PlayStages
<1>3. PlayStages' /\ TrackedIsRunning'
  <2>1. CASE play'[p].pc = "done"
    <3>1. /\ activeCalls' = [activeCalls EXCEPT ![play[p].call] = None]
          /\ \A c \in Call : activeCalls[c] = p => c = play[p].call
      BY <2>1, GoroutineEffect, NoneIsFresh DEF TrackedIsRunning
    <3>2. \A c \in Call : /\ activeCalls'[c] \in {None, activeCalls[c]}
                          /\ activeCalls'[c] # p
      BY <3>1, NoneIsFresh DEF TypeOK
    <3> QED BY <1>1, <1>2, <3>2, PlayAdvance
  <2>2. CASE UNCHANGED activeCalls /\ play'[p].pc # "done"
    BY <1>1, <1>2, <2>2, PlayAdvance
  <2> QED BY <2>1, <2>2, GoroutineEffect
<1>4. PlaySockets'
  <2>1. \A q \in Pid \ {p} : play'[q] = play[q]
    BY <1>1
  <2>2. CASE play[p].pc = "starting" /\ play'[p].pc = "streaming"
    <3>1. /\ play[p].port \in RtpPorts /\ bound[play[p].port] = None
          /\ bound' = [bound EXCEPT ![play[p].port] = p]
      BY <2>2, GoroutineEffect DEF PlayStages, Copied, SessionLife
    <3>2. \A n \in RtpPorts : bound'[n] = IF n = play[p].port THEN p
                                                              ELSE bound[n]
      BY <3>1 DEF TypeOK
    <3>3. \A n \in RtpPorts : bound[n] # p
      BY <2>2 DEF PlaySockets
    <3>4. \A q \in Pid \ {p}, n \in RtpPorts : bound'[n] = q <=> bound[n] = q
      BY <3>1, <3>2, NoneIsFresh
    <3> QED BY <1>1, <2>1, <2>2, <3>1, <3>2, <3>3, <3>4 DEF PlaySockets
  <2>3. CASE CloseSocket(p) /\ play'[p].pc = "ending"
    <3>1. \A n \in RtpPorts : bound'[n] # p
      BY <2>3, NoneIsFresh DEF CloseSocket
    <3>2. \A q \in Pid \ {p}, n \in RtpPorts : bound'[n] = q <=> bound[n] = q
      BY <2>3, NoneIsFresh DEF CloseSocket
    <3> QED BY <2>1, <2>3, <3>1, <3>2 DEF PlaySockets
  <2>4. CASE /\ UNCHANGED bound
             /\ play[p].pc \in {"streaming", "closing"} <=>
                   play'[p].pc \in {"streaming", "closing"}
    BY <1>1, <2>1, <2>4 DEF PlaySockets
  <2> QED BY <2>2, <2>3, <2>4, GoroutineEffect
<1> QED BY <1>3, <1>4

\* The lookup of a session that is live.
LEMMA PlayRequest ==
    ASSUME TypeOK, SessInv, PlayInv, NEW p \in Pid, NEW s \in Sid,
           PlayAudio(p, s)
    PROVE  PlayInv'
<1> USE DEF PlayInv
<1>1. /\ play[p].pc = "idle" /\ s \in sessions
      /\ UNCHANGED <<sess, activeCalls, bound>>
      /\ play' = [play EXCEPT ![p] =
            [@ EXCEPT !.pc = "found", !.sid = s, !.call = sess[s].call,
                      !.port = sess[s].port, !.rpc = "started"]]
  BY DEF PlayAudio, sessVars
<1>2. /\ play'[p].pc = "found" /\ play'[p].sid = s
      /\ play'[p].call = sess[s].call /\ play'[p].port = sess[s].port
      /\ play'[p].cancelled = play[p].cancelled /\ play'[p].ch = play[p].ch
      /\ \A q \in Pid \ {p} : play'[q] = play[q]
  BY <1>1 DEF TypeOK, Playback
<1>3. PlayStages'
  BY <1>1, <1>2, LiveIsCreated DEF PlayStages, Copied, Fresh
<1>4. \A c \in Call : activeCalls[c] # None =>
         activeCalls[c] \in Pid \ {p}
  BY <1>1 DEF TypeOK, TrackedIsRunning
<1>5. TrackedIsRunning'
  BY <1>1, <1>2, <1>4 DEF TrackedIsRunning
<1>6. PlaySockets'
  BY <1>1, <1>2 DEF PlaySockets
<1> QED BY <1>3, <1>5, <1>6

\* Bridges come and go without touching a playback's socket.
LEMMA BridgesKeepPlaySockets ==
    ASSUME TypeOK, SessionLife, BridgeInv,
           \/ \E b \in Bid : BridgeHandler(b)
           \/ \E bs \in SUBSET Bid : DestroyBridges(bs)
    PROVE  \A n \in RtpPorts, p \in Pid : bound'[n] = p <=> bound[n] = p
<1>1. ASSUME NEW b \in Bid, BridgeMediaGetB(b)
      PROVE  UNCHANGED bound
  BY <1>1 DEF BridgeMediaGetB
<1>2. ASSUME NEW b \in Bid, CreateBridge(b)
      PROVE  \A n \in RtpPorts, p \in Pid : bound'[n] = p <=> bound[n] = p
  <2>1. br[b].a.port \in RtpPorts /\ br[b].b.port \in RtpPorts
    BY <1>2 DEF CreateBridge, BridgeInv, BridgeCopies, Copied, SessionLife
  <2>2. \/ UNCHANGED bound
        \/ /\ bound[br[b].a.port] = None /\ bound[br[b].b.port] = None
           /\ bound' = [bound EXCEPT ![br[b].a.port] = b, ![br[b].b.port] = b]
    BY <1>2 DEF CreateBridge, CanBind
  <2> QED BY <2>1, <2>2, IdsDisjoint, NoneIsFresh DEF TypeOK
<1>3. ASSUME NEW bs \in SUBSET Bid, DestroyBridges(bs)
      PROVE  \A n \in RtpPorts, p \in Pid : bound'[n] = p <=> bound[n] = p
  BY <1>3, IdsDisjoint, NoneIsFresh DEF DestroyBridges
<1> QED BY <1>1, <1>2, <1>3 DEF BridgeHandler

LEMMA PlayNext ==
    ASSUME TypeOK, SessInv, SessionLife, BridgeInv, PlayInv, [Next]_vars
    PROVE  PlayInv'
<1>0. SessionKept
  BY SessionStep
<1>1. ASSUME UNCHANGED <<play, activeCalls>>,
             \A n \in RtpPorts, p \in Pid : bound'[n] = p <=> bound[n] = p
      PROVE  PlayInv'
  BY <1>0, <1>1, PlayFrame
<1>2. ASSUME NEW c \in Call, NEW s \in Sid, NEW r \in Remote,
             CreateSession(c, s, r) PROVE PlayInv'
  BY <1>1, <1>2 DEF CreateSession, playVars
<1>3. ASSUME NEW c \in Call, CreateSessionNoCodec(c) PROVE PlayInv'
  BY <1>1, <1>3 DEF CreateSessionNoCodec, playVars
<1>4. ASSUME NEW c \in Call, StopAudioCancel(c) PROVE PlayInv'
  <2>1. Stop(c) /\ UNCHANGED bound
    BY <1>4 DEF StopAudioCancel
  <2> QED BY <1>0, <2>1, PlayStopOne
<1>5. ASSUME NEW s \in Sid, DestroySession(s) PROVE PlayInv'
  <2>1. Stop(sess[s].call) /\ UNCHANGED bound /\ sess[s].call \in Call
    BY <1>5 DEF DestroySession, SessInv, LiveSessions
  <2> QED BY <1>0, <2>1, PlayStopOne
<1>6. ASSUME NEW s \in Sid, StopAudio(s) PROVE PlayInv'
  BY <1>1, <1>6 DEF StopAudio
<1>7. ASSUME NEW s \in Sid, NEW r \in Remote, UpdateRemoteEndpoint(s, r)
      PROVE  PlayInv'
  BY <1>1, <1>7 DEF UpdateRemoteEndpoint, playVars
<1>8. ASSUME NEW b \in Bid, NEW s \in Sid, NEW t \in Sid, BridgeMedia(b, s, t)
      PROVE  PlayInv'
  BY <1>1, <1>8 DEF BridgeMedia, playVars
<1>9. ASSUME NEW b \in Bid, BridgeHandler(b) PROVE PlayInv'
  <2>1. UNCHANGED <<play, activeCalls>>
    BY <1>9 DEF BridgeHandler, BridgeMediaGetB, CreateBridge, playVars
  <2> QED BY <1>1, <1>9, <2>1, BridgesKeepPlaySockets
<1>10. ASSUME NEW b \in Bid, UnbridgeMedia(b) PROVE PlayInv'
  <2>1. DestroyBridges({b}) /\ {b} \in SUBSET Bid /\ UNCHANGED <<play, activeCalls>>
    BY <1>10 DEF UnbridgeMedia, playVars
  <2> QED BY <1>1, <2>1, BridgesKeepPlaySockets
<1>11. ASSUME NEW s \in Sid, UnbridgeBySession(s) PROVE PlayInv'
  <2>1. /\ DestroyBridges({sessionMap[s]}) /\ {sessionMap[s]} \in SUBSET Bid
        /\ UNCHANGED <<play, activeCalls>>
    BY <1>11 DEF UnbridgeBySession, playVars, TypeOK
  <2> QED BY <1>1, <2>1, BridgesKeepPlaySockets
<1>12. ASSUME NEW p \in Pid, NEW s \in Sid, PlayAudio(p, s) PROVE PlayInv'
  BY <1>12, PlayRequest
<1>13. ASSUME NEW p \in Pid, Handler(p) \/ Goroutine(p) PROVE PlayInv'
  BY <1>0, <1>13, PlayHandlers, PlayGoroutines
<1>14. CASE GracefulStop \/ UNCHANGED vars
  BY <1>1, <1>14 DEF GracefulStop, vars, playVars
<1>15. CASE CloseAll
  <2> DEFINE cs == {sess[s].call : s \in sessions}
  <2>1. cs \in SUBSET Call
    BY DEF SessInv, LiveSessions
  <2>2. /\ \A p \in Pid : play'[p] =
              IF \E c \in cs : activeCalls[c] = p
              THEN [play[p] EXCEPT !.cancelled = TRUE] ELSE play[p]
        /\ \A c \in Call : activeCalls'[c] =
              IF c \in cs THEN None ELSE activeCalls[c]
    BY <1>15 DEF CloseAll
  <2>3. DestroyBridges(bridges) /\ bridges \in SUBSET Bid
    BY <1>15 DEF CloseAll, TypeOK
  <2>4. \A n \in RtpPorts, p \in Pid : bound'[n] = p <=> bound[n] = p
    BY <2>3, BridgesKeepPlaySockets
  <2> HIDE DEF cs
  <2> QED BY <1>0, <2>1, <2>2, <2>4, PlayStop
<1> QED
  BY <1>2, <1>3, <1>4, <1>5, <1>6, <1>7, <1>8, <1>9, <1>10, <1>11, <1>12,
     <1>13, <1>14, <1>15 DEF Next

LEMMA PlayInvariant == Spec => []PlayInv
<1>1. TypeOK /\ SessInv /\ SessionLife /\ BridgeInv /\ PlayInv /\ [Next]_vars
         => PlayInv'
  BY PlayNext
<1> QED BY <1>1, PlayInit, TypeCorrect, SessInvariant, SessionLifeInvariant,
           BridgeInvariant, PTL DEF Spec

\* Every UDP socket is held by exactly the bridge or the playback that the
\* model says uses its port, with bridges and playbacks running together on
\* the same sessions.
THEOREM SocketsOwned == Spec => []SocketOwnership
<1>1. BridgeInv /\ PlayInv => SocketOwnership
  BY DEF BridgeInv, PlayInv, BridgeSockets, PlaySockets, SocketOwnership
<1> QED BY <1>1, BridgeInvariant, PlayInvariant, PTL

\* The registry of playbacks never keeps an ended or a cancelled one, although
\* a goroutine's deferred delete may remove the entry of a later playback.
THEOREM TrackedAreRunning == Spec => []TrackedIsRunning
<1>1. PlayInv => TrackedIsRunning
  BY DEF PlayInv
<1> QED BY <1>1, PlayInvariant, PTL

\* A playback whose session is gone has its context done.
THEOREM DestroySilences == Spec => []SilentAfterDestroy
<1>1. TypeOK /\ SessionLife /\ PlayInv => SilentAfterDestroy
  BY DEF PlayInv, PlayStages, Copied, SessionLife, SilentAfterDestroy,
         PlayCtxDone
<1> QED BY <1>1, TypeCorrect, SessionLifeInvariant, PlayInvariant, PTL

\* A step of another part of the manager changes no event channel.
LEMMA StopKeepsChannels ==
    ASSUME TypeOK, NEW c \in Call, Stop(c)
    PROVE  \A p \in Pid : play'[p].ch = play[p].ch
<1>1. CASE activeCalls[c] = None
  BY <1>1 DEF Stop
<1>2. CASE activeCalls[c] # None
  BY <1>2 DEF Stop, TypeOK, Playback
<1> QED BY <1>1, <1>2

LEMMA FinalEventStep ==
    ASSUME TypeOK, SessInv, PlayInv, Next, NEW p \in Pid, play[p].ch # "open"
    PROVE  play'[p].ch = play[p].ch
<1>0. play[p].pc \in {"closing", "ending", "done"}
  BY DEF PlayInv, PlayStages
<1>1. ASSUME UNCHANGED play PROVE play'[p].ch = play[p].ch
  BY <1>1
<1>2. ASSUME NEW q \in Pid, Handler(q) PROVE play'[p].ch = play[p].ch
  <2>1. CASE q = p
    BY <1>0, <1>2, <2>1, HandlerEffect
  <2>2. CASE q # p
    BY <1>2, <2>2, HandlerEffect
  <2> QED BY <2>1, <2>2
<1>3. ASSUME NEW q \in Pid, Goroutine(q) PROVE play'[p].ch = play[p].ch
  <2>1. CASE q = p
    BY <1>0, <1>3, <2>1, GoroutineEffect
  <2>2. CASE q # p
    BY <1>3, <2>2, GoroutineEffect
  <2> QED BY <2>1, <2>2
<1>4. ASSUME NEW q \in Pid, NEW s \in Sid, PlayAudio(q, s)
      PROVE  play'[p].ch = play[p].ch
  BY <1>4 DEF PlayAudio, TypeOK, Playback
<1>5. ASSUME NEW s \in Sid, DestroySession(s) PROVE play'[p].ch = play[p].ch
  BY <1>5, StopKeepsChannels DEF DestroySession, SessInv, LiveSessions
<1>6. ASSUME NEW c \in Call, StopAudioCancel(c) PROVE play'[p].ch = play[p].ch
  BY <1>6, StopKeepsChannels DEF StopAudioCancel
<1>7. CASE CloseAll
  BY <1>7 DEF CloseAll, TypeOK, Playback
<1>8. CASE \/ \E c \in Call, s \in Sid, r \in Remote : CreateSession(c, s, r)
           \/ \E c \in Call : CreateSessionNoCodec(c)
           \/ \E s \in Sid, r \in Remote : UpdateRemoteEndpoint(s, r)
           \/ \E s \in Sid : StopAudio(s) \/ UnbridgeBySession(s)
           \/ GracefulStop
  BY <1>1, <1>8 DEF CreateSession, UpdateRemoteEndpoint, StopAudio,
                    CreateSessionNoCodec, UnbridgeBySession, GracefulStop, playVars
<1>9. ASSUME NEW b \in Bid, BridgeHandler(b) \/ UnbridgeMedia(b)
                            \/ \E s, t \in Sid : BridgeMedia(b, s, t)
      PROVE  play'[p].ch = play[p].ch
  BY <1>1, <1>9 DEF BridgeHandler, BridgeMediaGetB, CreateBridge, UnbridgeMedia,
                    BridgeMedia, playVars
<1> QED BY <1>1, <1>2, <1>3, <1>4, <1>5, <1>6, <1>7, <1>8, <1>9 DEF Next

\* An event channel gets one final event and is closed once, in every
\* interleaving of the handler, the goroutine, stops and destroys.
THEOREM FinalEventOnce == Spec => OneFinalEvent
<1>1. TypeOK /\ SessInv /\ PlayInv /\ [Next]_vars =>
         [\A p \in Pid : play[p].ch # "open" => play'[p].ch = play[p].ch]_vars
  BY FinalEventStep
<1> QED BY <1>1, TypeCorrect, SessInvariant, PlayInvariant, PTL
        DEF Spec, OneFinalEvent

=============================================================================
