-------------------------- MODULE RtpManagerProofs --------------------------
(***************************************************************************)
(* Proofs about RtpManager, for every port range and any number of calls,  *)
(* sessions, bridges and playbacks.                                        *)
(***************************************************************************)
EXTENDS RtpManager, TLAPS

-----------------------------------------------------------------------------
(* Ports *)

\* What NewPortPool puts in the pool: even ports whose pair is in the range.
LEMMA PortsEven ==
    \A p \in RtpPorts :
        p \in Nat /\ p % 2 = 0 /\ MinPort <= p /\ p + 1 <= MaxPort
<1> TAKE p \in RtpPorts
<1>1. MinPort \in Nat /\ MaxPort \in Nat /\ MinPort > 0
  BY PortRange DEF PortRange
<1>2. CASE MinPort % 2 # 0
  BY <1>1, <1>2 DEF RtpPorts
<1>3. CASE MinPort % 2 = 0
  BY <1>1, <1>3 DEF RtpPorts
<1> QED BY <1>2, <1>3

\* Two different even ports have disjoint RTP/RTCP pairs.
LEMMA PairsApart ==
    \A p, q \in RtpPorts : p # q => {p, p + 1} \cap {q, q + 1} = {}
<1> TAKE p, q \in RtpPorts
<1> HAVE p # q
<1>1. p \in Nat /\ q \in Nat /\ p % 2 = 0 /\ q % 2 = 0
  BY PortsEven
<1>2. p # q + 1 /\ q # p + 1
  BY <1>1
<1> QED BY <1>1, <1>2

-----------------------------------------------------------------------------
(* Type correctness *)

LEMMA TypeInit == Init => TypeOK
BY RemoteKinds DEF Init, TypeOK, Session, Endpoint, BridgeReq, Playback,
                   PlayPC, NoSession, NoEndpoint

\* Updates that keep a record in its type.
LEMMA PlaybackUpdates ==
    ASSUME NEW q \in Playback
    PROVE  /\ \A x \in PlayPC : [q EXCEPT !.pc = x] \in Playback
           /\ [q EXCEPT !.cancelled = TRUE] \in Playback
           /\ \A x \in {"serving", "returned"} :
                 [q EXCEPT !.rpc = x] \in Playback
           /\ \A x \in PlayPC, y \in {"completed", "error"} :
                 [q EXCEPT !.pc = x, !.ch = y] \in Playback
           /\ [q EXCEPT !.pc = "done", !.ch = "error", !.rpc = "returned"]
                 \in Playback
           /\ \A s \in Sid, c \in Call \cup {None}, n \in RtpPorts \cup {0} :
                 [q EXCEPT !.pc = "found", !.sid = s, !.call = c, !.port = n,
                           !.rpc = "started"] \in Playback
BY ZenonT(30) DEF Playback, PlayPC

LEMMA SessionUpdates ==
    ASSUME NEW q \in Session
    PROVE  /\ \A r \in Remote : [q EXCEPT !.remote = r] \in Session
           /\ [q EXCEPT !.ctxDone = TRUE] \in Session
           /\ q.call \in Call \cup {None} /\ q.port \in RtpPorts \cup {0}
           /\ q.remote \in Remote
BY DEF Session

\* Stop changes the playbacks and their index within their types.
LEMMA TypeStop ==
    ASSUME TypeOK, NEW c \in Call, Stop(c)
    PROVE  play' \in [Pid -> Playback] /\ activeCalls' \in [Call -> Pid \cup {None}]
<1>1. CASE activeCalls[c] = None
  BY <1>1 DEF Stop, TypeOK
<1>2. CASE activeCalls[c] # None
  <2>1. activeCalls[c] \in Pid
    BY <1>2 DEF TypeOK
  <2>2. [play[activeCalls[c]] EXCEPT !.cancelled = TRUE] \in Playback
    BY <2>1, PlaybackUpdates DEF TypeOK
  <2> QED BY <1>2, <2>1, <2>2 DEF Stop, TypeOK
<1> QED BY <1>1, <1>2

\* So does the destruction of a set of bridges.
LEMMA TypeDestroyBridges ==
    ASSUME TypeOK, NEW bs \in SUBSET Bid, DestroyBridges(bs)
    PROVE  /\ br' \in [Bid -> BridgeReq] /\ bridges' \subseteq Bid
           /\ sessionMap' \in [Sid -> Bid \cup {None}]
           /\ bound' \in [RtpPorts -> Bid \cup Pid \cup {None}]
<1>1. Finished \in BridgeReq
  BY RemoteKinds DEF Finished, NoEndpoint, BridgeReq, Endpoint
<1> QED BY <1>1 DEF TypeOK, DestroyBridges

\* A live session is one that CreateSession made.
LiveSessions ==
    \A s \in sessions : sess[s].call \in Call /\ sess[s].port \in RtpPorts

LEMMA TypeNext == TypeOK /\ LiveSessions /\ [Next]_vars => TypeOK'
<1> SUFFICES ASSUME TypeOK, LiveSessions, [Next]_vars PROVE TypeOK'
  OBVIOUS
<1>1. ASSUME NEW c \in Call, NEW s \in Sid, NEW r \in Remote,
             CreateSession(c, s, r)
      PROVE  TypeOK'
  <2>1. PICK p \in pool.avail :
             /\ pool' = Allocate(pool, p)
             /\ sess' = [sess EXCEPT ![s] =
                   [call |-> c, port |-> p, remote |-> r, ctxDone |-> FALSE]]
    BY <1>1 DEF CreateSession
  <2>2. [call |-> c, port |-> p, remote |-> r, ctxDone |-> FALSE] \in Session
    BY DEF TypeOK, Session
  <2> QED BY <1>1, <2>1, <2>2 DEF TypeOK, CreateSession, Allocate, bridgeVars,
                                  playVars
<1>2. ASSUME NEW c \in Call, CreateSessionNoCodec(c) PROVE TypeOK'
  BY <1>2 DEF TypeOK, CreateSessionNoCodec, Allocate, Release, bridgeVars,
              playVars
<1>3. ASSUME NEW s \in Sid, NEW r \in Remote, UpdateRemoteEndpoint(s, r)
      PROVE  TypeOK'
  <2>1. [sess[s] EXCEPT !.remote = r] \in Session
    BY SessionUpdates DEF TypeOK
  <2> QED BY <1>3, <2>1 DEF TypeOK, UpdateRemoteEndpoint, bridgeVars, playVars
<1>4. ASSUME NEW s \in Sid, DestroySession(s) PROVE TypeOK'
  <2>1. [sess[s] EXCEPT !.ctxDone = TRUE] \in Session
    BY SessionUpdates DEF TypeOK
  <2>2. sess[s].call \in Call
    BY <1>4 DEF LiveSessions, DestroySession
  <2>3. play' \in [Pid -> Playback] /\ activeCalls' \in [Call -> Pid \cup {None}]
    BY <1>4, <2>2, TypeStop DEF DestroySession
  <2> QED BY <1>4, <2>1, <2>3 DEF TypeOK, DestroySession, Release, bridgeVars
<1>5. ASSUME NEW b \in Bid, NEW s \in Sid, NEW t \in Sid, BridgeMedia(b, s, t)
      PROVE  TypeOK'
  <2>1. [pc |-> "gotA", a |-> EndpointOf(s),
         b |-> [NoEndpoint EXCEPT !.sid = t]] \in BridgeReq
    BY SessionUpdates, RemoteKinds
       DEF TypeOK, BridgeReq, Endpoint, EndpointOf, NoEndpoint
  <2> QED BY <1>5, <2>1 DEF TypeOK, BridgeMedia, sessVars, playVars
<1>6. ASSUME NEW b \in Bid, BridgeMediaGetB(b) PROVE TypeOK'
  <2>1. Finished \in BridgeReq
    BY RemoteKinds DEF Finished, NoEndpoint, BridgeReq, Endpoint
  <2>2. ASSUME NEW t \in Sid
        PROVE  [br[b] EXCEPT !.pc = "gotB", !.b = EndpointOf(t)] \in BridgeReq
    <3>1. EndpointOf(t) \in Endpoint
      BY SessionUpdates DEF TypeOK, Endpoint, EndpointOf
    <3> QED BY <3>1, ZenonT(30) DEF TypeOK, BridgeReq
  <2> QED BY <1>6, <2>1, <2>2 DEF TypeOK, BridgeMediaGetB, sessVars, playVars
<1>7. ASSUME NEW b \in Bid, CreateBridge(b) PROVE TypeOK'
  <2>1. Finished \in BridgeReq
    BY RemoteKinds DEF Finished, NoEndpoint, BridgeReq, Endpoint
  <2>2. [br[b] EXCEPT !.pc = "done"] \in BridgeReq
    BY DEF TypeOK, BridgeReq
  <2> QED BY <1>7, <2>1, <2>2 DEF TypeOK, CreateBridge, sessVars, playVars
<1>8. ASSUME NEW b \in Bid, UnbridgeMedia(b) PROVE TypeOK'
  <2>1. DestroyBridges({b})
    BY <1>8 DEF UnbridgeMedia
  <2> QED BY <1>8, <2>1, TypeDestroyBridges
          DEF TypeOK, UnbridgeMedia, sessVars, playVars
<1>9. ASSUME NEW s \in Sid, UnbridgeBySession(s) PROVE TypeOK'
  <2>1. DestroyBridges({sessionMap[s]}) /\ {sessionMap[s]} \in SUBSET Bid
    BY <1>9 DEF UnbridgeBySession, TypeOK
  <2> QED BY <1>9, <2>1, TypeDestroyBridges
          DEF TypeOK, UnbridgeBySession, sessVars, playVars
<1>10. ASSUME NEW p \in Pid, NEW s \in Sid, PlayAudio(p, s) PROVE TypeOK'
  <2>1. [play[p] EXCEPT !.pc = "found", !.sid = s, !.call = sess[s].call,
                        !.port = sess[s].port, !.rpc = "started"] \in Playback
    BY PlaybackUpdates, SessionUpdates DEF TypeOK
  <2> QED BY <1>10, <2>1 DEF TypeOK, PlayAudio, sessVars, bridgeVars
<1>11. ASSUME NEW p \in Pid, PlayStart(p) PROVE TypeOK'
  <2>1. [play[p] EXCEPT !.pc = "done", !.ch = "error", !.rpc = "returned"]
           \in Playback
    BY PlaybackUpdates DEF TypeOK
  <2>2. [play[p] EXCEPT !.pc = "starting"] \in Playback
    BY PlaybackUpdates DEF TypeOK, PlayPC
  <2> QED BY <1>11, <2>1, <2>2 DEF TypeOK, PlayStart, sessVars, bridgeVars
<1>12. ASSUME NEW p \in Pid, ServeStarted(p) \/ ServeFinal(p) PROVE TypeOK'
  <2>1. \A x \in {"serving", "returned"} : [play[p] EXCEPT !.rpc = x] \in Playback
    BY PlaybackUpdates DEF TypeOK
  <2> QED BY <1>12, <2>1 DEF TypeOK, ServeStarted, ServeFinal, sessVars,
                             bridgeVars
<1>13. ASSUME NEW p \in Pid, Goroutine(p) PROVE TypeOK'
  <2>1. /\ \A x \in PlayPC : [play[p] EXCEPT !.pc = x] \in Playback
        /\ \A x \in PlayPC, y \in {"completed", "error"} :
              [play[p] EXCEPT !.pc = x, !.ch = y] \in Playback
    BY PlaybackUpdates DEF TypeOK
  <2>2. CASE StreamBind(p)
    BY <2>1, <2>2 DEF TypeOK, StreamBind, PlayPC, sessVars, bridgeVars
  <2>3. CASE StreamFail(p)
    BY <2>1, <2>3 DEF TypeOK, StreamFail, CloseSocket, PlayPC, sessVars,
                      bridgeVars
  <2>4. CASE StreamCancel(p)
    BY <2>1, <2>4 DEF TypeOK, StreamCancel, CloseSocket, PlayPC, sessVars,
                      bridgeVars
  <2>5. CASE StreamComplete(p)
    BY <2>1, <2>5 DEF TypeOK, StreamComplete, PlayPC, sessVars, bridgeVars
  <2>6. CASE StreamReturn(p)
    BY <2>1, <2>6 DEF TypeOK, StreamReturn, CloseSocket, PlayPC, sessVars,
                      bridgeVars
  <2>7. CASE PlayEnd(p)
    BY <2>1, <2>7 DEF TypeOK, PlayEnd, PlayPC, sessVars, bridgeVars
  <2> QED BY <1>13, <2>2, <2>3, <2>4, <2>5, <2>6, <2>7 DEF Goroutine
<1>14. ASSUME NEW s \in Sid, StopAudio(s) PROVE TypeOK'
  BY <1>14 DEF TypeOK, LiveSessions, StopAudio, sessVars, bridgeVars
<1>15. ASSUME NEW c \in Call, StopAudioCancel(c) PROVE TypeOK'
  <2>1. Stop(c)
    BY <1>15 DEF StopAudioCancel
  <2> QED BY <1>15, <2>1, TypeStop DEF TypeOK, StopAudioCancel, sessVars,
                                       bridgeVars
<1>16. CASE GracefulStop
  BY <1>16 DEF TypeOK, GracefulStop, sessVars, bridgeVars, playVars
<1>17. CASE CloseAll
  <2>1. pool' \in [avail : SUBSET RtpPorts, alloc : SUBSET RtpPorts]
    BY <1>17 DEF CloseAll, TypeOK
  <2>2. \A p \in Pid : [play[p] EXCEPT !.cancelled = TRUE] \in Playback
    BY PlaybackUpdates DEF TypeOK
  <2>3. \A s \in Sid : [sess[s] EXCEPT !.ctxDone = TRUE] \in Session
    BY SessionUpdates DEF TypeOK
  <2>4. play' \in [Pid -> Playback] /\ sess' \in [Sid -> Session]
    BY <1>17, <2>2, <2>3 DEF CloseAll, TypeOK
  <2>5. DestroyBridges(bridges) /\ bridges \in SUBSET Bid
    BY <1>17 DEF CloseAll, TypeOK
  <2> QED BY <1>17, <2>1, <2>4, <2>5, TypeDestroyBridges DEF CloseAll, TypeOK
<1>18. CASE UNCHANGED vars
  BY <1>18 DEF TypeOK, vars, sessVars, bridgeVars, playVars
<1> QED
  BY <1>1, <1>2, <1>3, <1>4, <1>5, <1>6, <1>7, <1>8, <1>9, <1>10, <1>11,
     <1>12, <1>13, <1>14, <1>15, <1>16, <1>17, <1>18
     DEF Next, BridgeHandler, Handler

-----------------------------------------------------------------------------
(* Ports and the session index.  PortAccounting needs that a fresh id is    *)
(* not live, CallIndex that a live session has a call: LiveSessions.        *)

SessInv == LiveSessions /\ PortAccounting /\ CallIndex

LEMMA SessInit == Init => SessInv
BY DEF Init, SessInv, LiveSessions, PortAccounting, CallIndex

LEMMA SessNext == TypeOK /\ SessInv /\ [Next]_vars => SessInv'
<1> SUFFICES ASSUME TypeOK, SessInv, [Next]_vars PROVE SessInv'
  OBVIOUS
<1>0. ASSUME UNCHANGED sessVars PROVE SessInv'
  BY <1>0 DEF sessVars, SessInv, LiveSessions, PortAccounting, CallIndex
<1>1. ASSUME NEW c \in Call, NEW s \in Sid, NEW r \in Remote,
             CreateSession(c, s, r)
      PROVE  SessInv'
  <2>1. PICK p \in pool.avail :
             /\ pool' = Allocate(pool, p)
             /\ sess' = [sess EXCEPT ![s] =
                   [call |-> c, port |-> p, remote |-> r, ctxDone |-> FALSE]]
    BY <1>1 DEF CreateSession
  <2>2. s \notin sessions /\ sessions' = sessions \cup {s}
    BY <1>1, NoneIsFresh DEF CreateSession, Fresh, SessInv, LiveSessions
  <2>3. p \in RtpPorts /\ p \notin pool.alloc
    BY DEF TypeOK, SessInv, PortAccounting
  <2>4. sess'[s].call = c /\ sess'[s].port = p
        /\ \A t \in sessions : sess'[t] = sess[t]
    BY <2>1, <2>2 DEF TypeOK
  <2>5. LiveSessions'
    BY <2>2, <2>3, <2>4 DEF SessInv, LiveSessions
  <2>6. PortAccounting'
    <3>1. \A t \in sessions : sess[t].port # p
      BY <2>3 DEF SessInv, PortAccounting
    <3> QED BY <2>1, <2>2, <2>3, <2>4, <3>1
            DEF TypeOK, SessInv, PortAccounting, Allocate
  <2>7. CallIndex'
    <3>1. callToSession[c] = None /\ \A t \in sessions : sess[t].call # c
      BY <1>1, NoneIsFresh DEF CreateSession, TypeOK, SessInv, CallIndex
    <3>2. callToSession' = [callToSession EXCEPT ![c] = s]
      BY <1>1 DEF CreateSession
    <3> QED BY <2>2, <2>4, <3>1, <3>2
            DEF TypeOK, SessInv, CallIndex, LiveSessions
  <2> QED BY <2>5, <2>6, <2>7 DEF SessInv
<1>2. ASSUME NEW c \in Call, CreateSessionNoCodec(c) PROVE SessInv'
  <2>1. PICK p \in pool.avail : pool' = Release(Allocate(pool, p), p)
    BY <1>2 DEF CreateSessionNoCodec
  <2>2. p \notin pool.alloc /\ p \in RtpPorts
    BY DEF TypeOK, SessInv, PortAccounting
  <2>3. pool'.avail = pool.avail /\ pool'.alloc = pool.alloc
    BY <2>1, <2>2 DEF TypeOK, Allocate, Release
  <2> QED BY <1>2, <2>3 DEF CreateSessionNoCodec, SessInv, LiveSessions,
                            PortAccounting, CallIndex
<1>3. ASSUME NEW s \in Sid, NEW r \in Remote, UpdateRemoteEndpoint(s, r)
      PROVE  SessInv'
  <2>1. \A t \in Sid : sess'[t].call = sess[t].call
                       /\ sess'[t].port = sess[t].port
    BY <1>3 DEF UpdateRemoteEndpoint, TypeOK, Session
  <2> QED BY <1>3, <2>1 DEF UpdateRemoteEndpoint, TypeOK, SessInv,
                            LiveSessions, PortAccounting, CallIndex
<1>4. ASSUME NEW s \in Sid, DestroySession(s) PROVE SessInv'
  <2>1. \A t \in Sid : sess'[t].call = sess[t].call
                       /\ sess'[t].port = sess[t].port
    BY <1>4 DEF DestroySession, TypeOK, Session
  <2>2. s \in sessions /\ sessions' = sessions \ {s}
    BY <1>4 DEF DestroySession
  <2>3. LiveSessions'
    BY <2>1, <2>2 DEF SessInv, LiveSessions, TypeOK
  <2>4. PortAccounting'
    <3>1. sess[s].port \in pool.alloc
      BY <2>2 DEF SessInv, PortAccounting
    <3>2. /\ pool'.avail = pool.avail \cup {sess[s].port}
          /\ pool'.alloc = pool.alloc \ {sess[s].port}
      BY <1>4, <3>1 DEF DestroySession, Release
    <3>3. pool'.alloc = {sess'[t].port : t \in sessions'}
      BY <2>1, <2>2, <3>2 DEF SessInv, PortAccounting, TypeOK
    <3>4. pool'.avail = RtpPorts \ pool'.alloc
      BY <3>1, <3>2 DEF SessInv, PortAccounting, TypeOK
    <3> QED BY <2>1, <2>2, <3>3, <3>4 DEF SessInv, PortAccounting, TypeOK
  <2>5. CallIndex'
    <3>1. callToSession' = [callToSession EXCEPT ![sess[s].call] = None]
      BY <1>4 DEF DestroySession
    <3> QED BY <2>1, <2>2, <3>1 DEF TypeOK, SessInv, CallIndex, LiveSessions
  <2> QED BY <2>3, <2>4, <2>5 DEF SessInv
<1>5. CASE CloseAll
  <2>1. sessions' = {} /\ callToSession' = [c \in Call |-> None]
    BY <1>5 DEF CloseAll
  <2>2. pool'.alloc = {} /\ pool'.avail = RtpPorts
    BY <1>5 DEF CloseAll, SessInv, PortAccounting, TypeOK
  <2> QED BY <2>1, <2>2 DEF SessInv, LiveSessions, PortAccounting, CallIndex
<1>6. ASSUME NEW b \in Bid, BridgeHandler(b) \/ UnbridgeMedia(b)
      PROVE  SessInv'
  BY <1>0, <1>6 DEF BridgeHandler, BridgeMediaGetB, CreateBridge, UnbridgeMedia
<1>7. ASSUME NEW p \in Pid, Handler(p) \/ Goroutine(p) PROVE SessInv'
  BY <1>0, <1>7 DEF Handler, PlayStart, ServeStarted, ServeFinal, Goroutine,
                    StreamBind, StreamFail, StreamCancel, StreamComplete,
                    StreamReturn, PlayEnd
<1>8. ASSUME NEW s \in Sid, StopAudio(s) \/ UnbridgeBySession(s) PROVE SessInv'
  BY <1>0, <1>8 DEF StopAudio, UnbridgeBySession
<1>9. ASSUME NEW b \in Bid, NEW s \in Sid, NEW t \in Sid, BridgeMedia(b, s, t)
      PROVE  SessInv'
  BY <1>0, <1>9 DEF BridgeMedia
<1>10. ASSUME NEW p \in Pid, NEW s \in Sid, PlayAudio(p, s) PROVE SessInv'
  BY <1>0, <1>10 DEF PlayAudio
<1>11. ASSUME NEW c \in Call, StopAudioCancel(c) PROVE SessInv'
  BY <1>0, <1>11 DEF StopAudioCancel
<1>12. CASE GracefulStop \/ UNCHANGED vars
  BY <1>0, <1>12 DEF GracefulStop, vars
<1> QED
  BY <1>1, <1>2, <1>3, <1>4, <1>5, <1>6, <1>7, <1>8, <1>9, <1>10, <1>11,
     <1>12 DEF Next

\* Every reachable state has its type, whatever the order of requests.
THEOREM TypeCorrect == Spec => []TypeOK
<1>1. SessInv => LiveSessions
  BY DEF SessInv
<1> QED BY <1>1, TypeInit, TypeNext, SessInit, SessNext, PTL DEF Spec

LEMMA SessInvariant == Spec => []SessInv
BY TypeInit, SessInit, SessNext, TypeCorrect, PTL DEF Spec

\* The pool never loses a port and never gives one to two live sessions, for
\* every port range and any number of sessions.
THEOREM PortsAccounted == Spec => []PortAccounting
<1>1. SessInv => PortAccounting
  BY DEF SessInv
<1> QED BY <1>1, SessInvariant, PTL

\* The RTP/RTCP pairs of live sessions are disjoint and inside the range.
THEOREM PairsStayDisjoint == Spec => []PairsDisjoint
<1>1. SessInv => PairsDisjoint
  <2> SUFFICES ASSUME SessInv PROVE PairsDisjoint
    OBVIOUS
  <2>1. \A s \in sessions : sess[s].port \in RtpPorts
    BY DEF SessInv, LiveSessions
  <2>2. \A s, t \in sessions : s # t => sess[s].port # sess[t].port
    BY DEF SessInv, PortAccounting
  <2> QED BY <2>1, <2>2, PortsEven, PairsApart DEF PairsDisjoint
<1> QED BY <1>1, SessInvariant, PTL

\* The session manager's two maps agree.
THEOREM CallsIndexed == Spec => []CallIndex
<1>1. SessInv => CallIndex
  BY DEF SessInv
<1> QED BY <1>1, SessInvariant, PTL

=============================================================================
