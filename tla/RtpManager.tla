----------------------------- MODULE RtpManager -----------------------------
(***************************************************************************)
(* The RTP manager process: the port pool (portpool/pool.go), the session  *)
(* manager (session/manager.go), the bridge manager (bridge/bridge.go),    *)
(* the playback goroutines (media/service.go) and the gRPC server that     *)
(* composes them (server/server.go).                                       *)
(*                                                                         *)
(* Every gRPC request runs in a goroutine of its own.  A critical section  *)
(* (one lock held from start to end) is one action; a handler that takes   *)
(* several locks one after the other is one action per critical section.   *)
(***************************************************************************)
EXTENDS Naturals, FiniteSets

CONSTANTS
    MinPort, MaxPort,  \* the configured RTP port range
    Call,              \* SIP Call-IDs
    Sid,               \* session ids (uuid.New never repeats one)
    Bid,               \* BridgeMedia requests; a successful one's bridge id
    Pid,               \* PlayAudio requests
    Remote,            \* remote endpoints: "none" is port 0, "badip" an
                       \* address net.ParseIP refuses, "ok" a usable one
    None               \* absent map entry, free socket

ASSUME PortRange == MinPort \in Nat /\ MaxPort \in Nat /\ MinPort > 0
ASSUME NoneIsFresh == None \notin Call \cup Sid \cup Bid \cup Pid
ASSUME IdsDisjoint == Bid \cap Pid = {}
ASSUME RemoteKinds == "none" \in Remote /\ Remote \subseteq {"none", "badip", "ok"}

VARIABLES
    pool,           \* the port pool: available and allocated RTP ports
    sess,           \* session objects, live or detached, by id
    sessions,       \* keys of session.Manager.sessions
    callToSession,  \* session.Manager.callToSession
    br,             \* BridgeMedia requests and the Bridge objects they make
    bridges,        \* keys of bridge.Manager.bridges
    sessionMap,     \* bridge.Manager.sessionMap
    play,           \* PlayAudio requests and their playback goroutines
    activeCalls,    \* media.LocalService.activeCalls
    stopping,       \* calls whose StopAudio has looked up its session
    bound,          \* UDP sockets: RTP port -> bridge or playback holding it
    srv             \* the gRPC server

sessVars == <<pool, sess, sessions, callToSession>>
bridgeVars == <<br, bridges, sessionMap>>
playVars == <<play, activeCalls, stopping>>
vars == <<sessVars, bridgeVars, playVars, bound, srv>>

-----------------------------------------------------------------------------
(* Ports *)

\* Mutant: NewPortPool's loop runs up to maxPort itself.
RtpPortsToMax == {p \in MinPort .. MaxPort : p % 2 = 0}

\* NewPortPool: the first port is made even, then every second one below
\* maxPort; the RTCP port is the next one up.
RtpPorts ==
    LET first == IF MinPort % 2 # 0 THEN MinPort + 1 ELSE MinPort
    IN  {p \in first .. (MaxPort - 1) : p % 2 = 0}

\* Mutant: the RTCP port is entered in the allocated map too.
AllocateBoth(ps, p) ==
    [avail |-> ps.avail \ {p}, alloc |-> ps.alloc \cup {p, p + 1}]

\* PortPool.Allocate and PortPool.Release, on a pool value.
Allocate(ps, p) ==
    [avail |-> ps.avail \ {p}, alloc |-> ps.alloc \cup {p}]

Release(ps, p) ==
    IF p \in ps.alloc
    THEN [avail |-> ps.avail \cup {p}, alloc |-> ps.alloc \ {p}]
    ELSE ps

-----------------------------------------------------------------------------
(* Types.  Session.State is left out: every handler that writes it writes  *)
(* a constant and none reads it back (UpdateRemoteEndpoint's test is for   *)
(* PENDING_REMOTE, which only CreateSessionPendingRemote sets, which no    *)
(* request reaches).  So SetSessionBridged, which only writes it, is no    *)
(* step of its own.                                                        *)

Session ==
    [call : Call \cup {None}, port : RtpPorts \cup {0}, remote : Remote,
     ctxDone : BOOLEAN]

Endpoint == [sid : Sid \cup {None}, port : RtpPorts \cup {0}, remote : Remote]

\* a, b: the handler's copies of the endpoints, then those of its bridge;
\* empty again once the handler has failed or the bridge is destroyed.
BridgeReq ==
    [pc : {"idle", "gotA", "gotB", "done"}, a : Endpoint, b : Endpoint]

\* pc: the playback goroutine; rpc: the handler that streams its events;
\* ch: the event channel (closed once it holds a final event).
PlayPC == {"idle", "found", "starting", "streaming", "closing", "ending",
           "done"}

Playback ==
    [pc : PlayPC, sid : Sid \cup {None}, call : Call \cup {None},
     port : RtpPorts \cup {0}, cancelled : BOOLEAN,
     ch : {"open", "completed", "error"},
     rpc : {"idle", "started", "serving", "returned"}]

Fresh(s) == sess[s].call = None
PlayCtxDone(p) == play[p].cancelled \/ sess[play[p].sid].ctxDone

-----------------------------------------------------------------------------
NoSession ==
    [call |-> None, port |-> 0, remote |-> "none", ctxDone |-> FALSE]

NoEndpoint == [sid |-> None, port |-> 0, remote |-> "none"]

Finished == [pc |-> "done", a |-> NoEndpoint, b |-> NoEndpoint]

Init ==
    /\ pool = [avail |-> RtpPorts, alloc |-> {}]
    /\ sess = [s \in Sid |-> NoSession]
    /\ sessions = {}
    /\ callToSession = [c \in Call |-> None]
    /\ br = [b \in Bid |-> [pc |-> "idle", a |-> NoEndpoint,
                            b |-> NoEndpoint]]
    /\ bridges = {}
    /\ sessionMap = [s \in Sid |-> None]
    /\ play = [p \in Pid |-> [pc |-> "idle", sid |-> None, call |-> None,
                              port |-> 0, cancelled |-> FALSE,
                              ch |-> "open", rpc |-> "idle"]]
    /\ activeCalls = [c \in Call |-> None]
    /\ stopping = {}
    /\ bound = [p \in RtpPorts |-> None]
    /\ srv = "running"

-----------------------------------------------------------------------------
(* Session manager *)

\* CreateSession finds no live session for the call (with one it returns
\* that session and changes nothing), takes a port and PCMU was offered.
\* With no port left it fails and changes nothing.
CreateSession(c, s, r) ==
    /\ srv = "running"
    /\ callToSession[c] \notin sessions
    /\ Fresh(s)
    /\ \E p \in pool.avail :
        /\ pool' = Allocate(pool, p)
        /\ sess' = [sess EXCEPT ![s] =
                       [call |-> c, port |-> p, remote |-> r,
                        ctxDone |-> FALSE]]
    /\ sessions' = sessions \cup {s}
    /\ callToSession' = [callToSession EXCEPT ![c] = s]
    /\ UNCHANGED <<bridgeVars, playVars, bound, srv>>

\* Mutant: the failure path keeps the port.
CreateSessionKeepsPort(c) ==
    /\ srv = "running"
    /\ callToSession[c] \notin sessions
    /\ \E p \in pool.avail : pool' = Allocate(pool, p)
    /\ UNCHANGED <<sess, sessions, callToSession, bridgeVars, playVars,
                   bound, srv>>

\* The same request without PCMU among the offered codecs: the port is
\* taken, then given back.
CreateSessionNoCodec(c) ==
    /\ srv = "running"
    /\ callToSession[c] \notin sessions
    /\ \E p \in pool.avail : pool' = Release(Allocate(pool, p), p)
    /\ UNCHANGED <<sess, sessions, callToSession, bridgeVars, playVars,
                   bound, srv>>

\* UpdateRemoteEndpoint looks the session up, lets the manager's lock go and
\* writes the object it found, which may have been destroyed meanwhile; then
\* only a PlayAudio that found it too will read it.
UpdateRemoteEndpoint(s, r) ==
    /\ srv = "running"
    /\ s \in sessions \/ \E p \in Pid : play[p].pc = "found" /\ play[p].sid = s
    /\ sess' = [sess EXCEPT ![s].remote = r]
    /\ UNCHANGED <<pool, sessions, callToSession, bridgeVars, playVars,
                   bound, srv>>

\* LocalService.Stop for call c.
Stop(c) ==
    IF activeCalls[c] = None
    THEN UNCHANGED <<play, activeCalls>>
    ELSE /\ play' = [play EXCEPT ![activeCalls[c]].cancelled = TRUE]
         /\ activeCalls' = [activeCalls EXCEPT ![c] = None]

\* Mutants: callToSession keeps its entry; the context is not cancelled.
DestroyKeepsCall(s) ==
    /\ srv = "running"
    /\ s \in sessions
    /\ Stop(sess[s].call)
    /\ pool' = Release(pool, sess[s].port)
    /\ sess' = [sess EXCEPT ![s].ctxDone = TRUE]
    /\ sessions' = sessions \ {s}
    /\ UNCHANGED <<callToSession, bridgeVars, stopping, bound, srv>>

DestroyKeepsContext(s) ==
    /\ srv = "running"
    /\ s \in sessions
    /\ Stop(sess[s].call)
    /\ pool' = Release(pool, sess[s].port)
    /\ sessions' = sessions \ {s}
    /\ callToSession' = [callToSession EXCEPT ![sess[s].call] = None]
    /\ UNCHANGED <<sess, bridgeVars, stopping, bound, srv>>

\* DestroySession: cancel the session's context, stop its playback, release
\* its port, drop it from both maps.  The bridge manager is not told.
DestroySession(s) ==
    /\ srv = "running"
    /\ s \in sessions
    /\ Stop(sess[s].call)
    /\ pool' = Release(pool, sess[s].port)
    /\ sess' = [sess EXCEPT ![s].ctxDone = TRUE]
    /\ sessions' = sessions \ {s}
    /\ callToSession' = [callToSession EXCEPT ![sess[s].call] = None]
    /\ UNCHANGED <<bridgeVars, stopping, bound, srv>>

-----------------------------------------------------------------------------
(* Bridge manager *)

EndpointOf(s) ==
    [sid |-> s, port |-> sess[s].port, remote |-> sess[s].remote]

\* BridgeMedia reads the endpoint of session A ...
BridgeMedia(b, s, t) ==
    /\ srv = "running"
    /\ br[b].pc = "idle"
    /\ s \in sessions
    /\ br' = [br EXCEPT ![b] = [pc |-> "gotA", a |-> EndpointOf(s),
                                b |-> [NoEndpoint EXCEPT !.sid = t]]]
    /\ UNCHANGED <<sessVars, bridges, sessionMap, playVars, bound, srv>>

\* ... then, in a second critical section, that of session B ...
BridgeMediaGetB(b) ==
    LET t == br[b].b.sid IN
    /\ br[b].pc = "gotA"
    /\ br' = IF t \in sessions
             THEN [br EXCEPT ![b] = [@ EXCEPT !.pc = "gotB",
                                              !.b = EndpointOf(t)]]
             ELSE [br EXCEPT ![b] = Finished]
    /\ UNCHANGED <<sessVars, bridges, sessionMap, playVars, bound, srv>>

\* bindSockets: both remotes parse and both local ports are free.
CanBind(x, y) ==
    /\ x.remote = "ok" /\ y.remote = "ok"
    /\ bound[x.port] = None /\ bound[y.port] = None /\ x.port # y.port

\* ... and CreateBridge works on those copies under the bridge lock.
CreateBridge(b) ==
    LET x == br[b].a
        y == br[b].b
    IN
    /\ br[b].pc = "gotB"
    /\ IF /\ sessionMap[x.sid] = None /\ sessionMap[y.sid] = None
          /\ CanBind(x, y)
       THEN /\ br' = [br EXCEPT ![b].pc = "done"]
            /\ bridges' = bridges \cup {b}
            /\ sessionMap' = [sessionMap EXCEPT ![x.sid] = b, ![y.sid] = b]
            /\ bound' = [bound EXCEPT ![x.port] = b, ![y.port] = b]
       ELSE /\ br' = [br EXCEPT ![b] = Finished]
            /\ UNCHANGED <<bridges, sessionMap, bound>>
    /\ UNCHANGED <<sessVars, playVars, srv>>

\* Mutants: only side A leaves sessionMap; the sockets stay open.
DestroyBridgesOneSide(bs) ==
    /\ br' = [b \in Bid |-> IF b \in bs THEN Finished ELSE br[b]]
    /\ bridges' = bridges \ bs
    /\ sessionMap' = [s \in Sid |->
          IF \E b \in bs : s = br[b].a.sid THEN None ELSE sessionMap[s]]
    /\ bound' = [p \in RtpPorts |-> IF bound[p] \in bs THEN None
                                                       ELSE bound[p]]

DestroyBridgesKeepsSockets(bs) ==
    /\ br' = [b \in Bid |-> IF b \in bs THEN Finished ELSE br[b]]
    /\ bridges' = bridges \ bs
    /\ sessionMap' = [s \in Sid |->
          IF \E b \in bs : s \in {br[b].a.sid, br[b].b.sid} THEN None
                                                  ELSE sessionMap[s]]
    /\ UNCHANGED bound

\* destroyBridgeLocked, on a set of bridges.
DestroyBridges(bs) ==
    /\ br' = [b \in Bid |-> IF b \in bs THEN Finished ELSE br[b]]
    /\ bridges' = bridges \ bs
    /\ sessionMap' = [s \in Sid |->
          IF \E b \in bs : s \in {br[b].a.sid, br[b].b.sid} THEN None
                                                  ELSE sessionMap[s]]
    /\ bound' = [p \in RtpPorts |-> IF bound[p] \in bs THEN None
                                                       ELSE bound[p]]

\* UnbridgeMedia by bridge id.
UnbridgeMedia(b) ==
    /\ srv = "running"
    /\ b \in bridges
    /\ DestroyBridges({b})
    /\ UNCHANGED <<sessVars, playVars, srv>>

\* UnbridgeMedia by session id (DestroyBySession).
UnbridgeBySession(s) ==
    /\ srv = "running"
    /\ sessionMap[s] \in bridges
    /\ DestroyBridges({sessionMap[s]})
    /\ UNCHANGED <<sessVars, playVars, srv>>

-----------------------------------------------------------------------------
(* Playback *)

\* PlayAudio looks the session up and releases the manager's lock ...
PlayAudio(p, s) ==
    /\ srv = "running"
    /\ play[p].pc = "idle" /\ play[p].rpc = "idle"
    /\ s \in sessions
    /\ play' = [play EXCEPT ![p] =
                   [@ EXCEPT !.pc = "found", !.sid = s, !.call = sess[s].call,
                             !.port = sess[s].port, !.rpc = "started"]]
    /\ UNCHANGED <<sessVars, bridgeVars, activeCalls, stopping, bound, srv>>

\* ... emits Started and calls LocalService.Play, which
\* refuses port 0 and a call that has a tracked playback, and otherwise
\* tracks this one and starts its goroutine.
PlayStart(p) ==
    LET c == play[p].call
        s == play[p].sid
    IN
    /\ play[p].pc = "found"
    /\ IF sess[s].remote = "none" \/ activeCalls[c] # None
       THEN /\ play' = [play EXCEPT ![p] =
                          [@ EXCEPT !.pc = "done", !.ch = "error",
                                    !.rpc = "returned"]]
            /\ UNCHANGED activeCalls
       ELSE /\ play' = [play EXCEPT ![p].pc = "starting"]
            /\ activeCalls' = [activeCalls EXCEPT ![c] = p]
    /\ UNCHANGED <<sessVars, bridgeVars, stopping, bound, srv>>

\* streamAudio reads the file and binds the session's port.
StreamBind(p) ==
    /\ play[p].pc = "starting"
    /\ bound[play[p].port] = None
    /\ bound' = [bound EXCEPT ![play[p].port] = p]
    /\ play' = [play EXCEPT ![p].pc = "streaming"]
    /\ UNCHANGED <<sessVars, bridgeVars, activeCalls, stopping, srv>>

\* Mutant: the deferred Close is missing.
CloseSocketMissing(p) == UNCHANGED bound

CloseSocket(p) ==
    bound' = [q \in RtpPorts |-> IF bound[q] = p THEN None ELSE bound[q]]

\* Mutant: OnError is also called after OnComplete.
StreamFailAfterComplete(p) ==
    /\ play[p].pc \in {"starting", "streaming", "closing"}
    /\ CloseSocket(p)
    /\ play' = [play EXCEPT ![p] = [@ EXCEPT !.pc = "ending",
                                             !.ch = "error"]]
    /\ UNCHANGED <<sessVars, bridgeVars, activeCalls, stopping, srv>>

\* A bad file, a port already bound or a failed send: the socket is closed
\* on return, then OnError emits Error and closes the channel.
StreamFail(p) ==
    /\ play[p].pc \in {"starting", "streaming"}
    /\ CloseSocket(p)
    /\ play' = [play EXCEPT ![p] = [@ EXCEPT !.pc = "ending",
                                             !.ch = "error"]]
    /\ UNCHANGED <<sessVars, bridgeVars, activeCalls, stopping, srv>>

\* Mutant: the playback's context does not derive from the session's.
StreamCancelOwn(p) ==
    /\ play[p].pc = "streaming"
    /\ play[p].cancelled
    /\ CloseSocket(p)
    /\ play' = [play EXCEPT ![p].pc = "ending"]
    /\ UNCHANGED <<sessVars, bridgeVars, activeCalls, stopping, srv>>

\* The check before each frame sees the context done: streamAudio returns
\* nil, which calls neither OnComplete nor OnError.
StreamCancel(p) ==
    /\ play[p].pc = "streaming"
    /\ PlayCtxDone(p)
    /\ CloseSocket(p)
    /\ play' = [play EXCEPT ![p].pc = "ending"]
    /\ UNCHANGED <<sessVars, bridgeVars, activeCalls, stopping, srv>>

\* All frames are sent: OnComplete emits Completed and closes the channel
\* while the socket is still open.
StreamComplete(p) ==
    /\ play[p].pc = "streaming"
    /\ play' = [play EXCEPT ![p] = [@ EXCEPT !.pc = "closing",
                                             !.ch = "completed"]]
    /\ UNCHANGED <<sessVars, bridgeVars, activeCalls, stopping, bound, srv>>

StreamReturn(p) ==
    /\ play[p].pc = "closing"
    /\ CloseSocket(p)
    /\ play' = [play EXCEPT ![p].pc = "ending"]
    /\ UNCHANGED <<sessVars, bridgeVars, activeCalls, stopping, srv>>

\* Mutant: the deferred delete is missing.
PlayEndKeepsEntry(p) ==
    /\ play[p].pc = "ending"
    /\ play' = [play EXCEPT ![p].pc = "done"]
    /\ UNCHANGED <<sessVars, bridgeVars, activeCalls, stopping, bound, srv>>

\* The goroutine's deferred delete, of whatever its call maps to by now.
PlayEnd(p) ==
    /\ play[p].pc = "ending"
    /\ play' = [play EXCEPT ![p].pc = "done"]
    /\ activeCalls' = [activeCalls EXCEPT ![play[p].call] = None]
    /\ UNCHANGED <<sessVars, bridgeVars, stopping, bound, srv>>

\* The handler sends Started (and returns if the client has gone away) ...
ServeStarted(p) ==
    /\ play[p].rpc = "started" /\ play[p].pc # "found"
    /\ \E next \in {"serving", "returned"} :
          play' = [play EXCEPT ![p].rpc = next]
    /\ UNCHANGED <<sessVars, bridgeVars, activeCalls, stopping, bound, srv>>

\* Mutant: only Completed closes the channel.
ServeFinalCompleted(p) ==
    /\ play[p].rpc = "serving"
    /\ play[p].ch = "completed"
    /\ play' = [play EXCEPT ![p].rpc = "returned"]
    /\ UNCHANGED <<sessVars, bridgeVars, activeCalls, stopping, bound, srv>>

\* ... then the final event, and returns when the channel is closed.
ServeFinal(p) ==
    /\ play[p].rpc = "serving"
    /\ play[p].ch # "open"
    /\ play' = [play EXCEPT ![p].rpc = "returned"]
    /\ UNCHANGED <<sessVars, bridgeVars, activeCalls, stopping, bound, srv>>

\* StopAudio: look up the session, then LocalService.Stop on its call.
StopAudio(s) ==
    /\ srv = "running"
    /\ s \in sessions
    /\ stopping' = stopping \cup {sess[s].call}
    /\ UNCHANGED <<sessVars, bridgeVars, play, activeCalls, bound, srv>>

StopAudioCancel(c) ==
    /\ c \in stopping
    /\ Stop(c)
    /\ stopping' = stopping \ {c}
    /\ UNCHANGED <<sessVars, bridgeVars, bound, srv>>

-----------------------------------------------------------------------------
(* Process shutdown *)

\* SIGTERM: GracefulStop takes no new request and waits for all handlers ...
GracefulStop ==
    /\ srv = "running"
    /\ srv' = "stopping"
    /\ UNCHANGED <<sessVars, bridgeVars, playVars, bound>>

HandlersDone ==
    /\ stopping = {}
    /\ \A b \in Bid : br[b].pc \in {"idle", "done"}
    /\ \A p \in Pid : play[p].rpc \in {"idle", "returned"}

\* ... then Server.Close destroys all bridges and all sessions.
CloseAll ==
    /\ srv = "stopping"
    /\ HandlersDone
    /\ srv' = "closed"
    /\ DestroyBridges(bridges)
    /\ pool' = [avail |-> pool.avail \cup (pool.alloc \cap
                              {sess[s].port : s \in sessions}),
                alloc |-> pool.alloc \ {sess[s].port : s \in sessions}]
    /\ sess' = [s \in Sid |-> IF s \in sessions
                              THEN [sess[s] EXCEPT !.ctxDone = TRUE]
                              ELSE sess[s]]
    /\ LET calls == {sess[s].call : s \in sessions} IN
       /\ play' = [p \in Pid |->
                     IF \E c \in calls : activeCalls[c] = p
                     THEN [play[p] EXCEPT !.cancelled = TRUE] ELSE play[p]]
       /\ activeCalls' = [c \in Call |-> IF c \in calls THEN None
                                                ELSE activeCalls[c]]
    /\ sessions' = {}
    /\ callToSession' = [c \in Call |-> None]
    /\ UNCHANGED stopping

-----------------------------------------------------------------------------
Goroutine(p) ==
    \/ StreamBind(p) \/ StreamFail(p) \/ StreamCancel(p)
    \/ StreamComplete(p) \/ StreamReturn(p) \/ PlayEnd(p)

Handler(p) == PlayStart(p) \/ ServeStarted(p) \/ ServeFinal(p)

BridgeHandler(b) == BridgeMediaGetB(b) \/ CreateBridge(b)

Next ==
    \/ \E c \in Call, s \in Sid, r \in Remote : CreateSession(c, s, r)
    \/ \E c \in Call : CreateSessionNoCodec(c)
    \/ \E s \in Sid, r \in Remote : UpdateRemoteEndpoint(s, r)
    \/ \E s \in Sid : DestroySession(s)
    \/ \E b \in Bid, s, t \in Sid : BridgeMedia(b, s, t)
    \/ \E b \in Bid : BridgeHandler(b)
    \/ \E b \in Bid : UnbridgeMedia(b)
    \/ \E s \in Sid : UnbridgeBySession(s)
    \/ \E p \in Pid, s \in Sid : PlayAudio(p, s)
    \/ \E p \in Pid : Handler(p)
    \/ \E p \in Pid : Goroutine(p)
    \/ \E s \in Sid : StopAudio(s)
    \/ \E c \in Call : StopAudioCancel(c)
    \/ GracefulStop
    \/ CloseAll

Spec == Init /\ [][Next]_vars

(***************************************************************************)
(* Fairness.  The Go scheduler runs every goroutine that can run, and a    *)
(* handler that holds no lock for long gets its turn.  A file may play for *)
(* hours, so nothing forces StreamComplete, and nothing forces a send to   *)
(* fail: a playback that only ends because its file does is not "stopped". *)
(***************************************************************************)
Bind(p) == play[p].pc = "starting" /\ (StreamBind(p) \/ StreamFail(p))

GoroutineFairness ==
    \A p \in Pid :
        /\ WF_vars(Bind(p))
        /\ WF_vars(StreamCancel(p))
        /\ WF_vars(StreamReturn(p))
        /\ WF_vars(PlayEnd(p))

HandlerFairness ==
    /\ \A p \in Pid : WF_vars(Handler(p))
    /\ \A b \in Bid : WF_vars(BridgeHandler(b))
    /\ \A c \in Call : WF_vars(StopAudioCancel(c))
    /\ WF_vars(CloseAll)

FairSpec == Spec /\ GoroutineFairness /\ HandlerFairness

-----------------------------------------------------------------------------
(* Properties *)

\* Every variable has its type.
TypeOK ==
    /\ pool \in [avail : SUBSET RtpPorts, alloc : SUBSET RtpPorts]
    /\ sess \in [Sid -> Session]
    /\ sessions \subseteq Sid
    /\ callToSession \in [Call -> Sid \cup {None}]
    /\ br \in [Bid -> BridgeReq]
    /\ bridges \subseteq Bid
    /\ sessionMap \in [Sid -> Bid \cup {None}]
    /\ play \in [Pid -> Playback]
    /\ activeCalls \in [Call -> Pid \cup {None}]
    /\ stopping \subseteq Call
    /\ bound \in [RtpPorts -> Bid \cup Pid \cup {None}]
    /\ srv \in {"running", "stopping", "closed"}

\* No port leaks and none is given twice: the allocated ports are exactly
\* those of the live sessions, through every failure path of CreateSession
\* and every order of destroys (session/manager.go, portpool/pool.go).
PortAccounting ==
    /\ pool.avail = RtpPorts \ pool.alloc
    /\ pool.alloc = {sess[s].port : s \in sessions}
    /\ \A s, t \in sessions : sess[s].port = sess[t].port => s = t

\* The RTP/RTCP pairs of two live sessions never overlap and stay inside the
\* configured range, for an odd or an even MinPort or MaxPort (pool.go).
PairsDisjoint ==
    /\ \A s \in sessions :
          MinPort <= sess[s].port /\ sess[s].port + 1 <= MaxPort
    /\ \A s, t \in sessions :
          s # t => {sess[s].port, sess[s].port + 1}
                     \cap {sess[t].port, sess[t].port + 1} = {}

\* The two maps of the session manager agree: a call has at most one live
\* session, and its entry names that session and no destroyed one.
CallIndex ==
    /\ \A s \in sessions : callToSession[sess[s].call] = s
    /\ \A c \in Call : callToSession[c] # None =>
          callToSession[c] \in sessions /\ sess[callToSession[c]].call = c

\* The two maps of the bridge manager agree: sessionMap points at exactly
\* the two sides of every bridge, whatever was destroyed in between.
BridgeIndex ==
    /\ \A b \in bridges : br[b].a.sid # br[b].b.sid
    /\ \A s \in Sid, b \in Bid :
          sessionMap[s] = b <=>
             b \in bridges /\ s \in {br[b].a.sid, br[b].b.sid}

\* Sockets follow their owners: a bridge holds its two ports for as long as
\* it is registered and no longer, a playback while it streams, and neither
\* takes a port from the other.
SocketOwnership ==
    \A p \in RtpPorts :
        /\ \A b \in Bid : bound[p] = b <=>
              b \in bridges /\ p \in {br[b].a.port, br[b].b.port}
        /\ \A q \in Pid : bound[p] = q <=>
              play[q].pc \in {"streaming", "closing"} /\ play[q].port = p

\* A playback outlives its session only with its context done, also one that
\* Stop no longer knows of and one that started from a session destroyed
\* between PlayAudio's lookup and Play.
SilentAfterDestroy ==
    \A p \in Pid :
        play[p].pc \in {"starting", "streaming"} /\ play[p].sid \notin sessions
            => PlayCtxDone(p)

\* A tracked playback is one that Stop has not cancelled, of that call, and
\* whose goroutine still runs: an entry that outlived its goroutine would
\* refuse every later PlayAudio of the call.
TrackedIsRunning ==
    \A c \in Call : activeCalls[c] # None =>
        LET q == play[activeCalls[c]] IN
        q.call = c /\ ~q.cancelled /\ q.pc \notin {"idle", "found", "done"}

\* The event channel gets one final event and is closed once (a second one
\* would panic): the final event never changes.
OneFinalEvent ==
    [][\A p \in Pid : play[p].ch # "open" => play'[p].ch = play[p].ch]_vars

\* A playback whose session is destroyed ends and frees its socket, without
\* waiting for the end of its file.
DestroyEndsPlayback ==
    \A p \in Pid :
        (play[p].pc \in {"starting", "streaming"} /\ play[p].sid \notin sessions)
            ~> play[p].pc = "done"

=============================================================================
