-------------------------------- MODULE Drain --------------------------------
(***************************************************************************)
(* Draining an RTP manager: the pool of media nodes with its session       *)
(* affinity (mediaclient/pool.go), the coordinator of drain operations     *)
(* (drain/coordinator.go) and the migration of a call to another node by   *)
(* re-INVITE (drain/migrator.go, SendReINVITE of dialog/manager.go).       *)
(*                                                                         *)
(* A migration is a goroutine per session of the node; its steps are the   *)
(* RPCs, the re-INVITE exchanges and the locked updates of the dialogs.    *)
(* The calls are those of Dialog and B2BUA, reduced to the sessions they   *)
(* hold: an inbound call may dial a callee and be bridged to it while its  *)
(* node is drained (b2bua/call_service.go, bridge.go).                     *)
(* An RPC of the pool and the update of its two session indices are one    *)
(* step: between them the indices read as they did before the RPC.         *)
(***************************************************************************)
EXTENDS Naturals, Sequences, FiniteSets

CONSTANTS
    Node,       \* RTP managers
    Call,       \* dialogs; a bridged call has two
    Sid,        \* session identifiers (bounds the sessions ever created)
    DrainOp,    \* drain operations that may be started
    Peer,       \* Originator.aToB: a call's outbound leg, or None
    Early,      \* calls that arrive, or are dialled, while the system runs
    Overlap,    \* a drain may be started while another one runs
    MaxConcurrentMigrations,
    Flaky,      \* RTP managers that may be unreachable for a while
    UnhealthyThreshold, HealthyThreshold,  \* of PoolConfig
    MaxDisruptions, \* drains, their cancellations, failed checks and RPCs
    None

ASSUME NoneIsNew == /\ None \notin Node \cup Call \cup Sid \cup DrainOp
                    /\ None \notin [node : Node, call : Call]
ASSUME NoneIsNoBridge == None \notin Node \X Sid \X Sid
ASSUME EarlyCalls == Early \subseteq Call /\ Overlap \in BOOLEAN
ASSUME Thresholds == /\ Flaky \subseteq Node
                     /\ {UnhealthyThreshold, HealthyThreshold}
                           \subseteq Nat \ {0}
                     /\ MaxDisruptions \in Nat
ASSUME PeerType == Peer \in [Call -> Call \cup {None}]
\* A leg that a call dials is the leg of that call only.
ASSUME OneCaller == \A c, e \in Call : Peer[c] = Peer[e] /\ Peer[c] # None => c = e
\* Only an inbound call runs a dialplan: the leg that it dials dials nobody.
ASSUME NoChains == \A c \in Call : Peer[c] # None => Peer[Peer[c]] = None
\* A callee is dialled by a call that is up.
ASSUME CalleesLater ==
    \A c \in Call : c \in Early /\ Peer[c] # None => Peer[c] \in Early
ASSUME EnoughIds == \E f \in [Call -> Sid] :
                       \A c, e \in Call : f[c] = f[e] => c = e

VARIABLES
    drainState,    \* poolMember.drainState
    health,        \* poolMember.healthy and the counter that can change it
    calm,          \* disruptions left (MaxDisruptions)
    sessionToNode, \* Pool.sessionToNode; nodeToSessions is its inverse
    rtp,           \* the sessions the RTP managers hold (external)
    used,          \* identifiers handed out
    dlg,           \* dialogs: state and session id
    handle,        \* the id the dialplan's session and the leg keep
    client,        \* the session the far end sends its media to (external)
    reInviteInProgress,
    cbs,           \* dialogs whose onTerminated callback has not run yet
    picked,        \* node selected for a call being set up
    relay,         \* bridged pairs of sessions on the RTP managers (external)
    bridge,        \* the Bridge of an inbound call and its mediaBridgeID
    op,            \* drainOperation and the program counter of runDrain
    activeDrains,  \* Coordinator.activeDrains
    mig,           \* migration goroutine of a drain for a session
    stranded       \* calls a migration has left without media, or with a
                   \* session after their end

poolVars == <<drainState, health, calm, sessionToNode, rtp, used>>
callVars == <<dlg, handle, client, reInviteInProgress, cbs, picked, relay,
              bridge>>
drainVars == <<op, activeDrains, mig, stranded>>
vars == <<poolVars, callVars, drainVars>>

-----------------------------------------------------------------------------
DrainState == {"Active", "Draining", "Disabled"}

BLegs == {Peer[c] : c \in Call} \ {None}
Caller(b) == CHOOSE c \in Call : Peer[c] = b

\* The callee has been sent an INVITE and has not answered it.
Ringing(b) == b \in BLegs /\ dlg[b].state = "none" /\ handle[b] # None

MigPC == {"none", "queued", "lookup", "create", "invite", "answer",
          "rollback", "destroy", "update", "bridge", "skipped", "done"}

\* legs: the dialogs that migrate together; new, old: their sessions;
\* k: the leg the current step is about; ok: every re-INVITE so far succeeded
Idle == [pc |-> "none", legs |-> <<>>, new |-> <<>>, old |-> <<>>, k |-> 1,
         ok |-> TRUE]

OpPC == {"new", "start", "migrating", "complete", "disable", "done"}

NoOp == [pc |-> "new", node |-> None, target |-> None, snap |-> {},
         cancelled |-> FALSE, failed |-> FALSE]

SessionsOnNode(n) == {s \in Sid : sessionToNode[s] = n}

\* The sessions the RTP manager n holds for call c.
Held(n, c) == {s \in Sid : rtp[s] = [node |-> n, call |-> c]}

-----------------------------------------------------------------------------
\* Calls outside Early are up; the legs of a bridged call share a node.
Init ==
    /\ drainState = [n \in Node |-> "Active"]
    /\ health = [n \in Node |-> [healthy |-> TRUE, count |-> 0]]
    /\ calm = MaxDisruptions
    /\ \E at \in [Call -> Node] :
         LET up  == Call \ Early
             sid == CHOOSE f \in [up -> Sid] :
                       \A c, e \in up : f[c] = f[e] => c = e
             Of(s) == {c \in up : sid[c] = s}
             Mine(s) == CHOOSE c \in up : sid[c] = s
         IN
         /\ \A c \in Call : Peer[c] # None => at[c] = at[Peer[c]]
         /\ sessionToNode = [s \in Sid |-> IF Of(s) = {} THEN None
                                           ELSE at[Mine(s)]]
         /\ rtp = [s \in Sid |-> IF Of(s) = {} THEN None
                                 ELSE [node |-> at[Mine(s)],
                                       call |-> Mine(s)]]
         /\ used = {sid[c] : c \in up}
         /\ dlg = [c \in Call |->
                     IF c \in up THEN [state |-> "Confirmed", sid |-> sid[c]]
                                 ELSE [state |-> "none", sid |-> None]]
         /\ handle = [c \in Call |-> dlg[c].sid]
         /\ client = handle
         /\ bridge = [c \in Call |->
                        IF c \in up /\ Peer[c] \in up
                        THEN [state |-> "active",
                              media |-> <<at[c], sid[c], sid[Peer[c]]>>]
                        ELSE [state |-> "none", media |-> None]]
         /\ relay = {bridge[c].media : c \in Call} \ {None}
    /\ reInviteInProgress = [c \in Call |-> FALSE]
    /\ cbs = {}
    /\ picked = [c \in Call |-> None]
    /\ op = [d \in DrainOp |-> NoOp]
    /\ activeDrains = [n \in Node |-> None]
    /\ mig = [d \in DrainOp |-> [s \in Sid |-> Idle]]
    /\ stranded = {}

-----------------------------------------------------------------------------
(* The pool's indices and drain states *)

TrackSession(s, n) == sessionToNode' = [sessionToNode EXCEPT ![s] = n]

UntrackSession(s) == sessionToNode' = [sessionToNode EXCEPT ![s] = None]

\* Pool.StartDrain takes an Active node only ...
MarkDraining(n) ==
    /\ drainState[n] = "Active"
    /\ drainState' = [drainState EXCEPT ![n] = "Draining"]

\* ... and Pool.CancelDrain any other; it changes nothing if it refuses.
MarkActive(n) == drainState' = [drainState EXCEPT ![n] = "Active"]

Disruption == calm > 0 /\ calm' = calm - 1

(***************************************************************************)
(* Health.  failCount decides only while the member is healthy, and        *)
(* successCount only while it is not; the check that changes its health    *)
(* has just reset the other one.  So one counter is kept, up to the value  *)
(* from which the next check decides.                                      *)
(***************************************************************************)
Count(x, threshold) == IF x + 1 < threshold THEN x + 1 ELSE x

\* checkAllHealth, for one member: its connection is ready or not.
CheckHealth(n) ==
    LET h == health[n] IN
    /\ \/ /\ UNCHANGED calm
          /\ health' = [health EXCEPT ![n] =
                IF h.healthy \/ h.count + 1 >= HealthyThreshold
                THEN [healthy |-> TRUE, count |-> 0]
                ELSE [h EXCEPT !.count = Count(h.count, HealthyThreshold)]]
       \/ /\ n \in Flaky /\ Disruption
          /\ health' = [health EXCEPT ![n] =
                IF ~h.healthy \/ h.count + 1 >= UnhealthyThreshold
                THEN [healthy |-> FALSE, count |-> 0]
                ELSE [h EXCEPT !.count = Count(h.count, UnhealthyThreshold)]]
    /\ UNCHANGED <<drainState, sessionToNode, rtp, used, callVars, drainVars>>

\* A failed creation counts like a failed check; it marks nothing by itself.
CreateFailed(n) ==
    health' = IF health[n].healthy
              THEN [health EXCEPT ![n].count = Count(@, UnhealthyThreshold)]
              ELSE health

-----------------------------------------------------------------------------
(* Calls *)

\* A new call selects a node that is in rotation, a callee's leg the node of
\* its caller's session, whatever its state, while the pool knows that ...
SelectMember(c) ==
    LET peer == IF c \in BLegs THEN sessionToNode[handle[Caller(c)]]
                               ELSE None
    IN
    /\ c \in Early
    /\ dlg[c].state = "none" /\ picked[c] = None /\ handle[c] = None
    /\ c \in BLegs => dlg[Caller(c)].state = "Confirmed"
    /\ \E n \in Node :
         /\ IF peer # None THEN n = peer
            ELSE drainState[n] = "Active" /\ health[n].healthy
         /\ picked' = [picked EXCEPT ![c] = n]
    /\ UNCHANGED <<poolVars, dlg, handle, client, reInviteInProgress, cbs,
                   relay, bridge, drainVars>>

\* ... and creates its session there, whatever became of the node since.  The
\* dialog of an outbound leg comes only with the answer.
CreateSession(c) ==
    /\ picked[c] # None
    /\ \E s \in Sid \ used :
         /\ s = CHOOSE x \in Sid \ used : TRUE
         /\ used' = used \cup {s}
         /\ rtp' = [rtp EXCEPT ![s] = [node |-> picked[c], call |-> c]]
         /\ TrackSession(s, picked[c])
         /\ handle' = [handle EXCEPT ![c] = s]
         /\ IF c \in BLegs THEN UNCHANGED <<dlg, client>>
            ELSE /\ dlg' = [dlg EXCEPT ![c] = [state |-> "Early", sid |-> s]]
                 /\ client' = [client EXCEPT ![c] = s]
    /\ picked' = [picked EXCEPT ![c] = None]
    /\ UNCHANGED <<drainState, health, calm, reInviteInProgress, cbs, relay,
                   bridge, drainVars>>

\* The RPC fails: the call is refused, or the dial has failed.
CreateSessionFails(c) ==
    /\ picked[c] \in Flaky /\ Disruption
    /\ CreateFailed(picked[c])
    /\ picked' = [picked EXCEPT ![c] = None]
    /\ UNCHANGED <<drainState, sessionToNode, rtp, used, dlg, handle, client,
                   reInviteInProgress, cbs, relay, bridge, drainVars>>

Confirm(c) ==
    /\ dlg[c].state = "Early"
    /\ dlg' = [dlg EXCEPT ![c].state = "Confirmed"]
    /\ UNCHANGED <<poolVars, handle, client, reInviteInProgress, cbs, picked,
                   relay, bridge, drainVars>>

\* The callee answers: its dialog is registered with the leg's session.
Handle2xx(b) ==
    /\ Ringing(b)
    /\ dlg' = [dlg EXCEPT ![b] = [state |-> "Confirmed", sid |-> handle[b]]]
    /\ client' = [client EXCEPT ![b] = handle[b]]
    /\ UNCHANGED <<poolVars, handle, reInviteInProgress, cbs, picked, relay,
                   bridge, drainVars>>

\* The store drops a terminated dialog after TerminatedDialogTTL: from then on
\* a lookup by session misses it (see Lookup) and nothing names its session.
Terminate(c) ==
    /\ dlg[c].state \in {"Early", "Confirmed"}
    /\ dlg' = [dlg EXCEPT ![c].state = "Terminated"]
    /\ cbs' = cbs \cup {c}
    /\ UNCHANGED <<poolVars, handle, client, reInviteInProgress, picked,
                   relay, bridge, drainVars>>

\* Mutant: the session is forgotten only if its destruction succeeds.
DestroySessionFirst(s, cancelled) ==
    \/ /\ sessionToNode[s] # None /\ ~cancelled
       /\ rtp' = [rtp EXCEPT ![s] = None]
       /\ UntrackSession(s)
       /\ UNCHANGED calm
    \/ /\ \/ (sessionToNode[s] = None \/ cancelled) /\ UNCHANGED calm
          \/ sessionToNode[s] \in Flaky /\ Disruption
       /\ UNCHANGED <<rtp, sessionToNode>>

\* Pool.DestroySession: fails for a session the pool does not know.  If the
\* RPC does not get through - its context is cancelled or the RTP manager does
\* not answer - the session is forgotten all the same, and every caller drops
\* the error.  The RTP manager keeps a relay of the session.
DestroySession(s, cancelled) ==
    /\ UntrackSession(s)
    /\ \/ /\ sessionToNode[s] # None /\ ~cancelled
          /\ rtp' = [rtp EXCEPT ![s] = None]
          /\ UNCHANGED calm
       \/ /\ \/ (sessionToNode[s] = None \/ cancelled) /\ UNCHANGED calm
             \/ sessionToNode[s] \in Flaky /\ Disruption
          /\ UNCHANGED rtp

OnTerminated(c) ==
    /\ c \in cbs
    /\ cbs' = cbs \ {c}
    /\ DestroySession(dlg[c].sid, FALSE)
    /\ UNCHANGED <<drainState, health, used, dlg, handle, client,
                   reInviteInProgress, picked, relay, bridge, drainVars>>

\* The dial fails or is given up: the leg's session is destroyed.
DialFails(b) ==
    /\ Ringing(b)
    /\ dlg' = [dlg EXCEPT ![b].state = "Terminated"]
    /\ DestroySession(handle[b], FALSE)
    /\ UNCHANGED <<drainState, health, used, handle, client,
                   reInviteInProgress, cbs, picked, relay, bridge, drainVars>>

\* Pool.BridgeMedia: both sessions known, on one RTP manager that has them.
SameNode(x, y) ==
    /\ sessionToNode[x] # None
    /\ sessionToNode[x] = sessionToNode[y]
    /\ rtp[x] # None /\ rtp[y] # None

\* Bridge.Start, with the ids the two legs keep.  If the RTP manager refuses
\* them (a port may still be bound) the legs are hung up; the same if its
\* answer is lost, and then it keeps a relay that nobody knows of ("missed",
\* which only the properties read).  A caller that was migrated alone is not
\* where its leg says, even if its old session is found.
StartBridge(c) ==
    LET x == handle[c]
        y == handle[Peer[c]]
        media == <<sessionToNode[x], x, y>>
    IN
    /\ Peer[c] # None
    /\ bridge[c].state = "none"
    /\ dlg[c].state = "Confirmed" /\ dlg[Peer[c]].state = "Confirmed"
    /\ \/ /\ SameNode(x, y)
          /\ relay' = relay \cup {media}
          /\ bridge' = [bridge EXCEPT ![c] = [state |-> "active",
                                              media |-> media]]
          /\ stranded' = IF dlg[c].sid = x THEN stranded
                                           ELSE stranded \cup {c}
          /\ UNCHANGED calm
       \/ /\ bridge' = [bridge EXCEPT ![c].state = "stopped"]
          /\ UNCHANGED <<relay, stranded, calm>>
       \/ /\ SameNode(x, y) /\ media[1] \in Flaky /\ Disruption
          /\ relay' = relay \cup {media}
          /\ bridge' = [bridge EXCEPT ![c] = [state |-> "missed",
                                              media |-> media]]
          /\ UNCHANGED stranded
    /\ UNCHANGED <<drainState, health, sessionToNode, rtp, used, dlg, handle,
                   client, reInviteInProgress, cbs, picked, op, activeDrains,
                   mig>>

\* Mutant: the media bridge is left to the end of its sessions.
StopBridgeKeepsRelay(c) ==
    /\ bridge[c].state = "active"
    /\ "Terminated" \in {dlg[c].state, dlg[Peer[c]].state}
    /\ bridge' = [bridge EXCEPT ![c].state = "stopped"]
    /\ UNCHANGED <<poolVars, dlg, handle, client, reInviteInProgress, cbs,
                   picked, relay, drainVars>>

\* Bridge.Stop once a leg is over: it unbridges the media bridge it started.
\* The pool leaves out a node that is marked unhealthy, and one that is not
\* may fail the RPC, or another node may use up its 5 seconds (UnbridgeMedia):
\* that error is only logged, and the relay stays.
StopBridge(c) ==
    LET reached == health[bridge[c].media[1]].healthy IN
    /\ bridge[c].state = "active"
    /\ "Terminated" \in {dlg[c].state, dlg[Peer[c]].state}
    /\ \/ /\ reached
          /\ bridge' = [bridge EXCEPT ![c].state = "stopped"]
          /\ relay' = relay \ {bridge[c].media}
          /\ UNCHANGED calm
       \/ /\ IF reached THEN Flaky # {} /\ Disruption ELSE UNCHANGED calm
          /\ bridge' = [bridge EXCEPT ![c].state = "missed"]
          /\ UNCHANGED relay
    /\ UNCHANGED <<drainState, health, sessionToNode, rtp, used, dlg, handle,
                   client, reInviteInProgress, cbs, picked, drainVars>>

-----------------------------------------------------------------------------
(* The coordinator *)

\* Under the coordinator's lock: no entry for the node, the node is Active,
\* and the sessions to migrate are those the pool has now.
StartDrain(d, n) ==
    /\ op[d].pc = "new"
    /\ Disruption
    /\ Overlap \/ \A e \in DrainOp : op[e].pc \in {"new", "done"}
    /\ activeDrains[n] = None
    /\ MarkDraining(n)
    /\ op' = [op EXCEPT ![d] = [NoOp EXCEPT !.pc = "start", !.node = n,
                                            !.snap = SessionsOnNode(n)]]
    /\ activeDrains' = [activeDrains EXCEPT ![n] = d]
    /\ UNCHANGED <<health, sessionToNode, rtp, used, callVars, mig, stranded>>

\* runDrain up to the spawning of the migrations: nothing to migrate, a
\* target for them, or none.
NoSessions(d) ==
    /\ op[d].pc = "start"
    /\ op[d].snap = {}
    /\ op' = [op EXCEPT ![d].pc = "complete"]
    /\ UNCHANGED <<poolVars, callVars, activeDrains, mig, stranded>>

\* Mutant: any node will do as the target.
MigrateAnywhere(d) ==
    /\ op[d].pc = "start"
    /\ op[d].snap # {}
    /\ \E t \in Node : op' = [op EXCEPT ![d].pc = "migrating",
                                       ![d].target = t]
    /\ mig' = [mig EXCEPT ![d] = [s \in Sid |->
                  IF s \in op[d].snap THEN [Idle EXCEPT !.pc = "queued"]
                                      ELSE Idle]]
    /\ UNCHANGED <<poolVars, callVars, activeDrains, stranded>>

Migrate(d) ==
    /\ op[d].pc = "start"
    /\ op[d].snap # {}
    /\ \E t \in Node \ {op[d].node} :
         /\ drainState[t] = "Active" /\ health[t].healthy
         /\ op' = [op EXCEPT ![d].pc = "migrating", ![d].target = t]
    /\ mig' = [mig EXCEPT ![d] = [s \in Sid |->
                  IF s \in op[d].snap THEN [Idle EXCEPT !.pc = "queued"]
                                      ELSE Idle]]
    /\ UNCHANGED <<poolVars, callVars, activeDrains, stranded>>

\* failDrain: the node goes back to Active, the entry stays.
FailDrain(d) ==
    /\ op[d].pc = "start"
    /\ op[d].snap # {}
    /\ \A t \in Node \ {op[d].node} :
          drainState[t] # "Active" \/ ~health[t].healthy
    /\ MarkActive(op[d].node)
    /\ op' = [op EXCEPT ![d].pc = "done", ![d].failed = TRUE]
    /\ UNCHANGED <<health, calm, sessionToNode, rtp, used, callVars,
                   activeDrains, mig, stranded>>

\* After g.Wait: complete, or leave the node draining.
Wait(d) ==
    /\ op[d].pc = "migrating"
    /\ \A s \in Sid : mig[d][s].pc \in {"none", "skipped", "done"}
    /\ op' = [op EXCEPT ![d].pc = IF SessionsOnNode(op[d].node) = {}
                                  THEN "complete" ELSE "done"]
    /\ UNCHANGED <<poolVars, callVars, activeDrains, mig, stranded>>

\* Pool.CompleteDrain loads the state and stores it in a second step.
CompleteDrain(d) ==
    /\ op[d].pc = "complete"
    /\ op' = [op EXCEPT ![d].pc = IF drainState[op[d].node] = "Draining"
                                  THEN "disable" ELSE "done"]
    /\ UNCHANGED <<poolVars, callVars, activeDrains, mig, stranded>>

Disable(d) ==
    /\ op[d].pc = "disable"
    /\ drainState' = [drainState EXCEPT ![op[d].node] = "Disabled"]
    /\ op' = [op EXCEPT ![d].pc = "done"]
    /\ UNCHANGED <<health, calm, sessionToNode, rtp, used, callVars,
                   activeDrains, mig, stranded>>

\* Mutant: the entry of a cancelled drain stays.
CancelDrainKeepsEntry(n) ==
    LET d == activeDrains[n] IN
    /\ d # None
    /\ Disruption
    /\ op' = [op EXCEPT ![d].cancelled = TRUE]
    /\ MarkActive(n)
    /\ UNCHANGED <<activeDrains, health, sessionToNode, rtp, used, callVars,
                   mig, stranded>>

\* CancelDrain cancels the context even if the node is Active already, and
\* then keeps the entry.
CancelDrain(n) ==
    LET d == activeDrains[n] IN
    /\ d # None
    /\ Disruption
    /\ op' = [op EXCEPT ![d].cancelled = TRUE]
    /\ MarkActive(n)
    /\ activeDrains' = IF drainState[n] = "Active" THEN activeDrains
                       ELSE [activeDrains EXCEPT ![n] = None]
    /\ UNCHANGED <<health, sessionToNode, rtp, used, callVars, mig, stranded>>

\* The deadline of the operation's context.
Timeout(d) ==
    /\ op[d].pc \in {"start", "migrating"}
    /\ Disruption
    /\ op' = [op EXCEPT ![d].cancelled = TRUE]
    /\ UNCHANGED <<drainState, health, sessionToNode, rtp, used, callVars,
                   activeDrains, mig, stranded>>

-----------------------------------------------------------------------------
(* A migration: the goroutine of drain d for session s *)

\* Mutant: a skipped leg does not release the semaphore.
RunningHeld(d) == {s \in Sid : mig[d][s].pc \notin {"none", "queued", "done"}}

Running(d) == {s \in Sid : mig[d][s].pc \notin
                              {"none", "queued", "skipped", "done"}}

Go(d, s, pc) == mig' = [mig EXCEPT ![d][s].pc = pc]

\* The next leg, or the step pc once there is none.
NextLeg(d, s, pc) ==
    LET m == mig[d][s] IN
    mig' = [mig EXCEPT ![d][s] =
               IF m.k < Len(m.legs) THEN [m EXCEPT !.k = m.k + 1]
               ELSE [m EXCEPT !.k = 1, !.pc = pc]]

\* Mutant: the failure is not counted.
FailsUncounted(d) == UNCHANGED op

Fails(d) == op' = [op EXCEPT ![d].failed = TRUE]

\* The semaphore refuses once the context is done, which no count records.
Acquire(d, s) ==
    /\ mig[d][s].pc = "queued"
    /\ \/ op[d].cancelled /\ Go(d, s, "done")
       \/ /\ ~op[d].cancelled
          /\ Cardinality(Running(d)) < MaxConcurrentMigrations
          /\ Go(d, s, "lookup")
    /\ UNCHANGED <<poolVars, callVars, op, activeDrains, stranded>>

\* MigrateSession: an outbound leg is left to its inbound one; a confirmed
\* dialog migrates with its outbound leg if that has a dialog.  While the leg
\* is being taken down its entry may be there or not, and a terminated dialog
\* may have left the store.
Lookup(d, s) ==
    LET found == {c \in Call : dlg[c].sid = s} IN
    /\ mig[d][s].pc = "lookup"
    /\ \/ /\ \/ \A c \in found : dlg[c].state = "Terminated"
             \/ \E c \in found \ BLegs : dlg[c].state # "Confirmed"
          /\ Go(d, s, "done")
          /\ Fails(d)
       \/ /\ found \cap BLegs # {}
          /\ Go(d, s, "skipped")
          /\ UNCHANGED op
       \/ \E c \in found \ BLegs :
            /\ dlg[c].state = "Confirmed"
            /\ \E legs \in {<<c>>, <<c, Peer[c]>>} :
                 /\ Len(legs) = 2 => Peer[c] # None /\ dlg[Peer[c]].sid # None
                 /\ Len(legs) = 1 =>
                       ~(Peer[c] # None /\ dlg[Peer[c]].state = "Confirmed")
                 /\ mig' = [mig EXCEPT ![d][s] =
                       [mig[d][s] EXCEPT !.pc = "create", !.legs = legs,
                          !.old = [i \in 1..Len(legs) |-> dlg[legs[i]].sid]]]
            /\ UNCHANGED op
    /\ UNCHANGED <<poolVars, callVars, activeDrains, stranded>>

\* CreateSessionOnNode for leg k.  The pool refuses, or the RPC fails, or the
\* RTP manager answers with the session it has for the call or a new one.
CreateSessionOnNode(d, s) ==
    LET m == mig[d][s]
        c == m.legs[m.k]
        t == op[d].target
        Refused == drainState[t] = "Disabled" \/ ~health[t].healthy
        NoneLeft == Sid \ used = {} /\ Held(t, c) = {}
    IN
    /\ m.pc = "create"
    /\ \/ /\ \/ Refused /\ UNCHANGED <<health, calm>>
             \/ /\ ~Refused
                /\ \/ (op[d].cancelled \/ NoneLeft) /\ UNCHANGED calm
                   \/ t \in Flaky /\ Disruption
                /\ CreateFailed(t)
          /\ Fails(d)
          /\ mig' = [mig EXCEPT ![d][s] =
                IF m.k = 1 THEN [m EXCEPT !.pc = "done"]
                ELSE [m EXCEPT !.pc = "rollback", !.k = 1,
                               !.legs = SubSeq(m.legs, 1, 1)]]
          /\ UNCHANGED <<sessionToNode, rtp, used>>
       \/ /\ ~Refused /\ ~op[d].cancelled /\ ~NoneLeft
          /\ UNCHANGED <<health, calm, op>>
          /\ \E x \in IF Held(t, c) # {} THEN Held(t, c)
                      ELSE {CHOOSE y \in Sid \ used : TRUE} :
               /\ used' = used \cup {x}
               /\ rtp' = [rtp EXCEPT ![x] = [node |-> t, call |-> c]]
               /\ TrackSession(x, t)
               /\ mig' = [mig EXCEPT ![d][s] =
                     IF m.k < Len(m.legs)
                     THEN [m EXCEPT !.new = Append(m.new, x), !.k = m.k + 1]
                     ELSE [m EXCEPT !.new = Append(m.new, x), !.k = 1,
                                    !.pc = "invite"]]
    /\ UNCHANGED <<drainState, callVars, activeDrains, stranded>>

\* Mutant: the answer of the last leg decides.
AnsweredLast(d, s, ok) ==
    LET m == mig[d][s] IN
    mig' = [mig EXCEPT ![d][s] =
               IF m.k < Len(m.legs)
               THEN [m EXCEPT !.k = m.k + 1, !.ok = ok, !.pc = "invite"]
               ELSE [m EXCEPT !.k = 1, !.ok = ok,
                              !.pc = IF ok THEN "destroy" ELSE "rollback"]]

\* After the re-INVITE of leg k: the other leg's, then success or rollback.
Answered(d, s, ok) ==
    LET m == mig[d][s] IN
    mig' = [mig EXCEPT ![d][s] =
               IF m.k < Len(m.legs)
               THEN [m EXCEPT !.k = m.k + 1, !.ok = m.ok /\ ok,
                              !.pc = "invite"]
               ELSE [m EXCEPT !.k = 1, !.ok = m.ok /\ ok,
                              !.pc = IF m.ok /\ ok THEN "destroy"
                                                   ELSE "rollback"]]

\* SendReINVITE up to the sending of the request.
SendReINVITE(d, s) ==
    LET c == mig[d][s].legs[mig[d][s].k] IN
    /\ mig[d][s].pc = "invite"
    /\ \/ /\ \/ dlg[c].state # "Confirmed"
             \/ reInviteInProgress[c]
             \/ op[d].cancelled
          /\ Answered(d, s, FALSE)
          /\ UNCHANGED reInviteInProgress
       \/ /\ dlg[c].state = "Confirmed"
          /\ ~reInviteInProgress[c]
          /\ ~op[d].cancelled
          /\ reInviteInProgress' = [reInviteInProgress EXCEPT ![c] = TRUE]
          /\ Go(d, s, "answer")
    /\ UNCHANGED <<poolVars, dlg, handle, client, cbs, picked, relay,
                   bridge, op, activeDrains, stranded>>

\* The far end accepts and sends its media to the new session, or refuses
\* or does not answer; if the context is done first, its answer is unread.
Answer(d, s) ==
    LET m == mig[d][s]
        c == m.legs[m.k]
    IN
    /\ m.pc = "answer"
    /\ \E ok \in BOOLEAN :
         /\ client' = IF ok THEN [client EXCEPT ![c] = m.new[m.k]]
                            ELSE client
         /\ \/ Answered(d, s, ok)
            \/ op[d].cancelled /\ Answered(d, s, FALSE)
    /\ reInviteInProgress' = [reInviteInProgress EXCEPT ![c] = FALSE]
    /\ UNCHANGED <<poolVars, dlg, handle, cbs, picked, relay,
                   bridge, op, activeDrains, stranded>>

\* Destroy the new session of leg k.
Rollback(d, s) ==
    LET m == mig[d][s]
        c == m.legs[m.k]
    IN
    /\ m.pc = "rollback"
    /\ DestroySession(m.new[m.k], op[d].cancelled)
    /\ stranded' = IF client[c] = m.new[m.k] THEN stranded \cup {c}
                                             ELSE stranded
    /\ NextLeg(d, s, "done")
    /\ Fails(d)
    /\ UNCHANGED <<drainState, health, used, dlg, handle, client,
                   reInviteInProgress, cbs, picked, relay, bridge,
                   activeDrains>>

\* The migration of a single dialog reads the id of its old session here,
\* that of a bridged call has read both at its beginning.
DestroyOld(d, s) ==
    LET m == mig[d][s]
        old == IF Len(m.legs) = 1 THEN dlg[m.legs[1]].sid ELSE m.old[m.k]
    IN
    /\ m.pc = "destroy"
    /\ DestroySession(old, op[d].cancelled)
    /\ NextLeg(d, s, "update")
    /\ UNCHANGED <<drainState, health, used, dlg, handle, client,
                   reInviteInProgress, cbs, picked, relay, bridge, op,
                   activeDrains, stranded>>

\* A call that was migrated alone and bridged meanwhile is no longer where
\* its bridge is.  One whose end has been handled gets its new session all the
\* same, and nobody will destroy that.
SetSessionID(d, s) ==
    LET m == mig[d][s]
        c == m.legs[m.k]
    IN
    /\ m.pc = "update"
    /\ dlg' = [dlg EXCEPT ![c].sid = m.new[m.k]]
    /\ stranded' = IF \/ Len(m.legs) = 1 /\ bridge[c].state = "active"
                      \/ dlg[c].state = "Terminated" /\ c \notin cbs
                   THEN stranded \cup {c} ELSE stranded
    /\ NextLeg(d, s, IF Len(m.legs) = 1 THEN "done" ELSE "bridge")
    /\ UNCHANGED <<poolVars, handle, client, reInviteInProgress, cbs, picked,
                   relay, bridge, op, activeDrains>>

\* Mutant: the media bridge is taken to have moved with its sessions.
BridgeMediaSkipped(d, s) ==
    /\ mig[d][s].pc = "bridge"
    /\ Go(d, s, "done")
    /\ UNCHANGED <<poolVars, callVars, op, activeDrains, stranded>>

\* The media bridge on the new node; nobody records its id, nor looks for one
\* that was made although the RPC failed.
BridgeMedia(d, s) ==
    LET m == mig[d][s] IN
    /\ m.pc = "bridge"
    /\ Go(d, s, "done")
    /\ \/ /\ ~op[d].cancelled
          /\ SameNode(m.new[1], m.new[2])
          /\ relay' = relay \cup {<<op[d].target, m.new[1], m.new[2]>>}
          /\ UNCHANGED <<op, stranded>>
       \/ /\ stranded' = stranded \cup {m.legs[1], m.legs[2]}
          /\ Fails(d)
          /\ \/ UNCHANGED relay
             \/ /\ op[d].cancelled \/ op[d].target \in Flaky
                /\ SameNode(m.new[1], m.new[2])
                /\ relay' = relay
                              \cup {<<op[d].target, m.new[1], m.new[2]>>}
    /\ UNCHANGED <<poolVars, dlg, handle, client, reInviteInProgress, cbs,
                   picked, bridge, activeDrains>>

-----------------------------------------------------------------------------
CallNext == \E c \in Call :
    SelectMember(c) \/ CreateSession(c) \/ CreateSessionFails(c)
    \/ Confirm(c) \/ Handle2xx(c)
    \/ Terminate(c) \/ OnTerminated(c) \/ DialFails(c)
    \/ StartBridge(c) \/ StopBridge(c)

OpStep(d) == NoSessions(d) \/ Migrate(d) \/ FailDrain(d) \/ Wait(d)
             \/ CompleteDrain(d) \/ Disable(d)

MigStep(d, s) == Acquire(d, s) \/ Lookup(d, s) \/ CreateSessionOnNode(d, s)
                 \/ SendReINVITE(d, s) \/ Answer(d, s) \/ Rollback(d, s)
                 \/ DestroyOld(d, s) \/ SetSessionID(d, s)
                 \/ BridgeMedia(d, s)

Next ==
    \/ CallNext
    \/ \E d \in DrainOp :
          \/ \E n \in Node : StartDrain(d, n)
          \/ OpStep(d)
          \/ Timeout(d)
          \/ \E s \in Sid : MigStep(d, s)
    \/ \E n \in Node : CancelDrain(n) \/ CheckHealth(n)

Spec == Init /\ [][Next]_vars

-----------------------------------------------------------------------------
Migrating(c) == \E d \in DrainOp : \E s \in Running(d) :
                   \E i \in 1..Len(mig[d][s].legs) : mig[d][s].legs[i] = c

\* Every variable has its type, and a drain never migrates to the node it
\* drains (findTargetNode).
TypeOK ==
    /\ drainState \in [Node -> DrainState]
    /\ sessionToNode \in [Sid -> Node \cup {None}]
    /\ rtp \in [Sid -> [node : Node, call : Call] \cup {None}]
    /\ used \subseteq Sid
    /\ dlg \in [Call -> [state : {"none", "Early", "Confirmed", "Terminated"},
                         sid : Sid \cup {None}]]
    /\ handle \in [Call -> Sid \cup {None}]
    /\ client \in [Call -> Sid \cup {None}]
    /\ reInviteInProgress \in [Call -> BOOLEAN]
    /\ cbs \subseteq Call
    /\ picked \in [Call -> Node \cup {None}]
    /\ health \in [Node -> [healthy : BOOLEAN, count : Nat]]
    /\ calm \in 0..MaxDisruptions
    /\ relay \subseteq Node \X Sid \X Sid
    /\ bridge \in [Call -> [state : {"none", "active", "stopped",
                                     "missed"},
                            media : (Node \X Sid \X Sid) \cup {None}]]
    /\ activeDrains \in [Node -> DrainOp \cup {None}]
    /\ stranded \subseteq Call
    /\ \A d \in DrainOp :
         /\ op[d].pc \in OpPC
         /\ \A s \in Sid : mig[d][s].pc \in MigPC
         /\ op[d].pc \notin {"new", "start"} /\ op[d].snap # {}
              /\ ~op[d].failed => op[d].target # op[d].node

Settled(c) == /\ dlg[c].state = "Confirmed"
              /\ ~Migrating(c)
              /\ c \notin stranded

\* Whatever drains are started, cancelled or time out, and whatever calls
\* come and go meanwhile: an established call that is not being migrated has
\* its media on a session that exists, that the pool can find and that its
\* far end sends to - unless its own migration failed after the far end had
\* already moved.
CallHeard == \A c \in Call : Settled(c) =>
                /\ client[c] = dlg[c].sid
                /\ rtp[dlg[c].sid] # None
                /\ sessionToNode[dlg[c].sid] = rtp[dlg[c].sid].node

\* The two legs of a bridged call stay relayed to each other by one RTP
\* manager: a migration moves both or neither - except the migration of a
\* caller that began before the callee answered, which moves one.
BridgedTogether == \A c \in Call :
    Peer[c] # None /\ bridge[c].state = "active"
      /\ Settled(c) /\ Settled(Peer[c])
      => <<sessionToNode[dlg[c].sid], dlg[c].sid, dlg[Peer[c]].sid>> \in relay

\* A drain that reports no failure and was not cancelled leaves none of the
\* sessions it found on the node, except that of an outbound leg whose caller
\* is not on the node any more: the leg is left to its inbound one, which has
\* ended or has moved alone while the callee's phone was ringing, and no count
\* shows it.
DrainAccounts == \A d \in DrainOp :
    op[d].pc = "done" /\ ~op[d].failed /\ ~op[d].cancelled =>
      \A s \in op[d].snap \cap SessionsOnNode(op[d].node) :
         \E c \in Call : /\ Peer[c] # None
                         /\ dlg[Peer[c]].sid = s
                         /\ sessionToNode[dlg[c].sid] # op[d].node

\* Every session the pool tracks has someone left to destroy it: a dialog that
\* is not over or whose end is still to be handled, a dial under way, or a
\* migration that still runs - or it leaks, because a migration gave it to a
\* call whose end had been handled (the call is stranded, SetSessionID).
\* Rollbacks, cancellations and failed RPCs leak no other entry.
SessionsNamed == \A s \in Sid : sessionToNode[s] # None =>
    \/ \E c \in Call :
          \/ /\ dlg[c].sid = s
             /\ dlg[c].state # "Terminated" \/ c \in cbs \cup stranded
          \/ Ringing(c) /\ handle[c] = s
    \/ \E d \in DrainOp : \E r \in Running(d) :
          \E i \in 1..Len(mig[d][r].new) : mig[d][r].new[i] = s

\* A drain never hangs: until it is done, it or one of its migrations can
\* take a step.  A semaphore slot that is not given back on some path would
\* leave the others waiting, and g.Wait with them (coordinator.go).
DrainRuns == \A d \in DrainOp :
    op[d].pc \notin {"new", "done"} =>
        ENABLED (OpStep(d) \/ \E s \in Sid : MigStep(d, s))

\* The operator keeps control of every node: one out of rotation has the entry
\* in activeDrains that CancelDrain needs to bring it back, an Active one has
\* none, which StartDrain needs.  Two histories break this, and no other: a
\* drain that failed for want of a target leaves its entry on the Active node,
\* and a cancellation between the two steps of Pool.CompleteDrain leaves the
\* node Disabled without one (coordinator.go, pool.go).
NodeRecovers == \A n \in Node :
    IF drainState[n] = "Active"
    THEN activeDrains[n] # None =>
            op[activeDrains[n]].failed /\ op[activeDrains[n]].target = None
    ELSE activeDrains[n] = None =>
            /\ drainState[n] = "Disabled"
            /\ \E d \in DrainOp :
                  op[d].node = n /\ op[d].cancelled /\ op[d].pc = "done"

\* A media bridge outlives its call only if a migration made it, since the
\* ids of those are not recorded, or if BridgeMedia or UnbridgeMedia failed for
\* it ("missed"): Bridge.Stop ends the recorded one whatever became of its
\* sessions (b2bua/bridge.go, drain/migrator.go, Pool.UnbridgeMedia).
RelayEnds == \A c \in Call : bridge[c].state = "stopped" =>
    \A p \in relay :
        \/ p[2] \notin {handle[c], dlg[c].sid}
        \/ \E d \in DrainOp, s \in Sid : mig[d][s].new = <<p[2], p[3]>>

\* "use the graceful drain feature to migrate active sessions to other nodes
\* without dropping calls": the session the dialplan plays to and dials from
\* is one the pool knows.
DialplanFollows == \A c \in Call :
    Settled(c) /\ Peer[c] = None => sessionToNode[handle[c]] # None
=============================================================================
