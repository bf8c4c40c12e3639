---------------------------- MODULE DrainProofs ----------------------------
(***************************************************************************)
(* Proofs about Drain, for any number of RTP managers, calls, sessions and *)
(* drains, any pairing of calls, thresholds and number of disruptions.     *)
(***************************************************************************)
EXTENDS Drain, SequenceTheorems, TLAPS

-----------------------------------------------------------------------------
(* Types, and what a migration has got so far *)

DlgRec == [state : {"none", "Early", "Confirmed", "Terminated"},
           sid : Sid \cup {None}]

HealthRec == [healthy : BOOLEAN, count : Nat]

BridgeRec == [state : {"none", "active", "stopped", "missed"},
              media : (Node \X Sid \X Sid) \cup {None}]

OpRec == [pc : OpPC, node : Node \cup {None}, target : Node \cup {None},
          snap : SUBSET Sid, cancelled : BOOLEAN, failed : BOOLEAN]

MigRec == [pc : MigPC, legs : Seq(Call), new : Seq(Sid),
           old : Seq(Sid \cup {None}), k : Nat, ok : BOOLEAN]

PoolTypes ==
    /\ drainState \in [Node -> DrainState]
    /\ health \in [Node -> HealthRec]
    /\ calm \in 0..MaxDisruptions
    /\ sessionToNode \in [Sid -> Node \cup {None}]
    /\ rtp \in [Sid -> [node : Node, call : Call] \cup {None}]
    /\ used \subseteq Sid

CallTypes ==
    /\ dlg \in [Call -> DlgRec]
    /\ handle \in [Call -> Sid \cup {None}]
    /\ client \in [Call -> Sid \cup {None}]
    /\ reInviteInProgress \in [Call -> BOOLEAN]
    /\ cbs \subseteq Call
    /\ picked \in [Call -> Node \cup {None}]
    /\ relay \subseteq Node \X Sid \X Sid
    /\ bridge \in [Call -> BridgeRec]

DrainTypes ==
    /\ op \in [DrainOp -> OpRec]
    /\ activeDrains \in [Node -> DrainOp \cup {None}]
    /\ mig \in [DrainOp -> [Sid -> MigRec]]
    /\ stranded \subseteq Call

\* Before a migration works on a leg it has found none; while it creates the
\* sessions it has one for each leg before k; from then on one for each leg.
Unstarted == {"none", "queued", "lookup", "skipped"}
Placed == {"invite", "answer", "rollback", "destroy", "update", "bridge"}

Legs(m) ==
    /\ m.pc \in Unstarted => m.new = <<>> /\ m.k = 1
    /\ m.pc \in Placed \cup {"create"} => m.k \in 1..Len(m.legs) /\ Len(m.legs) <= 2
    /\ m.pc = "create" => Len(m.new) = m.k - 1
    /\ m.pc \in Placed => Len(m.new) = Len(m.legs)
    /\ m.pc = "bridge" => Len(m.legs) = 2

Migs == \A d \in DrainOp : \A s \in Sid :
            /\ Legs(mig[d][s])
            /\ mig[d][s].pc # "none" =>
                  op[d].pc \notin {"new", "start"} /\ op[d].target \in Node

Ops == \A d \in DrainOp :
          /\ op[d].pc # "new" => op[d].node \in Node
          /\ op[d].pc = "start" => op[d].target = None
          /\ op[d].pc \notin {"new", "start"} /\ op[d].snap # {} =>
                op[d].failed \/ op[d].target \in Node \ {op[d].node}

\* A call that is up has a session its dialplan or its leg knows of.
Handles == \A c \in Call : dlg[c].state \in {"Early", "Confirmed"} =>
              handle[c] \in Sid

Shape == PoolTypes /\ CallTypes /\ DrainTypes /\ Migs /\ Ops /\ Handles

LEMMA ShapeTypes == Shape => TypeOK
<1> SUFFICES ASSUME Shape PROVE TypeOK
  OBVIOUS
<1>1. ASSUME NEW d \in DrainOp
      PROVE  /\ op[d].pc \in OpPC
             /\ \A s \in Sid : mig[d][s].pc \in MigPC
             /\ op[d].pc \notin {"new", "start"} /\ op[d].snap # {}
                  /\ ~op[d].failed => op[d].target # op[d].node
  <2>1. op[d] \in OpRec /\ \A s \in Sid : mig[d][s] \in MigRec
    BY DEF Shape, DrainTypes
  <2>2. op[d].pc \in OpPC /\ \A s \in Sid : mig[d][s].pc \in MigPC
    BY <2>1 DEF OpRec, MigRec
  <2> QED BY <2>2 DEF Shape, Ops
<1> QED BY <1>1 DEF Shape, PoolTypes, CallTypes, DrainTypes, TypeOK, DlgRec,
                    HealthRec, BridgeRec

-----------------------------------------------------------------------------
(* Init *)

LEMMA ShapeInit == Init => Shape
<1> SUFFICES ASSUME Init PROVE Shape
  OBVIOUS
<1> DEFINE up == Call \ Early
           Ids == {f \in [up -> Sid] : \A c, e \in up : f[c] = f[e] => c = e}
           sid == CHOOSE f \in [up -> Sid] :
                     \A c, e \in up : f[c] = f[e] => c = e
           Of(s) == {c \in up : sid[c] = s}
           Mine(s) == CHOOSE c \in up : sid[c] = s
<1>1. sid \in [up -> Sid]
  <2>1. PICK f \in [Call -> Sid] : \A c, e \in Call : f[c] = f[e] => c = e
    BY EnoughIds DEF EnoughIds
  <2>2. [c \in up |-> f[c]] \in Ids
    BY <2>1
  <2> QED BY <2>2
<1>2. \A s \in Sid : Of(s) # {} => Mine(s) \in up /\ sid[Mine(s)] = s
  OBVIOUS
<1>3. PICK at \in [Call -> Node] :
         /\ \A c \in Call : Peer[c] # None => at[c] = at[Peer[c]]
         /\ sessionToNode = [s \in Sid |-> IF Of(s) = {} THEN None
                                           ELSE at[Mine(s)]]
         /\ rtp = [s \in Sid |-> IF Of(s) = {} THEN None
                                 ELSE [node |-> at[Mine(s)],
                                       call |-> Mine(s)]]
         /\ used = {sid[c] : c \in up}
         /\ dlg = [c \in Call |->
                     IF c \in up THEN [state |-> "Confirmed", sid |-> sid[c]]
                                 ELSE [state |-> "none", sid |-> None]]
         /\ handle = [c \in Call |-> dlg[c].sid]
         /\ client = handle
         /\ bridge = [c \in Call |->
                        IF c \in up /\ Peer[c] \in up
                        THEN [state |-> "active",
                              media |-> <<at[c], sid[c], sid[Peer[c]]>>]
                        ELSE [state |-> "none", media |-> None]]
         /\ relay = {bridge[c].media : c \in Call} \ {None}
  BY DEF Init
<1> HIDE DEF sid, Of, Mine, up
<1>u. up \subseteq Call
  BY DEF up
<1>4. PoolTypes
  <2>1. sessionToNode \in [Sid -> Node \cup {None}]
    BY <1>2, <1>3, <1>u
  <2>2. rtp \in [Sid -> [node : Node, call : Call] \cup {None}]
    BY <1>2, <1>3, <1>u
  <2>3. used \subseteq Sid
    BY <1>1, <1>3
  <2>4. drainState \in [Node -> DrainState] /\ health \in [Node -> HealthRec]
    BY DEF Init, DrainState, HealthRec
  <2>5. calm \in 0..MaxDisruptions
    BY Thresholds DEF Init, Thresholds
  <2> QED BY <2>1, <2>2, <2>3, <2>4, <2>5 DEF PoolTypes
<1>5. dlg \in [Call -> DlgRec]
  BY <1>1, <1>3 DEF DlgRec
<1>6. handle \in [Call -> Sid \cup {None}] /\ client = handle
  BY <1>3, <1>5 DEF DlgRec
<1>7. bridge \in [Call -> BridgeRec]
  <2> SUFFICES ASSUME NEW c \in Call PROVE bridge[c] \in BridgeRec
    BY <1>3
  <2>1. CASE c \in up /\ Peer[c] \in up
    <3>1. <<at[c], sid[c], sid[Peer[c]]>> \in Node \X Sid \X Sid
      BY <1>1, <1>u, <2>1
    <3> QED BY <1>3, <2>1, <3>1 DEF BridgeRec
  <2>2. CASE ~(c \in up /\ Peer[c] \in up)
    BY <1>3, <2>2 DEF BridgeRec
  <2> QED BY <2>1, <2>2
<1>8. relay \subseteq Node \X Sid \X Sid
  BY <1>3, <1>7 DEF BridgeRec
<1>9. CallTypes
  BY <1>5, <1>6, <1>7, <1>8 DEF Init, CallTypes
<1>10. Idle \in MigRec /\ NoOp \in OpRec
  BY DEF Idle, NoOp, MigRec, OpRec, MigPC, OpPC
<1>11. DrainTypes
  BY <1>10 DEF Init, DrainTypes
<1>12. Migs /\ Ops
  BY DEF Init, Migs, Ops, Legs, Idle, NoOp, Unstarted, Placed
<1>13. Handles
  BY <1>1, <1>3 DEF Handles
<1> QED BY <1>4, <1>9, <1>11, <1>12, <1>13 DEF Shape

-----------------------------------------------------------------------------
(* Calls *)

LEMMA PoolSame == PoolTypes /\ UNCHANGED poolVars => PoolTypes'
BY DEF PoolTypes, poolVars

LEMMA CallSame == CallTypes /\ Handles /\ UNCHANGED callVars => CallTypes' /\ Handles'
BY DEF CallTypes, Handles, callVars

LEMMA DrainSame ==
    DrainTypes /\ Migs /\ Ops /\ UNCHANGED drainVars => DrainTypes' /\ Migs' /\ Ops'
BY DEF DrainTypes, Migs, Ops, drainVars

LEMMA DisruptionTypes ==
    ASSUME PoolTypes, Disruption PROVE calm' \in 0..MaxDisruptions
BY Thresholds DEF PoolTypes, Disruption, Thresholds

LEMMA DestroyTypes ==
    ASSUME PoolTypes, NEW s, NEW b, DestroySession(s, b)
    PROVE  /\ sessionToNode' \in [Sid -> Node \cup {None}]
           /\ rtp' \in [Sid -> [node : Node, call : Call] \cup {None}]
           /\ calm' \in 0..MaxDisruptions
<1>1. Disruption \/ UNCHANGED calm
  BY DEF DestroySession
<1>2. calm' \in 0..MaxDisruptions
  BY <1>1, DisruptionTypes DEF PoolTypes
<1> QED BY <1>2 DEF PoolTypes, DestroySession, UntrackSession

\* A step that may use up a disruption and changes nothing else of the pool.
LEMMA PoolCalmed ==
    ASSUME PoolTypes, Disruption \/ UNCHANGED calm,
           UNCHANGED <<drainState, health, sessionToNode, rtp, used>>
    PROVE  PoolTypes'
BY DisruptionTypes DEF PoolTypes

LEMMA CountType == \A x \in Nat : \A t : Count(x, t) \in Nat
BY DEF Count

LEMMA CreateFailedTypes ==
    ASSUME PoolTypes, NEW n \in Node, CreateFailed(n)
    PROVE  health' \in [Node -> HealthRec]
<1>1. health[n] \in HealthRec
  BY DEF PoolTypes
<1>2. Count(health[n].count, UnhealthyThreshold) \in Nat
  BY <1>1, CountType DEF HealthRec
<1> QED BY <1>1, <1>2 DEF PoolTypes, CreateFailed, HealthRec

LEMMA ShapeCalls ==
    ASSUME Shape, CallNext
    PROVE  Shape'
<1> USE DEF Shape
<1>1. ASSUME NEW c \in Call, SelectMember(c) PROVE Shape'
  <2>1. picked' \in [Call -> Node \cup {None}]
    BY <1>1 DEF SelectMember, CallTypes
  <2> QED BY <1>1, <2>1, PoolSame, DrainSame DEF SelectMember, CallTypes, Handles
<1>2. ASSUME NEW c \in Call, CreateSession(c) PROVE Shape'
  <2>1. PICK s \in Sid :
         /\ used' = used \cup {s}
         /\ rtp' = [rtp EXCEPT ![s] = [node |-> picked[c], call |-> c]]
         /\ sessionToNode' = [sessionToNode EXCEPT ![s] = picked[c]]
         /\ handle' = [handle EXCEPT ![c] = s]
         /\ IF c \in BLegs THEN UNCHANGED <<dlg, client>>
            ELSE /\ dlg' = [dlg EXCEPT ![c] = [state |-> "Early", sid |-> s]]
                 /\ client' = [client EXCEPT ![c] = s]
    BY <1>2 DEF CreateSession, TrackSession
  <2>2. picked[c] \in Node
    BY <1>2 DEF CreateSession, CallTypes
  <2>3. PoolTypes'
    BY <1>2, <2>1, <2>2 DEF CreateSession, PoolTypes
  <2>4. dlg' \in [Call -> DlgRec] /\ client' \in [Call -> Sid \cup {None}]
    <3>1. [state |-> "Early", sid |-> s] \in DlgRec
      BY DEF DlgRec
    <3> QED BY <2>1, <3>1 DEF CallTypes
  <2>5. /\ handle' \in [Call -> Sid \cup {None}]
        /\ picked' \in [Call -> Node \cup {None}]
    BY <1>2, <2>1 DEF CreateSession, CallTypes
  <2>6. CallTypes'
    BY <1>2, <2>4, <2>5 DEF CreateSession, CallTypes
  <2>7. Handles'
    BY <2>1 DEF CallTypes, Handles
  <2> QED BY <1>2, <2>3, <2>6, <2>7, DrainSame DEF CreateSession
<1>3. ASSUME NEW c \in Call, CreateSessionFails(c) PROVE Shape'
  <2>1. picked[c] \in Node
    BY <1>3, Thresholds DEF CreateSessionFails, Thresholds
  <2>2. PoolTypes'
    BY <1>3, <2>1, CreateFailedTypes, DisruptionTypes
       DEF CreateSessionFails, PoolTypes
  <2> QED BY <1>3, <2>2, DrainSame DEF CreateSessionFails, CallTypes, Handles
<1>4. ASSUME NEW c \in Call, Confirm(c) PROVE Shape'
  <2>1. dlg' \in [Call -> DlgRec] /\ Handles'
    BY <1>4 DEF Confirm, CallTypes, DlgRec, Handles
  <2> QED BY <1>4, <2>1, PoolSame, DrainSame DEF Confirm, CallTypes
<1>5. ASSUME NEW c \in Call, Handle2xx(c) PROVE Shape'
  <2>1. handle[c] \in Sid
    BY <1>5 DEF Handle2xx, Ringing, CallTypes
  <2>2. /\ dlg' \in [Call -> DlgRec] /\ Handles'
        /\ client' \in [Call -> Sid \cup {None}]
    BY <1>5, <2>1 DEF Handle2xx, CallTypes, DlgRec, Handles
  <2> QED BY <1>5, <2>2, PoolSame, DrainSame DEF Handle2xx, CallTypes
<1>6. ASSUME NEW c \in Call, Terminate(c) PROVE Shape'
  <2>1. dlg' \in [Call -> DlgRec] /\ Handles' /\ cbs' \subseteq Call
    BY <1>6 DEF Terminate, CallTypes, DlgRec, Handles
  <2> QED BY <1>6, <2>1, PoolSame, DrainSame DEF Terminate, CallTypes
<1>7. ASSUME NEW c \in Call, OnTerminated(c) PROVE Shape'
  <2>1. PoolTypes'
    BY <1>7, DestroyTypes DEF OnTerminated, PoolTypes
  <2> QED BY <1>7, <2>1, DrainSame DEF OnTerminated, CallTypes, Handles
<1>8. ASSUME NEW c \in Call, DialFails(c) PROVE Shape'
  <2>1. PoolTypes'
    BY <1>8, DestroyTypes DEF DialFails, PoolTypes
  <2>2. dlg' \in [Call -> DlgRec] /\ Handles'
    BY <1>8 DEF DialFails, CallTypes, DlgRec, Handles
  <2> QED BY <1>8, <2>1, <2>2, DrainSame DEF DialFails, CallTypes
<1>9. ASSUME NEW c \in Call, StartBridge(c) PROVE Shape'
  <2> DEFINE media == <<sessionToNode[handle[c]], handle[c], handle[Peer[c]]>>
  <2>1. Peer[c] \in Call
    BY <1>9, PeerType DEF StartBridge, PeerType
  <2>2. handle[c] \in Sid /\ handle[Peer[c]] \in Sid
    BY <1>9, <2>1 DEF StartBridge, Handles
  <2>3. SameNode(handle[c], handle[Peer[c]]) => media \in Node \X Sid \X Sid
    BY <2>2 DEF SameNode, PoolTypes
  <2> HIDE DEF media
  <2>4. \/ /\ media \in Node \X Sid \X Sid
           /\ relay' = relay \cup {media}
           /\ \E x \in {"active", "missed"} :
                bridge' = [bridge EXCEPT ![c] = [state |-> x, media |-> media]]
        \/ relay' = relay /\ bridge' = [bridge EXCEPT ![c].state = "stopped"]
    BY <1>9, <2>3 DEF StartBridge, media
  <2>5. bridge' \in [Call -> BridgeRec] /\ relay' \subseteq Node \X Sid \X Sid
    BY <2>4, SMTT(40) DEF CallTypes, BridgeRec
  <2>6. stranded' \subseteq Call
    BY <1>9 DEF StartBridge, DrainTypes
  <2>7. CallTypes' /\ Handles'
    BY <1>9, <2>5 DEF StartBridge, CallTypes, Handles
  <2>8. DrainTypes' /\ Migs' /\ Ops'
    BY <1>9, <2>6 DEF StartBridge, DrainTypes, Migs, Ops
  <2>9. PoolTypes'
    BY <1>9, PoolCalmed DEF StartBridge
  <2> QED BY <2>7, <2>8, <2>9
<1>10. ASSUME NEW c \in Call, StopBridge(c) PROVE Shape'
  <2>1. bridge' \in [Call -> BridgeRec] /\ relay' \subseteq Node \X Sid \X Sid
    BY <1>10 DEF StopBridge, CallTypes, BridgeRec
  <2>2. PoolTypes'
    BY <1>10, PoolCalmed DEF StopBridge
  <2> QED BY <1>10, <2>1, <2>2, DrainSame DEF StopBridge, CallTypes, Handles
<1> QED BY <1>1, <1>2, <1>3, <1>4, <1>5, <1>6, <1>7, <1>8, <1>9, <1>10
        DEF CallNext

-----------------------------------------------------------------------------
(* Drain operations and health checks *)

\* The record of a migration that only goes on to another step.
LEMMA GoFacts ==
    ASSUME NEW m \in MigRec, Legs(m),
           NEW p \in {"queued", "lookup", "skipped", "done", "answer"},
           \/ m.pc \in Unstarted /\ p # "answer"
           \/ m.pc \in Placed /\ p \in {"done", "answer"}
    PROVE  [m EXCEPT !.pc = p] \in MigRec /\ Legs([m EXCEPT !.pc = p])
<1> DEFINE n == [m EXCEPT !.pc = p]
<1>1. n \in MigRec
  BY DEF MigRec, MigPC
<1>2. n.pc = p /\ n.new = m.new /\ n.k = m.k /\ n.legs = m.legs
  BY DEF MigRec
<1> HIDE DEF n
<1>3. Legs(n)
  BY <1>2 DEF Legs, Unstarted, Placed
<1> QED BY <1>1, <1>3 DEF n

LEMMA IdleFacts == Idle \in MigRec /\ Legs(Idle) /\ Idle.pc = "none"
BY DEF Idle, MigRec, MigPC, Legs, Unstarted, Placed

LEMMA ShapeOps ==
    ASSUME Shape, NEW d \in DrainOp,
           (\E n \in Node : StartDrain(d, n)) \/ OpStep(d) \/ Timeout(d)
    PROVE  Shape'
<1> USE DEF Shape
<1>0. op[d] \in OpRec
  BY DEF DrainTypes
<1>1. ASSUME NEW n \in Node, StartDrain(d, n) PROVE Shape'
  <2> DEFINE o == [NoOp EXCEPT !.pc = "start", !.node = n,
                               !.snap = SessionsOnNode(n)]
  <2>1. /\ o \in OpRec /\ o.pc = "start" /\ o.node = n /\ o.target = None
    BY DEF NoOp, OpRec, OpPC, SessionsOnNode
  <2>2. op' = [op EXCEPT ![d] = o]
    BY <1>1 DEF StartDrain
  <2> HIDE DEF o
  <2>3. op' \in [DrainOp -> OpRec] /\ op'[d] = o /\ \A e \in DrainOp \ {d} : op'[e] = op[e]
    BY <2>1, <2>2 DEF DrainTypes
  <2>4. PoolTypes'
    BY <1>1, DisruptionTypes DEF StartDrain, MarkDraining, PoolTypes, DrainState
  <2>5. DrainTypes'
    BY <1>1, <2>3 DEF StartDrain, DrainTypes
  <2>6. Ops'
    BY <2>1, <2>3 DEF Ops
  <2>7. \A s \in Sid : mig[d][s].pc = "none"
    BY <1>1 DEF StartDrain, Migs
  <2>8. Migs'
    BY <1>1, <2>3, <2>7 DEF StartDrain, Migs
  <2> QED BY <1>1, <2>4, <2>5, <2>6, <2>8, CallSame DEF StartDrain
<1>2. ASSUME NEW p \in OpPC \ {"new", "start"},
             op[d].pc \notin {"new", "start"} \/ op[d].snap = {},
             op[d].pc # "new",
             op' = [op EXCEPT ![d].pc = p], UNCHANGED <<activeDrains, mig, stranded>>
      PROVE  DrainTypes' /\ Migs' /\ Ops'
  <2>1. /\ op' \in [DrainOp -> OpRec] /\ \A e \in DrainOp \ {d} : op'[e] = op[e]
        /\ op'[d].pc = p /\ op'[d].node = op[d].node /\ op'[d].snap = op[d].snap
        /\ op'[d].target = op[d].target /\ op'[d].failed = op[d].failed
    BY <1>0, <1>2 DEF DrainTypes, OpRec
  <2> QED BY <1>2, <2>1 DEF DrainTypes, Migs, Ops
<1>3. CASE NoSessions(d) \/ Wait(d) \/ CompleteDrain(d)
  <2>1. DrainTypes' /\ Migs' /\ Ops'
    BY <1>2, <1>3 DEF NoSessions, Wait, CompleteDrain, OpPC
  <2> QED BY <1>3, <2>1, PoolSame, CallSame DEF NoSessions, Wait, CompleteDrain
<1>4. CASE Disable(d)
  <2>1. DrainTypes' /\ Migs' /\ Ops'
    BY <1>2, <1>4 DEF Disable, OpPC
  <2>2. PoolTypes'
    BY <1>4 DEF Disable, PoolTypes, DrainState
  <2> QED BY <1>4, <2>1, <2>2, CallSame DEF Disable
<1>5. CASE Migrate(d)
  <2> DEFINE M == [s \in Sid |-> IF s \in op[d].snap
                                 THEN [Idle EXCEPT !.pc = "queued"] ELSE Idle]
  <2>1. PICK t \in Node \ {op[d].node} :
           op' = [op EXCEPT ![d].pc = "migrating", ![d].target = t]
    BY <1>5 DEF Migrate
  <2>2. /\ op' \in [DrainOp -> OpRec] /\ \A e \in DrainOp \ {d} : op'[e] = op[e]
        /\ op'[d].pc = "migrating" /\ op'[d].node = op[d].node
        /\ op'[d].target = t
    BY <1>0, <2>1 DEF DrainTypes, OpRec, OpPC
  <2>3. /\ M \in [Sid -> MigRec]
        /\ \A s \in Sid : Legs(M[s])
    <3>1. /\ [Idle EXCEPT !.pc = "queued"] \in MigRec
          /\ Legs([Idle EXCEPT !.pc = "queued"])
      BY IdleFacts, GoFacts DEF Unstarted
    <3> QED BY <3>1, IdleFacts
  <2>4. mig' = [mig EXCEPT ![d] = M]
    BY <1>5 DEF Migrate
  <2> HIDE DEF M
  <2>5. mig' \in [DrainOp -> [Sid -> MigRec]] /\ mig'[d] = M
        /\ \A e \in DrainOp \ {d} : mig'[e] = mig[e]
    BY <2>3, <2>4 DEF DrainTypes
  <2>6. DrainTypes'
    BY <1>5, <2>2, <2>5 DEF Migrate, DrainTypes
  <2>7. Migs'
    BY <2>2, <2>3, <2>5 DEF Migs
  <2>8. Ops'
    BY <1>5, <2>2 DEF Migrate, Ops
  <2> QED BY <1>5, <2>6, <2>7, <2>8, PoolSame, CallSame DEF Migrate
<1>6. CASE FailDrain(d)
  <2>1. op' = [op EXCEPT ![d].pc = "done", ![d].failed = TRUE]
    BY <1>6 DEF FailDrain
  <2>2. /\ op' \in [DrainOp -> OpRec] /\ \A e \in DrainOp \ {d} : op'[e] = op[e]
        /\ op'[d].pc = "done" /\ op'[d].node = op[d].node
        /\ op'[d].target = op[d].target /\ op'[d].failed
    BY <1>0, <2>1 DEF DrainTypes, OpRec, OpPC
  <2>3. PoolTypes'
    BY <1>6 DEF FailDrain, MarkActive, PoolTypes, DrainState
  <2>4. DrainTypes'
    BY <1>6, <2>2 DEF FailDrain, DrainTypes
  <2>5. Migs' /\ Ops'
    BY <1>6, <2>2 DEF FailDrain, Migs, Ops
  <2> QED BY <1>6, <2>3, <2>4, <2>5, CallSame DEF FailDrain
<1>7. CASE Timeout(d)
  <2>1. op' = [op EXCEPT ![d].cancelled = TRUE]
    BY <1>7 DEF Timeout
  <2>2. /\ op' \in [DrainOp -> OpRec] /\ \A e \in DrainOp \ {d} : op'[e] = op[e]
        /\ op'[d].pc = op[d].pc /\ op'[d].node = op[d].node
        /\ op'[d].snap = op[d].snap
        /\ op'[d].target = op[d].target /\ op'[d].failed = op[d].failed
    BY <1>0, <2>1 DEF DrainTypes, OpRec
  <2>3. PoolTypes'
    BY <1>7, DisruptionTypes DEF Timeout, PoolTypes
  <2>4. DrainTypes' /\ Migs' /\ Ops'
    BY <1>7, <2>2 DEF Timeout, DrainTypes, Migs, Ops
  <2> QED BY <1>7, <2>3, <2>4, CallSame DEF Timeout
<1> QED BY <1>1, <1>3, <1>4, <1>5, <1>6, <1>7 DEF OpStep

LEMMA ShapeNodes ==
    ASSUME Shape, NEW n \in Node, CancelDrain(n) \/ CheckHealth(n)
    PROVE  Shape'
<1> USE DEF Shape
<1>1. CASE CancelDrain(n)
  <2> DEFINE d == activeDrains[n]
  <2>1. d \in DrainOp /\ op' = [op EXCEPT ![d].cancelled = TRUE]
    BY <1>1 DEF CancelDrain, DrainTypes
  <2> HIDE DEF d
  <2>2. /\ op' \in [DrainOp -> OpRec] /\ \A e \in DrainOp \ {d} : op'[e] = op[e]
        /\ op'[d].pc = op[d].pc /\ op'[d].node = op[d].node
        /\ op'[d].snap = op[d].snap
        /\ op'[d].target = op[d].target /\ op'[d].failed = op[d].failed
    <3>1. op[d] \in OpRec
      BY <2>1 DEF DrainTypes
    <3> QED BY <2>1, <3>1 DEF DrainTypes, OpRec
  <2>3. PoolTypes'
    BY <1>1, DisruptionTypes DEF CancelDrain, MarkActive, PoolTypes, DrainState
  <2>4. DrainTypes'
    BY <1>1, <2>2 DEF CancelDrain, DrainTypes
  <2>5. Migs' /\ Ops'
    BY <1>1, <2>2 DEF CancelDrain, Migs, Ops
  <2> QED BY <1>1, <2>3, <2>4, <2>5, CallSame DEF CancelDrain
<1>2. CASE CheckHealth(n)
  <2>1. health[n] \in HealthRec
    BY DEF PoolTypes
  <2>2. \A t : [health[n] EXCEPT !.count = Count(health[n].count, t)] \in HealthRec
    <3>1. \A t : Count(health[n].count, t) \in Nat
      BY <2>1, CountType DEF HealthRec
    <3> QED BY <2>1, <3>1 DEF HealthRec
  <2>3. \A b \in BOOLEAN : [healthy |-> b, count |-> 0] \in HealthRec
    BY DEF HealthRec
  <2>4. calm' \in 0..MaxDisruptions
    BY <1>2, DisruptionTypes DEF CheckHealth, PoolTypes
  <2>5. PICK h \in HealthRec : health' = [health EXCEPT ![n] = h]
    <3>1. CASE UNCHANGED calm /\ health' = [health EXCEPT ![n] =
                IF health[n].healthy \/ health[n].count + 1 >= HealthyThreshold
                THEN [healthy |-> TRUE, count |-> 0]
                ELSE [health[n] EXCEPT !.count =
                         Count(health[n].count, HealthyThreshold)]]
      BY <2>2, <2>3, <3>1
    <3>2. CASE health' = [health EXCEPT ![n] =
                IF ~health[n].healthy \/ health[n].count + 1 >= UnhealthyThreshold
                THEN [healthy |-> FALSE, count |-> 0]
                ELSE [health[n] EXCEPT !.count =
                         Count(health[n].count, UnhealthyThreshold)]]
      BY <2>2, <2>3, <3>2
    <3> QED BY <1>2, <3>1, <3>2 DEF CheckHealth
  <2>6. PoolTypes'
    BY <1>2, <2>4, <2>5 DEF CheckHealth, PoolTypes
  <2> QED BY <1>2, <2>6, CallSame, DrainSame DEF CheckHealth
<1> QED BY <1>1, <1>2

-----------------------------------------------------------------------------
(* Migrations *)

LEMMA MigUpdate ==
    ASSUME mig \in [DrainOp -> [Sid -> MigRec]],
           NEW d \in DrainOp, NEW s \in Sid, NEW m \in MigRec,
           mig' = [mig EXCEPT ![d][s] = m]
    PROVE  /\ mig' \in [DrainOp -> [Sid -> MigRec]]
           /\ mig'[d][s] = m
           /\ \A e \in DrainOp, r \in Sid : e # d \/ r # s =>
                 mig'[e][r] = mig[e][r]
OBVIOUS

\* Fails(d) touches nothing else of an operation.
LEMMA FailsFacts ==
    ASSUME DrainTypes, NEW d \in DrainOp, Fails(d) \/ UNCHANGED op
    PROVE  /\ op' \in [DrainOp -> OpRec]
           /\ \A e \in DrainOp :
                 /\ op'[e].pc = op[e].pc /\ op'[e].node = op[e].node
                 /\ op'[e].target = op[e].target /\ op'[e].snap = op[e].snap
                 /\ op'[e].cancelled = op[e].cancelled
                 /\ op[e].failed => op'[e].failed
<1>1. \A e \in DrainOp : op[e] \in OpRec
  BY DEF DrainTypes
<1>2. CASE UNCHANGED op
  BY <1>2 DEF DrainTypes
<1>3. CASE Fails(d)
  <2>1. /\ op'[d] = [op[d] EXCEPT !.failed = TRUE]
        /\ \A e \in DrainOp \ {d} : op'[e] = op[e]
    BY <1>3 DEF Fails, DrainTypes
  <2>2. /\ op'[d] \in OpRec
        /\ op'[d].pc = op[d].pc /\ op'[d].node = op[d].node
        /\ op'[d].target = op[d].target /\ op'[d].snap = op[d].snap
        /\ op'[d].cancelled = op[d].cancelled /\ op'[d].failed
    BY <1>1, <2>1 DEF OpRec
  <2>3. op' \in [DrainOp -> OpRec]
    BY <1>3, <2>1, <2>2 DEF Fails, DrainTypes
  <2> QED BY <2>1, <2>2, <2>3
<1> QED BY <1>2, <1>3

\* What a step of a migration shows of the migration: m is its next record.
LEMMA MigShape ==
    ASSUME DrainTypes, Migs, Ops, NEW d \in DrainOp, NEW s \in Sid,
           mig[d][s].pc # "none", NEW m \in MigRec, Legs(m),
           mig' = [mig EXCEPT ![d][s] = m], Fails(d) \/ UNCHANGED op,
           UNCHANGED activeDrains, stranded' \subseteq Call
    PROVE  DrainTypes' /\ Migs' /\ Ops'
<1>1. mig \in [DrainOp -> [Sid -> MigRec]]
  BY DEF DrainTypes
<1>2. DrainTypes'
  BY <1>1, FailsFacts, MigUpdate DEF DrainTypes
<1>3. Ops'
  BY FailsFacts DEF Ops
<1>4. Migs'
  BY <1>1, FailsFacts, MigUpdate DEF Migs
<1> QED BY <1>2, <1>3, <1>4

LEMMA NextLegFacts ==
    ASSUME DrainTypes, Migs, NEW d \in DrainOp, NEW s \in Sid,
           mig[d][s].pc \in {"rollback", "destroy", "update"},
           NEW p \in {"done", "update", "bridge"},
           p = "bridge" => Len(mig[d][s].legs) = 2,
           NextLeg(d, s, p)
    PROVE  \E m \in MigRec : Legs(m) /\ mig' = [mig EXCEPT ![d][s] = m]
<1> DEFINE m == mig[d][s]
           x == [m EXCEPT !.k = m.k + 1]
           y == [m EXCEPT !.k = 1, !.pc = p]
<1>1. m \in MigRec /\ Legs(m)
  BY DEF DrainTypes, Migs
<1>2. m.legs \in Seq(Call) /\ Len(m.legs) \in Nat /\ m.k \in Nat
  BY <1>1 DEF MigRec
<1>3. x \in MigRec /\ x.pc = m.pc /\ x.legs = m.legs /\ x.new = m.new /\ x.k = m.k + 1
  BY <1>1 DEF MigRec
<1>4. y \in MigRec /\ y.pc = p /\ y.legs = m.legs /\ y.new = m.new /\ y.k = 1
  BY <1>1 DEF MigRec, MigPC
<1>5. mig' = [mig EXCEPT ![d][s] = IF m.k < Len(m.legs) THEN x ELSE y]
  BY DEF NextLeg
<1> HIDE DEF x, y
<1>6. m.k < Len(m.legs) => Legs(x)
  BY <1>1, <1>2, <1>3 DEF Legs, Unstarted, Placed
<1>7. Legs(y)
  BY <1>1, <1>2, <1>4 DEF Legs, Unstarted, Placed
<1> QED BY <1>3, <1>4, <1>5, <1>6, <1>7

LEMMA AnsweredFacts ==
    ASSUME DrainTypes, Migs, NEW d \in DrainOp, NEW s \in Sid,
           mig[d][s].pc \in {"invite", "answer"}, NEW b \in BOOLEAN,
           Answered(d, s, b)
    PROVE  \E m \in MigRec : Legs(m) /\ mig' = [mig EXCEPT ![d][s] = m]
<1>1. PICK m \in MigRec : m = mig[d][s] /\ Legs(m)
  BY DEF DrainTypes, Migs
<1>2. PICK a \in BOOLEAN : a = (m.ok /\ b)
  OBVIOUS
<1>3. PICK p \in {"destroy", "rollback"} : p = IF m.ok /\ b THEN "destroy" ELSE "rollback"
  OBVIOUS
<1>4. m.legs \in Seq(Call) /\ Len(m.legs) \in Nat /\ m.k \in Nat
  BY DEF MigRec
<1>5. PICK x : x = [m EXCEPT !.k = m.k + 1, !.ok = a, !.pc = "invite"]
  OBVIOUS
<1>6. PICK y : y = [m EXCEPT !.k = 1, !.ok = a, !.pc = p]
  OBVIOUS
<1>7. x \in MigRec /\ x.pc = "invite" /\ x.legs = m.legs /\ x.new = m.new /\ x.k = m.k + 1
  <2>1. m.k + 1 \in Nat /\ "invite" \in MigPC
    BY <1>4 DEF MigPC
  <2> QED BY <1>5, <2>1 DEF MigRec
<1>8. y \in MigRec /\ y.pc = p /\ y.legs = m.legs /\ y.new = m.new /\ y.k = 1
  <2>1. p \in MigPC
    BY DEF MigPC
  <2> QED BY <1>6, <2>1 DEF MigRec
<1>9. mig' = [mig EXCEPT ![d][s] = IF m.k < Len(m.legs) THEN x ELSE y]
  BY <1>1, <1>2, <1>3, <1>5, <1>6 DEF Answered
<1>10. m.k < Len(m.legs) => Legs(x)
  BY <1>1, <1>4, <1>7 DEF Legs, Unstarted, Placed
<1>11. Legs(y)
  BY <1>1, <1>4, <1>8 DEF Legs, Unstarted, Placed
<1> QED BY <1>7, <1>8, <1>9, <1>10, <1>11

LEMMA FunctionIsSeq ==
    ASSUME NEW n \in Nat, NEW S, NEW f \in [1..n -> S] PROVE f \in Seq(S)
BY SeqDef

LEMMA ShapeMigs ==
    ASSUME Shape, NEW d \in DrainOp, NEW s \in Sid, MigStep(d, s)
    PROVE  Shape'
<1> USE DEF Shape
<1>0. PICK m \in MigRec : m = mig[d][s] /\ Legs(m)
  BY DEF DrainTypes, Migs
<1>1. ASSUME NEW x \in MigRec, Legs(x), m.pc # "none",
             mig' = [mig EXCEPT ![d][s] = x], Fails(d) \/ UNCHANGED op,
             UNCHANGED activeDrains, stranded' \subseteq Call
      PROVE  DrainTypes' /\ Migs' /\ Ops'
  BY <1>0, <1>1, MigShape
<1>2. ASSUME NEW p \in {"lookup", "skipped", "done", "answer"}, Go(d, s, p),
             m.pc # "none",
             \/ m.pc \in Unstarted /\ p # "answer"
             \/ m.pc \in Placed /\ p \in {"done", "answer"},
             Fails(d) \/ UNCHANGED op,
             UNCHANGED activeDrains, stranded' \subseteq Call
      PROVE  DrainTypes' /\ Migs' /\ Ops'
  <2>1. [m EXCEPT !.pc = p] \in MigRec /\ Legs([m EXCEPT !.pc = p])
    BY <1>0, <1>2, GoFacts
  <2>2. mig' = [mig EXCEPT ![d][s] = [m EXCEPT !.pc = p]]
    BY <1>0, <1>2 DEF Go
  <2> QED BY <1>1, <1>2, <2>1, <2>2
<1>3. m.legs \in Seq(Call) /\ m.new \in Seq(Sid) /\ m.k \in Nat
  BY DEF MigRec
<1>4. m.pc \in Placed \cup {"create"} => m.legs[m.k] \in Call
  BY <1>0, <1>3 DEF Legs
<1>5. m.pc \in Placed => m.new[m.k] \in Sid
  BY <1>0, <1>3 DEF Legs
<1>6. stranded \subseteq Call
  BY DEF DrainTypes
<1>7. CASE Acquire(d, s)
  <2>1. DrainTypes' /\ Migs' /\ Ops'
    BY <1>0, <1>2, <1>6, <1>7 DEF Acquire, Unstarted
  <2> QED BY <1>7, <2>1, PoolSame, CallSame DEF Acquire
<1>8. CASE Lookup(d, s)
  <2>0. m.pc = "lookup" /\ UNCHANGED activeDrains /\ UNCHANGED stranded
    BY <1>0, <1>8 DEF Lookup
  <2>1. ASSUME (Go(d, s, "done") /\ Fails(d)) \/ (Go(d, s, "skipped") /\ UNCHANGED op)
        PROVE  DrainTypes' /\ Migs' /\ Ops'
    BY <1>2, <1>6, <2>0, <2>1 DEF Unstarted
  <2>3. ASSUME NEW c \in Call, NEW legs, legs = <<c>> \/ legs = <<c, Peer[c]>>,
               Len(legs) = 2 => Peer[c] # None, UNCHANGED op,
               mig' = [mig EXCEPT ![d][s] =
                       [mig[d][s] EXCEPT !.pc = "create", !.legs = legs,
                          !.old = [i \in 1..Len(legs) |-> dlg[legs[i]].sid]]]
        PROVE  DrainTypes' /\ Migs' /\ Ops'
    <3>1. legs \in Seq(Call) /\ Len(legs) \in {1, 2}
      <4>1. CASE legs = <<c>>
        BY <4>1
      <4>2. CASE legs = <<c, Peer[c]>>
        <5>1. Peer[c] \in Call
          BY <2>3, <4>2, PeerType DEF PeerType
        <5> QED BY <4>2, <5>1
      <4> QED BY <2>3, <4>1, <4>2
    <3>2. PICK old \in Seq(Sid \cup {None}) :
             old = [i \in 1..Len(legs) |-> dlg[legs[i]].sid]
      <4>1. \A i \in 1..Len(legs) : dlg[legs[i]].sid \in Sid \cup {None}
        BY <3>1 DEF CallTypes, DlgRec
      <4>2. [i \in 1..Len(legs) |-> dlg[legs[i]].sid]
               \in [1..Len(legs) -> Sid \cup {None}]
        BY <4>1
      <4>3. Len(legs) \in Nat
        BY <3>1
      <4> QED BY <4>2, <4>3, FunctionIsSeq
    <3>3. PICK x : x = [m EXCEPT !.pc = "create", !.legs = legs, !.old = old]
      OBVIOUS
    <3>4. x \in MigRec /\ x.pc = "create" /\ x.legs = legs /\ x.new = m.new /\ x.k = m.k
      BY <3>1, <3>3 DEF MigRec, MigPC
    <3>5. Len(m.new) = 0 /\ m.k = 1
      BY <1>0, <2>0 DEF Legs, Unstarted
    <3>6. Legs(x)
      <4>1. x.k = 1 /\ Len(x.legs) = Len(legs) /\ Len(x.new) = 0
        BY <3>4, <3>5
      <4>2. 1 \in 1..Len(legs) /\ Len(legs) <= 2 /\ 0 = 1 - 1
        <5>1. CASE Len(legs) = 1
          BY <5>1
        <5>2. CASE Len(legs) = 2
          BY <5>2
        <5> QED BY <3>1, <5>1, <5>2
      <4> QED BY <3>4, <4>1, <4>2 DEF Legs, Unstarted, Placed
    <3>7. mig' = [mig EXCEPT ![d][s] = x]
      BY <1>0, <2>3, <3>2, <3>3
    <3> QED BY <1>1, <1>6, <2>0, <2>3, <3>4, <3>6, <3>7
  <2>4. DrainTypes' /\ Migs' /\ Ops'
    BY <1>8, <2>1, <2>3 DEF Lookup
  <2> QED BY <1>8, <2>4, PoolSame, CallSame DEF Lookup
<1>9. CASE CreateSessionOnNode(d, s)
  <2>0. /\ m.pc = "create" /\ UNCHANGED <<drainState, callVars, activeDrains, stranded>>
    BY <1>0, <1>9 DEF CreateSessionOnNode
  <2>1. m.legs[m.k] \in Call /\ op[d].target \in Node
    BY <1>0, <1>4, <2>0 DEF Migs
  <2>2. m.k \in 1..Len(m.legs) /\ Len(m.legs) \in Nat /\ Len(m.new) = m.k - 1
    BY <1>0, <1>3, <2>0 DEF Legs
  <2>3. ASSUME \/ UNCHANGED <<health, calm>>
               \/ (UNCHANGED calm \/ Disruption) /\ CreateFailed(op[d].target),
               Fails(d),
               mig' = [mig EXCEPT ![d][s] =
                IF m.k = 1 THEN [m EXCEPT !.pc = "done"]
                ELSE [m EXCEPT !.pc = "rollback", !.k = 1,
                               !.legs = SubSeq(m.legs, 1, 1)]],
               UNCHANGED <<sessionToNode, rtp, used>>
        PROVE  Shape'
    <3>1. PoolTypes'
      BY <2>0, <2>1, <2>3, CreateFailedTypes, DisruptionTypes DEF PoolTypes
    <3>2. PICK x : x = [m EXCEPT !.pc = "done"]
      OBVIOUS
    <3>3. x \in MigRec /\ x.pc = "done"
      BY <3>2 DEF MigRec, MigPC
    <3>4. Legs(x)
      BY <3>3 DEF Legs, Unstarted, Placed
    <3>5. PICK y : y = [m EXCEPT !.pc = "rollback", !.k = 1,
                                 !.legs = SubSeq(m.legs, 1, 1)]
      OBVIOUS
    <3>6. SubSeq(m.legs, 1, 1) \in Seq(Call) /\ Len(SubSeq(m.legs, 1, 1)) = 1
      BY <1>3, <2>2, SubSeqProperties
    <3>7. /\ y \in MigRec /\ y.pc = "rollback" /\ y.k = 1
          /\ y.legs = SubSeq(m.legs, 1, 1) /\ y.new = m.new
      BY <3>5, <3>6 DEF MigRec, MigPC
    <3>8. m.k # 1 => Legs(y)
      <4>1. Len(m.legs) <= 2
        BY <1>0, <2>0 DEF Legs
      <4>2. m.k # 1 => Len(m.new) = 1
        BY <2>2, <4>1
      <4> QED BY <3>6, <3>7, <4>2 DEF Legs, Unstarted, Placed
    <3>9. DrainTypes' /\ Migs' /\ Ops'
      BY <1>1, <1>6, <2>0, <2>3, <3>2, <3>3, <3>4, <3>5, <3>7, <3>8
    <3> QED BY <2>0, <3>1, <3>9, CallSame
  <2>4. ASSUME NEW x \in Sid,
               used' = used \cup {x},
               rtp' = [rtp EXCEPT ![x] = [node |-> op[d].target,
                                          call |-> m.legs[m.k]]],
               TrackSession(x, op[d].target), UNCHANGED <<health, calm, op>>,
               mig' = [mig EXCEPT ![d][s] =
                     IF m.k < Len(m.legs)
                     THEN [m EXCEPT !.new = Append(m.new, x), !.k = m.k + 1]
                     ELSE [m EXCEPT !.new = Append(m.new, x), !.k = 1,
                                    !.pc = "invite"]]
        PROVE  Shape'
    <3>1. PoolTypes'
      BY <2>0, <2>1, <2>4 DEF PoolTypes, TrackSession
    <3>2. PICK new \in Seq(Sid) : new = Append(m.new, x) /\ Len(new) = Len(m.new) + 1
      <4>1. m.new \in Seq(Sid)
        BY <1>3
      <4>2. Append(m.new, x) \in Seq(Sid) /\ Len(Append(m.new, x)) = Len(m.new) + 1
        BY <4>1, AppendProperties
      <4> QED BY <4>2
    <3>3. PICK y : y = [m EXCEPT !.new = new, !.k = m.k + 1]
      OBVIOUS
    <3>4. /\ y \in MigRec /\ y.pc = "create" /\ y.k = m.k + 1
          /\ y.new = new /\ y.legs = m.legs
      <4>1. m.k + 1 \in Nat
        BY <1>3
      <4> QED BY <2>0, <3>3, <4>1 DEF MigRec
    <3>5. m.k < Len(m.legs) => Legs(y)
      <4>1. Len(m.legs) <= 2
        BY <1>0, <2>0 DEF Legs
      <4>2. m.k < Len(m.legs) => /\ m.k + 1 \in 1..Len(m.legs)
                                 /\ Len(new) = (m.k + 1) - 1
        BY <1>3, <2>2, <3>2
      <4> QED BY <3>4, <4>1, <4>2 DEF Legs, Unstarted, Placed
    <3>6. PICK z : z = [m EXCEPT !.new = new, !.k = 1, !.pc = "invite"]
      OBVIOUS
    <3>7. /\ z \in MigRec /\ z.pc = "invite" /\ z.k = 1
          /\ z.new = new /\ z.legs = m.legs
      BY <3>6 DEF MigRec, MigPC
    <3>8. ~(m.k < Len(m.legs)) => Legs(z)
      <4>1. Len(m.legs) <= 2
        BY <1>0, <2>0 DEF Legs
      <4>2. ~(m.k < Len(m.legs)) => 1 \in 1..Len(m.legs) /\ Len(new) = Len(m.legs)
        BY <1>3, <2>2, <3>2
      <4> QED BY <3>7, <4>1, <4>2 DEF Legs, Unstarted, Placed
    <3>9. mig' = [mig EXCEPT ![d][s] = IF m.k < Len(m.legs) THEN y ELSE z]
      BY <2>4, <3>2, <3>3, <3>6
    <3>10. DrainTypes' /\ Migs' /\ Ops'
      <4>1. CASE m.k < Len(m.legs)
        BY <1>1, <1>6, <2>0, <2>4, <3>4, <3>5, <3>9, <4>1
      <4>2. CASE ~(m.k < Len(m.legs))
        BY <1>1, <1>6, <2>0, <2>4, <3>7, <3>8, <3>9, <4>2
      <4> QED BY <4>1, <4>2
    <3> QED BY <2>0, <3>1, <3>10, CallSame
  <2>5. ~(Sid \ used = {} /\ Held(op[d].target, m.legs[m.k]) = {}) =>
          (IF Held(op[d].target, m.legs[m.k]) # {} THEN Held(op[d].target, m.legs[m.k])
           ELSE {CHOOSE y \in Sid \ used : TRUE}) \subseteq Sid
    BY DEF Held
  <2> QED BY <1>0, <1>9, <2>3, <2>4, <2>5 DEF CreateSessionOnNode
<1>10. CASE SendReINVITE(d, s)
  <2>0. /\ m.pc = "invite" /\ UNCHANGED <<poolVars, dlg, handle, client, cbs, picked,
                   relay, bridge, op, activeDrains, stranded>>
    BY <1>0, <1>10 DEF SendReINVITE
  <2>1. reInviteInProgress' \in [Call -> BOOLEAN]
    BY <1>10 DEF SendReINVITE, CallTypes
  <2>2. ASSUME Go(d, s, "answer") PROVE DrainTypes' /\ Migs' /\ Ops'
    BY <1>2, <1>6, <2>0, <2>2 DEF Placed
  <2>3. ASSUME Answered(d, s, FALSE) PROVE DrainTypes' /\ Migs' /\ Ops'
    BY <1>0, <1>1, <1>6, <2>0, <2>3, AnsweredFacts
  <2>4. DrainTypes' /\ Migs' /\ Ops'
    BY <1>10, <2>2, <2>3 DEF SendReINVITE
  <2> QED BY <2>0, <2>1, <2>4, PoolSame DEF CallTypes, Handles
<1>11. CASE Answer(d, s)
  <2>0. /\ m.pc = "answer" /\ UNCHANGED <<poolVars, dlg, handle, cbs, picked,
                   relay, bridge, op, activeDrains, stranded>>
    BY <1>0, <1>11 DEF Answer
  <2>1. m.new[m.k] \in Sid
    BY <1>5, <2>0 DEF Placed
  <2>2. /\ reInviteInProgress' \in [Call -> BOOLEAN]
        /\ client' \in [Call -> Sid \cup {None}]
    BY <1>0, <1>11, <2>1 DEF Answer, CallTypes
  <2>3. \E b \in BOOLEAN : Answered(d, s, b)
    BY <1>11 DEF Answer
  <2>4. DrainTypes' /\ Migs' /\ Ops'
    BY <1>0, <1>1, <1>6, <2>0, <2>3, AnsweredFacts
  <2> QED BY <2>0, <2>2, <2>4, PoolSame DEF CallTypes, Handles
<1>12. CASE Rollback(d, s)
  <2>0. /\ m.pc = "rollback" /\ NextLeg(d, s, "done") /\ Fails(d)
        /\ DestroySession(m.new[m.k], op[d].cancelled)
        /\ UNCHANGED <<drainState, health, used, dlg, handle, client,
                       reInviteInProgress, cbs, picked, relay, bridge, activeDrains>>
    BY <1>0, <1>12 DEF Rollback
  <2>1. m.legs[m.k] \in Call
    BY <1>4, <2>0 DEF Placed
  <2>2. stranded' \subseteq Call
    BY <1>0, <1>6, <1>12, <2>1 DEF Rollback
  <2>3. DrainTypes' /\ Migs' /\ Ops'
    BY <1>0, <1>1, <2>0, <2>2, NextLegFacts
  <2>4. PoolTypes'
    BY <2>0, DestroyTypes DEF PoolTypes
  <2> QED BY <2>0, <2>3, <2>4 DEF CallTypes, Handles
<1>13. CASE DestroyOld(d, s)
  <2>0. /\ m.pc = "destroy" /\ NextLeg(d, s, "update")
        /\ \E old : DestroySession(old, op[d].cancelled)
        /\ UNCHANGED <<drainState, health, used, dlg, handle, client,
                       reInviteInProgress, cbs, picked, relay, bridge, op,
                       activeDrains, stranded>>
    BY <1>0, <1>13 DEF DestroyOld
  <2>1. DrainTypes' /\ Migs' /\ Ops'
    BY <1>0, <1>1, <1>6, <2>0, NextLegFacts
  <2>2. PoolTypes'
    BY <2>0, DestroyTypes DEF PoolTypes
  <2> QED BY <2>0, <2>1, <2>2 DEF CallTypes, Handles
<1>14. CASE SetSessionID(d, s)
  <2>0. /\ m.pc = "update"
        /\ dlg' = [dlg EXCEPT ![m.legs[m.k]].sid = m.new[m.k]]
        /\ UNCHANGED <<poolVars, handle, client, reInviteInProgress, cbs,
                       picked, relay, bridge, op, activeDrains>>
    BY <1>0, <1>14 DEF SetSessionID
  <2>1. m.legs[m.k] \in Call /\ m.new[m.k] \in Sid
    BY <1>4, <1>5, <2>0 DEF Placed
  <2>2. stranded' \subseteq Call
    BY <1>0, <1>6, <1>14, <2>1 DEF SetSessionID
  <2>3. Len(m.legs) = 1 \/ Len(m.legs) = 2
    <3>1. PICK n \in Nat : n = Len(m.legs)
      BY <1>3
    <3>2. m.k \in 1..n /\ n <= 2
      BY <1>0, <2>0, <3>1 DEF Legs, Placed
    <3>3. n = 1 \/ n = 2
      BY <3>2
    <3> QED BY <3>1, <3>3
  <2>4. DrainTypes' /\ Migs' /\ Ops'
    <3>1. PICK p \in {"done", "bridge"} :
             NextLeg(d, s, p) /\ (p = "bridge" => Len(m.legs) = 2)
      BY <1>0, <1>14, <2>3 DEF SetSessionID
    <3> QED BY <1>0, <1>1, <2>0, <2>2, <3>1, NextLegFacts
  <2>5. dlg' \in [Call -> DlgRec] /\ \A c \in Call : dlg'[c].state = dlg[c].state
    BY <2>0, <2>1 DEF CallTypes, DlgRec
  <2> QED BY <2>0, <2>4, <2>5, PoolSame DEF CallTypes, Handles
<1>15. CASE BridgeMedia(d, s)
  <2>0. /\ m.pc = "bridge" /\ Go(d, s, "done")
        /\ UNCHANGED <<poolVars, dlg, handle, client, reInviteInProgress, cbs,
                       picked, bridge, activeDrains>>
    BY <1>0, <1>15 DEF BridgeMedia
  <2>1. /\ m.legs[1] \in Call /\ m.legs[2] \in Call
        /\ m.new[1] \in Sid /\ m.new[2] \in Sid
    <3>1. Len(m.legs) = 2 /\ Len(m.new) = 2
      BY <1>0, <2>0 DEF Legs, Placed
    <3> QED BY <1>3, <3>1
  <2>2. op[d].target \in Node
    BY <1>0, <2>0 DEF Migs
  <2>3. relay' \subseteq Node \X Sid \X Sid /\ stranded' \subseteq Call
    BY <1>0, <1>6, <1>15, <2>1, <2>2 DEF BridgeMedia, CallTypes
  <2>4. Fails(d) \/ UNCHANGED op
    BY <1>15 DEF BridgeMedia
  <2>5. DrainTypes' /\ Migs' /\ Ops'
    BY <1>2, <2>0, <2>3, <2>4 DEF Placed
  <2> QED BY <2>0, <2>3, <2>5, PoolSame DEF CallTypes, Handles
<1> QED BY <1>7, <1>8, <1>9, <1>10, <1>11, <1>12, <1>13, <1>14, <1>15 DEF MigStep

-----------------------------------------------------------------------------
LEMMA ShapeNext == Shape /\ [Next]_vars => Shape'
<1> SUFFICES ASSUME Shape, [Next]_vars PROVE Shape'
  OBVIOUS
<1>1. CASE UNCHANGED vars
  BY <1>1, PoolSame, CallSame, DrainSame DEF vars, Shape
<1> QED BY <1>1, ShapeCalls, ShapeOps, ShapeMigs, ShapeNodes DEF Next

LEMMA ShapeInvariant == Spec => []Shape
BY ShapeInit, ShapeNext, PTL DEF Spec

\* Whatever calls come and go and whatever drains are started, cancelled or
\* overlap, every variable has its type and no drain migrates to the node it
\* drains: findTargetNode leaves it out, and nothing changes the target of an
\* operation afterwards (drain/coordinator.go).
THEOREM DrainTypeCorrect == Spec => []TypeOK
BY ShapeInvariant, ShapeTypes, PTL

-----------------------------------------------------------------------------
(* The operator's control of the nodes, when drains do not overlap *)

Busy(d) == op[d].pc \notin {"new", "done"}

\* Every entry is that of an operation on its node; an operation that runs
\* has its entry, unless it was cancelled.  A node that is Active and has an
\* entry has that of an operation that failed and is over.
Entries ==
    /\ \A d, e \in DrainOp : Busy(d) /\ Busy(e) => d = e
    /\ \A n \in Node : activeDrains[n] # None =>
          /\ op[activeDrains[n]].node = n
          /\ op[activeDrains[n]].pc # "new"
    /\ \A d \in DrainOp : Busy(d) =>
          \/ activeDrains[op[d].node] = d
          \/ activeDrains[op[d].node] = None /\ op[d].cancelled
    /\ \A n \in Node : drainState[n] = "Active" /\ activeDrains[n] # None =>
          op[activeDrains[n]].pc = "done"

NodeInv == Entries /\ NodeRecovers

\* A step that leaves the nodes, the entries and the operations alone, but for
\* what was counted as a failure.
OpsSame ==
    /\ UNCHANGED <<drainState, activeDrains>>
    /\ \A d \in DrainOp :
          /\ op'[d].pc = op[d].pc /\ op'[d].node = op[d].node
          /\ op'[d].target = op[d].target
          /\ op'[d].cancelled = op[d].cancelled
          /\ op[d].failed => op'[d].failed

\* An operation that runs goes on, by itself.
OpMoves(d) ==
    /\ UNCHANGED <<drainState, activeDrains>>
    /\ Busy(d)
    /\ op'[d].pc # "new" /\ op'[d].node = op[d].node
    /\ op[d].cancelled => op'[d].cancelled
    /\ \A e \in DrainOp \ {d} : op'[e] = op[e]

LEMMA NodeSteps ==
    ASSUME Shape, [Next]_vars
    PROVE  \/ OpsSame
           \/ \E d \in DrainOp : OpMoves(d) \/ Disable(d) \/ FailDrain(d)
           \/ \E d \in DrainOp, n \in Node : StartDrain(d, n)
           \/ \E n \in Node : CancelDrain(n)
<1>t. DrainTypes
  BY DEF Shape
<1>o. \A e \in DrainOp : op[e] \in OpRec
  BY <1>t DEF DrainTypes
<1>1. UNCHANGED <<drainState, activeDrains, op>> => OpsSame
  BY DEF OpsSame
<1>2. ASSUME CallNext PROVE OpsSame
  <2>1. UNCHANGED <<drainState, activeDrains, op>>
    BY <1>2 DEF CallNext, SelectMember, CreateSession, CreateSessionFails,
       Confirm, Handle2xx, Terminate, OnTerminated, DialFails, StartBridge,
       StopBridge, poolVars, drainVars
  <2> QED BY <1>1, <2>1
<1>3. ASSUME NEW n \in Node, CheckHealth(n) PROVE OpsSame
  BY <1>1, <1>3 DEF CheckHealth, drainVars
<1>4. ASSUME NEW d \in DrainOp, NEW s \in Sid, MigStep(d, s) PROVE OpsSame
  <2>1. /\ UNCHANGED <<drainState, activeDrains>> /\ (Fails(d) \/ UNCHANGED op)
    BY <1>4 DEF MigStep, Acquire, Lookup, CreateSessionOnNode, SendReINVITE,
       Answer, Rollback, DestroyOld, SetSessionID, BridgeMedia, poolVars
  <2> QED BY <1>t, <2>1, FailsFacts DEF OpsSame
<1>5. ASSUME NEW d \in DrainOp, NEW p \in OpPC \ {"new"}, Busy(d),
             op' = [op EXCEPT ![d].pc = p], UNCHANGED <<drainState, activeDrains>>
      PROVE  OpMoves(d)
  BY <1>5, <1>o, <1>t DEF OpMoves, DrainTypes, OpRec
<1>6. ASSUME NEW d \in DrainOp, NoSessions(d) \/ Wait(d) \/ CompleteDrain(d)
      PROVE  OpMoves(d)
  BY <1>5, <1>6 DEF NoSessions, Wait, CompleteDrain, poolVars, Busy, OpPC
<1>7. ASSUME NEW d \in DrainOp, Migrate(d) PROVE OpMoves(d)
  <2>1. Busy(d) /\ UNCHANGED <<drainState, activeDrains>>
    BY <1>7 DEF Migrate, Busy, poolVars
  <2>2. PICK t : op' = [op EXCEPT ![d].pc = "migrating", ![d].target = t]
    BY <1>7 DEF Migrate
  <2> QED BY <1>o, <1>t, <2>1, <2>2 DEF OpMoves, DrainTypes, OpRec
<1>8. ASSUME NEW d \in DrainOp, Timeout(d) PROVE OpMoves(d)
  BY <1>8, <1>o, <1>t DEF Timeout, OpMoves, Busy, DrainTypes, OpRec
<1>9. CASE UNCHANGED vars
  BY <1>1, <1>9 DEF vars, poolVars, drainVars
<1> QED BY <1>2, <1>3, <1>4, <1>6, <1>7, <1>8, <1>9 DEF Next, OpStep

LEMMA NodeInit == Init => NodeInv
BY DEF Init, NodeInv, Entries, NodeRecovers, Busy, NoOp

LEMMA NodeNext ==
    ASSUME ~Overlap, Shape, NodeInv, [Next]_vars
    PROVE  NodeInv'
<1>t. /\ op \in [DrainOp -> OpRec]
      /\ activeDrains \in [Node -> DrainOp \cup {None}]
      /\ drainState \in [Node -> DrainState]
  BY DEF Shape, DrainTypes, PoolTypes
<1>n. \A d \in DrainOp : Busy(d) => op[d].node \in Node
  BY DEF Busy, Shape, Ops
<1>f. None \notin DrainOp
  BY NoneIsNew DEF NoneIsNew
<1>1. CASE OpsSame
  <2>1. Entries'
    BY <1>t, <1>n, <1>1 DEF OpsSame, NodeInv, Entries, Busy
  <2>2. NodeRecovers'
    BY <1>t, <1>1 DEF OpsSame, NodeInv, NodeRecovers
  <2> QED BY <2>1, <2>2 DEF NodeInv
<1>2. ASSUME NEW d \in DrainOp, OpMoves(d) PROVE NodeInv'
  <2>1. \A n \in Node : drainState[n] = "Active" => activeDrains[n] # d
    BY <1>2, <1>f DEF OpMoves, Busy, NodeInv, Entries
  <2>2. Entries'
    BY <1>t, <1>n, <1>2, <2>1 DEF OpMoves, NodeInv, Entries, Busy
  <2>3. NodeRecovers'
    BY <1>t, <1>2, <2>1 DEF OpMoves, Busy, NodeInv, NodeRecovers
  <2> QED BY <2>2, <2>3 DEF NodeInv
<1>3. ASSUME NEW d \in DrainOp, Disable(d) PROVE NodeInv'
  <2>1. /\ Busy(d) /\ UNCHANGED activeDrains
        /\ drainState' = [drainState EXCEPT ![op[d].node] = "Disabled"]
        /\ op' = [op EXCEPT ![d].pc = "done"]
    BY <1>3 DEF Disable, Busy
  <2>2. /\ op'[d].pc = "done" /\ op'[d].node = op[d].node
        /\ op'[d].cancelled = op[d].cancelled
        /\ \A e \in DrainOp \ {d} : op'[e] = op[e]
    BY <1>t, <2>1 DEF OpRec
  <2>3. /\ op[d].node \in Node /\ drainState'[op[d].node] = "Disabled"
        /\ \A n \in Node \ {op[d].node} : drainState'[n] = drainState[n]
    BY <1>t, <1>n, <2>1
  <2>4. Entries'
    BY <1>t, <1>n, <2>1, <2>2, <2>3 DEF NodeInv, Entries, Busy
  <2>5. NodeRecovers'
    <3> SUFFICES ASSUME NEW n \in Node
                 PROVE  IF drainState'[n] = "Active"
                        THEN activeDrains[n] # None =>
                                /\ op'[activeDrains[n]].failed
                                /\ op'[activeDrains[n]].target = None
                        ELSE activeDrains[n] = None =>
                                /\ drainState'[n] = "Disabled"
                                /\ \E e \in DrainOp : /\ op'[e].node = n
                                                      /\ op'[e].cancelled
                                                      /\ op'[e].pc = "done"
      BY <2>1 DEF NodeRecovers
    <3>1. CASE n = op[d].node
      <4>1. activeDrains[n] = None => op[d].cancelled
        BY <1>f, <2>1, <3>1 DEF NodeInv, Entries
      <4> QED BY <2>2, <2>3, <3>1, <4>1
    <3>2. CASE n # op[d].node
      <4>1. activeDrains[n] # d
        BY <1>f, <3>2 DEF NodeInv, Entries
      <4> QED BY <1>t, <2>1, <2>2, <2>3, <3>2, <4>1 DEF Busy, NodeInv, NodeRecovers
    <3> QED BY <3>1, <3>2
  <2> QED BY <2>4, <2>5 DEF NodeInv
<1>4. ASSUME NEW d \in DrainOp, FailDrain(d) PROVE NodeInv'
  <2>1. /\ Busy(d) /\ UNCHANGED activeDrains /\ op[d].target = None
        /\ drainState' = [drainState EXCEPT ![op[d].node] = "Active"]
        /\ op' = [op EXCEPT ![d].pc = "done", ![d].failed = TRUE]
    BY <1>4 DEF FailDrain, MarkActive, Busy, Shape, Ops
  <2>2. /\ op'[d].pc = "done" /\ op'[d].node = op[d].node
        /\ op'[d].cancelled = op[d].cancelled
        /\ op'[d].failed /\ op'[d].target = None
        /\ \A e \in DrainOp \ {d} : op'[e] = op[e]
    BY <1>t, <2>1 DEF OpRec
  <2>3. /\ op[d].node \in Node /\ drainState'[op[d].node] = "Active"
        /\ \A n \in Node \ {op[d].node} : drainState'[n] = drainState[n]
    BY <1>t, <1>n, <2>1
  <2>4. \A n \in Node : activeDrains[n] = d => n = op[d].node
    BY <1>f DEF NodeInv, Entries
  <2>5. activeDrains[op[d].node] \in {d, None}
    BY <2>1 DEF NodeInv, Entries
  <2>6. Entries'
    BY <1>t, <1>n, <2>1, <2>2, <2>3, <2>4, <2>5 DEF NodeInv, Entries, Busy
  <2>7. NodeRecovers'
    BY <1>t, <1>f, <2>1, <2>2, <2>3, <2>4, <2>5 DEF Busy, NodeInv, NodeRecovers
  <2> QED BY <2>6, <2>7 DEF NodeInv
<1>5. ASSUME NEW d \in DrainOp, NEW n \in Node, StartDrain(d, n) PROVE NodeInv'
  <2>1. /\ op[d].pc = "new" /\ \A e \in DrainOp : ~Busy(e)
        /\ activeDrains[n] = None /\ drainState[n] = "Active"
        /\ drainState' = [drainState EXCEPT ![n] = "Draining"]
        /\ activeDrains' = [activeDrains EXCEPT ![n] = d]
        /\ op' = [op EXCEPT ![d] = [NoOp EXCEPT !.pc = "start", !.node = n,
                                                !.snap = SessionsOnNode(n)]]
    BY <1>5 DEF StartDrain, MarkDraining, Busy
  <2>2. /\ op'[d].pc = "start" /\ op'[d].node = n
        /\ \A e \in DrainOp \ {d} : op'[e] = op[e]
    BY <1>t, <2>1 DEF NoOp
  <2>3. /\ drainState'[n] = "Draining" /\ activeDrains'[n] = d
        /\ \A x \in Node \ {n} : /\ drainState'[x] = drainState[x]
                                 /\ activeDrains'[x] = activeDrains[x]
    BY <1>t, <2>1
  <2>4. \A x \in Node : activeDrains[x] # d
    BY <1>f, <2>1 DEF NodeInv, Entries
  <2>5. Entries'
    BY <1>t, <1>f, <2>1, <2>2, <2>3, <2>4 DEF NodeInv, Entries, Busy
  <2>6. NodeRecovers'
    BY <1>t, <1>f, <2>1, <2>2, <2>3, <2>4 DEF NodeInv, NodeRecovers
  <2> QED BY <2>5, <2>6 DEF NodeInv
<1>6. ASSUME NEW n \in Node, CancelDrain(n) PROVE NodeInv'
  <2>1. PICK d \in DrainOp : d = activeDrains[n]
    BY <1>6, <1>t DEF CancelDrain
  <2>2. /\ op' = [op EXCEPT ![d].cancelled = TRUE]
        /\ drainState' = [drainState EXCEPT ![n] = "Active"]
        /\ activeDrains' = IF drainState[n] = "Active" THEN activeDrains
                           ELSE [activeDrains EXCEPT ![n] = None]
    BY <1>6, <2>1 DEF CancelDrain, MarkActive
  <2>3. /\ op'[d].pc = op[d].pc /\ op'[d].node = op[d].node
        /\ op'[d].target = op[d].target /\ op'[d].failed = op[d].failed
        /\ op'[d].cancelled
        /\ \A e \in DrainOp \ {d} : op'[e] = op[e]
    BY <1>t, <2>2 DEF OpRec
  <2>4. /\ drainState'[n] = "Active"
        /\ \A x \in Node \ {n} : /\ drainState'[x] = drainState[x]
                                 /\ activeDrains'[x] = activeDrains[x]
    BY <1>t, <2>2
  <2>5. op[d].node = n /\ op[d].pc # "new"
    BY <1>f, <2>1 DEF NodeInv, Entries
  <2>6. CASE drainState[n] = "Active"
    <3>1. activeDrains' = activeDrains /\ drainState' = drainState
      BY <1>t, <2>2, <2>6
    <3>2. Entries'
      BY <1>t, <1>n, <2>1, <2>3, <3>1 DEF NodeInv, Entries, Busy
    <3>3. NodeRecovers'
      BY <1>t, <2>1, <2>3, <3>1 DEF NodeInv, NodeRecovers
    <3> QED BY <3>2, <3>3 DEF NodeInv
  <2>7. CASE drainState[n] # "Active"
    <3>1. activeDrains'[n] = None
      BY <1>t, <2>2, <2>7
    <3>2. Entries'
      BY <1>t, <1>n, <1>f, <2>1, <2>3, <2>4, <2>5, <3>1 DEF NodeInv, Entries, Busy
    <3>3. NodeRecovers'
      BY <1>t, <1>f, <2>1, <2>3, <2>4, <2>5, <3>1 DEF NodeInv, NodeRecovers
    <3> QED BY <3>2, <3>3 DEF NodeInv
  <2> QED BY <2>6, <2>7
<1> QED BY <1>1, <1>2, <1>3, <1>4, <1>5, <1>6, NodeSteps

\* As long as no drain is started while the goroutine of another one still
\* runs, the operator never loses a node: one that is out of rotation can be
\* brought back by CancelDrain and one that is Active can be drained, but for
\* the two histories NodeRecovers names (drain/coordinator.go, pool.go).
THEOREM NodesRecover == ASSUME ~Overlap PROVE Spec => []NodeRecovers
<1>1. Shape /\ NodeInv /\ [Next]_vars => NodeInv'
  BY NodeNext
<1>2. NodeInv => NodeRecovers
  BY DEF NodeInv
<1> QED BY <1>1, <1>2, NodeInit, ShapeInvariant, PTL DEF Spec

=============================================================================
