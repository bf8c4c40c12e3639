-------------------------------- MODULE B2BUA --------------------------------
(***************************************************************************)
(* A bridged call: the dialplan's dial action (dialplan/session.go), the   *)
(* call service (b2bua/call_service.go), the originator of the outbound    *)
(* leg (b2bua/originator.go), the two legs (b2bua/leg.go) and the bridge   *)
(* between them (b2bua/bridge.go).  Side "A" is the inbound call, side "B" *)
(* the one dialled for it.                                                 *)
(*                                                                         *)
(* Leg.Hangup and Bridge.Stop call each other through termination          *)
(* callbacks, in the goroutine that started the teardown, and several      *)
(* goroutines may do so at once.  todo[t] is what goroutine t still has to *)
(* execute: a step takes the head and may put the body of a call before    *)
(* the rest.  A step is one critical section or one message or RPC.        *)
(***************************************************************************)
EXTENDS Naturals, Sequences

CONSTANT Env  \* what may happen around the call, see below

(***************************************************************************)
(* "A", "B": a drain or the shutdown may terminate that side's dialog;     *)
(* "eager":  the B dialog may be ended as soon as it exists, before the    *)
(*           originator has moved the leg to Answered;                     *)
(* "session", "bridge": an RPC about a media session, or about the media   *)
(*           bridge, may fail, by its timeout or because the RTP manager   *)
(*           cannot be reached, whether or not it was executed.            *)
(***************************************************************************)
ASSUME EnvKinds == Env \subseteq {"A", "B", "eager", "session", "bridge"}

Side == {"A", "B"}

\* Goroutines that tear the call down: the dial action, the monitors of the
\* two dialogs' contexts, the BYE handlers and hangups from elsewhere.
Thread == {"dial", "monA", "monB", "caller", "callee", "ext"}

VARIABLES
    leg,    \* legImpl of each side
    dlg,    \* the dialog of each side, as in module Dialog
    media,  \* the side's session at the RTP manager (external)
    relay,  \* the media bridge there (external) and mediaBridgeID
    bridge, \* bridgeImpl.state
    legs,   \* Originator.legs and aToB have the B leg
    pc,     \* the dial action
    mon,    \* sides whose monitorDialogContext is waiting
    cbs,    \* sides whose dialog's onTerminated callback has not run yet
    todo,   \* per goroutine, the steps to execute
    woken,  \* WaitForTermination's channel was closed since it was read
    contact, \* SetOutboundDialogState has stored the callee's address
    told,   \* sides that were sent a BYE
    left    \* sides that sent one

vars == <<leg, dlg, media, relay, bridge, legs, pc, mon, cbs, todo, woken,
          contact, told, left>>

-----------------------------------------------------------------------------
LegState == {"none", "Created", "Ringing", "EarlyMedia", "Answered",
             "Failed", "Destroyed"}

IsTerminal(l) == leg[l].state \in {"Failed", "Destroyed"}

Cause == {"None", "RemoteBYE", "BridgePeer", "Error"}

LegObj == [state : LegState, cause : Cause, closed : BOOLEAN]

DlgState == {"none", "WaitingACK", "Confirmed", "Terminated"}

\* "held": the pool has the session, and the leg or the dialog its id; "lost":
\* the RTP manager may have it still, but nobody will ask for its end again.
MediaState == {"none", "held", "lost"}

\* "kept": UnbridgeMedia has failed, so the RTP manager may go on relaying;
\* "stray": it may be relaying, but BridgeMedia failed and the id is unknown.
RelayState == {"none", "up", "down", "kept", "stray"}

DialPC == {"idle", "adopted", "media", "invite", "waiting", "undo",
           "acking", "acked", "answered", "bridge", "start", "bridging",
           "check", "capture", "wait", "returning", "returned", "over"}

Op == {"hangup", "teardown", "close", "notify", "destroy", "terminate",
       "unlist", "legTerminated", "stop", "unbridge", "stopLegs", "stopEnd",
       "wake", "cancel", "mark"}

Step(op, l, cause) == [op |-> op, leg |-> l, cause |-> cause]

Idle(t) == todo[t] = <<>>

\* Goroutine t executes its head step, then the steps ss, then the rest.
Then(t, ss) == todo' = [todo EXCEPT ![t] = ss \o Tail(@)]

\* An idle goroutine starts with the steps ss.
Run(t, ss) == todo' = [todo EXCEPT ![t] = ss]

\* The bridge's lock is held from Start's checks to the end of its RPC.
Locked == pc = "bridging"

\* An RPC made under the context of the A dialog is cut off by its end.
CutOff(kind) == kind \in Env \/ dlg["A"].done

\* Pool.DestroySession forgets the session even if the RPC fails; for one that
\* it does not know any more it does nothing.  Nobody acts on the outcome: where
\* the RPC may fail it is left open ("lost") whether the session is still there.
DestroyMedia(l) ==
    media' = [media EXCEPT ![l] = IF media[l] # "held" THEN media[l]
                                  ELSE IF "session" \in Env THEN "lost"
                                  ELSE "none"]

-----------------------------------------------------------------------------
Init ==
    /\ leg = [l \in Side |-> [state |-> "none", cause |-> "None",
                              closed |-> FALSE]]
    /\ \E s \in {"WaitingACK", "Confirmed"} :
          dlg = [l \in Side |-> [state |-> IF l = "A" THEN s ELSE "none",
                                 done |-> FALSE]]
    /\ media = [l \in Side |-> IF l = "A" THEN "held" ELSE "none"]
    /\ relay = "none"
    /\ bridge = "none"
    /\ legs = FALSE
    /\ pc = "idle"
    /\ mon = {}
    /\ cbs = {}
    /\ todo = [t \in Thread |-> <<>>]
    /\ woken = FALSE
    /\ contact = FALSE
    /\ told = {}
    /\ left = {}

-----------------------------------------------------------------------------
(* Leg.Hangup *)

\* A leg that is not terminal becomes Destroyed; then the teardown handler,
\* the closing of done and the callbacks, without the lock.
Hangup(t, l, cause) ==
    /\ IF IsTerminal(l)
       THEN Then(t, <<>>) /\ UNCHANGED leg
       ELSE /\ leg' = [leg EXCEPT ![l].state = "Destroyed",
                                  ![l].cause = cause]
            /\ Then(t, <<Step("teardown", l, cause), Step("close", l, cause),
                         Step("notify", l, cause)>>)
    /\ UNCHANGED <<dlg, media, relay, bridge, legs, pc, mon, cbs, woken,
                   contact, told, left>>

\* Mutant: the originator's handler takes every end for the callee's.
TeardownNeverB(t, l) ==
    /\ Then(t, IF l = "A" /\ leg[l].cause # "RemoteBYE"
                  /\ dlg["A"].state # "Terminated"
               THEN <<Step("terminate", "A", "None")>> ELSE <<>>)
    /\ UNCHANGED <<leg, dlg, media, relay, bridge, legs, pc, mon, cbs, woken,
                   contact, told, left>>

\* The originator's own BYE, if it knows where to send it.
SendBYE == told' = IF contact THEN told \cup {"B"} ELSE told

\* The teardown handlers send nothing if the remote party hung up.  That of
\* A calls Terminate, that of B sends its own BYE.
Teardown(t, l) ==
    LET silent == leg[l].cause = "RemoteBYE" IN
    /\ IF ~silent /\ l = "B" THEN SendBYE ELSE UNCHANGED told
    /\ Then(t, IF ~silent /\ l = "A" /\ dlg["A"].state # "Terminated"
               THEN <<Step("terminate", "A", "None")>> ELSE <<>>)
    /\ UNCHANGED <<leg, dlg, media, relay, bridge, legs, pc, mon, cbs, woken,
                   contact, left>>

Close(t, l) ==
    /\ leg' = [leg EXCEPT ![l].closed = TRUE]
    /\ Then(t, <<>>)
    /\ UNCHANGED <<dlg, media, relay, bridge, legs, pc, mon, cbs, woken,
                   contact, told, left>>

\* Mutant: the bridge does not register with the B leg.
CallbacksNoBridge(l, cause) ==
    IF l = "A"
    THEN {IF bridge = "none" THEN <<>>
          ELSE <<Step("legTerminated", l, cause)>>}
    ELSE {<<Step("destroy", "B", cause), Step("terminate", "B", cause),
            Step("unlist", "B", cause)>>}

\* The callbacks registered by now, in any order: the originator's cleanup
\* of the B leg, and the bridge's once NewBridge has run.
Callbacks(l, cause) ==
    LET cleanup == <<Step("destroy", "B", cause),
                     Step("terminate", "B", cause),
                     Step("unlist", "B", cause)>>
        stop == IF bridge = "none" THEN <<>>
                ELSE <<Step("legTerminated", l, cause)>>
    IN  IF l = "A" THEN {stop} ELSE {cleanup \o stop, stop \o cleanup}

NotifyTerminated(t, l, cause) ==
    /\ \E ss \in Callbacks(l, cause) : Then(t, ss)
    /\ UNCHANGED <<leg, dlg, media, relay, bridge, legs, pc, mon, cbs, woken,
                   contact, told, left>>

\* Cleanup of the B leg: its media session, its dialog, its map entries.  An
\* error of the RPC is logged.
DestroySession(t) ==
    /\ DestroyMedia("B")
    /\ Then(t, <<>>)
    /\ UNCHANGED <<leg, dlg, relay, bridge, legs, pc, mon, cbs, woken,
                   contact, told, left>>

Unlist(t) ==
    /\ legs' = FALSE
    /\ Then(t, <<>>)
    /\ UNCHANGED <<leg, dlg, media, relay, bridge, pc, mon, cbs, woken,
                   contact, told, left>>

-----------------------------------------------------------------------------
(* The dialog manager's Terminate, see module Dialog *)

\* With any cause but RemoteBYE the reason is LocalBYE, and a confirmed
\* dialog is sent a BYE.
Terminate(t, l, cause) ==
    /\ IF dlg[l].state \in {"none", "Terminated"}
       THEN Then(t, <<>>) /\ UNCHANGED told
       ELSE /\ told' = IF dlg[l].state = "Confirmed" /\ cause # "RemoteBYE"
                       THEN told \cup {l} ELSE told
            /\ Then(t, <<Step("cancel", l, cause), Step("mark", l, cause)>>)
    /\ UNCHANGED <<leg, dlg, media, relay, bridge, legs, pc, mon, cbs, woken,
                   contact, left>>

Cancel(t, l) ==
    /\ dlg' = [dlg EXCEPT ![l].done = TRUE]
    /\ Then(t, <<>>)
    /\ UNCHANGED <<leg, media, relay, bridge, legs, pc, mon, cbs, woken,
                   contact, told, left>>

Mark(t, l) ==
    /\ dlg' = [dlg EXCEPT ![l].state = "Terminated"]
    /\ cbs' = cbs \cup {l}
    /\ Then(t, <<>>)
    /\ UNCHANGED <<leg, media, relay, bridge, legs, pc, mon, woken, contact,
                   told, left>>

\* The onTerminated callback destroys the dialog's media session; it ignores
\* an error.
OnTerminated(l) ==
    /\ l \in cbs
    /\ cbs' = cbs \ {l}
    /\ DestroyMedia(l)
    /\ UNCHANGED <<leg, dlg, relay, bridge, legs, pc, mon, todo, woken,
                   contact, told, left>>

-----------------------------------------------------------------------------
(* Bridge teardown *)

\* handleLegTerminated: the first end of a leg stops the bridge.
HandleLegTerminated(t) ==
    /\ ~Locked
    /\ IF bridge \in {"Terminating", "Terminated"}
       THEN Then(t, <<>>) /\ UNCHANGED bridge
       ELSE /\ bridge' = "Terminating"
            /\ Then(t, <<Step("stop", "A", "None")>>)
    /\ UNCHANGED <<leg, dlg, media, relay, legs, pc, mon, cbs, woken,
                   contact, told, left>>

\* Mutant: the media is only unbridged by a Stop that finds the bridge active.
StopKeepsRelay(t) ==
    /\ ~Locked
    /\ IF bridge = "Terminated"
       THEN Then(t, <<>>) /\ UNCHANGED bridge
       ELSE /\ bridge' = "Terminating"
            /\ Then(t, (IF bridge # "Active" THEN <<>>
                        ELSE <<Step("unbridge", "A", "None")>>)
                       \o <<Step("stopLegs", "A", "None"),
                            Step("stopEnd", "A", "None"),
                            Step("wake", "A", "None")>>)
    /\ UNCHANGED <<leg, dlg, media, relay, legs, pc, mon, cbs, woken,
                   contact, told, left>>

\* Stop(true); a second one may run while the first is under way.  There is
\* nothing to unbridge if mediaBridgeID was never set.
Stop(t) ==
    /\ ~Locked
    /\ IF bridge = "Terminated"
       THEN Then(t, <<>>) /\ UNCHANGED bridge
       ELSE /\ bridge' = "Terminating"
            /\ Then(t, (IF relay \in {"none", "stray"} THEN <<>>
                        ELSE <<Step("unbridge", "A", "None")>>)
                       \o <<Step("stopLegs", "A", "None"),
                            Step("stopEnd", "A", "None"),
                            Step("wake", "A", "None")>>)
    /\ UNCHANGED <<leg, dlg, media, relay, legs, pc, mon, cbs, woken,
                   contact, told, left>>

\* The teardown continues if the RPC fails; a second Stop may still end the
\* relay.
UnbridgeMedia(t) ==
    /\ relay' \in IF "bridge" \in Env /\ relay # "down"
                  THEN {"down", "kept"}
                  ELSE {"down"}
    /\ Then(t, <<>>)
    /\ UNCHANGED <<leg, dlg, media, bridge, legs, pc, mon, cbs, woken,
                   contact, told, left>>

\* Both states are read before either leg is hung up.
StopLegs(t) ==
    LET up(l) == IF leg[l].state = "Answered"
                 THEN <<Step("hangup", l, "BridgePeer")>> ELSE <<>>
    IN  /\ Then(t, up("A") \o up("B"))
        /\ UNCHANGED <<leg, dlg, media, relay, bridge, legs, pc, mon, cbs,
                       woken, contact, told, left>>

StopEnd(t) ==
    /\ bridge' = "Terminated"
    /\ Then(t, <<>>)
    /\ UNCHANGED <<leg, dlg, media, relay, legs, pc, mon, cbs, woken,
                   contact, told, left>>

\* terminationWaiters is closed and replaced.
Wake(t) ==
    /\ woken' = TRUE
    /\ Then(t, <<>>)
    /\ UNCHANGED <<leg, dlg, media, relay, bridge, legs, pc, mon, cbs,
                   contact, told, left>>

-----------------------------------------------------------------------------
Execute(t) ==
    /\ ~Idle(t)
    /\ LET s == Head(todo[t]) IN
       \/ s.op = "hangup" /\ Hangup(t, s.leg, s.cause)
       \/ s.op = "teardown" /\ Teardown(t, s.leg)
       \/ s.op = "close" /\ Close(t, s.leg)
       \/ s.op = "notify" /\ NotifyTerminated(t, s.leg, s.cause)
       \/ s.op = "destroy" /\ DestroySession(t)
       \/ s.op = "terminate" /\ Terminate(t, s.leg, s.cause)
       \/ s.op = "unlist" /\ Unlist(t)
       \/ s.op = "cancel" /\ Cancel(t, s.leg)
       \/ s.op = "mark" /\ Mark(t, s.leg)
       \/ s.op = "legTerminated" /\ HandleLegTerminated(t)
       \/ s.op = "stop" /\ Stop(t)
       \/ s.op = "unbridge" /\ UnbridgeMedia(t)
       \/ s.op = "stopLegs" /\ StopLegs(t)
       \/ s.op = "stopEnd" /\ StopEnd(t)
       \/ s.op = "wake" /\ Wake(t)

-----------------------------------------------------------------------------
(* The dial action: session.Dial, DialAndBridge, Dial, Originate *)

\* NewInboundLeg: answered if the dialog is, and a monitor of its context.
AdoptInboundLeg ==
    /\ pc = "idle"
    /\ pc' = "adopted"
    /\ leg' = [leg EXCEPT !["A"].state =
                 IF dlg["A"].state \in {"WaitingACK", "Confirmed"}
                 THEN "Answered" ELSE "Ringing"]
    /\ mon' = mon \cup {"A"}
    /\ UNCHANGED <<dlg, media, relay, bridge, legs, cbs, todo, woken,
                   contact, told, left>>

\* DialAndBridge checks the A leg, Dial resolves the target, and Originate
\* makes the B leg and enters it in its maps ...
Originate ==
    /\ pc = "adopted"
    /\ \/ /\ leg["A"].state = "Answered"
          /\ pc' = "media"
          /\ leg' = [leg EXCEPT !["B"].state = "Created"]
          /\ legs' = TRUE
       \/ pc' = "returned" /\ UNCHANGED <<leg, legs>>
    /\ UNCHANGED <<dlg, media, relay, bridge, mon, cbs, todo, woken,
                   contact, told, left>>

\* ... and its media session.  If the RPC is cut off after the RTP manager has
\* executed it, nobody learns of the session.
CreateSessionPendingRemote ==
    /\ pc = "media"
    /\ \/ media' = [media EXCEPT !["B"] = "held"] /\ pc' = "invite"
       \/ pc' = "returned" /\ UNCHANGED media
       \/ /\ CutOff("session")
          /\ media' = [media EXCEPT !["B"] = "lost"]
          /\ pc' = "returned"
    /\ UNCHANGED <<leg, dlg, relay, bridge, legs, mon, cbs, todo, woken,
                   contact, told, left>>

\* executeINVITE: the INVITE cannot be built, cannot be sent, or is sent.
SendINVITE ==
    /\ pc = "invite"
    /\ \/ pc' = "undo" /\ UNCHANGED leg
       \/ pc' = "undo" /\ leg' = [leg EXCEPT !["B"].state = "Failed"]
       \/ pc' = "waiting" /\ leg' = [leg EXCEPT !["B"].state = "Created"]
    /\ UNCHANGED <<dlg, media, relay, bridge, legs, mon, cbs, todo, woken,
                   contact, told, left>>

\* handleResponse with a 180, 181 or 183.
Provisional(s) ==
    /\ pc = "waiting"
    /\ leg' = [leg EXCEPT !["B"].state = s]
    /\ UNCHANGED <<dlg, media, relay, bridge, legs, pc, mon, cbs, todo,
                   woken, contact, told, left>>

\* The failures leave a cause and a SIP code that only the result reports:
\* a final response from 300 on ...
HandleFailure ==
    /\ pc = "waiting"
    /\ pc' = "undo"
    /\ leg' = [leg EXCEPT !["B"].state = "Failed"]
    /\ UNCHANGED <<dlg, media, relay, bridge, legs, mon, cbs, todo, woken,
                   contact, told, left>>

\* ... no response at all, the dial timeout, the end of the A dialog's context
\* (these two send a CANCEL), or the end of the transaction, which leaves the
\* leg as it is.
DialFails ==
    /\ pc = "waiting"
    /\ pc' = "undo"
    /\ leg' \in {leg, [leg EXCEPT !["B"].state = "Failed"]}
    /\ UNCHANGED <<dlg, media, relay, bridge, legs, mon, cbs, todo, woken,
                   contact, told, left>>

\* Mutant: the media session is kept.
UndoKeepsMedia ==
    /\ pc = "undo"
    /\ pc' = "returned"
    /\ UNCHANGED <<leg, dlg, media, relay, bridge, legs, mon, cbs, todo,
                   woken, contact, told, left>>

\* The deferred destroyMediaSession of a failed Originate; it ignores an error.
Undo ==
    /\ pc = "undo"
    /\ pc' = "returned"
    /\ DestroyMedia("B")
    /\ UNCHANGED <<leg, dlg, relay, bridge, legs, mon, cbs, todo, woken,
                   contact, told, left>>

\* handle2xx registers the outbound dialog, already confirmed, starts the
\* leg's monitor and stores the callee's address ...
Handle2xx ==
    /\ pc = "waiting"
    /\ pc' = "acking"
    /\ dlg' = [dlg EXCEPT !["B"].state = "Confirmed"]
    /\ mon' = mon \cup {"B"}
    /\ contact' = TRUE
    /\ UNCHANGED <<leg, media, relay, bridge, legs, cbs, todo, woken, told,
                   left>>

SendACK ==
    /\ pc = "acking"
    /\ pc' = "acked"
    /\ UNCHANGED <<leg, dlg, media, relay, bridge, legs, mon, cbs, todo,
                   woken, contact, told, left>>

\* ... and moves the leg to Answered, whatever its state is.
TransitionToAnswered ==
    /\ pc = "acked"
    /\ pc' = "answered"
    /\ leg' = [leg EXCEPT !["B"].state = "Answered"]
    /\ UNCHANGED <<dlg, media, relay, bridge, legs, mon, cbs, todo, woken,
                   contact, told, left>>

\* Leg.WaitForState(Answered) returns at once: with an error if the leg is
\* terminal, which is above Answered in the order of the states.
WaitForState == ~IsTerminal("B")

\* Dial returns the leg, or fails; its Hangup does nothing to a leg that is
\* terminal already.
DialReturns ==
    /\ pc = "answered"
    /\ pc' = IF WaitForState THEN "bridge" ELSE "returned"
    /\ UNCHANGED <<leg, dlg, media, relay, bridge, legs, mon, cbs, todo,
                   woken, contact, told, left>>

\* NewBridge registers its callbacks with both legs.
NewBridge ==
    /\ pc = "bridge"
    /\ pc' = "start"
    /\ bridge' = "Created"
    /\ UNCHANGED <<leg, dlg, media, relay, legs, mon, cbs, todo, woken,
                   contact, told, left>>

StartFails ==
    /\ pc' = "returning"
    /\ Run("dial", <<Step("hangup", "B", "Error")>>)
    /\ UNCHANGED <<leg, dlg, media, bridge, legs, mon, cbs, woken, contact,
                   told, left>>

\* Mutant: the legs are not looked at again.
StartUnchecked ==
    /\ pc = "start"
    /\ IF bridge = "Created"
       THEN /\ pc' = "bridging"
            /\ UNCHANGED <<leg, dlg, media, relay, bridge, legs, mon, cbs,
                           todo, woken, contact, told, left>>
       ELSE StartFails /\ UNCHANGED relay

\* Start, under the bridge's lock: both legs must still be answered ...
Start ==
    /\ pc = "start"
    /\ IF /\ bridge = "Created"
          /\ \A l \in Side : leg[l].state = "Answered"
       THEN /\ pc' = "bridging"
            /\ UNCHANGED <<leg, dlg, media, relay, bridge, legs, mon, cbs,
                           todo, woken, contact, told, left>>
       ELSE StartFails /\ UNCHANGED relay

\* ... and BridgeMedia needs both media sessions.  If it is cut off after the
\* RTP manager has executed it, the id of the media bridge is lost.
BridgeMedia ==
    /\ pc = "bridging"
    /\ \/ /\ \A l \in Side : media[l] = "held"
          /\ relay' = "up"
          /\ bridge' = "Active"
          /\ pc' = "check"
          /\ UNCHANGED <<leg, dlg, media, legs, mon, cbs, todo, woken,
                         contact, told, left>>
       \/ StartFails /\ UNCHANGED relay
       \/ /\ CutOff("bridge") /\ \A l \in Side : media[l] = "held"
          /\ relay' = "stray"
          /\ StartFails

\* WaitForTermination reads the state, then the channel, then waits for the
\* channel or for the A leg's done.
WaitCheck ==
    /\ pc = "check"
    /\ pc' = IF bridge = "Terminated" THEN "returned" ELSE "capture"
    /\ UNCHANGED <<leg, dlg, media, relay, bridge, legs, mon, cbs, todo,
                   woken, contact, told, left>>

WaitCapture ==
    /\ pc = "capture"
    /\ pc' = "wait"
    /\ woken' = FALSE
    /\ UNCHANGED <<leg, dlg, media, relay, bridge, legs, mon, cbs, todo,
                   contact, told, left>>

\* Mutant: only the channel is waited for.
WaitForChannelOnly ==
    /\ pc = "wait" /\ woken
    /\ pc' = "returned"
    /\ UNCHANGED <<leg, dlg, media, relay, bridge, legs, mon, cbs, todo,
                   woken, contact, told, left>>

WaitForTermination ==
    /\ pc = "wait"
    /\ \/ woken /\ pc' = "returned" /\ UNCHANGED todo
       \/ /\ leg["A"].closed
          /\ pc' = "returning"
          /\ Run("dial", <<Step("stop", "A", "None")>>)
    /\ UNCHANGED <<leg, dlg, media, relay, bridge, legs, mon, cbs, woken,
                   contact, told, left>>

Return ==
    /\ pc = "returning" /\ Idle("dial")
    /\ pc' = "returned"
    /\ UNCHANGED <<leg, dlg, media, relay, bridge, legs, mon, cbs, todo,
                   woken, contact, told, left>>

\* executeDialplan ends the call.
DialplanEnds ==
    /\ pc = "returned"
    /\ pc' = "over"
    /\ Run("dial", IF dlg["A"].state = "Terminated" THEN <<>>
                   ELSE <<Step("terminate", "A", "None")>>)
    /\ UNCHANGED <<leg, dlg, media, relay, bridge, legs, mon, cbs, woken,
                   contact, told, left>>

Dial ==
    \/ AdoptInboundLeg \/ Originate \/ CreateSessionPendingRemote
    \/ SendINVITE \/ HandleFailure \/ DialFails \/ Undo \/ Handle2xx
    \/ SendACK \/ TransitionToAnswered \/ DialReturns \/ NewBridge \/ Start
    \/ BridgeMedia \/ WaitCheck \/ WaitCapture \/ WaitForTermination
    \/ Return \/ DialplanEnds

-----------------------------------------------------------------------------
(* The goroutines around it *)

\* monitorDialogContext: the dialog's context is done, or the leg is; when
\* both are, either may be seen.
Monitor(l) ==
    LET t == IF l = "A" THEN "monA" ELSE "monB" IN
    /\ l \in mon
    /\ mon' = mon \ {l}
    /\ \/ dlg[l].done /\ Run(t, <<Step("hangup", l, "RemoteBYE")>>)
       \/ leg[l].closed /\ UNCHANGED todo
    /\ UNCHANGED <<leg, dlg, media, relay, bridge, legs, pc, cbs, woken,
                   contact, told, left>>

ConfirmWithACK ==
    /\ dlg["A"].state = "WaitingACK"
    /\ dlg' = [dlg EXCEPT !["A"].state = "Confirmed"]
    /\ UNCHANGED <<leg, media, relay, bridge, legs, pc, mon, cbs, todo,
                   woken, contact, told, left>>

\* A BYE of the caller, or a CANCEL or ACK timeout before the ACK.
CallerEnds ==
    /\ "A" \notin left
    /\ left' = left \cup {"A"}
    /\ Run("caller", <<Step("cancel", "A", "None"), Step("mark", "A", "None")>>)
    /\ UNCHANGED <<leg, dlg, media, relay, bridge, legs, pc, mon, cbs, woken,
                   contact, told>>

\* HandleBYE asks the originator first, then the dialog manager.
CalleeBYE ==
    /\ "B" \notin left
    /\ contact
    /\ pc # "acking" /\ ("eager" \in Env \/ pc # "acked")
    /\ left' = left \cup {"B"}
    /\ Run("callee", IF legs THEN <<Step("hangup", "B", "RemoteBYE")>>
                     ELSE <<Step("cancel", "B", "None"),
                            Step("mark", "B", "None")>>)
    /\ UNCHANGED <<leg, dlg, media, relay, bridge, legs, pc, mon, cbs, woken,
                   contact, told>>

\* Terminate(LocalBYE) from elsewhere.
ExtHangup(l) ==
    /\ l \in Env
    /\ Idle("ext")
    /\ dlg[l].state \notin {"none", "Terminated"}
    /\ l = "A" \/ "eager" \in Env \/ pc \notin {"acking", "acked"}
    /\ Run("ext", <<Step("terminate", l, "None")>>)
    /\ UNCHANGED <<leg, dlg, media, relay, bridge, legs, pc, mon, cbs, woken,
                   contact, told, left>>

Next ==
    \/ Dial
    \/ \E s \in {"Ringing", "EarlyMedia"} : Provisional(s)
    \/ \E t \in Thread : Execute(t)
    \/ \E l \in Side : Monitor(l) \/ OnTerminated(l) \/ ExtHangup(l)
    \/ ConfirmWithACK
    \/ CallerEnds
    \/ CalleeBYE

Spec == Init /\ [][Next]_vars

(***************************************************************************)
(* Goroutines that can run do run, RPCs and SIP transactions end, with a   *)
(* result or with an error, the dial timeout ends the wait for the callee  *)
(* and the dialplan ends after its dial action.  DestroySession has no     *)
(* timeout of its own: the keepalive of the connection (grpc.go:50) ends   *)
(* it when the RTP manager is gone.  Nobody has to hang up, and no RPC has *)
(* to succeed.                                                             *)
(***************************************************************************)
FairSpec ==
    /\ Spec
    /\ WF_vars(Dial)
    /\ \A t \in Thread : WF_vars(Execute(t))
    /\ \A l \in Side : WF_vars(Monitor(l)) /\ WF_vars(OnTerminated(l))

-----------------------------------------------------------------------------
(* Properties *)

\* Some goroutine has yet to execute one of these steps for side l.
Pending(ops, l) ==
    \E t \in Thread : \E i \in DOMAIN todo[t] :
        todo[t][i].op \in ops /\ todo[t][i].leg = l

\* The types of the variables.
TypeOK ==
    /\ leg \in [Side -> LegObj]
    /\ dlg \in [Side -> [state : DlgState, done : BOOLEAN]]
    /\ media \in [Side -> MediaState]
    /\ relay \in RelayState
    /\ bridge \in {"none", "Created", "Active", "Terminating", "Terminated"}
    /\ legs \in BOOLEAN
    /\ pc \in DialPC
    /\ mon \subseteq Side
    /\ cbs \subseteq Side
    /\ todo \in [Thread -> Seq([op : Op, leg : Side, cause : Cause])]
    /\ woken \in BOOLEAN
    /\ contact \in BOOLEAN
    /\ told \subseteq Side
    /\ left \subseteq Side

\* An active bridge has two answered legs, or the end of the missing one is
\* still to be reported to it: no end of a leg slips between the creation of
\* the bridge, its start and the registration of the callbacks.
BridgeWatched ==
    \A l \in Side :
        bridge = "Active" /\ leg[l].state # "Answered" =>
            Pending({"notify", "legTerminated"}, l)

\* The B leg's media session has an owner: the originator until the call is
\* answered, the leg while it is up, the cleanup once it is not.  It is left
\* without one, "lost", only where an RPC that would have destroyed it failed,
\* an error that originator.go and app.go ignore, or where the one that created
\* it was cut off.
BMediaOwned ==
    /\ media["B"] = "held" =>
          \/ pc \in {"invite", "waiting", "undo", "acking", "acked"}
          \/ leg["B"].state = "Answered"
          \/ Pending({"notify", "destroy"}, "B")
    /\ media["B"] = "lost" => CutOff("session")

\* A callee that was answered is not forgotten: once its leg is gone it has
\* hung up itself or was sent a BYE, or a BYE is about to go out.
CalleeReleased ==
    contact /\ leg["B"].state = "Destroyed" =>
        "B" \in left \cup told \/ Pending({"teardown"}, "B")

\* When the bridge is stopped no media is relayed any more, although Stop may
\* run twice at once and Start may be under way - except by a media bridge
\* whose UnbridgeMedia failed, since Bridge.Stop carries on after that error,
\* or by one that Start never learnt of because its BridgeMedia was cut off.
StoppedIsSilent ==
    bridge = "Terminated" =>
        \/ relay \in {"none", "down"}
        \/ relay = "kept" /\ "bridge" \in Env
        \/ relay = "stray" /\ CutOff("bridge")

\* The caller hangs up, at any point of the dial: the dial action returns,
\* the callee, if it was reached, is released, and no media is left but what
\* a failed or cut off RPC leaves at the RTP manager ("kept", "stray", "lost").
CallerHangupEndsCall ==
    ("A" \in left) ~>
        /\ pc \in {"returned", "over"}
        /\ contact => "B" \in left \cup told
        /\ relay # "up" /\ \A l \in Side : media[l] # "held"

\* "Monitors both legs; terminates when either hangs up" (B2BUA.md:71): the
\* callee hangs up, so the dial action returns, the relay ends, or the RPC to
\* end it has failed, and the caller is hung up.
CalleeHangupEndsCall ==
    ("B" \in left) ~>
        /\ pc \in {"returned", "over"}
        /\ relay # "up" /\ media["B"] # "held" /\ dlg["A"].done

=============================================================================
