------------------------------- MODULE Dialog -------------------------------
(***************************************************************************)
(* Inbound calls in the signaling process: the INVITE handler and the      *)
(* dialplan goroutine it starts (routing/invite.go), the ACK, BYE and      *)
(* CANCEL handlers (routing/), the dialog manager (dialog/manager.go) with *)
(* its TTL store (store/ttlstore.go), the ACK watcher and the termination  *)
(* callback that frees the media session (app/app.go).                     *)
(*                                                                         *)
(* Every SIP request runs in a goroutine of its own.  The manager looks a  *)
(* dialog up by Call-ID, reads its state, and acts on it later: each lock  *)
(* held, each message sent and each blocking call is a step.               *)
(***************************************************************************)
EXTENDS Naturals, FiniteSets

CONSTANTS
    Inv,      \* INVITE requests; one names the dialog it creates
    Call,     \* Call-IDs
    CallOf,   \* the Call-ID of an INVITE
    Sid,      \* media sessions (the RTP manager never reuses an id)
    Env,      \* what the environment may do, see below
    MaxTasks, \* bound: requests to end a call that are handled at a time
    None

(***************************************************************************)
(* "early": the call may be ended before its media session is known, that  *)
(*          is before the caller has seen the 183;                         *)
(* "hangup": the call may be ended from elsewhere in the process;          *)
(* "rpc":   a DestroySession request may be lost (its error is ignored);   *)
(* "long":  a call may last longer than ActiveDialogTTL, 4 hours.          *)
(***************************************************************************)
ASSUME CallOfType == CallOf \in [Inv -> Call]
ASSUME EnvKinds == Env \subseteq {"early", "hangup", "rpc", "long"}
ASSUME Bound == MaxTasks \in Nat
ASSUME NoneFresh == None \notin Inv \cup Sid

VARIABLES
    dlg,      \* dialog objects
    store,    \* Manager.dialogs: dialog and whether its TTL is the short one
    inv,      \* INVITE handlers and the dialplan goroutines they start
    tasks,    \* calls of Manager.terminate under way
    watch,    \* dialogs with an ACK watcher
    cbs,      \* dialogs whose onTerminated callback has not run yet
    media     \* the RTP manager's sessions (external)

vars == <<dlg, store, inv, tasks, watch, cbs, media>>

-----------------------------------------------------------------------------
State == {"none", "Initial", "Early", "WaitingACK", "Confirmed",
          "Terminated"}

Reason == {"LocalBYE", "RemoteBYE", "Cancel", "Timeout", "Error"}

DialogObj ==
    [state : State, done : BOOLEAN, sid : Sid \cup {None},
     reason : Reason \cup {None}]

HandlerPC == {"idle", "create", "trying", "sdp", "ok", "answered",
              "dialplan", "hangup", "terminate", "done"}

\* One call of terminate: waiting for the answer to its BYE, about to mark
\* the dialog, about to store it again.
Task == [d : Inv, reason : Reason, step : {"bye", "mark", "set"}]

\* validTransitions, without StateTerminating, which nothing ever sets.
CanTransitionTo(from, to) ==
    <<from, to>> \in
       {<<"Initial", "Early">>, <<"Initial", "Terminated">>,
        <<"Early", "WaitingACK">>, <<"Early", "Terminated">>,
        <<"WaitingACK", "Confirmed">>, <<"WaitingACK", "Terminated">>,
        <<"Confirmed", "Terminated">>}

\* Mutant: the state is set without a check.
TransitionUnchecked(obj, to) == [obj EXCEPT !.state = to]

\* TransitionTo: a refused transition is only logged.
TransitionTo(obj, to) ==
    IF CanTransitionTo(obj.state, to) THEN [obj EXCEPT !.state = to] ELSE obj

IsTerminated(d) == dlg[d].state = "Terminated"
Found(c) == store[c].d # None
At(c) == store[c].d

\* Dialog d may be ended from outside: without "early", only once its media
\* session is known.
MayEnd(d) ==
    /\ "early" \in Env \/ dlg[d].sid # None
    /\ Cardinality(tasks) < MaxTasks

\* The session a media session id stands for at the RTP manager.
MediaSession == [call : Call \cup {None}, live : BOOLEAN]

-----------------------------------------------------------------------------
Init ==
    /\ dlg = [d \in Inv |-> [state |-> "none", done |-> FALSE, sid |-> None,
                             reason |-> None]]
    /\ store = [c \in Call |-> [d |-> None, short |-> FALSE]]
    /\ inv = [i \in Inv |-> [pc |-> "idle", d |-> None, sid |-> None]]
    /\ tasks = {}
    /\ watch = {}
    /\ cbs = {}
    /\ media = [s \in Sid |-> [call |-> None, live |-> FALSE]]

Goto(i, pc) == inv' = [inv EXCEPT ![i].pc = pc]

-----------------------------------------------------------------------------
(* Termination *)

\* Mutants: the context is not cancelled; the dialog's own reason is passed
\* on, which nobody has set.
BeginNoCancel(d, r) ==
    /\ tasks' = tasks \cup {[d |-> d, reason |-> r, step |-> "mark"]}
    /\ UNCHANGED dlg

BeginNoReason(d, r) ==
    /\ dlg' = [dlg EXCEPT ![d].done = TRUE]
    /\ tasks' = tasks \cup
                  {[d |-> d, reason |-> dlg[d].reason, step |-> "mark"]}

\* The context is cancelled, then terminate(d, reason) is called.
Begin(d, r) ==
    /\ dlg' = [dlg EXCEPT ![d].done = TRUE]
    /\ tasks' = tasks \cup {[d |-> d, reason |-> r, step |-> "mark"]}

\* Manager.Terminate: a BYE goes out only for a call that is confirmed at
\* this moment, and only for LocalBYE; sendBYE waits for the answer.
Terminate(c, r) ==
    IF ~Found(c) \/ IsTerminated(At(c))
    THEN UNCHANGED <<dlg, tasks>>
    ELSE IF dlg[At(c)].state = "Confirmed" /\ r = "LocalBYE"
    THEN /\ tasks' = tasks \cup
                       {[d |-> At(c), reason |-> r, step |-> "bye"]}
         /\ UNCHANGED dlg
    ELSE Begin(At(c), r)

\* The BYE was answered, failed or timed out (5 s).
ByeDone(t) ==
    /\ t.step = "bye"
    /\ dlg' = [dlg EXCEPT ![t.d].done = TRUE]
    /\ tasks' = (tasks \ {t}) \cup {[t EXCEPT !.step = "mark"]}
    /\ UNCHANGED <<store, inv, watch, cbs, media>>

\* Mutant: the callback is not started.
MarkNoCallback(t) ==
    /\ t.step = "mark"
    /\ dlg' = [dlg EXCEPT ![t.d] =
                 [TransitionTo(@, "Terminated") EXCEPT !.reason = t.reason]]
    /\ tasks' = (tasks \ {t}) \cup {[t EXCEPT !.step = "set"]}
    /\ UNCHANGED <<store, inv, watch, cbs, media>>

\* terminate sets the reason, moves to Terminated and starts the callback,
\* whether or not the dialog was terminated before ...
Mark(t) ==
    /\ t.step = "mark"
    /\ dlg' = [dlg EXCEPT ![t.d] =
                 [TransitionTo(@, "Terminated") EXCEPT !.reason = t.reason]]
    /\ tasks' = (tasks \ {t}) \cup {[t EXCEPT !.step = "set"]}
    /\ cbs' = cbs \cup {t.d}
    /\ UNCHANGED <<store, inv, watch, media>>

\* ... then stores the dialog under its Call-ID with the short TTL.
StoreSet(t) ==
    /\ t.step = "set"
    /\ store' = [store EXCEPT ![CallOf[t.d]] = [d |-> t.d, short |-> TRUE]]
    /\ tasks' = tasks \ {t}
    /\ UNCHANGED <<dlg, inv, watch, cbs, media>>

\* The DestroySession request, whose error is ignored.
DestroySession(s) ==
    \/ media' = IF s = None THEN media ELSE [media EXCEPT ![s].live = FALSE]
    \/ "rpc" \in Env /\ UNCHANGED media

\* The onTerminated callback destroys the dialog's media session, if it has
\* one by then.
OnTerminated(d) ==
    /\ d \in cbs
    /\ cbs' = cbs \ {d}
    /\ DestroySession(dlg[d].sid)
    /\ UNCHANGED <<dlg, store, inv, tasks, watch>>

\* An entry's TTL is over: Get no longer returns it, cleanup removes it.
Expire(c) ==
    /\ Found(c)
    /\ store[c].short \/ "long" \in Env
    /\ store' = [store EXCEPT ![c] = [d |-> None, short |-> FALSE]]
    /\ UNCHANGED <<dlg, inv, tasks, watch, cbs, media>>

-----------------------------------------------------------------------------
(* The INVITE handler *)

\* CreateFromInvite looks the Call-ID up: a dialog that is not terminated is
\* returned and the handler goes on with that one ...
CreateFromInvite(i) ==
    LET c == CallOf[i] IN
    /\ inv[i].pc = "idle"
    /\ inv' = IF Found(c) /\ ~IsTerminated(At(c))
              THEN [inv EXCEPT ![i].pc = "trying", ![i].d = At(c)]
              ELSE [inv EXCEPT ![i].pc = "create", ![i].d = i]
    /\ UNCHANGED <<dlg, store, tasks, watch, cbs, media>>

\* Mutant: a new dialog is stored with the short TTL.
NewDialogShort(i) ==
    /\ inv[i].pc = "create"
    /\ dlg' = [dlg EXCEPT ![i].state = "Initial"]
    /\ store' = [store EXCEPT ![CallOf[i]] = [d |-> i, short |-> TRUE]]
    /\ Goto(i, "trying")
    /\ UNCHANGED <<tasks, watch, cbs, media>>

\* ... otherwise a new one is stored.
NewDialog(i) ==
    /\ inv[i].pc = "create"
    /\ dlg' = [dlg EXCEPT ![i].state = "Initial"]
    /\ store' = [store EXCEPT ![CallOf[i]] = [d |-> i, short |-> FALSE]]
    /\ Goto(i, "trying")
    /\ UNCHANGED <<tasks, watch, cbs, media>>

\* SendTrying; if the response cannot be sent the handler just returns.
SendTrying(i) ==
    /\ inv[i].pc = "trying"
    /\ \/ /\ dlg' = [dlg EXCEPT ![inv[i].d] = TransitionTo(@, "Early")]
          /\ Goto(i, "sdp")
       \/ UNCHANGED dlg /\ Goto(i, "done")
    /\ UNCHANGED <<store, tasks, watch, cbs, media>>

\* The SDP is unusable or CreateSession fails: 406, then Terminate.
SetupFails(i) ==
    /\ inv[i].pc = "sdp"
    /\ Goto(i, "terminate")
    /\ UNCHANGED <<dlg, store, tasks, watch, cbs, media>>

\* CreateSession succeeds and SetSessionID records its answer.  The RTP
\* manager returns the call's session if it has one; the next node of the
\* pool makes a new one.
CreateSession(i) ==
    LET d == inv[i].d IN
    /\ inv[i].pc = "sdp"
    /\ \E s \in Sid :
          /\ media[s].call = None \/ media[s] = [call |-> CallOf[i], live |-> TRUE]
          /\ media' = [media EXCEPT ![s] = [call |-> CallOf[i], live |-> TRUE]]
          /\ dlg' = [dlg EXCEPT ![d].sid = s]
          /\ inv' = [inv EXCEPT ![i].pc = "ok", ![i].sid = s]
    /\ UNCHANGED <<store, tasks, watch, cbs>>

\* After the 183 and half a second, SendOK: the 200 OK is on the wire ...
SendOK(i) ==
    /\ inv[i].pc = "ok"
    /\ Goto(i, "answered")
    /\ UNCHANGED <<dlg, store, tasks, watch, cbs, media>>

\* ... or cannot be sent: the session is destroyed and the dialog terminated.
SendOKFails(i) ==
    /\ inv[i].pc = "ok"
    /\ DestroySession(inv[i].sid)
    /\ Goto(i, "terminate")
    /\ UNCHANGED <<dlg, store, tasks, watch, cbs>>

\* Mutant: no ACK watcher.
AnsweredNoWatcher(i) ==
    /\ inv[i].pc = "answered"
    /\ dlg' = [dlg EXCEPT ![inv[i].d] = TransitionTo(@, "WaitingACK")]
    /\ Goto(i, "dialplan")
    /\ UNCHANGED <<store, tasks, watch, cbs, media>>

\* Then the dialog moves to WaitingACK (if nobody ended it), the ACK watcher
\* starts and so does the dialplan, which does not wait for the ACK.
Answered(i) ==
    LET d == inv[i].d IN
    /\ inv[i].pc = "answered"
    /\ dlg' = [dlg EXCEPT ![d] = TransitionTo(@, "WaitingACK")]
    /\ watch' = watch \cup {d}
    /\ Goto(i, "dialplan")
    /\ UNCHANGED <<store, tasks, cbs, media>>

\* The dialplan is over: no route, a failed action, the context cancelled or
\* the last action done.  The dialog's state is checked ...
DialplanEnds(i) ==
    /\ inv[i].pc = "dialplan"
    /\ Goto(i, IF IsTerminated(inv[i].d) THEN "done" ELSE "hangup")
    /\ UNCHANGED <<dlg, store, tasks, watch, cbs, media>>

\* ... and Terminate is called with the Call-ID.
DialplanHangup(i) ==
    /\ inv[i].pc = "hangup"
    /\ Terminate(CallOf[i], "LocalBYE")
    /\ Goto(i, "done")
    /\ UNCHANGED <<store, watch, cbs, media>>

HandlerTerminates(i) ==
    /\ inv[i].pc = "terminate"
    /\ Terminate(CallOf[i], "Error")
    /\ Goto(i, "done")
    /\ UNCHANGED <<store, watch, cbs, media>>

-----------------------------------------------------------------------------
(* The other requests; each may be repeated or never come *)

\* ConfirmWithACK; an ACK that comes before the dialog is in WaitingACK is
\* dropped.
ConfirmWithACK(c) ==
    /\ Found(c) /\ dlg[At(c)].state = "WaitingACK"
    /\ dlg' = [dlg EXCEPT ![At(c)] = TransitionTo(@, "Confirmed")]
    /\ UNCHANGED <<store, inv, tasks, watch, cbs, media>>

\* HandleIncomingBYE, in whatever state the dialog is.
HandleIncomingBYE(c) ==
    /\ Found(c) /\ MayEnd(At(c))
    /\ Begin(At(c), "RemoteBYE")
    /\ UNCHANGED <<store, inv, watch, cbs, media>>

\* HandleIncomingCANCEL, valid until the dialog is confirmed.
HandleIncomingCANCEL(c) ==
    /\ Found(c) /\ MayEnd(At(c))
    /\ dlg[At(c)].state \in {"Early", "WaitingACK"}
    /\ Begin(At(c), "Cancel")
    /\ UNCHANGED <<store, inv, watch, cbs, media>>

\* Terminate(LocalBYE) from elsewhere: the hangup action, the teardown of a
\* bridged leg, a drain, the shutdown of the process.
LocalHangup(c) ==
    /\ "hangup" \in Env
    /\ Found(c) /\ ~IsTerminated(At(c)) /\ MayEnd(At(c))
    /\ Terminate(c, "LocalBYE")
    /\ UNCHANGED <<store, inv, watch, cbs, media>>

-----------------------------------------------------------------------------
(* watchACKTimeout: 32 s without an ACK, or the context is done. *)

ACKTimeout(d) ==
    /\ d \in watch
    /\ dlg[d].state = "WaitingACK"
    /\ watch' = watch \ {d}
    /\ Begin(d, "Timeout")
    /\ UNCHANGED <<store, inv, cbs, media>>

WatcherReturns(d) ==
    /\ d \in watch
    /\ dlg[d].done \/ dlg[d].state # "WaitingACK"
    /\ watch' = watch \ {d}
    /\ UNCHANGED <<dlg, store, inv, tasks, cbs, media>>

-----------------------------------------------------------------------------
TaskStep(t) == ByeDone(t) \/ Mark(t) \/ StoreSet(t)

Setup(i) ==
    \/ CreateFromInvite(i) \/ NewDialog(i) \/ SendTrying(i) \/ SetupFails(i)
    \/ CreateSession(i) \/ SendOK(i) \/ SendOKFails(i) \/ Answered(i)
    \/ HandlerTerminates(i)

Dialplan(i) == DialplanEnds(i) \/ DialplanHangup(i)

Watcher(d) == ACKTimeout(d) \/ WatcherReturns(d)

Next ==
    \/ \E i \in Inv : Setup(i) \/ Dialplan(i) \/ Watcher(i) \/ OnTerminated(i)
    \/ \E t \in tasks : TaskStep(t)
    \/ \E c \in Call :
          \/ ConfirmWithACK(c) \/ HandleIncomingCANCEL(c)
          \/ HandleIncomingBYE(c) \/ LocalHangup(c) \/ Expire(c)

Spec == Init /\ [][Next]_vars

\* The Go scheduler runs what can run; a BYE ends after 5 s at the latest,
\* the ACK timer fires after 32 s.  Nobody has to send an ACK, BYE or CANCEL.
FairSpec ==
    /\ Spec
    /\ \A t \in Task : WF_vars(t \in tasks /\ TaskStep(t))
    /\ \A d \in Inv : WF_vars(Watcher(d)) /\ WF_vars(OnTerminated(d))

-----------------------------------------------------------------------------
(* Properties *)

\* Every variable has its type.
TypeOK ==
    /\ dlg \in [Inv -> DialogObj]
    /\ store \in [Call -> [d : Inv \cup {None}, short : BOOLEAN]]
    /\ inv \in [Inv -> [pc : HandlerPC, d : Inv \cup {None},
                        sid : Sid \cup {None}]]
    /\ tasks \subseteq Task
    /\ watch \subseteq Inv
    /\ cbs \subseteq Inv
    /\ media \in [Sid -> MediaSession]

\* A terminated dialog's context is done, whoever ended it: its dialplan
\* actions and its ACK watcher stop (manager.go: Cancel before terminate on
\* every path).
EndedIsCancelled ==
    \A d \in Inv : IsTerminated(d) => dlg[d].done

\* A dialog that was ended stays ended: a 200 OK, an ACK or a 100 Trying whose
\* handler comes late cannot bring it back (dialog.go, TransitionTo).
EndIsFinal ==
    [][\A d \in Inv : IsTerminated(d) => dlg'[d].state = "Terminated"]_vars

\* A 200 OK never waits for its ACK forever: the dialog is confirmed or ended
\* (watchACKTimeout).
AckDecided ==
    \A d \in Inv :
        dlg[d].state = "WaitingACK"
            ~> dlg[d].state \in {"Confirmed", "Terminated"}

\* "Manager is the central registry for all active dialogs" (manager.go:25):
\* a call that is not ended is found under its Call-ID, so that a BYE, a
\* CANCEL, a hangup or the shutdown reaches it.
AllRegistered ==
    \A d \in Inv : dlg[d].state \notin {"none", "Terminated"} =>
        At(CallOf[d]) = d

\* A live media session belongs to a dialog that is not ended yet or whose
\* callback is about to destroy it, or to a handler that may still destroy it
\* ("Call Cancellation", CALL_FLOWS.md:159-173, ends in DestroySession).
MediaOwned ==
    \A s \in Sid : media[s].live =>
        \/ \E d \in Inv : dlg[d].sid = s /\ (~IsTerminated(d) \/ d \in cbs)
        \/ \E i \in Inv : inv[i].sid = s /\ inv[i].pc = "ok"

=============================================================================
