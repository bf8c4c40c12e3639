---------------------------- MODULE DialogProofs ----------------------------
(***************************************************************************)
(* Proofs about Dialog, for any number of INVITEs, Call-IDs shared in any  *)
(* way, every environment and any number of requests at a time.            *)
(***************************************************************************)
EXTENDS Dialog, TLAPS

\* A handler that has started works on a dialog.
Handling == \A i \in Inv : inv[i].pc # "idle" => inv[i].d \in Inv

-----------------------------------------------------------------------------
(* Dialog objects *)

\* TransitionTo keeps an object's type and, for a dialog that does not exist
\* yet or is over, its state; it never touches the context.
LEMMA TransitionFacts ==
    ASSUME NEW o \in DialogObj, NEW to \in State \ {"none"}
    PROVE  /\ TransitionTo(o, to) \in DialogObj
           /\ TransitionTo(o, to).done = o.done
           /\ TransitionTo(o, to).sid = o.sid
           /\ o.state = "none" => TransitionTo(o, to) = o
           /\ o.state = "Terminated" => TransitionTo(o, to) = o
           /\ TransitionTo(o, to).state \in {o.state, to}
<1>1. CASE CanTransitionTo(o.state, to)
  <2>1. [o EXCEPT !.state = to] \in DialogObj
    BY DEF DialogObj, State
  <2>2. o.state \notin {"none", "Terminated"}
    BY <1>1 DEF CanTransitionTo
  <2> QED BY <1>1, <2>1, <2>2 DEF TransitionTo, DialogObj
<1>2. CASE ~CanTransitionTo(o.state, to)
  BY <1>2 DEF TransitionTo
<1> QED BY <1>1, <1>2

LEMMA ObjectUpdates ==
    ASSUME NEW o \in DialogObj
    PROVE  /\ [o EXCEPT !.done = TRUE] \in DialogObj
           /\ \A s \in Sid : [o EXCEPT !.sid = s] \in DialogObj
           /\ \A r \in Reason : [o EXCEPT !.reason = r] \in DialogObj
           /\ [o EXCEPT !.state = "Initial"] \in DialogObj
BY DEF DialogObj, State

-----------------------------------------------------------------------------
(* Type correctness *)

LEMMA TypeInit == Init => TypeOK /\ Handling
BY DEF Init, TypeOK, Handling, DialogObj, State, HandlerPC, MediaSession

\* Begin, Terminate and DestroySession keep the types of what they change.
LEMMA TypeBegin ==
    ASSUME TypeOK, NEW d \in Inv, NEW r \in Reason, Begin(d, r)
    PROVE  dlg' \in [Inv -> DialogObj] /\ tasks' \subseteq Task
<1>1. [dlg[d] EXCEPT !.done = TRUE] \in DialogObj
  BY ObjectUpdates DEF TypeOK
<1>2. dlg' \in [Inv -> DialogObj]
  BY <1>1 DEF Begin, TypeOK
<1>3. [d |-> d, reason |-> r, step |-> "mark"] \in Task
  BY DEF Task
<1> QED BY <1>2, <1>3 DEF Begin, TypeOK

LEMMA TypeTerminate ==
    ASSUME TypeOK, NEW c \in Call, NEW r \in Reason, Terminate(c, r)
    PROVE  dlg' \in [Inv -> DialogObj] /\ tasks' \subseteq Task
<1>1. CASE ~Found(c) \/ IsTerminated(At(c))
  BY <1>1 DEF Terminate, TypeOK
<1>2. CASE Found(c) /\ ~IsTerminated(At(c))
  <2>1. At(c) \in Inv
    BY <1>2 DEF Found, At, TypeOK
  <2>2. CASE dlg[At(c)].state = "Confirmed" /\ r = "LocalBYE"
    BY <1>2, <2>1, <2>2 DEF Terminate, TypeOK, Task
  <2>3. CASE ~(dlg[At(c)].state = "Confirmed" /\ r = "LocalBYE")
    BY <1>2, <2>1, <2>3, TypeBegin DEF Terminate
  <2> QED BY <2>2, <2>3
<1> QED BY <1>1, <1>2

LEMMA TypeDestroy ==
    ASSUME TypeOK, NEW s \in Sid \cup {None}, DestroySession(s)
    PROVE  media' \in [Sid -> MediaSession]
BY ZenonT(30) DEF DestroySession, TypeOK, MediaSession

\* Goto keeps a handler's dialog and only changes handlers that have started
\* or are about to.
LEMMA TypeGoto ==
    ASSUME TypeOK, Handling, NEW i \in Inv, inv[i].pc # "idle",
           NEW p \in HandlerPC, Goto(i, p)
    PROVE  /\ inv' \in [Inv -> [pc : HandlerPC, d : Inv \cup {None},
                                sid : Sid \cup {None}]]
           /\ Handling'
BY DEF Goto, TypeOK, Handling, HandlerPC

LEMMA TypeNext == TypeOK /\ Handling /\ [Next]_vars => TypeOK' /\ Handling'
<1> SUFFICES ASSUME TypeOK, Handling, [Next]_vars PROVE TypeOK' /\ Handling'
  OBVIOUS
<1>c. \A i \in Inv : CallOf[i] \in Call
  BY CallOfType DEF CallOfType
<1>r. {"LocalBYE", "RemoteBYE", "Cancel", "Timeout", "Error"} \subseteq Reason
  BY DEF Reason
<1>1. ASSUME UNCHANGED vars PROVE TypeOK' /\ Handling'
  BY <1>1 DEF vars, TypeOK, Handling
<1>2. ASSUME NEW i \in Inv, CreateFromInvite(i) PROVE TypeOK' /\ Handling'
  <2>1. Found(CallOf[i]) => At(CallOf[i]) \in Inv
    BY <1>c DEF Found, At, TypeOK
  <2>2. PICK p \in {"trying", "create"}, d \in Inv :
           inv' = [inv EXCEPT ![i].pc = p, ![i].d = d]
    BY <1>2, <2>1 DEF CreateFromInvite
  <2>3. [inv[i] EXCEPT !.pc = p, !.d = d]
            \in [pc : HandlerPC, d : Inv \cup {None}, sid : Sid \cup {None}]
    BY DEF TypeOK, HandlerPC
  <2>4. inv' \in [Inv -> [pc : HandlerPC, d : Inv \cup {None},
                          sid : Sid \cup {None}]]
    BY <2>2, <2>3 DEF TypeOK
  <2>5. Handling'
    <3> SUFFICES ASSUME NEW j \in Inv, inv'[j].pc # "idle"
                 PROVE  inv'[j].d \in Inv
      BY DEF Handling
    <3>1. CASE j = i
      BY <2>2, <3>1 DEF TypeOK
    <3>2. CASE j # i
      BY <2>2, <3>2 DEF TypeOK, Handling
    <3> QED BY <3>1, <3>2
  <2> QED BY <1>2, <2>4, <2>5 DEF CreateFromInvite, TypeOK
<1>3. ASSUME NEW i \in Inv, NewDialog(i) PROVE TypeOK' /\ Handling'
  <2>1. [dlg[i] EXCEPT !.state = "Initial"] \in DialogObj
    BY ObjectUpdates DEF TypeOK
  <2>2. dlg' \in [Inv -> DialogObj]
    BY <1>3, <2>1 DEF NewDialog, TypeOK
  <2>3. store' \in [Call -> [d : Inv \cup {None}, short : BOOLEAN]]
    BY <1>3, <1>c DEF NewDialog, TypeOK
  <2>4. inv[i].pc # "idle" /\ Goto(i, "trying") /\ "trying" \in HandlerPC
    BY <1>3 DEF NewDialog, HandlerPC
  <2> QED BY <1>3, <2>2, <2>3, <2>4, TypeGoto DEF NewDialog, TypeOK
<1>4. ASSUME NEW i \in Inv, SendTrying(i) PROVE TypeOK' /\ Handling'
  <2>1. inv[i].pc # "idle" /\ inv[i].d \in Inv
    BY <1>4 DEF SendTrying, Handling
  <2>2. TransitionTo(dlg[inv[i].d], "Early") \in DialogObj
    BY <2>1, TransitionFacts DEF TypeOK, State
  <2>3. dlg' \in [Inv -> DialogObj]
    BY <1>4, <2>2 DEF SendTrying, TypeOK
  <2>4. \E p \in HandlerPC : Goto(i, p)
    BY <1>4 DEF SendTrying, HandlerPC
  <2> QED BY <1>4, <2>1, <2>3, <2>4, TypeGoto DEF SendTrying, TypeOK
<1>5. ASSUME NEW i \in Inv, SetupFails(i) PROVE TypeOK' /\ Handling'
  <2>1. inv[i].pc # "idle" /\ Goto(i, "terminate") /\ "terminate" \in HandlerPC
    BY <1>5 DEF SetupFails, HandlerPC
  <2> QED BY <1>5, <2>1, TypeGoto DEF SetupFails, TypeOK
<1>6. ASSUME NEW i \in Inv, CreateSession(i) PROVE TypeOK' /\ Handling'
  <2>1. PICK s \in Sid :
           /\ media' = [media EXCEPT ![s] = [call |-> CallOf[i], live |-> TRUE]]
           /\ dlg' = [dlg EXCEPT ![inv[i].d].sid = s]
           /\ inv' = [inv EXCEPT ![i].pc = "ok", ![i].sid = s]
    BY <1>6 DEF CreateSession
  <2>2. inv[i].pc # "idle" /\ inv[i].d \in Inv
    BY <1>6 DEF CreateSession, Handling
  <2>3. [dlg[inv[i].d] EXCEPT !.sid = s] \in DialogObj
    BY <2>2, ObjectUpdates DEF TypeOK
  <2>4. dlg' \in [Inv -> DialogObj]
    BY <2>1, <2>3 DEF TypeOK
  <2>5. media' \in [Sid -> MediaSession]
    BY <2>1, <1>c DEF TypeOK, MediaSession
  <2>6. [inv[i] EXCEPT !.pc = "ok", !.sid = s]
            \in [pc : HandlerPC, d : Inv \cup {None}, sid : Sid \cup {None}]
    BY DEF TypeOK, HandlerPC
  <2>7. inv' \in [Inv -> [pc : HandlerPC, d : Inv \cup {None},
                          sid : Sid \cup {None}]]
    BY <2>1, <2>6 DEF TypeOK
  <2>8. \A j \in Inv : inv'[j].d = inv[j].d
                         /\ (inv'[j].pc # "idle" => inv[j].pc # "idle")
    BY <2>1, <2>2 DEF TypeOK
  <2>9. Handling'
    BY <2>8 DEF Handling
  <2> QED BY <1>6, <2>4, <2>5, <2>7, <2>9 DEF CreateSession, TypeOK
<1>7. ASSUME NEW i \in Inv, SendOK(i) PROVE TypeOK' /\ Handling'
  <2>1. inv[i].pc # "idle" /\ Goto(i, "answered") /\ "answered" \in HandlerPC
    BY <1>7 DEF SendOK, HandlerPC
  <2> QED BY <1>7, <2>1, TypeGoto DEF SendOK, TypeOK
<1>8. ASSUME NEW i \in Inv, SendOKFails(i) PROVE TypeOK' /\ Handling'
  <2>1. inv[i].pc # "idle" /\ Goto(i, "terminate") /\ "terminate" \in HandlerPC
    BY <1>8 DEF SendOKFails, HandlerPC
  <2>2. media' \in [Sid -> MediaSession]
    <3>1. inv[i].sid \in Sid \cup {None} /\ DestroySession(inv[i].sid)
      BY <1>8 DEF SendOKFails, TypeOK
    <3> QED BY <3>1, TypeDestroy
  <2> QED BY <1>8, <2>1, <2>2, TypeGoto DEF SendOKFails, TypeOK
<1>9. ASSUME NEW i \in Inv, Answered(i) PROVE TypeOK' /\ Handling'
  <2>1. /\ inv[i].pc # "idle" /\ inv[i].d \in Inv
        /\ Goto(i, "dialplan") /\ "dialplan" \in HandlerPC
    BY <1>9 DEF Answered, Handling, HandlerPC
  <2>2. TransitionTo(dlg[inv[i].d], "WaitingACK") \in DialogObj
    BY <2>1, TransitionFacts DEF TypeOK, State
  <2>3. dlg' \in [Inv -> DialogObj]
    BY <1>9, <2>2 DEF Answered, TypeOK
  <2> QED BY <1>9, <2>1, <2>3, TypeGoto DEF Answered, TypeOK
<1>10. ASSUME NEW i \in Inv, DialplanEnds(i) PROVE TypeOK' /\ Handling'
  <2>1. inv[i].pc # "idle" /\ \E p \in HandlerPC : Goto(i, p)
    BY <1>10 DEF DialplanEnds, HandlerPC
  <2> QED BY <1>10, <2>1, TypeGoto DEF DialplanEnds, TypeOK
<1>11. ASSUME NEW i \in Inv, DialplanHangup(i) \/ HandlerTerminates(i)
       PROVE  TypeOK' /\ Handling'
  <2>1. inv[i].pc # "idle" /\ Goto(i, "done") /\ "done" \in HandlerPC
    BY <1>11 DEF DialplanHangup, HandlerTerminates, HandlerPC
  <2>2. PICK r \in Reason : Terminate(CallOf[i], r)
    BY <1>11, <1>r DEF DialplanHangup, HandlerTerminates
  <2>3. dlg' \in [Inv -> DialogObj] /\ tasks' \subseteq Task
    BY <2>2, <1>c, TypeTerminate
  <2> QED BY <1>11, <2>1, <2>3, TypeGoto
          DEF DialplanHangup, HandlerTerminates, TypeOK
<1>12. ASSUME NEW d \in Inv, Watcher(d) PROVE TypeOK' /\ Handling'
  <2>1. CASE ACKTimeout(d)
    <3>1. dlg' \in [Inv -> DialogObj] /\ tasks' \subseteq Task
      BY <2>1, <1>r, TypeBegin DEF ACKTimeout
    <3> QED BY <2>1, <3>1 DEF ACKTimeout, TypeOK, Handling
  <2>2. CASE WatcherReturns(d)
    BY <2>2 DEF WatcherReturns, TypeOK, Handling
  <2> QED BY <1>12, <2>1, <2>2 DEF Watcher
<1>13. ASSUME NEW d \in Inv, OnTerminated(d) PROVE TypeOK' /\ Handling'
  <2>1. dlg[d].sid \in Sid \cup {None}
    BY DEF TypeOK, DialogObj
  <2>2. media' \in [Sid -> MediaSession]
    BY <1>13, <2>1, TypeDestroy DEF OnTerminated
  <2> QED BY <1>13, <2>2 DEF OnTerminated, TypeOK, Handling
<1>14. ASSUME NEW t \in tasks, TaskStep(t) PROVE TypeOK' /\ Handling'
  <2>1. t \in Task /\ t.d \in Inv /\ t.reason \in Reason
    BY DEF TypeOK, Task
  <2>2. /\ [t EXCEPT !.step = "mark"] \in Task
        /\ [t EXCEPT !.step = "set"] \in Task
    BY <2>1 DEF Task
  <2>3. CASE ByeDone(t)
    <3>1. [dlg[t.d] EXCEPT !.done = TRUE] \in DialogObj
      BY <2>1, ObjectUpdates DEF TypeOK
    <3>2. dlg' \in [Inv -> DialogObj]
      BY <2>3, <3>1 DEF ByeDone, TypeOK
    <3> QED BY <2>2, <2>3, <3>2 DEF ByeDone, TypeOK, Handling
  <2>4. CASE Mark(t)
    <3>1. TransitionTo(dlg[t.d], "Terminated") \in DialogObj
      BY <2>1, TransitionFacts DEF TypeOK, State
    <3>2. [TransitionTo(dlg[t.d], "Terminated") EXCEPT !.reason = t.reason]
             \in DialogObj
      BY <2>1, <3>1, ObjectUpdates
    <3>3. dlg' \in [Inv -> DialogObj]
      BY <2>4, <3>2 DEF Mark, TypeOK
    <3> QED BY <2>1, <2>2, <2>4, <3>3 DEF Mark, TypeOK, Handling
  <2>5. CASE StoreSet(t)
    <3>1. store' \in [Call -> [d : Inv \cup {None}, short : BOOLEAN]]
      BY <2>1, <2>5, <1>c DEF StoreSet, TypeOK
    <3> QED BY <2>5, <3>1 DEF StoreSet, TypeOK, Handling
  <2> QED BY <1>14, <2>3, <2>4, <2>5 DEF TaskStep
<1>15. ASSUME NEW c \in Call, ConfirmWithACK(c) PROVE TypeOK' /\ Handling'
  <2>1. At(c) \in Inv
    BY <1>15 DEF ConfirmWithACK, Found, At, TypeOK
  <2>2. TransitionTo(dlg[At(c)], "Confirmed") \in DialogObj
    BY <2>1, TransitionFacts DEF TypeOK, State
  <2>3. dlg' \in [Inv -> DialogObj]
    BY <1>15, <2>2 DEF ConfirmWithACK, TypeOK
  <2> QED BY <1>15, <2>3 DEF ConfirmWithACK, TypeOK, Handling
<1>16. ASSUME NEW c \in Call, HandleIncomingBYE(c) \/ HandleIncomingCANCEL(c)
       PROVE  TypeOK' /\ Handling'
  <2>1. At(c) \in Inv
    BY <1>16 DEF HandleIncomingBYE, HandleIncomingCANCEL, Found, At, TypeOK
  <2>2. \E r \in Reason : Begin(At(c), r)
    BY <1>16, <1>r DEF HandleIncomingBYE, HandleIncomingCANCEL
  <2>3. dlg' \in [Inv -> DialogObj] /\ tasks' \subseteq Task
    BY <2>1, <2>2, TypeBegin
  <2> QED BY <1>16, <2>3
          DEF HandleIncomingBYE, HandleIncomingCANCEL, TypeOK, Handling
<1>17. ASSUME NEW c \in Call, LocalHangup(c) PROVE TypeOK' /\ Handling'
  <2>1. dlg' \in [Inv -> DialogObj] /\ tasks' \subseteq Task
    BY <1>17, <1>r, TypeTerminate DEF LocalHangup
  <2> QED BY <1>17, <2>1 DEF LocalHangup, TypeOK, Handling
<1>18. ASSUME NEW c \in Call, Expire(c) PROVE TypeOK' /\ Handling'
  BY <1>18 DEF Expire, TypeOK, Handling
<1> QED
  BY <1>1, <1>2, <1>3, <1>4, <1>5, <1>6, <1>7, <1>8, <1>9, <1>10, <1>11,
     <1>12, <1>13, <1>14, <1>15, <1>16, <1>17, <1>18
     DEF Next, Setup, Dialplan

\* Every reachable state has its type, whatever requests come in whatever
\* order (dialog/manager.go, routing/invite.go).
THEOREM DialogTypeCorrect == Spec => []TypeOK
<1>1. Spec => [](TypeOK /\ Handling)
  BY TypeInit, TypeNext, PTL DEF Spec
<1> QED BY <1>1, PTL

LEMMA HandlersHaveDialogs == Spec => []Handling
BY TypeInit, TypeNext, PTL DEF Spec

-----------------------------------------------------------------------------
(* The end of a dialog *)

\* A handler that has not made its dialog yet finds it untouched.
Unborn == \A i \in Inv : inv[i].pc \in {"idle", "create"} =>
                            dlg[i].state = "none"

\* Whoever is about to mark a dialog has cancelled its context.
MarkersCancelled == \A t \in tasks : t.step = "mark" => dlg[t.d].done

EndInv == Unborn /\ MarkersCancelled /\ EndedIsCancelled

\* What a step that makes no dialog does to them: their objects change within
\* the rules of TransitionTo, no context is revived, and only a dialog that
\* somebody is about to mark becomes Terminated ...
ObjectsKept ==
    \A d \in Inv :
        /\ dlg[d].done => dlg'[d].done
        /\ dlg[d].state \in {"none", "Terminated"} =>
              dlg'[d].state = dlg[d].state
        /\ dlg'[d].state = "none" => dlg[d].state = "none"
        /\ dlg'[d].state = "Terminated" =>
              \/ dlg[d].state = "Terminated"
              \/ \E t \in tasks : t.step = "mark" /\ t.d = d

\* ... whoever is about to mark one from now on has cancelled it ...
MarkersMade ==
    \A t \in tasks' : t.step = "mark" => t \in tasks \/ dlg'[t.d].done

\* ... and no handler goes back to before its dialog.
HandlersKept ==
    \A i \in Inv : inv'[i].pc \in {"idle", "create"} =>
                       inv[i].pc \in {"idle", "create"}

Kept == ObjectsKept /\ MarkersMade /\ HandlersKept

LEMMA KeptGoto ==
    ASSUME TypeOK, NEW i \in Inv, NEW p \in HandlerPC \ {"idle", "create"},
           Goto(i, p)
    PROVE  HandlersKept
BY DEF Goto, TypeOK, HandlersKept

\* A single object that changes by TransitionTo to a state other than
\* Terminated.
LEMMA KeptTransition ==
    ASSUME TypeOK, NEW d \in Inv,
           NEW to \in State \ {"none", "Terminated"},
           dlg' = [dlg EXCEPT ![d] = TransitionTo(@, to)]
    PROVE  ObjectsKept
<1>1. dlg[d] \in DialogObj
  BY DEF TypeOK
<1>2. /\ TransitionTo(dlg[d], to).done = dlg[d].done
      /\ dlg[d].state \in {"none", "Terminated"} =>
            TransitionTo(dlg[d], to) = dlg[d]
      /\ TransitionTo(dlg[d], to).state \in {dlg[d].state, to}
  BY <1>1, TransitionFacts
<1>3. dlg'[d] = TransitionTo(dlg[d], to)
      /\ \A e \in Inv \ {d} : dlg'[e] = dlg[e]
  BY DEF TypeOK
<1> QED BY <1>2, <1>3 DEF ObjectsKept

\* Cancelling a context changes nothing else.
LEMMA KeptCancel ==
    ASSUME TypeOK, NEW d \in Inv, dlg' = [dlg EXCEPT ![d].done = TRUE]
    PROVE  ObjectsKept /\ dlg'[d].done
<1>1. dlg'[d] = [dlg[d] EXCEPT !.done = TRUE]
      /\ \A e \in Inv \ {d} : dlg'[e] = dlg[e]
  BY DEF TypeOK
<1>2. dlg'[d].done /\ dlg'[d].state = dlg[d].state
  BY <1>1 DEF TypeOK, DialogObj
<1> QED BY <1>1, <1>2 DEF ObjectsKept

LEMMA KeptBegin ==
    ASSUME TypeOK, NEW d \in Inv, NEW r \in Reason, Begin(d, r)
    PROVE  ObjectsKept /\ MarkersMade
<1>1. ObjectsKept /\ dlg'[d].done
  BY KeptCancel DEF Begin
<1>2. MarkersMade
  BY <1>1 DEF Begin, MarkersMade
<1> QED BY <1>1, <1>2

LEMMA KeptTerminate ==
    ASSUME TypeOK, NEW c \in Call, NEW r \in Reason, Terminate(c, r)
    PROVE  ObjectsKept /\ MarkersMade
<1>1. CASE ~Found(c) \/ IsTerminated(At(c))
  BY <1>1 DEF Terminate, ObjectsKept, MarkersMade
<1>2. CASE Found(c) /\ ~IsTerminated(At(c))
  <2>1. At(c) \in Inv
    BY <1>2 DEF Found, At, TypeOK
  <2>2. CASE dlg[At(c)].state = "Confirmed" /\ r = "LocalBYE"
    BY <1>2, <2>2 DEF Terminate, ObjectsKept, MarkersMade
  <2>3. CASE ~(dlg[At(c)].state = "Confirmed" /\ r = "LocalBYE")
    BY <1>2, <2>1, <2>3, KeptBegin DEF Terminate
  <2> QED BY <2>2, <2>3
<1> QED BY <1>1, <1>2

LEMMA EndSteps ==
    ASSUME TypeOK, Handling, [Next]_vars
    PROVE  Kept \/ \E i \in Inv : NewDialog(i)
<1>c. \A i \in Inv : CallOf[i] \in Call
  BY CallOfType DEF CallOfType
<1>r. {"LocalBYE", "RemoteBYE", "Cancel", "Timeout", "Error"} \subseteq Reason
  BY DEF Reason
<1>n. UNCHANGED <<dlg, tasks>> => ObjectsKept /\ MarkersMade
  BY DEF ObjectsKept, MarkersMade
<1>t. UNCHANGED tasks => MarkersMade
  BY DEF MarkersMade
<1>h. UNCHANGED inv => HandlersKept
  BY DEF HandlersKept
<1>p. {"trying", "sdp", "ok", "answered", "dialplan", "hangup", "terminate",
       "done"} \subseteq HandlerPC \ {"idle", "create"}
  BY DEF HandlerPC
<1>s. {"Early", "WaitingACK", "Confirmed"} \subseteq
         State \ {"none", "Terminated"}
  BY DEF State
<1>1. ASSUME UNCHANGED vars PROVE Kept
  BY <1>1, <1>n, <1>h DEF vars, Kept
<1>2. ASSUME NEW i \in Inv, CreateFromInvite(i) PROVE Kept
  <2>1. \A j \in Inv \ {i} : inv'[j] = inv[j]
    BY <1>2 DEF CreateFromInvite, TypeOK
  <2>2. inv[i].pc = "idle" /\ UNCHANGED <<dlg, tasks>>
    BY <1>2 DEF CreateFromInvite
  <2>3. HandlersKept
    BY <2>1, <2>2 DEF HandlersKept
  <2> QED BY <2>2, <2>3, <1>n DEF Kept
<1>4. ASSUME NEW i \in Inv, SendTrying(i) PROVE Kept
  <2>1. inv[i].d \in Inv
    BY <1>4 DEF SendTrying, Handling
  <2>2. CASE dlg' = [dlg EXCEPT ![inv[i].d] = TransitionTo(@, "Early")]
    <3>1. ObjectsKept
      BY <2>1, <2>2, <1>s, KeptTransition
    <3>2. MarkersMade /\ HandlersKept
      BY <1>4, <1>t, <1>p, KeptGoto DEF SendTrying
    <3> QED BY <3>1, <3>2 DEF Kept
  <2>3. CASE UNCHANGED dlg
    BY <1>4, <2>3, <1>n, <1>p, KeptGoto DEF SendTrying, Kept
  <2> QED BY <1>4, <2>2, <2>3 DEF SendTrying
<1>5. ASSUME NEW i \in Inv, SetupFails(i) PROVE Kept
  BY <1>5, <1>n, <1>p, KeptGoto DEF SetupFails, Kept
<1>6. ASSUME NEW i \in Inv, CreateSession(i) PROVE Kept
  <2>1. PICK s \in Sid :
           /\ dlg' = [dlg EXCEPT ![inv[i].d].sid = s]
           /\ inv' = [inv EXCEPT ![i].pc = "ok", ![i].sid = s]
    BY <1>6 DEF CreateSession
  <2>2. \A e \in Inv : dlg'[e].done = dlg[e].done
                        /\ dlg'[e].state = dlg[e].state
    BY <2>1 DEF TypeOK, DialogObj
  <2>3. \A j \in Inv : inv'[j].pc \in {inv[j].pc, "ok"}
    BY <2>1 DEF TypeOK
  <2>4. ObjectsKept
    BY <2>2 DEF ObjectsKept
  <2>5. HandlersKept
    BY <2>3 DEF HandlersKept
  <2>6. MarkersMade
    BY <1>6, <1>t DEF CreateSession
  <2> QED BY <2>4, <2>5, <2>6 DEF Kept
<1>7. ASSUME NEW i \in Inv, SendOK(i) PROVE Kept
  BY <1>7, <1>n, <1>p, KeptGoto DEF SendOK, Kept
<1>8. ASSUME NEW i \in Inv, SendOKFails(i) PROVE Kept
  BY <1>8, <1>n, <1>p, KeptGoto DEF SendOKFails, Kept
<1>9. ASSUME NEW i \in Inv, Answered(i) PROVE Kept
  <2>1. inv[i].d \in Inv
    BY <1>9 DEF Answered, Handling
  <2>2. dlg' = [dlg EXCEPT ![inv[i].d] = TransitionTo(@, "WaitingACK")]
    BY <1>9 DEF Answered
  <2>3. ObjectsKept
    BY <2>1, <2>2, <1>s, KeptTransition
  <2>4. MarkersMade /\ HandlersKept
    BY <1>9, <1>t, <1>p, KeptGoto DEF Answered
  <2> QED BY <2>3, <2>4 DEF Kept
<1>10. ASSUME NEW i \in Inv, DialplanEnds(i) PROVE Kept
  BY <1>10, <1>n, <1>p, KeptGoto DEF DialplanEnds, Kept
<1>11. ASSUME NEW i \in Inv, DialplanHangup(i) \/ HandlerTerminates(i)
       PROVE  Kept
  <2>1. PICK r \in Reason : Terminate(CallOf[i], r)
    BY <1>11, <1>r DEF DialplanHangup, HandlerTerminates
  <2>2. ObjectsKept /\ MarkersMade
    BY <2>1, <1>c, KeptTerminate
  <2>3. HandlersKept
    BY <1>11, <1>p, KeptGoto DEF DialplanHangup, HandlerTerminates
  <2> QED BY <2>2, <2>3 DEF Kept
<1>12. ASSUME NEW d \in Inv, Watcher(d) PROVE Kept
  <2>1. CASE ACKTimeout(d)
    BY <2>1, <1>r, <1>h, KeptBegin DEF ACKTimeout, Kept
  <2>2. CASE WatcherReturns(d)
    BY <2>2, <1>n, <1>h DEF WatcherReturns, Kept
  <2> QED BY <1>12, <2>1, <2>2 DEF Watcher
<1>13. ASSUME NEW d \in Inv, OnTerminated(d) PROVE Kept
  BY <1>13, <1>n, <1>h DEF OnTerminated, Kept
<1>14. ASSUME NEW t \in tasks, TaskStep(t) PROVE Kept
  <2>1. t \in Task /\ t.d \in Inv
    BY DEF TypeOK, Task
  <2>3. CASE ByeDone(t)
    <3>1. ObjectsKept /\ dlg'[t.d].done
      BY <2>1, <2>3, KeptCancel DEF ByeDone
    <3>2. [t EXCEPT !.step = "mark"].d = t.d
      BY <2>1 DEF Task
    <3>3. MarkersMade
      BY <2>3, <3>1, <3>2 DEF ByeDone, MarkersMade
    <3> QED BY <2>3, <3>1, <3>3, <1>h DEF ByeDone, Kept
  <2>4. CASE Mark(t)
    <3> DEFINE o == TransitionTo(dlg[t.d], "Terminated")
    <3>1. /\ o \in DialogObj
          /\ o.done = dlg[t.d].done
          /\ dlg[t.d].state \in {"none", "Terminated"} =>
                o.state = dlg[t.d].state
          /\ o.state \in {dlg[t.d].state, "Terminated"}
      BY <2>1, TransitionFacts DEF TypeOK, State
    <3>2. /\ dlg'[t.d] = [o EXCEPT !.reason = t.reason]
          /\ \A e \in Inv \ {t.d} : dlg'[e] = dlg[e]
      BY <2>1, <2>4 DEF Mark, TypeOK
    <3> HIDE DEF o
    <3>3. dlg'[t.d].done = o.done /\ dlg'[t.d].state = o.state
      BY <3>1, <3>2 DEF DialogObj
    <3>4. ObjectsKept
      BY <2>4, <3>1, <3>2, <3>3 DEF Mark, ObjectsKept
    <3>5. [t EXCEPT !.step = "set"].step = "set"
      BY <2>1 DEF Task
    <3>6. MarkersMade
      BY <2>4, <3>5 DEF Mark, MarkersMade
    <3> QED BY <2>4, <3>4, <3>6, <1>h DEF Mark, Kept
  <2>5. CASE StoreSet(t)
    BY <2>5, <1>h DEF StoreSet, Kept, ObjectsKept, MarkersMade
  <2> QED BY <1>14, <2>3, <2>4, <2>5 DEF TaskStep
<1>15. ASSUME NEW c \in Call, ConfirmWithACK(c) PROVE Kept
  <2>1. At(c) \in Inv
    BY <1>15 DEF ConfirmWithACK, Found, At, TypeOK
  <2>2. dlg' = [dlg EXCEPT ![At(c)] = TransitionTo(@, "Confirmed")]
    BY <1>15 DEF ConfirmWithACK
  <2>3. ObjectsKept
    BY <2>1, <2>2, <1>s, KeptTransition
  <2> QED BY <1>15, <2>3, <1>t, <1>h DEF ConfirmWithACK, Kept
<1>16. ASSUME NEW c \in Call, HandleIncomingBYE(c) \/ HandleIncomingCANCEL(c)
       PROVE  Kept
  <2>1. At(c) \in Inv
    BY <1>16 DEF HandleIncomingBYE, HandleIncomingCANCEL, Found, At, TypeOK
  <2>2. \E r \in Reason : Begin(At(c), r)
    BY <1>16, <1>r DEF HandleIncomingBYE, HandleIncomingCANCEL
  <2>3. ObjectsKept /\ MarkersMade
    BY <2>1, <2>2, KeptBegin
  <2> QED BY <1>16, <2>3, <1>h DEF HandleIncomingBYE, HandleIncomingCANCEL, Kept
<1>17. ASSUME NEW c \in Call, LocalHangup(c) PROVE Kept
  BY <1>17, <1>r, <1>h, KeptTerminate DEF LocalHangup, Kept
<1>18. ASSUME NEW c \in Call, Expire(c) PROVE Kept
  BY <1>18, <1>n, <1>h DEF Expire, Kept
<1> QED
  BY <1>1, <1>2, <1>4, <1>5, <1>6, <1>7, <1>8, <1>9, <1>10, <1>11,
     <1>12, <1>13, <1>14, <1>15, <1>16, <1>17, <1>18
     DEF Next, Setup, Dialplan

LEMMA EndInit == Init => EndInv
BY DEF Init, EndInv, Unborn, MarkersCancelled, EndedIsCancelled, IsTerminated

\* A new dialog takes the place of one that was not made yet, so none that
\* has ended is made again.
LEMMA NewDialogFacts ==
    ASSUME TypeOK, EndInv, NEW i \in Inv, NewDialog(i)
    PROVE  /\ ~IsTerminated(i)
           /\ dlg'[i].state = "Initial"
           /\ \A d \in Inv \ {i} : dlg'[d] = dlg[d]
           /\ \A d \in Inv : dlg'[d].done = dlg[d].done
           /\ inv'[i].pc = "trying"
           /\ \A j \in Inv \ {i} : inv'[j] = inv[j]
           /\ tasks' = tasks
<1>1. ~IsTerminated(i)
  BY DEF NewDialog, EndInv, Unborn, IsTerminated
<1>2. /\ dlg'[i].state = "Initial"
      /\ \A d \in Inv \ {i} : dlg'[d] = dlg[d]
      /\ \A d \in Inv : dlg'[d].done = dlg[d].done
  BY DEF NewDialog, TypeOK, DialogObj
<1>3. /\ inv'[i].pc = "trying"
      /\ \A j \in Inv \ {i} : inv'[j] = inv[j]
  BY DEF NewDialog, Goto, TypeOK
<1> QED BY <1>1, <1>2, <1>3 DEF NewDialog

LEMMA EndNext ==
    ASSUME TypeOK, Handling, EndInv, [Next]_vars
    PROVE  EndInv'
<1>t. \A t \in tasks : t.d \in Inv
  BY DEF TypeOK, Task
<1>1. CASE Kept
  <2>1. Unborn'
    BY <1>1 DEF Kept, ObjectsKept, HandlersKept, EndInv, Unborn
  <2>2. MarkersCancelled'
    BY <1>1, <1>t
       DEF Kept, ObjectsKept, MarkersMade, EndInv, MarkersCancelled
  <2>3. EndedIsCancelled'
    BY <1>1 DEF Kept, ObjectsKept, EndInv, MarkersCancelled,
                EndedIsCancelled, IsTerminated
  <2> QED BY <2>1, <2>2, <2>3 DEF EndInv
<1>2. ASSUME NEW i \in Inv, NewDialog(i) PROVE EndInv'
  <2>1. Unborn'
    BY <1>2, NewDialogFacts DEF EndInv, Unborn
  <2>2. MarkersCancelled'
    BY <1>2, <1>t, NewDialogFacts DEF EndInv, MarkersCancelled
  <2>3. EndedIsCancelled'
    BY <1>2, NewDialogFacts DEF EndInv, EndedIsCancelled, IsTerminated
  <2> QED BY <2>1, <2>2, <2>3 DEF EndInv
<1> QED BY <1>1, <1>2, EndSteps

LEMMA EndInvariant == Spec => []EndInv
<1>1. Init => EndInv
  BY EndInit
<1>2. TypeOK /\ Handling /\ EndInv /\ [Next]_vars => EndInv'
  BY EndNext
<1> QED BY <1>1, <1>2, DialogTypeCorrect, HandlersHaveDialogs, PTL DEF Spec

\* Whatever order the BYE, the CANCEL, the ACK timer and the local hangups
\* reach a dialog in, it is never Terminated with its context still open:
\* terminate (manager.go) cancels before it marks, and nothing opens a cancelled
\* context again.
THEOREM EndedStaysCancelled == Spec => []EndedIsCancelled
<1>1. EndInv => EndedIsCancelled
  BY DEF EndInv
<1> QED BY <1>1, EndInvariant, PTL

\* No step of any handler or goroutine takes a Terminated dialog to another
\* state (dialog.go, TransitionTo), and CreateFromInvite makes no object a
\* second time.
THEOREM EndStaysFinal == Spec => EndIsFinal
<1>1. ASSUME TypeOK, Handling, EndInv, [Next]_vars
      PROVE  \A d \in Inv : IsTerminated(d) => dlg'[d].state = "Terminated"
  <2>1. CASE Kept
    BY <2>1 DEF Kept, ObjectsKept, IsTerminated
  <2>2. ASSUME NEW i \in Inv, NewDialog(i)
        PROVE  \A d \in Inv : IsTerminated(d) => dlg'[d].state = "Terminated"
    BY <2>2, <1>1, NewDialogFacts DEF IsTerminated
  <2> QED BY <1>1, <2>1, <2>2, EndSteps
<1>2. TypeOK /\ Handling /\ EndInv /\ [Next]_vars =>
         [\A d \in Inv : IsTerminated(d) => dlg'[d].state = "Terminated"]_vars
  BY <1>1
<1> QED
  BY <1>2, EndInvariant, DialogTypeCorrect, HandlersHaveDialogs, PTL
     DEF Spec, EndIsFinal

-----------------------------------------------------------------------------
(* The registry.  With Call-IDs that are not shared and calls no longer     *)
(* than the long TTL, the entry of a dialog leaves the store only after the *)
(* dialog has ended: only terminate stores the short TTL, and it does so    *)
(* after it has marked the dialog.                                          *)

UniqueCallIds == \A i, j \in Inv : CallOf[i] = CallOf[j] => i = j

Registry ==
    /\ \A c \in Call : Found(c) =>
          /\ CallOf[At(c)] = c /\ dlg[At(c)].state # "none"
          /\ store[c].short => IsTerminated(At(c))
    /\ \A t \in tasks : /\ dlg[t.d].state # "none"
                        /\ t.step = "set" => IsTerminated(t.d)

RegInv == Registry /\ AllRegistered

\* A new call of terminate, or one that has come a step further.
TasksMade ==
    \A t \in tasks' :
        \/ t \in tasks
        \/ /\ t.step # "set"
           /\ \/ \E c \in Call : Found(c) /\ t.d = At(c)
              \/ dlg[t.d].state = "WaitingACK"
              \/ \E u \in tasks : u.d = t.d
        \/ \E u \in tasks : u.d = t.d /\ Mark(u)

LEMMA TasksTerminate ==
    ASSUME TypeOK, NEW c \in Call, NEW r \in Reason, Terminate(c, r)
    PROVE  TasksMade
BY DEF Terminate, Begin, TasksMade

LEMMA TaskSteps ==
    ASSUME TypeOK, [Next]_vars
    PROVE  TasksMade
<1>c. \A i \in Inv : CallOf[i] \in Call
  BY CallOfType DEF CallOfType
<1>r. {"LocalBYE", "Error"} \subseteq Reason
  BY DEF Reason
<1>0. UNCHANGED tasks => TasksMade
  BY DEF TasksMade
<1>1. ASSUME NEW i \in Inv, Setup(i) \/ Dialplan(i) PROVE TasksMade
  <2>1. \/ UNCHANGED tasks
        \/ \E r \in {"LocalBYE", "Error"} : Terminate(CallOf[i], r)
    BY <1>1 DEF Setup, CreateFromInvite, NewDialog, SendTrying, SetupFails,
                CreateSession, SendOK, SendOKFails, Answered, HandlerTerminates,
                Dialplan, DialplanEnds, DialplanHangup
  <2> QED BY <2>1, <1>0, <1>c, <1>r, TasksTerminate
<1>2. ASSUME NEW i \in Inv, Watcher(i) \/ OnTerminated(i) PROVE TasksMade
  <2>1. CASE ACKTimeout(i)
    BY <2>1 DEF ACKTimeout, Begin, TasksMade
  <2> QED BY <1>0, <1>2, <2>1 DEF Watcher, WatcherReturns, OnTerminated
<1>3. ASSUME NEW t \in tasks, TaskStep(t) PROVE TasksMade
  <2>1. t \in Task
    BY DEF TypeOK
  <2>2. /\ [t EXCEPT !.step = "mark"].d = t.d /\ [t EXCEPT !.step = "set"].d = t.d
        /\ [t EXCEPT !.step = "mark"].step # "set"
    BY <2>1 DEF Task
  <2> QED BY <1>3, <2>2 DEF TaskStep, ByeDone, Mark, StoreSet, TasksMade
<1>4. ASSUME NEW c \in Call, ConfirmWithACK(c) \/ HandleIncomingCANCEL(c)
                             \/ HandleIncomingBYE(c) \/ Expire(c)
      PROVE  TasksMade
  BY <1>0, <1>4 DEF ConfirmWithACK, HandleIncomingCANCEL, HandleIncomingBYE,
                    Expire, Begin, TasksMade
<1>5. ASSUME NEW c \in Call, LocalHangup(c) PROVE TasksMade
  BY <1>5, <1>r, TasksTerminate DEF LocalHangup
<1>6. CASE UNCHANGED vars
  BY <1>0, <1>6 DEF vars
<1> QED BY <1>1, <1>2, <1>3, <1>4, <1>5, <1>6 DEF Next

\* terminate's mark takes effect on every dialog that was made.
LEMMA MarkTerminates ==
    ASSUME TypeOK, NEW t \in tasks, Mark(t), dlg[t.d].state # "none"
    PROVE  dlg'[t.d].state = "Terminated"
<1>1. t.d \in Inv
  BY DEF TypeOK, Task
<1>2. dlg[t.d] \in DialogObj
  BY <1>1 DEF TypeOK
<1> DEFINE o == TransitionTo(dlg[t.d], "Terminated")
<1>3. o \in DialogObj /\ o.state = "Terminated"
  <2>1. o \in DialogObj
    BY <1>2, TransitionFacts DEF State
  <2>2. o.state = "Terminated"
    BY <1>2 DEF TransitionTo, CanTransitionTo, DialogObj, State
  <2> QED BY <2>1, <2>2
<1>4. dlg'[t.d] = [o EXCEPT !.reason = t.reason]
  BY <1>1 DEF Mark, TypeOK
<1> HIDE DEF o
<1> QED BY <1>3, <1>4 DEF DialogObj

\* Only these write the store.
LEMMA StoreSteps ==
    ASSUME [Next]_vars
    PROVE  \/ UNCHANGED store
           \/ \E i \in Inv : NewDialog(i)
           \/ \E t \in tasks : StoreSet(t)
           \/ \E c \in Call : Expire(c)
BY DEF Next, vars, Setup, CreateFromInvite, SendTrying, SetupFails,
       CreateSession, SendOK, SendOKFails, Answered, HandlerTerminates,
       Dialplan, DialplanEnds, DialplanHangup, Watcher, ACKTimeout,
       WatcherReturns, OnTerminated, TaskStep, ByeDone, Mark, ConfirmWithACK,
       HandleIncomingBYE, HandleIncomingCANCEL, LocalHangup

LEMMA RegInit == Init => RegInv
BY DEF Init, RegInv, Registry, AllRegistered, Found, At

LEMMA RegNext ==
    ASSUME UniqueCallIds, "long" \notin Env, TypeOK, Handling, EndInv, RegInv,
           [Next]_vars
    PROVE  RegInv'
<1>c. \A i \in Inv : CallOf[i] \in Call
  BY CallOfType DEF CallOfType
<1>t. /\ \A t \in tasks : t.d \in Inv
      /\ \A c \in Call : Found(c) => At(c) \in Inv
  BY DEF TypeOK, Task, Found, At
<1>1. ASSUME NEW i \in Inv, NewDialog(i) PROVE RegInv'
  <2>1. store' = [store EXCEPT ![CallOf[i]] = [d |-> i, short |-> FALSE]]
    BY <1>1 DEF NewDialog
  <2>2. /\ store'[CallOf[i]] = [d |-> i, short |-> FALSE]
        /\ \A c \in Call \ {CallOf[i]} : store'[c] = store[c]
    BY <2>1, <1>c DEF TypeOK
  <2>3. \A c \in Call \ {CallOf[i]} : Found(c) => At(c) # i
    BY DEF RegInv, Registry
  <2>4. /\ dlg'[i].state = "Initial" /\ ~IsTerminated(i) /\ dlg[i].state = "none"
        /\ \A d \in Inv \ {i} : dlg'[d] = dlg[d] /\ tasks' = tasks
    BY <1>1, NewDialogFacts DEF NewDialog, EndInv, Unborn
  <2>5. tasks' = tasks /\ \A t \in tasks : t.d # i
    BY <1>1, <2>4 DEF NewDialog, RegInv, Registry
  <2>6. Registry'
    <3>1. ASSUME NEW c \in Call, Found(c)'
          PROVE  /\ CallOf[At(c)'] = c /\ dlg'[At(c)'].state # "none"
                 /\ store'[c].short => dlg'[At(c)'].state = "Terminated"
      <4>1. CASE c = CallOf[i]
        BY <2>2, <2>4, <4>1 DEF At
      <4>2. CASE c # CallOf[i]
        <5>1. Found(c) /\ At(c)' = At(c) /\ store'[c] = store[c]
          BY <2>2, <3>1, <4>2 DEF Found, At
        <5>2. At(c) # i /\ dlg'[At(c)] = dlg[At(c)]
          BY <1>t, <2>3, <2>4, <4>2, <5>1
        <5> QED BY <5>1, <5>2 DEF RegInv, Registry, IsTerminated
      <4> QED BY <4>1, <4>2
    <3>2. \A t \in tasks' : /\ dlg'[t.d].state # "none"
                            /\ t.step = "set" => dlg'[t.d].state = "Terminated"
      BY <1>t, <2>4, <2>5 DEF RegInv, Registry, IsTerminated
    <3> QED BY <3>1, <3>2 DEF Registry, IsTerminated
  <2>7. AllRegistered'
    <3> SUFFICES ASSUME NEW d \in Inv, dlg'[d].state \notin {"none", "Terminated"}
                 PROVE  store'[CallOf[d]].d = d
      BY DEF AllRegistered, At
    <3>1. CASE d = i
      BY <2>2, <3>1
    <3>2. CASE d # i
      BY <1>c, <2>2, <2>4, <3>2 DEF UniqueCallIds, RegInv, AllRegistered, At
    <3> QED BY <3>1, <3>2
  <2> QED BY <2>6, <2>7 DEF RegInv
<1>2. CASE Kept
  <2>1. \A d \in Inv :
           /\ dlg[d].state = "Terminated" => dlg'[d].state = "Terminated"
           /\ dlg[d].state = "none" <=> dlg'[d].state = "none"
    BY <1>2 DEF Kept, ObjectsKept
  <2>2. \A t \in tasks' : /\ t.d \in Inv /\ dlg'[t.d].state # "none"
                          /\ t.step = "set" => dlg'[t.d].state = "Terminated"
    <3> SUFFICES ASSUME NEW t \in tasks'
                 PROVE  /\ t.d \in Inv /\ dlg'[t.d].state # "none"
                        /\ t.step = "set" => dlg'[t.d].state = "Terminated"
      OBVIOUS
    <3>0. t.d \in Inv
      BY TypeNext DEF TypeOK, Task
    <3>1. CASE t \in tasks
      BY <2>1, <3>0, <3>1 DEF RegInv, Registry, IsTerminated
    <3>2. CASE t.step # "set" /\ (\/ \E c \in Call : Found(c) /\ t.d = At(c)
                                  \/ dlg[t.d].state = "WaitingACK"
                                  \/ \E u \in tasks : u.d = t.d)
      BY <2>1, <3>0, <3>2 DEF RegInv, Registry
    <3>3. CASE \E u \in tasks : u.d = t.d /\ Mark(u)
      BY <3>0, <3>3, MarkTerminates DEF RegInv, Registry
    <3> QED BY <3>1, <3>2, <3>3, TaskSteps DEF TasksMade
  <2>3. ASSUME NEW c \in Call, store'[c] = store[c]
        PROVE  Found(c)' => /\ CallOf[At(c)'] = c /\ dlg'[At(c)'].state # "none"
                            /\ store'[c].short => dlg'[At(c)'].state = "Terminated"
    BY <1>t, <2>1, <2>3 DEF RegInv, Registry, Found, At, IsTerminated
  <2>4. ASSUME NEW d \in Inv, dlg'[d].state \notin {"none", "Terminated"}
        PROVE  store[CallOf[d]].d = d
    BY <2>1, <2>4 DEF RegInv, AllRegistered, At
  <2>5. CASE UNCHANGED store
    <3>1. Registry'
      BY <2>2, <2>3, <2>5 DEF Registry, IsTerminated
    <3>2. AllRegistered'
      BY <2>4, <2>5 DEF AllRegistered, At
    <3> QED BY <3>1, <3>2 DEF RegInv
  <2>6. ASSUME NEW t \in tasks, StoreSet(t) PROVE RegInv'
    <3>1. /\ t.d \in Inv /\ UNCHANGED dlg /\ IsTerminated(t.d)
      BY <1>t, <2>6 DEF StoreSet, RegInv, Registry
    <3>2. /\ store'[CallOf[t.d]] = [d |-> t.d, short |-> TRUE]
          /\ \A c \in Call \ {CallOf[t.d]} : store'[c] = store[c]
      BY <2>6, <3>1, <1>c DEF StoreSet, TypeOK
    <3>3. Registry'
      <4>1. ASSUME NEW c \in Call, Found(c)'
            PROVE  /\ CallOf[At(c)'] = c /\ dlg'[At(c)'].state # "none"
                   /\ store'[c].short => dlg'[At(c)'].state = "Terminated"
        <5>1. CASE c = CallOf[t.d]
          BY <3>1, <3>2, <5>1 DEF At, IsTerminated
        <5>2. CASE c # CallOf[t.d]
          BY <2>3, <3>2, <4>1, <5>2
        <5> QED BY <5>1, <5>2
      <4> QED BY <2>2, <4>1 DEF Registry, IsTerminated
    <3>4. AllRegistered'
      <4> SUFFICES ASSUME NEW d \in Inv, dlg'[d].state \notin {"none", "Terminated"}
                   PROVE  store'[CallOf[d]].d = d
        BY DEF AllRegistered, At
      <4>1. d # t.d /\ CallOf[d] # CallOf[t.d]
        BY <3>1 DEF IsTerminated, UniqueCallIds
      <4> QED BY <1>c, <2>4, <3>2, <4>1
    <3> QED BY <3>3, <3>4 DEF RegInv
  <2>7. ASSUME NEW e \in Call, Expire(e) PROVE RegInv'
    <3>1. UNCHANGED dlg /\ Found(e) /\ IsTerminated(At(e)) /\ CallOf[At(e)] = e
      BY <2>7 DEF Expire, RegInv, Registry
    <3>2. /\ store'[e] = [d |-> None, short |-> FALSE]
          /\ \A c \in Call \ {e} : store'[c] = store[c]
      BY <2>7 DEF Expire, TypeOK
    <3>3. ~Found(e)'
      BY <3>2 DEF Found
    <3>4. Registry'
      <4>1. ASSUME NEW c \in Call, Found(c)'
            PROVE  /\ CallOf[At(c)'] = c /\ dlg'[At(c)'].state # "none"
                   /\ store'[c].short => dlg'[At(c)'].state = "Terminated"
        BY <2>3, <3>2, <3>3, <4>1
      <4> QED BY <2>2, <4>1 DEF Registry, IsTerminated
    <3>5. AllRegistered'
      <4> SUFFICES ASSUME NEW d \in Inv, dlg'[d].state \notin {"none", "Terminated"}
                   PROVE  store'[CallOf[d]].d = d
        BY DEF AllRegistered, At
      <4>1. store[CallOf[d]].d = d /\ dlg[d].state # "Terminated"
        BY <2>4, <3>1
      <4>2. CallOf[d] # e
        BY <3>1, <4>1 DEF At, IsTerminated
      <4> QED BY <1>c, <3>2, <4>1, <4>2
    <3> QED BY <3>4, <3>5 DEF RegInv
  <2> QED BY <1>1, <2>5, <2>6, <2>7, StoreSteps
<1> QED BY <1>1, <1>2, EndSteps

\* With Call-IDs that are not shared and calls that end within the long TTL,
\* every call that has not ended is found under its Call-ID.
THEOREM ActiveRegistered ==
    ASSUME UniqueCallIds, "long" \notin Env
    PROVE  Spec => []AllRegistered
<1>1. TypeOK /\ Handling /\ EndInv /\ RegInv /\ [Next]_vars => RegInv'
  BY RegNext
<1>2. RegInv => AllRegistered
  BY DEF RegInv
<1> QED BY <1>1, <1>2, RegInit, EndInvariant, DialogTypeCorrect,
           HandlersHaveDialogs, PTL DEF Spec

-----------------------------------------------------------------------------
(* Media sessions.  With Call-IDs that are not shared, every handler works  *)
(* on the dialog it made.  When nobody can end a call before its session is *)
(* known, CreateSession records the session in a dialog that is not ended   *)
(* and has none yet, so that the callback of its end finds it.              *)

Early == {"idle", "create", "trying", "sdp"}

Stages ==
    /\ \A c \in Call : Found(c) => CallOf[At(c)] = c
    /\ \A i \in Inv : inv[i].pc # "idle" => inv[i].d = i
    /\ \A i \in Inv : inv[i].pc \in Early =>
          /\ dlg[i].sid = None /\ ~IsTerminated(i) /\ i \notin watch
          /\ \A t \in tasks : t.d # i

\* A live media session is known to a dialog whose end will destroy it.
SessionKnown ==
    \A s \in Sid : media[s].live =>
        \E d \in Inv : dlg[d].sid = s /\ (~IsTerminated(d) \/ d \in cbs)

\* Only CreateSession writes the session of a dialog, only terminate's mark
\* ends one.
LEMMA SidSteps ==
    ASSUME TypeOK, Handling, [Next]_vars
    PROVE  /\ \/ \A d \in Inv : dlg'[d].sid = dlg[d].sid
              \/ \E i \in Inv : CreateSession(i)
           /\ \/ \A d \in Inv : IsTerminated(d)' => IsTerminated(d)
              \/ \E t \in tasks : Mark(t)
<1> DEFINE Sids == \A d \in Inv : dlg'[d].sid = dlg[d].sid
           Lives == \A d \in Inv : IsTerminated(d)' => IsTerminated(d)
           Same == Sids /\ Lives
<1>s. {"Early", "WaitingACK", "Confirmed"} \subseteq State \ {"none", "Terminated"}
  BY DEF State
<1>1. ASSUME NEW d \in Inv, NEW to \in State \ {"none", "Terminated"},
             dlg' = [dlg EXCEPT ![d] = TransitionTo(@, to)] PROVE Same
  <2>1. dlg'[d] = TransitionTo(dlg[d], to) /\ \A e \in Inv \ {d} : dlg'[e] = dlg[e]
    BY <1>1 DEF TypeOK
  <2>2. /\ TransitionTo(dlg[d], to).sid = dlg[d].sid
        /\ TransitionTo(dlg[d], to).state \in {dlg[d].state, to}
    BY TransitionFacts DEF TypeOK
  <2> QED BY <2>1, <2>2 DEF IsTerminated
<1>2. ASSUME NEW d \in Inv, dlg' = [dlg EXCEPT ![d].done = TRUE] PROVE Same
  BY <1>2 DEF TypeOK, DialogObj, IsTerminated
<1>u. UNCHANGED dlg => Same
  BY DEF IsTerminated
<1>3. ASSUME NEW c \in Call, NEW r \in Reason, Terminate(c, r) PROVE Same
  <2>1. Found(c) => At(c) \in Inv
    BY DEF Found, At, TypeOK
  <2> QED BY <1>2, <1>3, <1>u, <2>1 DEF Terminate, Begin
<1>4. ASSUME NEW i \in Inv, Setup(i) \/ Dialplan(i), ~CreateSession(i) PROVE Same
  <2>1. CASE NewDialog(i)
    BY <2>1 DEF NewDialog, TypeOK, DialogObj, IsTerminated
  <2>2. CASE SendTrying(i) \/ Answered(i)
    <3>1. inv[i].d \in Inv
      BY <2>2 DEF SendTrying, Answered, Handling
    <3> QED BY <1>1, <1>s, <1>u, <2>2, <3>1 DEF SendTrying, Answered
  <2>3. CASE HandlerTerminates(i) \/ DialplanHangup(i)
    <3>1. CallOf[i] \in Call /\ {"LocalBYE", "Error"} \subseteq Reason
      BY CallOfType DEF CallOfType, Reason
    <3> QED BY <1>3, <2>3, <3>1 DEF HandlerTerminates, DialplanHangup
  <2> QED BY <1>4, <1>u, <2>1, <2>2, <2>3
          DEF Setup, Dialplan, CreateFromInvite, SetupFails, SendOK,
              SendOKFails, DialplanEnds
<1>5. ASSUME NEW i \in Inv, Watcher(i) \/ OnTerminated(i) PROVE Same
  BY <1>2, <1>5, <1>u DEF Watcher, ACKTimeout, WatcherReturns, OnTerminated, Begin
<1>6. ASSUME NEW t \in tasks, TaskStep(t) PROVE Sids /\ (Lives \/ Mark(t))
  <2>1. t.d \in Inv
    BY DEF TypeOK, Task
  <2>2. CASE Mark(t)
    <3> DEFINE o == TransitionTo(dlg[t.d], "Terminated")
    <3>1. o \in DialogObj /\ o.sid = dlg[t.d].sid
      BY <2>1, TransitionFacts DEF TypeOK, State
    <3>2. /\ dlg'[t.d] = [o EXCEPT !.reason = t.reason]
          /\ \A e \in Inv \ {t.d} : dlg'[e] = dlg[e]
      BY <2>1, <2>2 DEF Mark, TypeOK
    <3> HIDE DEF o
    <3>3. dlg'[t.d].sid = o.sid
      BY <3>1, <3>2 DEF DialogObj
    <3> QED BY <2>2, <3>1, <3>2, <3>3
  <2> QED BY <1>2, <1>6, <1>u, <2>1, <2>2 DEF TaskStep, ByeDone, StoreSet
<1>7. ASSUME NEW c \in Call, ConfirmWithACK(c) \/ HandleIncomingCANCEL(c)
                 \/ HandleIncomingBYE(c) \/ LocalHangup(c) \/ Expire(c)
      PROVE  Same
  <2>1. Found(c) => At(c) \in Inv
    BY DEF Found, At, TypeOK
  <2>2. CASE LocalHangup(c)
    BY <1>3, <2>2 DEF LocalHangup, Reason
  <2> QED BY <1>1, <1>2, <1>7, <1>s, <1>u, <2>1, <2>2
          DEF ConfirmWithACK, HandleIncomingCANCEL, HandleIncomingBYE, Expire,
              Begin
<1>8. CASE UNCHANGED vars
  BY <1>8, <1>u DEF vars
<1>9. ASSUME NEW i \in Inv, CreateSession(i) PROVE Lives
  BY <1>9 DEF CreateSession, TypeOK, DialogObj, IsTerminated
<1> DEFINE Result == /\ Sids \/ \E i \in Inv : CreateSession(i)
                     /\ Lives \/ \E t \in tasks : Mark(t)
<1>10. ASSUME NEW i \in Inv, Setup(i) \/ Dialplan(i) \/ Watcher(i) \/ OnTerminated(i)
       PROVE  Result
  BY <1>4, <1>5, <1>9, <1>10
<1>11. ASSUME NEW t \in tasks, TaskStep(t) PROVE Result
  BY <1>6, <1>11
<1>12. ASSUME NEW c \in Call, ConfirmWithACK(c) \/ HandleIncomingCANCEL(c)
                 \/ HandleIncomingBYE(c) \/ LocalHangup(c) \/ Expire(c)
       PROVE  Result
  BY <1>7, <1>12
<1>13. CASE UNCHANGED vars
  BY <1>8, <1>13
<1>14. Result
  BY <1>10, <1>11, <1>12, <1>13 DEF Next
<1> QED BY <1>14 DEF Sids, Lives

\* A handler goes forward, on the dialog it made.
LEMMA HandlerSteps ==
    ASSUME UniqueCallIds, TypeOK, Stages, [Next]_vars
    PROVE  \A i \in Inv : /\ inv'[i].pc \in Early => inv[i].pc \in Early
                          /\ inv'[i].pc # "idle" => inv'[i].d = i
<1> SUFFICES ASSUME NEW j \in Inv
             PROVE  /\ inv'[j].pc \in Early => inv[j].pc \in Early
                    /\ inv'[j].pc # "idle" => inv'[j].d = j
  OBVIOUS
<1>0. inv[j].pc # "idle" => inv[j].d = j
  BY DEF Stages
<1>1. CASE UNCHANGED inv
  BY <1>0, <1>1
<1>2. ASSUME NEW i \in Inv, CreateFromInvite(i)
      PROVE  /\ inv'[j].pc \in Early => inv[j].pc \in Early
             /\ inv'[j].pc # "idle" => inv'[j].d = j
  <2>1. Found(CallOf[i]) => At(CallOf[i]) = i
    <3>1. CallOf[i] \in Call
      BY CallOfType DEF CallOfType
    <3> QED BY <3>1 DEF Stages, UniqueCallIds, Found, At, TypeOK
  <2>2. inv[i].pc = "idle" /\ \E p : inv' = [inv EXCEPT ![i].pc = p, ![i].d = i]
    BY <1>2, <2>1 DEF CreateFromInvite
  <2>3. (j = i => inv'[j].d = i) /\ (j # i => inv'[j] = inv[j])
    BY <2>2 DEF TypeOK
  <2> QED BY <1>0, <2>2, <2>3 DEF Early
<1>3. ASSUME NEW i \in Inv, NEW p, Goto(i, p),
             inv[i].pc \in Early \ {"idle"} \/ p \notin Early,
             inv[i].pc # "idle"
      PROVE  /\ inv'[j].pc \in Early => inv[j].pc \in Early
             /\ inv'[j].pc # "idle" => inv'[j].d = j
  <2>1. inv'[i].pc = p /\ inv'[i].d = inv[i].d /\ (j # i => inv'[j] = inv[j])
    BY <1>3 DEF Goto, TypeOK
  <2> QED BY <1>0, <1>3, <2>1
<1>4. ASSUME NEW i \in Inv, CreateSession(i)
      PROVE  /\ inv'[j].pc \in Early => inv[j].pc \in Early
             /\ inv'[j].pc # "idle" => inv'[j].d = j
  <2>1. inv[i].pc = "sdp" /\ \E s : inv' = [inv EXCEPT ![i].pc = "ok", ![i].sid = s]
    BY <1>4 DEF CreateSession
  <2>2. inv'[i].pc = "ok" /\ inv'[i].d = inv[i].d /\ (j # i => inv'[j] = inv[j])
    BY <2>1 DEF TypeOK
  <2> QED BY <1>0, <2>1, <2>2 DEF Early
<1>5. ASSUME NEW i \in Inv, Setup(i) \/ Dialplan(i)
      PROVE  /\ inv'[j].pc \in Early => inv[j].pc \in Early
             /\ inv'[j].pc # "idle" => inv'[j].d = j
  <2>1. \/ CreateFromInvite(i) \/ CreateSession(i)
        \/ /\ inv[i].pc # "idle"
           /\ \E p : Goto(i, p) /\ (inv[i].pc \in Early \ {"idle"} \/ p \notin Early)
    BY <1>5 DEF Early, Setup, NewDialog, SendTrying, SetupFails, SendOK,
                SendOKFails, Answered, HandlerTerminates, Dialplan,
                DialplanEnds, DialplanHangup
  <2> QED BY <1>2, <1>3, <1>4, <2>1
<1> QED
  BY <1>1, <1>5 DEF Next, vars, Watcher, ACKTimeout, WatcherReturns,
     OnTerminated, TaskStep, ByeDone, Mark, StoreSet, ConfirmWithACK,
     HandleIncomingBYE, HandleIncomingCANCEL, LocalHangup, Expire

\* Nobody turns to a dialog at an early stage to end it.
LEMMA EarlyLeftAlone ==
    ASSUME UniqueCallIds, "early" \notin Env, TypeOK, Stages, [Next]_vars,
           NEW j \in Inv, inv'[j].pc \in Early
    PROVE  j \notin watch' /\ \A t \in tasks' : t.d # j
<1>0. inv[j].pc \in Early
  BY HandlerSteps
<1>1. /\ dlg[j].sid = None /\ j \notin watch /\ \A t \in tasks : t.d # j
  BY <1>0 DEF Stages
<1>2. CASE UNCHANGED <<tasks, watch>>
  BY <1>1, <1>2
<1>3. ASSUME NEW i \in Inv, Answered(i)
      PROVE  j \notin watch' /\ \A t \in tasks' : t.d # j
  <2>1. inv[i].d = i /\ inv'[i].pc = "dialplan"
    BY <1>3 DEF Answered, Stages, Goto, TypeOK
  <2> QED BY <1>1, <1>3, <2>1 DEF Answered, Early
<1>4. ASSUME NEW i \in Inv, HandlerTerminates(i) \/ DialplanHangup(i)
      PROVE  j \notin watch' /\ \A t \in tasks' : t.d # j
  <2>1. inv'[i].pc = "done" /\ UNCHANGED watch
    BY <1>4 DEF HandlerTerminates, DialplanHangup, Goto, TypeOK
  <2>2. Found(CallOf[i]) => At(CallOf[i]) = i
    <3>1. CallOf[i] \in Call
      BY CallOfType DEF CallOfType
    <3> QED BY <3>1 DEF Stages, UniqueCallIds, Found, At, TypeOK
  <2>3. \A t \in tasks' : t \in tasks \/ t.d = i
    BY <1>4, <2>2 DEF HandlerTerminates, DialplanHangup, Terminate, Begin
  <2> QED BY <1>1, <2>1, <2>3 DEF Early
<1>5. ASSUME NEW i \in Inv, Watcher(i) \/ OnTerminated(i)
      PROVE  j \notin watch' /\ \A t \in tasks' : t.d # j
  BY <1>1, <1>5 DEF Watcher, ACKTimeout, WatcherReturns, OnTerminated, Begin
<1>6. ASSUME NEW t \in tasks, TaskStep(t)
      PROVE  j \notin watch' /\ \A u \in tasks' : u.d # j
  <2>1. t.d # j /\ \A x : [t EXCEPT !.step = x].d = t.d
    BY <1>1 DEF TypeOK, Task
  <2> QED BY <1>1, <1>6, <2>1 DEF TaskStep, ByeDone, Mark, StoreSet
<1>7. ASSUME NEW c \in Call, HandleIncomingBYE(c) \/ HandleIncomingCANCEL(c)
                             \/ LocalHangup(c)
      PROVE  j \notin watch' /\ \A t \in tasks' : t.d # j
  <2>1. dlg[At(c)].sid # None /\ UNCHANGED watch
    BY <1>7 DEF HandleIncomingBYE, HandleIncomingCANCEL, LocalHangup, MayEnd
  <2>2. \A t \in tasks' : t \in tasks \/ t.d = At(c)
    BY <1>7 DEF HandleIncomingBYE, HandleIncomingCANCEL, LocalHangup,
                Terminate, Begin
  <2> QED BY <1>1, <2>1, <2>2
<1> QED
  BY <1>2, <1>3, <1>4, <1>5, <1>6, <1>7
     DEF Next, vars, Setup, CreateFromInvite, NewDialog, SendTrying, SetupFails,
         CreateSession, SendOK, SendOKFails, Dialplan, DialplanEnds,
         ConfirmWithACK, Expire

LEMMA StagesNext ==
    ASSUME UniqueCallIds, "early" \notin Env, TypeOK, Handling, EndInv, Stages,
           [Next]_vars
    PROVE  Stages'
<1>c. \A i \in Inv : CallOf[i] \in Call
  BY CallOfType DEF CallOfType
<1>1. \A c \in Call : Found(c)' => CallOf[At(c)'] = c
  <2>1. ASSUME NEW i \in Inv, NewDialog(i)
        PROVE  \A c \in Call : Found(c)' => CallOf[At(c)'] = c
    BY <2>1, <1>c DEF NewDialog, TypeOK, Stages, Found, At
  <2>2. ASSUME NEW t \in tasks, StoreSet(t)
        PROVE  \A c \in Call : Found(c)' => CallOf[At(c)'] = c
    <3>1. t.d \in Inv
      BY DEF TypeOK, Task
    <3> QED BY <2>2, <3>1, <1>c DEF StoreSet, TypeOK, Stages, Found, At
  <2>3. ASSUME NEW e \in Call, Expire(e)
        PROVE  \A c \in Call : Found(c)' => CallOf[At(c)'] = c
    BY <2>3 DEF Expire, TypeOK, Stages, Found, At
  <2>4. CASE UNCHANGED store
    BY <2>4 DEF Stages, Found, At
  <2> QED BY <2>1, <2>2, <2>3, <2>4, StoreSteps
<1>2. ASSUME NEW i \in Inv, inv'[i].pc \in Early
      PROVE  /\ dlg'[i].sid = None /\ dlg'[i].state # "Terminated"
             /\ i \notin watch' /\ \A t \in tasks' : t.d # i
  <2>1. inv[i].pc \in Early /\ i \notin watch' /\ \A t \in tasks' : t.d # i
    BY <1>2, HandlerSteps, EarlyLeftAlone
  <2>2. dlg[i].sid = None /\ ~IsTerminated(i) /\ \A t \in tasks : t.d # i
    BY <2>1 DEF Stages
  <2>3. dlg'[i].state # "Terminated"
    <3>1. CASE Kept
      BY <2>2, <3>1 DEF Kept, ObjectsKept, IsTerminated
    <3>2. ASSUME NEW k \in Inv, NewDialog(k) PROVE dlg'[i].state # "Terminated"
      BY <2>2, <3>2, NewDialogFacts DEF IsTerminated
    <3> QED BY <3>1, <3>2, EndSteps
  <2>4. dlg'[i].sid = None
    <3>1. ASSUME NEW k \in Inv, CreateSession(k) PROVE dlg'[i].sid = dlg[i].sid
      <4>0. PICK s \in Sid :
               /\ dlg' = [dlg EXCEPT ![inv[k].d].sid = s]
               /\ inv' = [inv EXCEPT ![k].pc = "ok", ![k].sid = s]
        BY <3>1 DEF CreateSession
      <4>d. inv[k].d = k
        BY <3>1 DEF CreateSession, Stages
      <4>1. inv'[k].pc = "ok" /\ dlg' = [dlg EXCEPT ![k].sid = s]
        BY <4>0, <4>d DEF TypeOK
      <4>2. i # k
        BY <1>2, <4>1 DEF Early
      <4> QED BY <4>1, <4>2 DEF TypeOK
    <3> QED BY <2>2, <3>1, SidSteps
  <2> QED BY <2>1, <2>3, <2>4
<1> QED BY <1>1, <1>2, HandlerSteps DEF Stages, IsTerminated

\* The steps that a live session and its dialog go through.
LEMMA KnownNext ==
    ASSUME "rpc" \notin Env, TypeOK, Handling, EndInv, Stages, SessionKnown,
           [Next]_vars
    PROVE  SessionKnown'
<1> DEFINE Owner(d, s) == dlg[d].sid = s /\ (~IsTerminated(d) \/ d \in cbs)
<1>1. ASSUME NEW i \in Inv, CreateSession(i) PROVE SessionKnown'
  <2>1. PICK s \in Sid :
           /\ media' = [media EXCEPT ![s] = [call |-> CallOf[i], live |-> TRUE]]
           /\ dlg' = [dlg EXCEPT ![inv[i].d].sid = s]
    BY <1>1 DEF CreateSession
  <2>2. /\ inv[i].d = i /\ dlg[i].sid = None /\ ~IsTerminated(i) /\ cbs' = cbs
    BY <1>1 DEF CreateSession, Stages, Early
  <2>3. /\ dlg'[i].sid = s /\ dlg'[i].state = dlg[i].state
        /\ \A d \in Inv \ {i} : dlg'[d] = dlg[d]
    BY <2>1, <2>2 DEF TypeOK, DialogObj
  <2>4. \A x \in Sid \ {s} : media'[x] = media[x]
    BY <2>1 DEF TypeOK
  <2>5. ASSUME NEW x \in Sid, media'[x].live
        PROVE  \E d \in Inv : Owner(d, x)'
    <3>1. CASE x = s
      BY <2>2, <2>3, <3>1 DEF IsTerminated
    <3>2. CASE x # s
      <4>1. PICK d \in Inv : Owner(d, x)
        BY <2>4, <2>5, <3>2 DEF SessionKnown
      <4>2. d # i
        BY <2>2, <4>1, NoneFresh
      <4> QED BY <2>2, <2>3, <4>1, <4>2 DEF IsTerminated
    <3> QED BY <3>1, <3>2
  <2> QED BY <2>5 DEF SessionKnown
<1>2. ASSUME NEW d \in Inv, OnTerminated(d) PROVE SessionKnown'
  <2>1. /\ cbs' = cbs \ {d} /\ UNCHANGED dlg
        /\ media' = IF dlg[d].sid = None THEN media
                    ELSE [media EXCEPT ![dlg[d].sid].live = FALSE]
    BY <1>2 DEF OnTerminated, DestroySession
  <2>2. \A x \in Sid : media'[x].live => media[x].live /\ dlg[d].sid # x
    BY <2>1, NoneFresh DEF TypeOK, MediaSession
  <2>3. ASSUME NEW x \in Sid, media'[x].live PROVE \E e \in Inv : Owner(e, x)'
    <3>1. PICK e \in Inv : Owner(e, x)
      BY <2>2, <2>3 DEF SessionKnown
    <3>2. e # d
      BY <2>2, <2>3, <3>1
    <3> QED BY <2>1, <3>1, <3>2 DEF IsTerminated
  <2> QED BY <2>3 DEF SessionKnown
<1>3. ASSUME NEW i \in Inv, SendOKFails(i) PROVE SessionKnown'
  <2>1. /\ UNCHANGED <<dlg, cbs>>
        /\ media' = IF inv[i].sid = None THEN media
                    ELSE [media EXCEPT ![inv[i].sid].live = FALSE]
    BY <1>3 DEF SendOKFails, DestroySession
  <2>2. \A x \in Sid : media'[x].live => media[x].live
    BY <2>1 DEF TypeOK, MediaSession
  <2> QED BY <2>1, <2>2 DEF SessionKnown, IsTerminated
<1>4. ASSUME NEW t \in tasks, Mark(t) PROVE SessionKnown'
  <2>1. /\ cbs' = cbs \cup {t.d} /\ UNCHANGED media
        /\ \A e \in Inv \ {t.d} : dlg'[e] = dlg[e]
    BY <1>4 DEF Mark, TypeOK
  <2>2. \A d \in Inv : dlg'[d].sid = dlg[d].sid
    <3>1. ~\E i \in Inv : CreateSession(i)
      <4>1. t \in tasks /\ t \notin tasks'
        BY <1>4 DEF Mark, TypeOK, Task
      <4> QED BY <4>1 DEF CreateSession
    <3> QED BY <3>1, SidSteps
  <2> QED BY <2>1, <2>2 DEF SessionKnown, IsTerminated
<1>5. ASSUME UNCHANGED <<media, cbs>>, \A d \in Inv : dlg'[d].sid = dlg[d].sid,
             \A d \in Inv : IsTerminated(d)' => IsTerminated(d)
      PROVE  SessionKnown'
  BY <1>5 DEF SessionKnown
<1>6. ASSUME ~\E i \in Inv : CreateSession(i) \/ OnTerminated(i) \/ SendOKFails(i),
             ~\E t \in tasks : Mark(t)
      PROVE  UNCHANGED <<media, cbs>>
  BY <1>6 DEF Next, vars, Setup, CreateFromInvite, NewDialog, SendTrying,
     SetupFails, SendOK, Answered, HandlerTerminates, Dialplan, DialplanEnds,
     DialplanHangup, Watcher, ACKTimeout, WatcherReturns, TaskStep, ByeDone,
     StoreSet, ConfirmWithACK, HandleIncomingBYE, HandleIncomingCANCEL,
     LocalHangup, Expire
<1> QED BY <1>1, <1>2, <1>3, <1>4, <1>5, <1>6, SidSteps

LEMMA KnownInit == Init => Stages /\ SessionKnown
BY DEF Init, Stages, SessionKnown, Found, At, IsTerminated

\* With Call-IDs that are not shared, calls that nobody ends before their
\* session is known and DestroySession requests that arrive, no media session
\* outlives its call: the dialog that is to destroy it is not ended or its
\* callback is still to come.
THEOREM SessionsOwned ==
    ASSUME UniqueCallIds, "early" \notin Env, "rpc" \notin Env
    PROVE  Spec => []MediaOwned
<1>1. TypeOK /\ Handling /\ EndInv /\ Stages /\ [Next]_vars => Stages'
  BY StagesNext
<1>2. TypeOK /\ Handling /\ EndInv /\ Stages /\ SessionKnown /\ [Next]_vars
         => SessionKnown'
  BY KnownNext
<1>3. SessionKnown => MediaOwned
  BY DEF SessionKnown, MediaOwned
<1> QED BY <1>1, <1>2, <1>3, KnownInit, EndInvariant, DialogTypeCorrect,
           HandlersHaveDialogs, PTL DEF Spec

=============================================================================
