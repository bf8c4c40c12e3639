---------------------------- MODULE B2BUAProofs ----------------------------
(***************************************************************************)
(* Proofs about B2BUA, for every environment: ends of the B dialog at any  *)
(* moment and failing RPCs included.                                       *)
(***************************************************************************)
EXTENDS B2BUA, TLAPS

StepRec == [op : Op, leg : Side, cause : Cause]

StepsIn(ss) == {ss[i] : i \in 1..Len(ss)}

\* The steps that some goroutine has yet to execute.
Due == UNION {StepsIn(todo[t]) : t \in Thread}

\* The step h is executed and the steps S are added.
Replaced(h, S) ==
    /\ Due' \subseteq Due \cup S
    /\ S \subseteq Due'
    /\ Due \subseteq Due' \cup {h}

TodoType == todo \in [Thread -> Seq(StepRec)]

-----------------------------------------------------------------------------
(* Sequences of steps *)

LEMMA StepTyped ==
    ASSUME NEW op \in Op, NEW l \in Side, NEW cause \in Cause
    PROVE  Step(op, l, cause) \in StepRec
BY DEF Step, StepRec

LEMMA Empty == <<>> \in Seq(StepRec) /\ StepsIn(<<>>) = {} /\ Len(<<>>) = 0
BY DEF StepsIn

LEMMA One ==
    ASSUME NEW a \in StepRec
    PROVE  <<a>> \in Seq(StepRec) /\ StepsIn(<<a>>) = {a}
BY DEF StepsIn

LEMMA Two ==
    ASSUME NEW a \in StepRec, NEW b \in StepRec
    PROVE  <<a, b>> \in Seq(StepRec) /\ StepsIn(<<a, b>>) = {a, b}
BY DEF StepsIn

LEMMA Three ==
    ASSUME NEW a \in StepRec, NEW b \in StepRec, NEW c \in StepRec
    PROVE  <<a, b, c>> \in Seq(StepRec) /\ StepsIn(<<a, b, c>>) = {a, b, c}
BY DEF StepsIn

LEMMA ConcatAt ==
    ASSUME NEW r \in Seq(StepRec), NEW s \in Seq(StepRec)
    PROVE  /\ r \o s \in Seq(StepRec)
           /\ Len(r \o s) = Len(r) + Len(s)
           /\ Len(r) \in Nat /\ Len(s) \in Nat
           /\ \A i \in 1..Len(r) : (r \o s)[i] = r[i]
           /\ \A i \in 1..Len(s) : (r \o s)[Len(r) + i] = s[i]
OBVIOUS

LEMMA Concat ==
    ASSUME NEW r \in Seq(StepRec), NEW s \in Seq(StepRec)
    PROVE  /\ r \o s \in Seq(StepRec)
           /\ StepsIn(r \o s) = StepsIn(r) \cup StepsIn(s)
<1>1. /\ r \o s \in Seq(StepRec)
      /\ Len(r \o s) = Len(r) + Len(s)
      /\ Len(r) \in Nat /\ Len(s) \in Nat
      /\ \A i \in 1..Len(r) : (r \o s)[i] = r[i]
      /\ \A i \in 1..Len(s) : (r \o s)[Len(r) + i] = s[i]
  BY ConcatAt
<1>2. StepsIn(r) \subseteq StepsIn(r \o s)
  BY <1>1 DEF StepsIn
<1>3. StepsIn(s) \subseteq StepsIn(r \o s)
  <2>1. \A i \in 1..Len(s) : Len(r) + i \in 1..Len(r \o s)
    BY <1>1
  <2> QED BY <1>1, <2>1 DEF StepsIn
<1>4. ASSUME NEW i \in 1..Len(r \o s)
      PROVE  (r \o s)[i] \in StepsIn(r) \cup StepsIn(s)
  <2>1. CASE i <= Len(r)
    BY <1>1, <2>1 DEF StepsIn
  <2>2. CASE i > Len(r)
    <3>1. i - Len(r) \in 1..Len(s) /\ i = Len(r) + (i - Len(r))
      BY <1>1, <2>2
    <3> QED BY <1>1, <3>1 DEF StepsIn
  <2> QED BY <1>1, <2>1, <2>2
<1>5. StepsIn(r \o s) \subseteq StepsIn(r) \cup StepsIn(s)
  BY <1>4 DEF StepsIn
<1> QED BY <1>1, <1>2, <1>3, <1>5

LEMMA HeadTail ==
    ASSUME NEW s \in Seq(StepRec), s # <<>>
    PROVE  /\ Head(s) \in StepRec /\ Tail(s) \in Seq(StepRec)
           /\ Len(s) \in Nat \ {0} /\ Len(Tail(s)) = Len(s) - 1
           /\ \A i \in 1..Len(Tail(s)) : Tail(s)[i] = s[i + 1]
           /\ Head(s) = s[1]
           /\ StepsIn(s) = StepsIn(Tail(s)) \cup {Head(s)}
<1>1. /\ Head(s) \in StepRec /\ Tail(s) \in Seq(StepRec)
      /\ Len(s) \in Nat \ {0} /\ Len(Tail(s)) = Len(s) - 1
      /\ \A i \in 1..Len(Tail(s)) : Tail(s)[i] = s[i + 1]
      /\ Head(s) = s[1]
  OBVIOUS
<1>2. \A i \in 1..Len(Tail(s)) : i + 1 \in 1..Len(s)
  BY <1>1
<1>3. StepsIn(Tail(s)) \cup {Head(s)} \subseteq StepsIn(s)
  BY <1>1, <1>2 DEF StepsIn
<1>4. \A i \in 1..Len(s) : i = 1 \/ (i - 1 \in 1..Len(Tail(s)) /\ i = (i - 1) + 1)
  BY <1>1
<1>5. StepsIn(s) \subseteq StepsIn(Tail(s)) \cup {Head(s)}
  BY <1>1, <1>4 DEF StepsIn
<1> QED BY <1>1, <1>3, <1>5

\* The steps of a goroutine after it executed its head step.
LEMMA ThenFacts ==
    ASSUME TodoType, NEW t \in Thread, ~Idle(t), NEW ss \in Seq(StepRec),
           Then(t, ss)
    PROVE  /\ TodoType'
           /\ \A u \in Thread \ {t} : todo'[u] = todo[u]
           /\ todo'[t] = ss \o Tail(todo[t])
           /\ Head(todo[t]) \in Due
           /\ Replaced(Head(todo[t]), StepsIn(ss))
<1>1. /\ todo[t] \in Seq(StepRec) /\ todo[t] # <<>>
      /\ todo'[t] = ss \o Tail(todo[t])
      /\ todo' = [todo EXCEPT ![t] = ss \o Tail(todo[t])]
  BY DEF TodoType, Idle, Then
<1>2. Tail(todo[t]) \in Seq(StepRec)
  BY <1>1, HeadTail
<1>3. /\ ss \o Tail(todo[t]) \in Seq(StepRec)
      /\ StepsIn(todo'[t]) = StepsIn(ss) \cup StepsIn(Tail(todo[t]))
  BY <1>1, <1>2, Concat
<1>4. StepsIn(todo[t]) = StepsIn(Tail(todo[t])) \cup {Head(todo[t])}
  BY <1>1, HeadTail
<1>5. TodoType'
  BY <1>1, <1>3 DEF TodoType
<1>6. \A u \in Thread \ {t} : todo'[u] = todo[u]
  BY <1>1 DEF TodoType
<1>7. Head(todo[t]) \in Due
  BY <1>4 DEF Due
<1>8. Due' \subseteq Due \cup StepsIn(ss)
  BY <1>3, <1>4, <1>6 DEF Due
<1>9. StepsIn(ss) \subseteq Due'
  BY <1>3 DEF Due
<1>10. Due \subseteq Due' \cup {Head(todo[t])}
  BY <1>3, <1>4, <1>6 DEF Due
<1> QED BY <1>1, <1>5, <1>6, <1>7, <1>8, <1>9, <1>10 DEF Replaced

\* An idle goroutine starts: nothing is lost.
LEMMA RunFacts ==
    ASSUME TodoType, NEW t \in Thread, Idle(t), NEW ss \in Seq(StepRec),
           Run(t, ss)
    PROVE  /\ TodoType'
           /\ \A u \in Thread \ {t} : todo'[u] = todo[u]
           /\ todo'[t] = ss
           /\ Due' = Due \cup StepsIn(ss)
<1>1. /\ todo[t] = <<>> /\ todo'[t] = ss
      /\ \A u \in Thread \ {t} : todo'[u] = todo[u]
      /\ TodoType'
  BY DEF TodoType, Idle, Run
<1>2. StepsIn(todo[t]) = {}
  BY <1>1, Empty
<1> QED BY <1>1, <1>2 DEF Due

LEMMA PendingDue ==
    ASSUME TodoType, NEW ops, NEW l
    PROVE  Pending(ops, l) <=> \E x \in Due : x.op \in ops /\ x.leg = l
<1>1. \A t \in Thread : DOMAIN todo[t] = 1..Len(todo[t])
  BY DEF TodoType
<1> QED BY <1>1 DEF Pending, Due, StepsIn

LEMMA PendingDueNext ==
    ASSUME TodoType', NEW ops, NEW l
    PROVE  Pending(ops, l)' <=> \E x \in Due' : x.op \in ops /\ x.leg = l
<1>1. \A t \in Thread : DOMAIN todo'[t] = 1..Len(todo'[t])
  BY DEF TodoType
<1> QED BY <1>1 DEF Pending, Due, StepsIn

-----------------------------------------------------------------------------
(* What executing a step does, in terms of the steps due *)

HangupEffect(h, S) ==
    /\ h.op = "hangup"
    /\ \/ IsTerminal(h.leg) /\ S = {} /\ UNCHANGED leg
       \/ /\ ~IsTerminal(h.leg)
          /\ leg' = [leg EXCEPT ![h.leg].state = "Destroyed",
                                ![h.leg].cause = h.cause]
          /\ S = {Step("teardown", h.leg, h.cause),
                  Step("close", h.leg, h.cause),
                  Step("notify", h.leg, h.cause)}
    /\ UNCHANGED <<relay, bridge, dlg, media, cbs, told, legs, woken>>

TeardownEffect(h, S) ==
    /\ h.op = "teardown"
    /\ IF leg[h.leg].cause # "RemoteBYE" /\ h.leg = "B" THEN SendBYE
       ELSE UNCHANGED told
    /\ S \subseteq {Step("terminate", "A", "None")}
    /\ UNCHANGED <<leg, relay, bridge, dlg, media, cbs, legs, woken>>

NotifyEffect(h, S) ==
    /\ h.op = "notify"
    /\ S = (IF h.leg = "A" THEN {}
            ELSE {Step("destroy", "B", h.cause), Step("terminate", "B", h.cause),
                  Step("unlist", "B", h.cause)})
           \cup (IF bridge = "none" THEN {}
                 ELSE {Step("legTerminated", h.leg, h.cause)})
    /\ UNCHANGED <<leg, relay, bridge, dlg, media, cbs, told, legs, woken>>

TerminateEffect(h, S) ==
    /\ h.op = "terminate"
    /\ \/ dlg[h.leg].state \in {"none", "Terminated"} /\ S = {} /\ UNCHANGED told
       \/ /\ dlg[h.leg].state \notin {"none", "Terminated"}
          /\ told' = IF dlg[h.leg].state = "Confirmed" /\ h.cause # "RemoteBYE"
                     THEN told \cup {h.leg} ELSE told
          /\ S = {Step("cancel", h.leg, h.cause), Step("mark", h.leg, h.cause)}
    /\ UNCHANGED <<leg, relay, bridge, dlg, media, cbs, legs, woken>>

LegTerminatedEffect(h, S) ==
    /\ h.op = "legTerminated"
    /\ ~Locked
    /\ \/ bridge \in {"Terminating", "Terminated"} /\ S = {} /\ UNCHANGED bridge
       \/ /\ bridge \notin {"Terminating", "Terminated"}
          /\ bridge' = "Terminating"
          /\ S = {Step("stop", "A", "None")}
    /\ UNCHANGED <<leg, relay, dlg, media, cbs, told, legs, woken>>

StopEffect(h, S) ==
    /\ h.op = "stop"
    /\ ~Locked
    /\ \/ bridge = "Terminated" /\ S = {} /\ UNCHANGED bridge
       \/ /\ bridge # "Terminated"
          /\ bridge' = "Terminating"
          /\ S = (IF relay \in {"none", "stray"} THEN {}
                  ELSE {Step("unbridge", "A", "None")})
                 \cup {Step("stopLegs", "A", "None"),
                       Step("stopEnd", "A", "None"), Step("wake", "A", "None")}
    /\ UNCHANGED <<leg, relay, dlg, media, cbs, told, legs, woken>>

StopLegsEffect(h, S) ==
    /\ h.op = "stopLegs"
    /\ S \subseteq {Step("hangup", l, "BridgePeer") : l \in Side}
    /\ UNCHANGED <<leg, relay, bridge, dlg, media, cbs, told, legs, woken>>

\* The steps that add no other.
LastEffect(h, S) ==
    /\ S = {}
    /\ \/ /\ h.op = "close"
          /\ leg' = [leg EXCEPT ![h.leg].closed = TRUE]
          /\ UNCHANGED <<relay, bridge, dlg, media, cbs, told, legs, woken>>
       \/ /\ h.op = "destroy"
          /\ DestroyMedia("B")
          /\ UNCHANGED <<leg, relay, bridge, dlg, cbs, told, legs, woken>>
       \/ /\ h.op = "unlist"
          /\ legs' = FALSE
          /\ UNCHANGED <<leg, relay, bridge, dlg, media, cbs, told, woken>>
       \/ /\ h.op = "cancel"
          /\ dlg' = [dlg EXCEPT ![h.leg].done = TRUE]
          /\ UNCHANGED <<leg, relay, bridge, media, cbs, told, legs, woken>>
       \/ /\ h.op = "mark"
          /\ dlg' = [dlg EXCEPT ![h.leg].state = "Terminated"]
          /\ cbs' = cbs \cup {h.leg}
          /\ UNCHANGED <<leg, relay, bridge, media, told, legs, woken>>
       \/ /\ h.op = "unbridge"
          /\ relay' \in {"down", "kept"}
          /\ relay' = "kept" => "bridge" \in Env
          /\ UNCHANGED <<leg, bridge, dlg, media, cbs, told, legs, woken>>
       \/ /\ h.op = "stopEnd"
          /\ bridge' = "Terminated"
          /\ UNCHANGED <<leg, relay, dlg, media, cbs, told, legs, woken>>
       \/ /\ h.op = "wake"
          /\ woken' = TRUE
          /\ UNCHANGED <<leg, relay, bridge, dlg, media, cbs, told, legs>>

Effect(h, S) ==
    \/ HangupEffect(h, S) \/ TeardownEffect(h, S) \/ NotifyEffect(h, S)
    \/ TerminateEffect(h, S) \/ LegTerminatedEffect(h, S) \/ StopEffect(h, S)
    \/ StopLegsEffect(h, S) \/ LastEffect(h, S)

\* Goroutine t executes h, which becomes the steps ss.
Executed(t, h, ss) ==
    /\ h = Head(todo[t])
    /\ h \in StepRec /\ h \in Due
    /\ ss \in Seq(StepRec)
    /\ ~Idle(t)
    /\ Then(t, ss)
    /\ Effect(h, StepsIn(ss))
    /\ UNCHANGED <<pc, mon, contact, left>>

LEMMA ExecuteFacts ==
    ASSUME TodoType, NEW t \in Thread, Execute(t)
    PROVE  \E h, ss : Executed(t, h, ss)
<1>1. PICK h : h = Head(todo[t])
  OBVIOUS
<1>2. todo[t] \in Seq(StepRec) /\ todo[t] # <<>> /\ ~Idle(t)
  BY DEF TodoType, Execute, Idle
<1>3. h \in StepRec /\ h \in StepsIn(todo[t])
  BY <1>1, <1>2, HeadTail
<1>4. h \in Due /\ h.leg \in Side /\ h.cause \in Cause
  BY <1>3 DEF Due, StepRec
<1>5. SUFFICES \E ss \in Seq(StepRec) :
                  /\ Then(t, ss) /\ Effect(h, StepsIn(ss))
                  /\ UNCHANGED <<pc, mon, contact, left>>
  BY <1>1, <1>2, <1>3, <1>4 DEF Executed
<1> DEFINE X(op) == Step(op, h.leg, h.cause)
           A(op) == Step(op, "A", "None")
<1>6. \A op \in Op : X(op) \in StepRec /\ A(op) \in StepRec
  BY <1>4, StepTyped DEF Side, Cause
<1>7. <<>> \in Seq(StepRec) /\ StepsIn(<<>>) = {}
  BY Empty
<1>8. CASE h.op = "hangup" /\ Hangup(t, h.leg, h.cause)
  <2>1. CASE IsTerminal(h.leg)
    BY <1>7, <1>8, <2>1 DEF Hangup, Effect, HangupEffect
  <2>2. CASE ~IsTerminal(h.leg)
    <3>1. /\ X("teardown") \in StepRec /\ X("close") \in StepRec
          /\ X("notify") \in StepRec
      BY <1>6 DEF Op
    <3>2. PICK ss : ss = <<X("teardown"), X("close"), X("notify")>>
      OBVIOUS
    <3>3. /\ ss \in Seq(StepRec)
          /\ StepsIn(ss) = {X("teardown"), X("close"), X("notify")}
      BY <3>1, <3>2, Three
    <3>4. Then(t, ss)
      BY <1>8, <2>2, <3>2 DEF Hangup
    <3>5. HangupEffect(h, StepsIn(ss)) /\ UNCHANGED <<pc, mon, contact, left>>
      BY <1>8, <2>2, <3>3 DEF Hangup, HangupEffect
    <3> QED BY <3>3, <3>4, <3>5 DEF Effect
  <2> QED BY <2>1, <2>2
<1>9. CASE h.op = "teardown" /\ Teardown(t, h.leg)
  <2>1. PICK ss \in {<<>>, <<A("terminate")>>} : Then(t, ss)
    BY <1>9 DEF Teardown
  <2>2. A("terminate") \in StepRec
    BY <1>6 DEF Op
  <2>3. ss \in Seq(StepRec) /\ StepsIn(ss) \subseteq {A("terminate")}
    BY <1>7, <2>1, <2>2, One
  <2>4. TeardownEffect(h, StepsIn(ss)) /\ UNCHANGED <<pc, mon, contact, left>>
    BY <1>9, <2>3 DEF Teardown, TeardownEffect, SendBYE
  <2> QED BY <2>1, <2>3, <2>4 DEF Effect
<1>10. CASE h.op = "notify" /\ NotifyTerminated(t, h.leg, h.cause)
  <2>1. PICK ss \in Callbacks(h.leg, h.cause) : Then(t, ss)
    BY <1>10 DEF NotifyTerminated
  <2> DEFINE B(op) == Step(op, "B", h.cause)
             cleanup == <<B("destroy"), B("terminate"), B("unlist")>>
             stop == IF bridge = "none" THEN <<>> ELSE <<X("legTerminated")>>
             cs == {B("destroy"), B("terminate"), B("unlist")}
             sp == IF bridge = "none" THEN {} ELSE {X("legTerminated")}
  <2>2. /\ B("destroy") \in StepRec /\ B("terminate") \in StepRec
        /\ B("unlist") \in StepRec /\ X("legTerminated") \in StepRec
    BY <1>4, StepTyped DEF Side, Cause, Op
  <2>3. cleanup \in Seq(StepRec) /\ StepsIn(cleanup) = cs
    BY <2>2, Three
  <2>4. stop \in Seq(StepRec) /\ StepsIn(stop) = sp
    BY <1>7, <2>2, One
  <2>5. CASE h.leg = "A"
    <3>1. ss = stop
      BY <2>1, <2>5 DEF Callbacks
    <3>2. NotifyEffect(h, StepsIn(ss)) /\ UNCHANGED <<pc, mon, contact, left>>
      BY <1>10, <2>4, <2>5, <3>1 DEF NotifyTerminated, NotifyEffect
    <3> QED BY <2>1, <2>4, <3>1, <3>2 DEF Effect
  <2>6. CASE h.leg # "A"
    <3>1. ss \in {cleanup \o stop, stop \o cleanup}
      BY <2>1, <2>6 DEF Callbacks
    <3>2. /\ cleanup \o stop \in Seq(StepRec) /\ stop \o cleanup \in Seq(StepRec)
          /\ StepsIn(cleanup \o stop) = cs \cup sp
          /\ StepsIn(stop \o cleanup) = cs \cup sp
      <4> HIDE DEF cleanup, stop, cs, sp
      <4> QED BY <2>3, <2>4, Concat
    <3>3. ss \in Seq(StepRec) /\ StepsIn(ss) = cs \cup sp
      BY <3>1, <3>2
    <3>4. NotifyEffect(h, StepsIn(ss)) /\ UNCHANGED <<pc, mon, contact, left>>
      BY <1>10, <2>6, <3>3 DEF NotifyTerminated, NotifyEffect
    <3> QED BY <2>1, <3>3, <3>4 DEF Effect
  <2> QED BY <2>5, <2>6
<1>11. CASE h.op = "terminate" /\ Terminate(t, h.leg, h.cause)
  <2>1. CASE dlg[h.leg].state \in {"none", "Terminated"}
    BY <1>7, <1>11, <2>1 DEF Terminate, Effect, TerminateEffect
  <2>2. CASE dlg[h.leg].state \notin {"none", "Terminated"}
    <3>1. X("cancel") \in StepRec /\ X("mark") \in StepRec
      BY <1>6 DEF Op
    <3>2. PICK ss : ss = <<X("cancel"), X("mark")>>
      OBVIOUS
    <3>3. ss \in Seq(StepRec) /\ StepsIn(ss) = {X("cancel"), X("mark")}
      BY <3>1, <3>2, Two
    <3>4. Then(t, ss)
      BY <1>11, <2>2, <3>2 DEF Terminate
    <3>5. TerminateEffect(h, StepsIn(ss)) /\ UNCHANGED <<pc, mon, contact, left>>
      BY <1>11, <2>2, <3>3 DEF Terminate, TerminateEffect
    <3> QED BY <3>3, <3>4, <3>5 DEF Effect
  <2> QED BY <2>1, <2>2
<1>12. CASE h.op = "legTerminated" /\ HandleLegTerminated(t)
  <2>1. CASE bridge \in {"Terminating", "Terminated"}
    BY <1>7, <1>12, <2>1 DEF HandleLegTerminated, Effect, LegTerminatedEffect
  <2>2. CASE bridge \notin {"Terminating", "Terminated"}
    <3>1. A("stop") \in StepRec
      BY <1>6 DEF Op
    <3>2. <<A("stop")>> \in Seq(StepRec) /\ StepsIn(<<A("stop")>>) = {A("stop")}
      BY <3>1, One
    <3> QED BY <1>12, <2>2, <3>2
            DEF HandleLegTerminated, Effect, LegTerminatedEffect
  <2> QED BY <2>1, <2>2
<1>13. CASE h.op = "stop" /\ Stop(t)
  <2>1. CASE bridge = "Terminated"
    BY <1>7, <1>13, <2>1 DEF Stop, Effect, StopEffect
  <2>2. CASE bridge # "Terminated"
    <3> DEFINE u == IF relay \in {"none", "stray"} THEN <<>>
                    ELSE <<A("unbridge")>>
               us == IF relay \in {"none", "stray"} THEN {} ELSE {A("unbridge")}
               w == <<A("stopLegs"), A("stopEnd"), A("wake")>>
               ws == {A("stopLegs"), A("stopEnd"), A("wake")}
    <3>1. /\ A("unbridge") \in StepRec /\ A("stopLegs") \in StepRec
          /\ A("stopEnd") \in StepRec /\ A("wake") \in StepRec
      BY <1>6 DEF Op
    <3>2. u \in Seq(StepRec) /\ StepsIn(u) = us
      BY <1>7, <3>1, One
    <3>3. w \in Seq(StepRec) /\ StepsIn(w) = ws
      BY <3>1, Three
    <3>4. u \o w \in Seq(StepRec) /\ StepsIn(u \o w) = us \cup ws
      <4> HIDE DEF u, w, us, ws
      <4> QED BY <3>2, <3>3, Concat
    <3>5. Then(t, u \o w)
      BY <1>13, <2>2 DEF Stop
    <3>6. StopEffect(h, us \cup ws) /\ UNCHANGED <<pc, mon, contact, left>>
      BY <1>13, <2>2 DEF Stop, StopEffect
    <3>7. Effect(h, StepsIn(u \o w)) /\ UNCHANGED <<pc, mon, contact, left>>
      <4> HIDE DEF u, w, us, ws
      <4> QED BY <3>4, <3>6 DEF Effect
    <3> HIDE DEF u, w
    <3> QED BY <3>4, <3>5, <3>7
  <2> QED BY <2>1, <2>2
<1>14. CASE h.op = "stopLegs" /\ StopLegs(t)
  <2> DEFINE up(l) == IF leg[l].state = "Answered"
                      THEN <<Step("hangup", l, "BridgePeer")>> ELSE <<>>
             hs == {Step("hangup", l, "BridgePeer") : l \in Side}
  <2>1. ASSUME NEW l \in Side
        PROVE  up(l) \in Seq(StepRec) /\ StepsIn(up(l)) \subseteq hs
    <3>1. Step("hangup", l, "BridgePeer") \in StepRec
      BY StepTyped DEF Op, Cause
    <3> QED BY <1>7, <3>1, One
  <2>2. "A" \in Side /\ "B" \in Side
    BY DEF Side
  <2>3. PICK a, b : a = up("A") /\ b = up("B")
    OBVIOUS
  <2>4. Then(t, a \o b)
    BY <1>14, <2>3 DEF StopLegs
  <2>5. /\ a \in Seq(StepRec) /\ b \in Seq(StepRec)
        /\ StepsIn(a) \subseteq hs /\ StepsIn(b) \subseteq hs
    BY <2>1, <2>2, <2>3
  <2>6. a \o b \in Seq(StepRec) /\ StepsIn(a \o b) \subseteq hs
    <3> HIDE DEF hs
    <3> QED BY <2>5, Concat
  <2>7. StopLegsEffect(h, StepsIn(a \o b)) /\ UNCHANGED <<pc, mon, contact, left>>
    BY <1>14, <2>6 DEF StopLegs, StopLegsEffect
  <2> QED BY <2>4, <2>6, <2>7 DEF Effect
<1>15. CASE \/ h.op = "close" /\ Close(t, h.leg)
            \/ h.op = "destroy" /\ DestroySession(t)
            \/ h.op = "unlist" /\ Unlist(t)
            \/ h.op = "cancel" /\ Cancel(t, h.leg)
            \/ h.op = "mark" /\ Mark(t, h.leg)
            \/ h.op = "unbridge" /\ UnbridgeMedia(t)
            \/ h.op = "stopEnd" /\ StopEnd(t)
            \/ h.op = "wake" /\ Wake(t)
  <2>1. Then(t, <<>>) /\ UNCHANGED <<pc, mon, contact, left>>
    BY <1>15 DEF Close, DestroySession, Unlist, Cancel, Mark, UnbridgeMedia,
                 StopEnd, Wake
  <2>2. LastEffect(h, {})
    BY <1>15 DEF LastEffect, Close, DestroySession, Unlist, Cancel, Mark,
                 UnbridgeMedia, StopEnd, Wake
  <2> QED BY <1>7, <2>1, <2>2 DEF Effect
<1> QED BY <1>1, <1>8, <1>9, <1>10, <1>11, <1>12, <1>13, <1>14, <1>15 DEF Execute

-----------------------------------------------------------------------------
(* The inductive invariant *)

\* A goroutine that may still be started has nothing to do yet: no step is
\* ever lost to the start of another one.
Quiet ==
    /\ pc \notin {"returning", "over"} => Idle("dial")
    /\ pc = "idle" \/ "A" \in mon => Idle("monA")
    /\ ~contact \/ "B" \in mon => Idle("monB")
    /\ "A" \notin left => Idle("caller")
    /\ "B" \notin left => Idle("callee")

Dialling == {"idle", "adopted", "media", "invite", "waiting", "undo"}

Bridged == {"check", "capture", "wait", "returning", "returned", "over"}

\* What the dial action has reached at each of its stages.
Stages ==
    /\ pc \in Dialling => ~contact /\ bridge = "none"
    /\ pc \in {"idle", "adopted", "media"} => media["B"] # "held"
    /\ pc \in {"acking", "acked", "answered", "bridge"} =>
          contact /\ bridge = "none"
    /\ pc \in {"start", "bridging", "check", "capture", "wait", "returning"} =>
          contact /\ bridge # "none"
    /\ pc = "bridging" => bridge = "Created"
    /\ pc \in {"check", "capture", "wait"} => bridge # "Created"
    /\ relay # "none" => pc \in Bridged
    /\ bridge = "Active" => pc \in Bridged
    /\ bridge # "none" => contact
    /\ ~contact => leg["B"].state # "Destroyed" /\ "B" \notin mon
    /\ pc = "idle" => "A" \notin mon

StopOps == {"stop", "unbridge", "stopLegs", "stopEnd", "wake"}

\* Nobody stops a bridge that is not started or ended by a leg, unbridges
\* media that is not bridged, or hangs up a callee that has not answered.
Timely ==
    \A x \in Due :
        /\ bridge \in {"none", "Created"} => x.op \notin StopOps
        /\ bridge = "none" => x.op # "legTerminated"
        /\ relay = "none" => x.op # "unbridge"
        /\ ~contact => ~(x.op = "hangup" /\ x.leg = "B")

\* While media is relayed the end of a Stop is preceded by its UnbridgeMedia.
Ordered ==
    \A t \in Thread : \A i \in 1..Len(todo[t]) :
        todo[t][i].op = "stopEnd" =>
            \E j \in 1..(i - 1) : todo[t][j].op = "unbridge"

Silenced == relay = "up" => bridge # "Terminated" /\ Ordered

\* Nothing is left at the RTP manager but by an RPC that failed or was cut off.
Excused ==
    /\ relay = "kept" => "bridge" \in Env
    /\ relay = "stray" => CutOff("bridge")
    /\ media["B"] = "lost" => CutOff("session")

\* The callee's media session, while the pool has it, has an owner.
MediaOwned ==
    media["B"] = "held" =>
        \/ pc \in {"invite", "waiting", "undo", "acking", "acked"}
        \/ leg["B"].state = "Answered"
        \/ Pending({"notify", "destroy"}, "B")

\* As BridgeWatched, already while Start holds the bridge's lock.
Watched ==
    pc = "bridging" \/ bridge = "Active" =>
        \A l \in Side : \/ leg[l].state = "Answered"
                        \/ Pending({"notify", "legTerminated"}, l)

CalleeGone == "B" \in left \cup told

\* Only a callee that has hung up, or was sent a BYE, is taken for one that
\* has: by its leg, its dialog's context or a step that is due.
Attributed ==
    /\ dlg["B"].state # "WaitingACK"
    /\ ~CalleeGone =>
          /\ leg["B"].cause # "RemoteBYE"
          /\ ~dlg["B"].done
          /\ \A x \in Due : x.leg = "B" => x.cause # "RemoteBYE" /\ x.op # "cancel"

IInv == TypeOK /\ Quiet /\ Stages /\ Timely /\ Silenced /\ Excused /\ Watched
        /\ Attributed /\ MediaOwned /\ CalleeReleased

LEMMA TypeTodo == TypeOK => TodoType
BY DEF TypeOK, TodoType, StepRec

LEMMA IInvInit == Init => IInv
<1> SUFFICES ASSUME Init PROVE IInv
  OBVIOUS
<1>a. PICK s \in {"WaitingACK", "Confirmed"} :
         dlg = [l \in Side |-> [state |-> IF l = "A" THEN s ELSE "none",
                                done |-> FALSE]]
  BY DEF Init
<1>b. /\ dlg \in [Side -> [state : DlgState, done : BOOLEAN]]
      /\ dlg["B"] = [state |-> "none", done |-> FALSE]
  BY <1>a DEF DlgState, Side
<1>c. /\ leg \in [Side -> LegObj]
      /\ leg["B"] = [state |-> "none", cause |-> "None", closed |-> FALSE]
  BY DEF Init, LegObj, LegState, Cause, Side
<1>d. todo \in [Thread -> Seq(StepRec)]
  BY Empty DEF Init
<1>1. TypeOK
  BY <1>b, <1>c, <1>d DEF Init, TypeOK, DialPC, Side, StepRec, MediaState,
     RelayState
<1>2. \A t \in Thread : todo[t] = <<>>
  BY DEF Init
<1>3. Due = {}
  BY <1>2, Empty DEF Due
<1>4. Quiet
  BY <1>2 DEF Init, Quiet, Idle, Thread
<1>5. Stages
  BY DEF Init, Stages, Dialling, Side
<1>6. Timely /\ Silenced /\ Watched
  BY <1>3 DEF Init, Timely, Silenced, Watched
<1>7. Attributed
  <2>1. dlg["B"].state = "none" /\ dlg["B"].done = FALSE
    BY <1>b
  <2>2. leg["B"].cause = "None"
    BY <1>c
  <2> QED BY <1>3, <2>1, <2>2 DEF Attributed
<1>8. media["B"] = "none" /\ relay = "none" /\ ~contact
  BY DEF Init, Side
<1>10. Excused
  BY <1>8 DEF Excused
<1>9. MediaOwned /\ CalleeReleased
  BY <1>8 DEF MediaOwned, CalleeReleased
<1> QED BY <1>1, <1>4, <1>5, <1>6, <1>7, <1>9, <1>10 DEF IInv

-----------------------------------------------------------------------------
(* The steps that the other actions start *)

\* Start fails; if BridgeMedia was cut off, its relay is stray.
StartFailed == StartFails /\ relay' \in {relay, "stray"}

\* At most one idle goroutine starts, with the steps S.
Begun(S) ==
    /\ TodoType'
    /\ Due' = Due \cup S
    /\ \A u \in Thread : todo'[u] = todo[u] \/ StepsIn(todo'[u]) = S

LEMMA SameDue ==
    ASSUME TodoType, UNCHANGED todo
    PROVE  TodoType' /\ Due' = Due /\ Begun({})
BY DEF TodoType, Due, Begun

LEMMA RunOne ==
    ASSUME TodoType, NEW t \in Thread, Idle(t), NEW a \in StepRec,
           Run(t, <<a>>)
    PROVE  Begun({a})
<1>1. <<a>> \in Seq(StepRec) /\ StepsIn(<<a>>) = {a}
  BY One
<1> QED BY <1>1, RunFacts DEF Begun

LEMMA RunTwo ==
    ASSUME TodoType, NEW t \in Thread, Idle(t), NEW a \in StepRec,
           NEW b \in StepRec, Run(t, <<a, b>>)
    PROVE  Begun({a, b})
<1>1. <<a, b>> \in Seq(StepRec) /\ StepsIn(<<a, b>>) = {a, b}
  BY Two
<1> QED BY <1>1, RunFacts DEF Begun

LEMMA RunNone ==
    ASSUME TodoType, NEW t \in Thread, Idle(t), Run(t, <<>>)
    PROVE  Begun({})
<1>1. <<>> \in Seq(StepRec) /\ StepsIn(<<>>) = {}
  BY Empty
<1> QED BY <1>1, RunFacts DEF Begun

LEMMA DestroyMediaFacts ==
    ASSUME media \in [Side -> MediaState], NEW l \in Side, DestroyMedia(l)
    PROVE  /\ media' \in [Side -> MediaState]
           /\ media'[l] # "held"
           /\ \A k \in Side : media'[k] = "held" => media[k] = "held"
           /\ \A k \in Side : media'[k] = "lost" =>
                                media[k] = "lost" \/ "session" \in Env
<1>1. PICK m : m = IF media[l] # "held" THEN media[l]
                   ELSE IF "session" \in Env THEN "lost" ELSE "none"
  OBVIOUS
<1>2. media' = [media EXCEPT ![l] = m]
  BY <1>1 DEF DestroyMedia
<1>3. /\ m \in MediaState \ {"held"}
      /\ m = "lost" => media[l] = "lost" \/ "session" \in Env
  BY <1>1 DEF MediaState
<1> QED BY <1>2, <1>3

LEMMA StartFailsDue ==
    ASSUME TodoType, Quiet, pc \in {"start", "bridging"}, StartFailed
    PROVE  Begun({Step("hangup", "B", "Error")})
<1>1. Step("hangup", "B", "Error") \in StepRec
  BY StepTyped DEF Op, Side, Cause
<1> QED BY <1>1, RunOne DEF StartFailed, StartFails, Quiet, Thread

LEMMA WaitDue ==
    ASSUME TodoType, Quiet, WaitForTermination
    PROVE  \E S \in SUBSET {Step("stop", "A", "None")} :
              Begun(S) /\ (S # {} => pc' = "returning")
<1>1. Step("stop", "A", "None") \in StepRec
  BY StepTyped DEF Op, Side, Cause
<1>2. CASE UNCHANGED todo
  BY <1>2, SameDue
<1>3. CASE Run("dial", <<Step("stop", "A", "None")>>) /\ pc' = "returning"
  <2>1. Begun({Step("stop", "A", "None")})
    BY <1>1, <1>3, RunOne DEF WaitForTermination, Quiet, Thread
  <2> QED BY <1>3, <2>1
<1> QED BY <1>2, <1>3 DEF WaitForTermination

LEMMA EndsDue ==
    ASSUME TodoType, Quiet, DialplanEnds
    PROVE  \E S \in SUBSET {Step("terminate", "A", "None")} : Begun(S)
<1>1. Step("terminate", "A", "None") \in StepRec
  BY StepTyped DEF Op, Side, Cause
<1>2. Idle("dial") /\ "dial" \in Thread
  BY DEF Quiet, DialplanEnds, Thread
<1>3. CASE dlg["A"].state = "Terminated"
  BY <1>2, <1>3, RunNone DEF DialplanEnds
<1>4. CASE dlg["A"].state # "Terminated"
  BY <1>1, <1>2, <1>4, RunOne DEF DialplanEnds
<1> QED BY <1>3, <1>4

LEMMA MonitorDue ==
    ASSUME TodoType, Quiet, NEW l \in Side, Monitor(l)
    PROVE  \/ dlg[l].done /\ Begun({Step("hangup", l, "RemoteBYE")})
           \/ Begun({}) /\ UNCHANGED todo
<1>1. Step("hangup", l, "RemoteBYE") \in StepRec
  BY StepTyped DEF Op, Side, Cause
<1>2. PICK t \in Thread : t = IF l = "A" THEN "monA" ELSE "monB"
  BY DEF Thread
<1>3. Idle(t)
  BY <1>2 DEF Monitor, Quiet, Side
<1>4. CASE dlg[l].done /\ Run(t, <<Step("hangup", l, "RemoteBYE")>>)
  BY <1>1, <1>3, <1>4, RunOne
<1>5. CASE UNCHANGED todo
  BY <1>5, SameDue
<1> QED BY <1>2, <1>4, <1>5 DEF Monitor

LEMMA CallerDue ==
    ASSUME TodoType, Quiet, CallerEnds
    PROVE  Begun({Step("cancel", "A", "None"), Step("mark", "A", "None")})
<1>1. Step("cancel", "A", "None") \in StepRec /\ Step("mark", "A", "None") \in StepRec
  BY StepTyped DEF Op, Side, Cause
<1>2. Idle("caller") /\ "caller" \in Thread
  BY DEF Quiet, CallerEnds, Thread
<1> QED BY <1>1, <1>2, RunTwo DEF CallerEnds

LEMMA CalleeDue ==
    ASSUME TodoType, Quiet, CalleeBYE
    PROVE  \/ Begun({Step("hangup", "B", "RemoteBYE")})
           \/ Begun({Step("cancel", "B", "None"), Step("mark", "B", "None")})
<1>1. /\ Step("cancel", "B", "None") \in StepRec
      /\ Step("mark", "B", "None") \in StepRec
      /\ Step("hangup", "B", "RemoteBYE") \in StepRec
  BY StepTyped DEF Op, Side, Cause
<1>2. Idle("callee") /\ "callee" \in Thread
  BY DEF Quiet, CalleeBYE, Thread
<1>3. CASE legs
  BY <1>1, <1>2, <1>3, RunOne DEF CalleeBYE
<1>4. CASE ~legs
  BY <1>1, <1>2, <1>4, RunTwo DEF CalleeBYE
<1> QED BY <1>3, <1>4

LEMMA ExtDue ==
    ASSUME TodoType, NEW l \in Side, ExtHangup(l)
    PROVE  Begun({Step("terminate", l, "None")})
<1>1. Step("terminate", l, "None") \in StepRec
  BY StepTyped DEF Op, Side, Cause
<1> QED BY <1>1, RunOne DEF ExtHangup, Thread

-----------------------------------------------------------------------------
(* Types *)

LEMMA LegUpdates ==
    ASSUME leg \in [Side -> LegObj], NEW l \in Side
    PROVE  /\ \A s \in LegState :
                 [leg EXCEPT ![l].state = s] \in [Side -> LegObj]
           /\ \A s \in LegState, c \in Cause :
                 [leg EXCEPT ![l].state = s, ![l].cause = c]
                    \in [Side -> LegObj]
           /\ [leg EXCEPT ![l].closed = TRUE] \in [Side -> LegObj]
BY DEF LegObj

\* What the updates of a leg leave alone.
LEMMA LegAfter ==
    ASSUME leg \in [Side -> LegObj], NEW l \in Side, NEW m \in Side
    PROVE  /\ \A s : LET u == [leg EXCEPT ![l].state = s] IN
                 /\ u[m].state = IF m = l THEN s ELSE leg[m].state
                 /\ u[m].cause = leg[m].cause
           /\ \A s, c : LET u == [leg EXCEPT ![l].state = s, ![l].cause = c] IN
                 /\ u[m].state = IF m = l THEN s ELSE leg[m].state
                 /\ u[m].cause = IF m = l THEN c ELSE leg[m].cause
           /\ LET u == [leg EXCEPT ![l].closed = TRUE] IN
                 u[m].state = leg[m].state /\ u[m].cause = leg[m].cause
BY DEF LegObj

LEMMA DlgUpdates ==
    ASSUME dlg \in [Side -> [state : DlgState, done : BOOLEAN]],
           NEW l \in Side
    PROVE  /\ \A s \in DlgState : [dlg EXCEPT ![l].state = s]
                 \in [Side -> [state : DlgState, done : BOOLEAN]]
           /\ [dlg EXCEPT ![l].done = TRUE]
                 \in [Side -> [state : DlgState, done : BOOLEAN]]
           /\ \A m \in Side : dlg[m].done =>
                 /\ \A s : [dlg EXCEPT ![l].state = s][m].done
                 /\ [dlg EXCEPT ![l].done = TRUE][m].done
OBVIOUS

LEMMA TypeExecute ==
    ASSUME TypeOK, NEW t \in Thread, Execute(t)
    PROVE  TypeOK'
<1>1. TodoType
  BY TypeTodo
<1>2. PICK h, ss : Executed(t, h, ss)
  BY <1>1, ExecuteFacts
<1>3. TodoType'
  BY <1>1, <1>2, ThenFacts DEF Executed
<1>4. PICK S : S = StepsIn(ss)
  OBVIOUS
<1>5. h.leg \in Side /\ h.cause \in Cause /\ Effect(h, S)
  BY <1>2, <1>4 DEF Executed, StepRec
<1>6. leg' \in [Side -> LegObj]
  <2>a. leg \in [Side -> LegObj]
    BY DEF TypeOK
  <2>b. /\ [leg EXCEPT ![h.leg].state = "Destroyed", ![h.leg].cause = h.cause]
              \in [Side -> LegObj]
        /\ [leg EXCEPT ![h.leg].closed = TRUE] \in [Side -> LegObj]
    BY <1>5, <2>a, LegUpdates DEF LegState
  <2>1. CASE HangupEffect(h, S)
    BY <2>1, <2>a, <2>b DEF HangupEffect
  <2>2. CASE LastEffect(h, S)
    BY <2>2, <2>a, <2>b DEF LastEffect
  <2>3. CASE ~HangupEffect(h, S) /\ ~LastEffect(h, S)
    BY <1>5, <2>3 DEF Effect, TypeOK, TeardownEffect, NotifyEffect,
       TerminateEffect, LegTerminatedEffect, StopEffect, StopLegsEffect
  <2> QED BY <2>1, <2>2, <2>3
<1>7. dlg' \in [Side -> [state : DlgState, done : BOOLEAN]]
  <2>a. dlg \in [Side -> [state : DlgState, done : BOOLEAN]]
    BY DEF TypeOK
  <2>b. /\ [dlg EXCEPT ![h.leg].state = "Terminated"]
              \in [Side -> [state : DlgState, done : BOOLEAN]]
        /\ [dlg EXCEPT ![h.leg].done = TRUE]
              \in [Side -> [state : DlgState, done : BOOLEAN]]
    BY <1>5, <2>a, DlgUpdates DEF DlgState
  <2>1. CASE LastEffect(h, S)
    BY <2>1, <2>a, <2>b DEF LastEffect
  <2>2. CASE ~LastEffect(h, S)
    BY <1>5, <2>2 DEF Effect, TypeOK, HangupEffect, TeardownEffect,
       NotifyEffect, TerminateEffect, LegTerminatedEffect, StopEffect,
       StopLegsEffect
  <2> QED BY <2>1, <2>2
<1>8a. media' \in [Side -> MediaState]
  <2>1. UNCHANGED media \/ DestroyMedia("B")
    BY <1>5 DEF Effect, HangupEffect, TeardownEffect, NotifyEffect,
       TerminateEffect, LegTerminatedEffect, StopEffect, StopLegsEffect,
       LastEffect
  <2> QED BY <2>1, DestroyMediaFacts DEF TypeOK, Side
<1>8. /\ cbs' \subseteq Side
      /\ legs' \in BOOLEAN /\ woken' \in BOOLEAN
  BY <1>5 DEF Effect, TypeOK, HangupEffect, TeardownEffect, NotifyEffect,
     TerminateEffect, LegTerminatedEffect, StopEffect, StopLegsEffect,
     LastEffect
<1>9. relay' \in RelayState
      /\ bridge' \in {"none", "Created", "Active", "Terminating", "Terminated"}
  BY <1>5 DEF Effect, TypeOK, HangupEffect, TeardownEffect, NotifyEffect,
     TerminateEffect, LegTerminatedEffect, StopEffect, StopLegsEffect,
     LastEffect, RelayState
<1>10. told' \subseteq Side
  BY <1>5 DEF Effect, TypeOK, HangupEffect, TeardownEffect, NotifyEffect,
     TerminateEffect, LegTerminatedEffect, StopEffect, StopLegsEffect,
     LastEffect, SendBYE, Side
<1>11. UNCHANGED <<pc, mon, contact, left>>
  BY <1>2 DEF Executed
<1> QED BY <1>3, <1>6, <1>7, <1>8, <1>8a, <1>9, <1>10, <1>11
        DEF TypeOK, TodoType, StepRec

\* The actions of the dial action that start no steps.
DialQuietly ==
    \/ AdoptInboundLeg \/ Originate \/ CreateSessionPendingRemote
    \/ SendINVITE \/ HandleFailure \/ DialFails \/ Undo \/ Handle2xx
    \/ SendACK \/ TransitionToAnswered \/ DialReturns \/ NewBridge
    \/ WaitCheck \/ WaitCapture \/ Return

LEMMA TypeQuietly ==
    ASSUME TypeOK, DialQuietly
    PROVE  TypeOK' /\ UNCHANGED todo
<1>1. "A" \in Side /\ "B" \in Side
  BY DEF Side
<1>2. UNCHANGED <<todo, told, left, cbs, relay>>
  BY DEF DialQuietly, AdoptInboundLeg, Originate, CreateSessionPendingRemote,
     SendINVITE, HandleFailure, DialFails, Undo, Handle2xx, SendACK,
     TransitionToAnswered, DialReturns, NewBridge, WaitCheck, WaitCapture,
     Return
<1>3. leg' \in [Side -> LegObj]
  <2>1. \A l \in Side : \A s \in LegState :
           [leg EXCEPT ![l].state = s] \in [Side -> LegObj]
    BY LegUpdates DEF TypeOK
  <2>2. \/ leg' = leg
        \/ \E l \in Side, s \in LegState : leg' = [leg EXCEPT ![l].state = s]
    BY <1>1 DEF DialQuietly, AdoptInboundLeg, Originate,
       CreateSessionPendingRemote, SendINVITE, HandleFailure, DialFails, Undo,
       Handle2xx, SendACK, TransitionToAnswered, DialReturns, NewBridge,
       WaitCheck, WaitCapture, Return, LegState
  <2> QED BY <2>1, <2>2 DEF TypeOK
<1>4. dlg' \in [Side -> [state : DlgState, done : BOOLEAN]]
  <2>1. dlg' = dlg \/ dlg' = [dlg EXCEPT !["B"].state = "Confirmed"]
    BY DEF DialQuietly, AdoptInboundLeg, Originate,
       CreateSessionPendingRemote, SendINVITE, HandleFailure, DialFails, Undo,
       Handle2xx, SendACK, TransitionToAnswered, DialReturns, NewBridge,
       WaitCheck, WaitCapture, Return
  <2>2. dlg \in [Side -> [state : DlgState, done : BOOLEAN]]
    BY DEF TypeOK
  <2>3. [dlg EXCEPT !["B"].state = "Confirmed"]
           \in [Side -> [state : DlgState, done : BOOLEAN]]
    BY <1>1, <2>2, DlgUpdates DEF DlgState
  <2> QED BY <2>1, <2>2, <2>3
<1>5. media' \in [Side -> MediaState]
  <2>1. \/ UNCHANGED media \/ DestroyMedia("B")
        \/ \E m \in {"held", "lost"} : media' = [media EXCEPT !["B"] = m]
    BY DEF DialQuietly, AdoptInboundLeg, Originate,
       CreateSessionPendingRemote, SendINVITE, HandleFailure, DialFails, Undo,
       Handle2xx, SendACK, TransitionToAnswered, DialReturns, NewBridge,
       WaitCheck, WaitCapture, Return
  <2> QED BY <1>1, <2>1, DestroyMediaFacts DEF TypeOK, MediaState
<1>6. legs' \in BOOLEAN /\ woken' \in BOOLEAN /\ contact' \in BOOLEAN
  BY DEF TypeOK, DialQuietly, AdoptInboundLeg, Originate,
     CreateSessionPendingRemote, SendINVITE, HandleFailure, DialFails, Undo,
     Handle2xx, SendACK, TransitionToAnswered, DialReturns, NewBridge,
     WaitCheck, WaitCapture, Return
<1>7. /\ pc' \in DialPC /\ mon' \subseteq Side
      /\ bridge' \in {"none", "Created", "Active", "Terminating", "Terminated"}
  BY DEF TypeOK, DialQuietly, AdoptInboundLeg, Originate,
     CreateSessionPendingRemote, SendINVITE, HandleFailure, DialFails, Undo,
     Handle2xx, SendACK, TransitionToAnswered, DialReturns, NewBridge,
     WaitCheck, WaitCapture, Return, DialPC, Side
<1> QED BY <1>2, <1>3, <1>4, <1>5, <1>6, <1>7 DEF TypeOK

LEMMA TypeDial ==
    ASSUME TypeOK, Quiet, Dial
    PROVE  TypeOK'
<1>1. TodoType
  BY TypeTodo
<1>2. CASE DialQuietly
  BY <1>2, TypeQuietly
<1>3. CASE Start
  <2>1. CASE StartFailed
    <3>1. TodoType'
      BY <1>1, <1>3, <2>1, StartFailsDue DEF Start, Begun
    <3> QED BY <2>1, <3>1 DEF StartFailed, StartFails, TypeOK, DialPC,
            TodoType, StepRec, RelayState
  <2>2. CASE ~StartFailed
    BY <1>3, <2>2 DEF Start, StartFailed, TypeOK, DialPC
  <2> QED BY <2>1, <2>2
<1>4. CASE BridgeMedia
  <2>1. CASE StartFailed
    <3>1. TodoType'
      BY <1>1, <1>4, <2>1, StartFailsDue DEF BridgeMedia, Begun
    <3> QED BY <2>1, <3>1 DEF StartFailed, StartFails, TypeOK, DialPC,
            TodoType, StepRec, RelayState
  <2>2. CASE ~StartFailed
    BY <1>4, <2>2 DEF BridgeMedia, StartFailed, TypeOK, DialPC, RelayState
  <2> QED BY <2>1, <2>2
<1>5. CASE WaitForTermination
  <2>1. TodoType'
    BY <1>1, <1>5, WaitDue DEF Begun
  <2> QED BY <1>5, <2>1 DEF WaitForTermination, TypeOK, DialPC, TodoType, StepRec
<1>6. CASE DialplanEnds
  <2>1. TodoType'
    BY <1>1, <1>6, EndsDue DEF Begun
  <2> QED BY <1>6, <2>1 DEF DialplanEnds, TypeOK, DialPC, TodoType, StepRec
<1> QED BY <1>2, <1>3, <1>4, <1>5, <1>6 DEF Dial, DialQuietly

LEMMA TypeAround ==
    ASSUME TypeOK, Quiet,
           \/ \E s \in {"Ringing", "EarlyMedia"} : Provisional(s)
           \/ \E l \in Side : Monitor(l) \/ OnTerminated(l) \/ ExtHangup(l)
           \/ ConfirmWithACK \/ CallerEnds \/ CalleeBYE
    PROVE  TypeOK'
<1>1. TodoType
  BY TypeTodo
<1>2. ASSUME NEW s \in {"Ringing", "EarlyMedia"}, Provisional(s)
      PROVE  TypeOK'
  <2>1. [leg EXCEPT !["B"].state = s] \in [Side -> LegObj]
    BY LegUpdates DEF TypeOK, LegState, Side
  <2> QED BY <1>2, <2>1 DEF Provisional, TypeOK
<1>3. ASSUME NEW l \in Side, Monitor(l)
      PROVE  TypeOK'
  <2>1. TodoType'
    BY <1>1, <1>3, MonitorDue DEF Begun
  <2> QED BY <1>3, <2>1 DEF Monitor, TypeOK, TodoType, StepRec
<1>4. ASSUME NEW l \in Side, OnTerminated(l)
      PROVE  TypeOK'
  <2>1. media' \in [Side -> MediaState]
    BY <1>4, DestroyMediaFacts DEF OnTerminated, TypeOK
  <2> QED BY <1>4, <2>1 DEF OnTerminated, TypeOK
<1>5. ASSUME NEW l \in Side, ExtHangup(l)
      PROVE  TypeOK'
  <2>1. TodoType'
    BY <1>1, <1>5, ExtDue DEF Begun
  <2> QED BY <1>5, <2>1 DEF ExtHangup, TypeOK, TodoType, StepRec
<1>6. CASE ConfirmWithACK
  <2>1. [dlg EXCEPT !["A"].state = "Confirmed"]
           \in [Side -> [state : DlgState, done : BOOLEAN]]
    BY DlgUpdates DEF TypeOK, DlgState, Side
  <2> QED BY <1>6, <2>1 DEF ConfirmWithACK, TypeOK
<1>7. CASE CallerEnds
  <2>1. TodoType'
    BY <1>1, <1>7, CallerDue DEF Begun
  <2> QED BY <1>7, <2>1 DEF CallerEnds, TypeOK, TodoType, StepRec, Side
<1>8. CASE CalleeBYE
  <2>1. TodoType'
    BY <1>1, <1>8, CalleeDue DEF Begun
  <2> QED BY <1>8, <2>1 DEF CalleeBYE, TypeOK, TodoType, StepRec, Side
<1> QED BY <1>2, <1>3, <1>4, <1>5, <1>6, <1>7, <1>8

LEMMA TypeNext ==
    ASSUME TypeOK, Quiet, Next
    PROVE  TypeOK'
BY TypeExecute, TypeDial, TypeAround DEF Next

-----------------------------------------------------------------------------
(* Goroutines that have not started *)

LEMMA QuietNext ==
    ASSUME TodoType, Quiet, Stages, Next
    PROVE  Quiet'
<1>1. ASSUME NEW t \in Thread, Execute(t)
      PROVE  Quiet'
  <2>1. PICK h, ss : Executed(t, h, ss)
    BY <1>1, ExecuteFacts
  <2>2. /\ \A u \in Thread \ {t} : todo'[u] = todo[u]
        /\ ~Idle(t) /\ UNCHANGED <<pc, mon, contact, left>>
    BY <2>1, ThenFacts DEF Executed
  <2>3. \A u \in Thread : Idle(u) => Idle(u)'
    BY <2>2 DEF Idle
  <2> QED BY <2>2, <2>3 DEF Quiet, Thread
<1>2. CASE DialQuietly
  <2>1. UNCHANGED <<todo, left>>
    BY <1>2 DEF DialQuietly, AdoptInboundLeg, Originate,
       CreateSessionPendingRemote, SendINVITE, HandleFailure, DialFails, Undo,
       Handle2xx, SendACK, TransitionToAnswered, DialReturns, NewBridge,
       WaitCheck, WaitCapture, Return
  <2>2. /\ pc' \notin {"returning", "over", "idle"}
        /\ pc = "returning" => Idle("dial")
        /\ pc # "over"
        /\ "A" \in mon' => pc = "idle" \/ "A" \in mon
        /\ "B" \in mon' => pc = "waiting" \/ "B" \in mon
        /\ contact => contact'
    BY <1>2 DEF DialQuietly, AdoptInboundLeg, Originate,
       CreateSessionPendingRemote, SendINVITE, HandleFailure, DialFails, Undo,
       Handle2xx, SendACK, TransitionToAnswered, DialReturns, NewBridge,
       WaitCheck, WaitCapture, Return
  <2> QED BY <2>1, <2>2 DEF Quiet, Stages, Dialling, Idle
<1>3. ASSUME NEW u \in Thread, NEW ss, Run(u, ss)
      PROVE  \A v \in Thread \ {u} : todo'[v] = todo[v]
  BY <1>3 DEF Run, TodoType
<1>4. ASSUME StartFailed, pc \in {"start", "bridging"}
      PROVE  Quiet'
  <2>1. \A v \in Thread \ {"dial"} : todo'[v] = todo[v]
    BY <1>3, <1>4 DEF StartFailed, StartFails, Thread
  <2> QED BY <1>4, <2>1 DEF StartFailed, StartFails, Quiet, Idle, Thread
<1>5. CASE Start
  BY <1>4, <1>5 DEF Start, StartFailed, Quiet, Idle
<1>6. CASE BridgeMedia
  BY <1>4, <1>6 DEF BridgeMedia, StartFailed, Quiet, Idle
<1>7. CASE WaitForTermination
  <2>1. CASE Run("dial", <<Step("stop", "A", "None")>>) /\ pc' = "returning"
    <3>1. \A v \in Thread \ {"dial"} : todo'[v] = todo[v]
      BY <1>3, <2>1 DEF Thread
    <3> QED BY <1>7, <2>1, <3>1 DEF WaitForTermination, Quiet, Idle, Thread
  <2>2. CASE UNCHANGED todo /\ pc' = "returned"
    BY <1>7, <2>2 DEF WaitForTermination, Quiet, Idle
  <2> QED BY <1>7, <2>1, <2>2 DEF WaitForTermination
<1>8. CASE DialplanEnds
  <2>1. \A v \in Thread \ {"dial"} : todo'[v] = todo[v]
    BY <1>3, <1>8 DEF DialplanEnds, Thread
  <2> QED BY <1>8, <2>1 DEF DialplanEnds, Quiet, Idle, Thread
<1>9. ASSUME NEW l \in Side, Monitor(l)
      PROVE  Quiet'
  <2>1. PICK t \in Thread : t = IF l = "A" THEN "monA" ELSE "monB"
    BY DEF Thread
  <2>2. \A v \in Thread \ {t} : todo'[v] = todo[v]
    BY <1>3, <1>9, <2>1 DEF Monitor
  <2>3. /\ mon' = mon \ {l} /\ l \in mon
        /\ UNCHANGED <<pc, contact, left>>
    BY <1>9 DEF Monitor
  <2> QED BY <2>1, <2>2, <2>3 DEF Quiet, Stages, Idle, Thread, Side
<1>10. ASSUME NEW l \in Side, ExtHangup(l)
       PROVE  Quiet'
  <2>1. \A v \in Thread \ {"ext"} : todo'[v] = todo[v]
    BY <1>3, <1>10 DEF ExtHangup, Thread
  <2> QED BY <1>10, <2>1 DEF ExtHangup, Quiet, Idle, Thread
<1>11. CASE CallerEnds
  <2>1. \A v \in Thread \ {"caller"} : todo'[v] = todo[v]
    BY <1>3, <1>11 DEF CallerEnds, Thread
  <2> QED BY <1>11, <2>1 DEF CallerEnds, Quiet, Idle, Thread
<1>12. CASE CalleeBYE
  <2>1. \A v \in Thread \ {"callee"} : todo'[v] = todo[v]
    BY <1>3, <1>12 DEF CalleeBYE, Thread
  <2> QED BY <1>12, <2>1 DEF CalleeBYE, Quiet, Idle, Thread
<1>13. CASE \/ \E s \in {"Ringing", "EarlyMedia"} : Provisional(s)
            \/ \E l \in Side : OnTerminated(l)
            \/ ConfirmWithACK
  BY <1>13 DEF Provisional, OnTerminated, ConfirmWithACK, Quiet, Idle
<1> QED BY <1>1, <1>2, <1>5, <1>6, <1>7, <1>8, <1>9, <1>10, <1>11, <1>12,
           <1>13 DEF Next, Dial, DialQuietly

-----------------------------------------------------------------------------
(* The stages of the dial action *)

LEMMA StagesNext ==
    ASSUME TypeOK, Quiet, Stages, Timely, Next
    PROVE  Stages'
<1>0. TodoType
  BY TypeTodo
<1>1. ASSUME NEW t \in Thread, Execute(t)
      PROVE  Stages'
  <2>1. PICK h, ss : Executed(t, h, ss)
    BY <1>0, <1>1, ExecuteFacts
  <2>2. PICK S : S = StepsIn(ss)
    OBVIOUS
  <2>3. /\ h \in Due /\ h.leg \in Side /\ h.cause \in Cause /\ Effect(h, S)
        /\ UNCHANGED <<pc, mon, contact, left>>
    BY <2>1, <2>2 DEF Executed, StepRec
  <2>4. /\ bridge \in {"none", "Created"} => h.op \notin StopOps
        /\ bridge = "none" => h.op # "legTerminated"
        /\ relay = "none" => h.op # "unbridge"
        /\ ~contact => ~(h.op = "hangup" /\ h.leg = "B")
    BY <2>3 DEF Timely
  <2>5. bridge' \in {bridge, "Terminating", "Terminated"}
    BY <2>3 DEF Effect, HangupEffect, TeardownEffect, NotifyEffect,
       TerminateEffect, LegTerminatedEffect, StopEffect, StopLegsEffect,
       LastEffect
  <2>6. bridge = "none" => bridge' = "none"
    BY <2>3, <2>4 DEF Effect, HangupEffect, TeardownEffect, NotifyEffect,
       TerminateEffect, LegTerminatedEffect, StopEffect, StopLegsEffect,
       LastEffect, StopOps
  <2>7. pc = "bridging" => bridge' = bridge
    BY <2>3, <2>4 DEF Effect, HangupEffect, TeardownEffect, NotifyEffect,
       TerminateEffect, LegTerminatedEffect, StopEffect, StopLegsEffect,
       LastEffect, StopOps, Stages, Locked
  <2>8. relay = "none" => relay' = "none"
    BY <2>3, <2>4 DEF Effect, HangupEffect, TeardownEffect, NotifyEffect,
       TerminateEffect, LegTerminatedEffect, StopEffect, StopLegsEffect,
       LastEffect
  <2>9. media'["B"] = "held" => media["B"] = "held"
    <3>1. UNCHANGED media \/ DestroyMedia("B")
      BY <2>3 DEF Effect, HangupEffect, TeardownEffect, NotifyEffect,
         TerminateEffect, LegTerminatedEffect, StopEffect, StopLegsEffect,
         LastEffect
    <3> QED BY <3>1, DestroyMediaFacts DEF TypeOK, Side
  <2>10. leg'["B"].state = leg["B"].state \/ (h.op = "hangup" /\ h.leg = "B")
    <3>1. leg \in [Side -> LegObj] /\ "B" \in Side
      BY DEF TypeOK, Side
    <3>2. /\ [leg EXCEPT ![h.leg].closed = TRUE]["B"].state = leg["B"].state
          /\ h.leg # "B" =>
                [leg EXCEPT ![h.leg].state = "Destroyed",
                            ![h.leg].cause = h.cause]["B"].state
                   = leg["B"].state
      BY <2>3, <3>1, LegAfter
    <3> QED BY <2>3, <3>2 DEF Effect, HangupEffect, TeardownEffect,
       NotifyEffect, TerminateEffect, LegTerminatedEffect, StopEffect,
       StopLegsEffect, LastEffect
  <2> QED BY <2>3, <2>4, <2>5, <2>6, <2>7, <2>8, <2>9, <2>10 DEF Stages
<1>2. CASE DialQuietly
  <2>1. relay' = relay
    BY <1>2 DEF DialQuietly, AdoptInboundLeg, Originate,
       CreateSessionPendingRemote, SendINVITE, HandleFailure, DialFails, Undo,
       Handle2xx, SendACK, TransitionToAnswered, DialReturns, NewBridge,
       WaitCheck, WaitCapture, Return
  <2>2. \/ UNCHANGED leg
        \/ leg' = [leg EXCEPT !["A"].state =
                     IF dlg["A"].state \in {"WaitingACK", "Confirmed"}
                     THEN "Answered" ELSE "Ringing"]
        \/ \E s \in {"Created", "Failed", "Answered"} :
              leg' = [leg EXCEPT !["B"].state = s]
    BY <1>2 DEF DialQuietly, AdoptInboundLeg, Originate,
       CreateSessionPendingRemote, SendINVITE, HandleFailure, DialFails, Undo,
       Handle2xx, SendACK, TransitionToAnswered, DialReturns, NewBridge,
       WaitCheck, WaitCapture, Return
  <2>3. leg'["B"].state = "Destroyed" => leg["B"].state = "Destroyed"
    <3>1. leg \in [Side -> LegObj] /\ "A" \in Side /\ "B" \in Side
      BY DEF TypeOK, Side
    <3>2. \A s : /\ [leg EXCEPT !["A"].state = s]["B"].state = leg["B"].state
                 /\ [leg EXCEPT !["B"].state = s]["B"].state = s
      BY <3>1, LegAfter
    <3> QED BY <2>2, <3>2
  <2>4. CASE AdoptInboundLeg \/ Originate
    BY <2>1, <2>3, <2>4 DEF AdoptInboundLeg, Originate, Stages, Dialling, Bridged
  <2>5. CASE CreateSessionPendingRemote \/ SendINVITE
    BY <2>1, <2>3, <2>5 DEF CreateSessionPendingRemote, SendINVITE, Stages,
       Dialling, Bridged
  <2>6. CASE HandleFailure \/ DialFails \/ Undo
    BY <2>1, <2>3, <2>6 DEF HandleFailure, DialFails, Undo, Stages, Dialling,
       Bridged
  <2>7. CASE Handle2xx \/ SendACK \/ TransitionToAnswered
    BY <2>1, <2>3, <2>7 DEF Handle2xx, SendACK, TransitionToAnswered, Stages,
       Dialling, Bridged
  <2>8. CASE DialReturns \/ NewBridge
    BY <2>1, <2>3, <2>8 DEF DialReturns, NewBridge, Stages, Dialling, Bridged
  <2>9. CASE WaitCheck \/ WaitCapture \/ Return
    BY <2>1, <2>3, <2>9 DEF WaitCheck, WaitCapture, Return, Stages, Dialling,
       Bridged
  <2> QED BY <1>2, <2>4, <2>5, <2>6, <2>7, <2>8, <2>9 DEF DialQuietly
<1>3. CASE Start \/ BridgeMedia
  BY <1>3 DEF Start, BridgeMedia, StartFails, Stages, Dialling, Bridged
<1>4. CASE WaitForTermination \/ DialplanEnds
  BY <1>4 DEF WaitForTermination, DialplanEnds, Stages, Dialling, Bridged
<1>5. ASSUME NEW s \in {"Ringing", "EarlyMedia"}, Provisional(s)
      PROVE  Stages'
  BY <1>5 DEF Provisional, Stages, TypeOK, Side
<1>6. ASSUME NEW l \in Side, Monitor(l)
      PROVE  Stages'
  BY <1>6 DEF Monitor, Stages
<1>7. ASSUME NEW l \in Side, OnTerminated(l)
      PROVE  Stages'
  <2>1. media'["B"] = "held" => media["B"] = "held"
    BY <1>7, DestroyMediaFacts DEF OnTerminated, TypeOK, Side
  <2> QED BY <1>7, <2>1 DEF OnTerminated, Stages
<1>8. CASE (\E l \in Side : ExtHangup(l)) \/ ConfirmWithACK
           \/ CallerEnds \/ CalleeBYE
  <2>1. UNCHANGED <<pc, contact, bridge, media, relay, leg, mon>>
    BY <1>8 DEF ExtHangup, ConfirmWithACK, CallerEnds, CalleeBYE
  <2> QED BY <2>1 DEF Stages
<1> QED BY <1>1, <1>2, <1>3, <1>4, <1>5, <1>6, <1>7, <1>8
        DEF Next, Dial, DialQuietly

-----------------------------------------------------------------------------
(* Steps are due only when they can be *)

\* What every Execute step leaves alone or only moves forward.
LEMMA ExecuteKeeps ==
    ASSUME TodoType, NEW t \in Thread, NEW h, NEW ss, Executed(t, h, ss)
    PROVE  /\ h \in Due /\ h \in StepRec
           /\ h.op \in Op /\ h.leg \in Side /\ h.cause \in Cause
           /\ Effect(h, StepsIn(ss))
           /\ TodoType'
           /\ Replaced(h, StepsIn(ss))
           /\ UNCHANGED <<pc, mon, contact, left>>
           /\ bridge' \in {bridge, "Terminating", "Terminated"}
           /\ relay' \in {relay, "down", "kept"}
           /\ told \subseteq told'
<1>1. /\ h \in Due /\ h \in StepRec
      /\ h.op \in Op /\ h.leg \in Side /\ h.cause \in Cause
      /\ Effect(h, StepsIn(ss)) /\ UNCHANGED <<pc, mon, contact, left>>
  BY DEF Executed, StepRec
<1>2. TodoType' /\ Replaced(h, StepsIn(ss))
  BY ThenFacts DEF Executed
<1>3. PICK S : S = StepsIn(ss)
  OBVIOUS
<1>4. Effect(h, S)
  BY <1>1, <1>3
<1>5. /\ bridge' \in {bridge, "Terminating", "Terminated"}
      /\ relay' \in {relay, "down", "kept"}
  BY <1>4 DEF Effect, HangupEffect, TeardownEffect, NotifyEffect,
     TerminateEffect, LegTerminatedEffect, StopEffect, StopLegsEffect,
     LastEffect
<1>6. told \subseteq told'
  BY <1>4 DEF Effect, HangupEffect, TeardownEffect, NotifyEffect,
     TerminateEffect, LegTerminatedEffect, StopEffect, StopLegsEffect,
     LastEffect, SendBYE
<1> QED BY <1>1, <1>2, <1>5, <1>6

\* As Timely, for one step.
TimelyStep(x) ==
    /\ bridge \in {"none", "Created"} => x.op \notin StopOps
    /\ bridge = "none" => x.op # "legTerminated"
    /\ relay = "none" => x.op # "unbridge"
    /\ ~contact => ~(x.op = "hangup" /\ x.leg = "B")

LEMMA TimelyExecute ==
    ASSUME TodoType, Stages, Timely, NEW t \in Thread, Execute(t)
    PROVE  Timely'
<1>1. PICK h, ss : Executed(t, h, ss)
  BY ExecuteFacts
<1>2. PICK S : S = StepsIn(ss)
  OBVIOUS
<1>3. /\ h \in Due /\ h.leg \in Side
      /\ Effect(h, S) /\ Replaced(h, S) /\ UNCHANGED contact
      /\ bridge' \in {bridge, "Terminating", "Terminated"}
      /\ relay' \in {relay, "down", "kept"}
  BY <1>1, <1>2, ExecuteKeeps
<1>4. TimelyStep(h)
  BY <1>3 DEF Timely, TimelyStep
<1>5. \A x \in Due : TimelyStep(x)'
  BY <1>3 DEF Timely, TimelyStep
<1>6. ASSUME NEW x \in S
      PROVE  TimelyStep(x)'
  <2>1. CASE HangupEffect(h, S) \/ TeardownEffect(h, S) \/ TerminateEffect(h, S)
             \/ LastEffect(h, S)
    <3>1. x.op \in {"teardown", "close", "notify", "terminate", "cancel", "mark"}
      BY <1>6, <2>1 DEF HangupEffect, TeardownEffect, TerminateEffect,
         LastEffect, Step
    <3> QED BY <3>1 DEF TimelyStep, StopOps
  <2>2. CASE NotifyEffect(h, S)
    <3>1. /\ x.op \in {"destroy", "terminate", "unlist", "legTerminated"}
          /\ bridge = "none" => x.op # "legTerminated"
          /\ bridge' = bridge
      BY <1>6, <2>2 DEF NotifyEffect, Step
    <3> QED BY <3>1 DEF TimelyStep, StopOps
  <2>3. CASE LegTerminatedEffect(h, S) \/ StopEffect(h, S)
    <3>1. /\ x.op \in {"stop", "unbridge", "stopLegs", "stopEnd", "wake"}
          /\ bridge' = "Terminating" /\ relay' = relay
          /\ relay = "none" => x.op # "unbridge"
      BY <1>6, <2>3 DEF LegTerminatedEffect, StopEffect, Step
    <3> QED BY <3>1 DEF TimelyStep
  <2>4. CASE StopLegsEffect(h, S)
    <3>1. x.op = "hangup" /\ h.op = "stopLegs"
      BY <1>6, <2>4 DEF StopLegsEffect, Step
    <3>2. contact
      BY <1>4, <3>1 DEF TimelyStep, StopOps, Stages
    <3> QED BY <1>3, <3>1, <3>2 DEF TimelyStep, StopOps
  <2> QED BY <1>3, <2>1, <2>2, <2>3, <2>4 DEF Effect
<1>7. \A x \in Due' : TimelyStep(x)'
  BY <1>3, <1>5, <1>6 DEF Replaced
<1> QED BY <1>7 DEF Timely, TimelyStep

LEMMA TimelyNext ==
    ASSUME TodoType, Quiet, Stages, Timely, Next
    PROVE  Timely'
<1> DEFINE Later == /\ bridge' \in {"none", "Created"} =>
                          bridge \in {"none", "Created"}
                    /\ bridge' = "none" => bridge = "none"
                    /\ relay' = "none" => relay = "none"
                    /\ contact => contact'
<1>1. ASSUME NEW S, Later, Begun(S), \A x \in S : TimelyStep(x)'
      PROVE  Timely'
  <2>1. \A x \in Due : TimelyStep(x)'
    BY <1>1 DEF Timely, TimelyStep
  <2> QED BY <1>1, <2>1 DEF Begun, Timely, TimelyStep
<1>2. ASSUME NEW t \in Thread, Execute(t)
      PROVE  Timely'
  BY <1>2, TimelyExecute
<1>3. CASE DialQuietly
  <2>1. UNCHANGED todo /\ Later
    BY <1>3 DEF DialQuietly, AdoptInboundLeg, Originate,
       CreateSessionPendingRemote, SendINVITE, HandleFailure, DialFails, Undo,
       Handle2xx, SendACK, TransitionToAnswered, DialReturns, NewBridge,
       WaitCheck, WaitCapture, Return, Stages
  <2>2. Begun({})
    BY <2>1, SameDue
  <2> QED BY <1>1, <2>1, <2>2
<1>4. ASSUME StartFailed, pc \in {"start", "bridging"}
      PROVE  Timely'
  <2>1. Begun({Step("hangup", "B", "Error")})
    BY <1>4, StartFailsDue
  <2>2. contact' /\ Later
    BY <1>4 DEF StartFailed, StartFails, Stages
  <2>3. TimelyStep(Step("hangup", "B", "Error"))'
    BY <2>2 DEF TimelyStep, Step, StopOps
  <2> QED BY <1>1, <2>1, <2>2, <2>3
<1>5. CASE Start
  <2>1. CASE UNCHANGED <<todo, bridge, relay, contact>>
    BY <1>1, <2>1, SameDue
  <2> QED BY <1>4, <1>5, <2>1 DEF Start, StartFailed
<1>6. CASE BridgeMedia
  <2>1. CASE UNCHANGED <<todo, contact>> /\ bridge' = "Active" /\ relay' = "up"
    BY <1>1, <2>1, SameDue
  <2> QED BY <1>4, <1>6, <2>1 DEF BridgeMedia, StartFailed
<1>7. CASE WaitForTermination
  <2>1. PICK S \in SUBSET {Step("stop", "A", "None")} : Begun(S)
    BY <1>7, WaitDue
  <2>2. Later /\ bridge' \notin {"none", "Created"}
    BY <1>7 DEF WaitForTermination, Stages
  <2>3. \A x \in S : TimelyStep(x)'
    BY <2>1, <2>2 DEF TimelyStep, Step
  <2> QED BY <1>1, <2>1, <2>2, <2>3
<1>8. CASE DialplanEnds
  <2>1. PICK S \in SUBSET {Step("terminate", "A", "None")} : Begun(S)
    BY <1>8, EndsDue
  <2>2. Later
    BY <1>8 DEF DialplanEnds
  <2>3. \A x \in S : TimelyStep(x)'
    BY <2>1 DEF TimelyStep, Step, StopOps
  <2> QED BY <1>1, <2>1, <2>2, <2>3
<1>9. ASSUME NEW l \in Side, Monitor(l)
      PROVE  Timely'
  <2>1. Later /\ l \in mon /\ contact' = contact
    BY <1>9 DEF Monitor
  <2>2. TimelyStep(Step("hangup", l, "RemoteBYE"))'
    BY <2>1 DEF TimelyStep, Step, StopOps, Stages
  <2>3. Begun({Step("hangup", l, "RemoteBYE")}) \/ Begun({})
    BY <1>9, MonitorDue
  <2> QED BY <1>1, <2>1, <2>2, <2>3
<1>10. ASSUME NEW l \in Side, ExtHangup(l)
       PROVE  Timely'
  <2>1. Later
    BY <1>10 DEF ExtHangup
  <2>2. TimelyStep(Step("terminate", l, "None"))'
    BY DEF TimelyStep, Step, StopOps
  <2>3. Begun({Step("terminate", l, "None")})
    BY <1>10, ExtDue
  <2> QED BY <1>1, <2>1, <2>2, <2>3
<1>11. CASE CallerEnds
  <2>1. Later
    BY <1>11 DEF CallerEnds
  <2>2. /\ TimelyStep(Step("cancel", "A", "None"))'
        /\ TimelyStep(Step("mark", "A", "None"))'
    BY DEF TimelyStep, Step, StopOps
  <2>3. Begun({Step("cancel", "A", "None"), Step("mark", "A", "None")})
    BY <1>11, CallerDue
  <2> QED BY <1>1, <2>1, <2>2, <2>3
<1>12. CASE CalleeBYE
  <2>1. Later /\ contact'
    BY <1>12 DEF CalleeBYE
  <2>2. /\ TimelyStep(Step("cancel", "B", "None"))'
        /\ TimelyStep(Step("mark", "B", "None"))'
        /\ TimelyStep(Step("hangup", "B", "RemoteBYE"))'
    BY <2>1 DEF TimelyStep, Step, StopOps
  <2>3. \/ Begun({Step("hangup", "B", "RemoteBYE")})
        \/ Begun({Step("cancel", "B", "None"), Step("mark", "B", "None")})
    BY <1>12, CalleeDue
  <2> QED BY <1>1, <2>1, <2>2, <2>3
<1>13. CASE \/ \E s \in {"Ringing", "EarlyMedia"} : Provisional(s)
            \/ \E l \in Side : OnTerminated(l)
            \/ ConfirmWithACK
  <2>1. UNCHANGED todo /\ Later
    BY <1>13 DEF Provisional, OnTerminated, ConfirmWithACK
  <2>2. Begun({})
    BY <2>1, SameDue
  <2> QED BY <1>1, <2>1, <2>2
<1> QED BY <1>2, <1>3, <1>5, <1>6, <1>7, <1>8, <1>9, <1>10, <1>11, <1>12,
           <1>13 DEF Next, Dial, DialQuietly

-----------------------------------------------------------------------------
(* A bridge that is stopped relays nothing *)

\* If ss has the end of a Stop, it unbridges first.
UnbridgesFirst(ss) ==
    \A i \in 1..Len(ss) :
        ss[i].op = "stopEnd" => i > 1 /\ ss[1].op = "unbridge"

LEMMA OrderedThen ==
    ASSUME TodoType, Ordered, NEW t \in Thread, ~Idle(t),
           Head(todo[t]).op # "unbridge",
           NEW ss \in Seq(StepRec), UnbridgesFirst(ss), Then(t, ss)
    PROVE  Ordered'
<1>1. /\ todo[t] \in Seq(StepRec) /\ todo[t] # <<>>
      /\ \A u \in Thread \ {t} : todo'[u] = todo[u]
      /\ todo'[t] = ss \o Tail(todo[t])
  BY ThenFacts DEF TodoType, Idle
<1>2. PICK r : r = Tail(todo[t])
  OBVIOUS
<1>3. /\ r \in Seq(StepRec) /\ Len(todo[t]) \in Nat \ {0}
      /\ Len(r) = Len(todo[t]) - 1
      /\ \A i \in 1..Len(r) : r[i] = todo[t][i + 1]
      /\ todo[t][1].op # "unbridge"
  BY <1>1, <1>2, HeadTail
<1>4. /\ Len(ss \o r) = Len(ss) + Len(r) /\ Len(ss) \in Nat /\ Len(r) \in Nat
      /\ \A i \in 1..Len(ss) : (ss \o r)[i] = ss[i]
      /\ \A i \in 1..Len(r) : (ss \o r)[Len(ss) + i] = r[i]
  BY <1>3, ConcatAt
<1>5. SUFFICES ASSUME NEW i \in 1..Len(ss \o r), (ss \o r)[i].op = "stopEnd"
               PROVE  \E j \in 1..(i - 1) : (ss \o r)[j].op = "unbridge"
  <2>1. ASSUME NEW u \in Thread, NEW i \in 1..Len(todo'[u]),
               todo'[u][i].op = "stopEnd"
        PROVE  \E j \in 1..(i - 1) : todo'[u][j].op = "unbridge"
    <3>1. CASE u = t
      <4>1. todo'[u] = ss \o r
        BY <1>1, <1>2, <3>1
      <4> QED BY <1>5, <2>1, <4>1
    <3>2. CASE u # t
      <4>1. todo'[u] = todo[u]
        BY <1>1, <3>2
      <4> QED BY <2>1, <4>1 DEF Ordered
    <3> QED BY <3>1, <3>2
  <2> QED BY <2>1 DEF Ordered
<1>6. CASE i <= Len(ss)
  <2>1. i \in 1..Len(ss) /\ 1 \in 1..Len(ss)
    BY <1>4, <1>6
  <2>2. i > 1 /\ (ss \o r)[1].op = "unbridge"
    BY <1>4, <1>5, <2>1 DEF UnbridgesFirst
  <2>3. 1 \in 1..(i - 1)
    BY <2>1, <2>2
  <2> QED BY <2>2, <2>3
<1>7. CASE i > Len(ss)
  <2>1. PICK k \in 1..Len(r) : i = Len(ss) + k
    <3>1. i - Len(ss) \in 1..Len(r) /\ i = Len(ss) + (i - Len(ss))
      BY <1>4, <1>7
    <3> QED BY <3>1
  <2>2. k + 1 \in 1..Len(todo[t]) /\ todo[t][k + 1].op = "stopEnd"
    BY <1>3, <1>4, <1>5, <2>1
  <2>3. PICK j \in 1..k : todo[t][j].op = "unbridge"
    <3>1. (k + 1) - 1 = k
      BY <2>1
    <3> QED BY <2>2, <3>1 DEF Ordered
  <2>4. j > 1
    BY <1>3, <2>3
  <2>5. /\ j - 1 \in 1..Len(r) /\ (j - 1) + 1 = j
        /\ Len(ss) + (j - 1) \in 1..(i - 1)
    BY <1>3, <1>4, <2>1, <2>3, <2>4
  <2>6. (ss \o r)[Len(ss) + (j - 1)].op = "unbridge"
    BY <1>3, <1>4, <2>3, <2>5
  <2> QED BY <2>5, <2>6
<1> QED BY <1>4, <1>6, <1>7

LEMMA OrderedBegun ==
    ASSUME TodoType, Ordered, NEW S, Begun(S), \A x \in S : x.op # "stopEnd"
    PROVE  Ordered'
<1>1. ASSUME NEW u \in Thread, NEW i \in 1..Len(todo'[u]),
             todo'[u][i].op = "stopEnd"
      PROVE  \E j \in 1..(i - 1) : todo'[u][j].op = "unbridge"
  <2>1. CASE todo'[u] = todo[u]
    BY <1>1, <2>1 DEF Ordered
  <2>2. CASE StepsIn(todo'[u]) = S
    BY <1>1, <2>2 DEF StepsIn
  <2> QED BY <2>1, <2>2 DEF Begun
<1> QED BY <1>1 DEF Ordered

LEMMA SilencedExecute ==
    ASSUME TodoType, Silenced, NEW t \in Thread, Execute(t)
    PROVE  Silenced'
<1>1. PICK h, ss : Executed(t, h, ss)
  BY ExecuteFacts
<1>2. PICK S : S = StepsIn(ss)
  OBVIOUS
<1>3. /\ Effect(h, S) /\ relay' \in {relay, "down", "kept"}
  BY <1>1, <1>2, ExecuteKeeps
<1>4. /\ h = Head(todo[t]) /\ ~Idle(t) /\ ss \in Seq(StepRec) /\ Then(t, ss)
  BY <1>1 DEF Executed
<1> SUFFICES ASSUME relay' = "up"
             PROVE  bridge' # "Terminated" /\ Ordered'
  BY DEF Silenced
<1>5. relay = "up" /\ bridge # "Terminated" /\ Ordered
  BY <1>3 DEF Silenced
<1>6. h.op # "unbridge"
  BY <1>3 DEF Effect, HangupEffect, TeardownEffect, NotifyEffect,
     TerminateEffect, LegTerminatedEffect, StopEffect, StopLegsEffect,
     LastEffect
<1>7. h.op # "stopEnd"
  <2>1. todo[t] \in Seq(StepRec) /\ todo[t] # <<>>
    BY <1>4 DEF TodoType, Idle
  <2>2. 1 \in 1..Len(todo[t]) /\ todo[t][1] = h
    BY <1>4, <2>1, HeadTail
  <2>3. \A j : j \notin 1..(1 - 1)
    OBVIOUS
  <2> QED BY <1>5, <2>2, <2>3 DEF Ordered
<1>8. bridge' # "Terminated"
  BY <1>3, <1>5, <1>7 DEF Effect, HangupEffect, TeardownEffect, NotifyEffect,
     TerminateEffect, LegTerminatedEffect, StopEffect, StopLegsEffect,
     LastEffect
<1>9. CASE h.op = "stop"
  <2> DEFINE A(op) == Step(op, "A", "None")
  <2>1. PICK u, w : /\ u = <<A("unbridge")>>
                    /\ w = <<A("stopLegs"), A("stopEnd"), A("wake")>>
    OBVIOUS
  <2>2. Stop(t)
    BY <1>4, <1>9 DEF Execute
  <2>3. Then(t, u \o w)
    BY <1>5, <2>1, <2>2 DEF Stop
  <2>4. u \in Seq(StepRec) /\ w \in Seq(StepRec)
    <3>1. /\ A("unbridge") \in StepRec /\ A("stopLegs") \in StepRec
          /\ A("stopEnd") \in StepRec /\ A("wake") \in StepRec
      BY StepTyped DEF Op, Side, Cause
    <3> QED BY <2>1, <3>1
  <2>5. /\ u \o w \in Seq(StepRec)
        /\ \A i \in 1..Len(u) : (u \o w)[i] = u[i]
    BY <2>4, ConcatAt
  <2>6. UnbridgesFirst(u \o w)
    <3>1. Len(u) = 1 /\ u[1] = A("unbridge")
      BY <2>1
    <3>2. (u \o w)[1] = A("unbridge")
      <4>1. 1 \in 1..Len(u)
        BY <3>1
      <4> HIDE DEF A
      <4> QED BY <2>5, <3>1, <4>1
    <3>3. (u \o w)[1].op = "unbridge"
      BY <3>2 DEF Step
    <3> QED BY <3>3 DEF UnbridgesFirst
  <2> QED BY <1>4, <1>5, <1>6, <1>8, <2>3, <2>5, <2>6, OrderedThen
<1>10. CASE h.op # "stop"
  <2>1. \A x \in S : x.op # "stopEnd"
    BY <1>3, <1>10 DEF Effect, HangupEffect, TeardownEffect, NotifyEffect,
       TerminateEffect, LegTerminatedEffect, StopEffect, StopLegsEffect,
       LastEffect, Step
  <2>2. UnbridgesFirst(ss)
    BY <1>2, <2>1 DEF UnbridgesFirst, StepsIn
  <2> QED BY <1>4, <1>5, <1>6, <1>8, <2>2, OrderedThen
<1> QED BY <1>9, <1>10

LEMMA SilencedNext ==
    ASSUME TodoType, Quiet, Stages, Timely, Silenced, Next
    PROVE  Silenced'
<1>1. ASSUME NEW S, Begun(S), \A x \in S : x.op # "stopEnd",
             relay' = "up" => relay = "up",
             bridge' = "Terminated" => bridge = "Terminated"
      PROVE  Silenced'
  BY <1>1, OrderedBegun DEF Silenced
<1>2. ASSUME NEW t \in Thread, Execute(t)
      PROVE  Silenced'
  BY <1>2, SilencedExecute
<1>3. CASE DialQuietly
  <2>1. /\ UNCHANGED <<todo, relay>>
        /\ bridge' = "Terminated" => bridge = "Terminated"
    BY <1>3 DEF DialQuietly, AdoptInboundLeg, Originate,
       CreateSessionPendingRemote, SendINVITE, HandleFailure, DialFails, Undo,
       Handle2xx, SendACK, TransitionToAnswered, DialReturns, NewBridge,
       WaitCheck, WaitCapture, Return
  <2>2. Begun({})
    BY <2>1, SameDue
  <2> QED BY <1>1, <2>1, <2>2
<1>4. ASSUME StartFailed, pc \in {"start", "bridging"}
      PROVE  Silenced'
  <2>1. Begun({Step("hangup", "B", "Error")})
    BY <1>4, StartFailsDue
  <2>2. UNCHANGED bridge /\ (relay' = "up" => relay = "up")
    BY <1>4 DEF StartFailed, StartFails
  <2>3. Step("hangup", "B", "Error").op # "stopEnd"
    BY DEF Step
  <2> QED BY <1>1, <2>1, <2>2, <2>3
<1>5. CASE Start
  <2>1. CASE UNCHANGED <<todo, bridge, relay>>
    BY <1>1, <2>1, SameDue
  <2> QED BY <1>4, <1>5, <2>1 DEF Start, StartFailed
<1>6. CASE BridgeMedia
  <2>1. CASE UNCHANGED todo /\ bridge' = "Active"
    <3>1. bridge = "Created"
      BY <1>6 DEF BridgeMedia, Stages
    <3>2. \A x \in Due : x.op # "stopEnd"
      BY <3>1 DEF Timely, StopOps
    <3>3. Ordered'
      <4>1. \A t \in Thread : \A i \in 1..Len(todo[t]) : todo[t][i] \in Due
        BY DEF Due, StepsIn
      <4> QED BY <2>1, <3>2, <4>1 DEF Ordered
    <3> QED BY <2>1, <3>3 DEF Silenced
  <2> QED BY <1>4, <1>6, <2>1 DEF BridgeMedia, StartFailed
<1>7. CASE WaitForTermination
  <2>1. PICK S \in SUBSET {Step("stop", "A", "None")} : Begun(S)
    BY <1>7, WaitDue
  <2>2. UNCHANGED <<relay, bridge>>
    BY <1>7 DEF WaitForTermination
  <2>3. \A x \in S : x.op # "stopEnd"
    BY <2>1 DEF Step
  <2> QED BY <1>1, <2>1, <2>2, <2>3
<1>8. CASE DialplanEnds
  <2>1. PICK S \in SUBSET {Step("terminate", "A", "None")} : Begun(S)
    BY <1>8, EndsDue
  <2>2. UNCHANGED <<relay, bridge>>
    BY <1>8 DEF DialplanEnds
  <2>3. \A x \in S : x.op # "stopEnd"
    BY <2>1 DEF Step
  <2> QED BY <1>1, <2>1, <2>2, <2>3
<1>9. ASSUME NEW l \in Side, Monitor(l)
      PROVE  Silenced'
  <2>1. UNCHANGED <<relay, bridge>>
    BY <1>9 DEF Monitor
  <2>2. Step("hangup", l, "RemoteBYE").op # "stopEnd"
    BY DEF Step
  <2>3. Begun({Step("hangup", l, "RemoteBYE")}) \/ Begun({})
    BY <1>9, MonitorDue
  <2> QED BY <1>1, <2>1, <2>2, <2>3
<1>10. ASSUME NEW l \in Side, ExtHangup(l)
       PROVE  Silenced'
  <2>1. UNCHANGED <<relay, bridge>>
    BY <1>10 DEF ExtHangup
  <2>2. Step("terminate", l, "None").op # "stopEnd"
    BY DEF Step
  <2>3. Begun({Step("terminate", l, "None")})
    BY <1>10, ExtDue
  <2> QED BY <1>1, <2>1, <2>2, <2>3
<1>11. CASE CallerEnds
  <2>1. UNCHANGED <<relay, bridge>>
    BY <1>11 DEF CallerEnds
  <2>2. /\ Step("cancel", "A", "None").op # "stopEnd"
        /\ Step("mark", "A", "None").op # "stopEnd"
    BY DEF Step
  <2>3. Begun({Step("cancel", "A", "None"), Step("mark", "A", "None")})
    BY <1>11, CallerDue
  <2> QED BY <1>1, <2>1, <2>2, <2>3
<1>12. CASE CalleeBYE
  <2>1. UNCHANGED <<relay, bridge>>
    BY <1>12 DEF CalleeBYE
  <2>2. /\ Step("cancel", "B", "None").op # "stopEnd"
        /\ Step("mark", "B", "None").op # "stopEnd"
        /\ Step("hangup", "B", "RemoteBYE").op # "stopEnd"
    BY DEF Step
  <2>3. \/ Begun({Step("hangup", "B", "RemoteBYE")})
        \/ Begun({Step("cancel", "B", "None"), Step("mark", "B", "None")})
    BY <1>12, CalleeDue
  <2> QED BY <1>1, <2>1, <2>2, <2>3
<1>13. CASE \/ \E s \in {"Ringing", "EarlyMedia"} : Provisional(s)
            \/ \E l \in Side : OnTerminated(l)
            \/ ConfirmWithACK
  <2>1. UNCHANGED <<todo, relay, bridge>>
    BY <1>13 DEF Provisional, OnTerminated, ConfirmWithACK
  <2>2. Begun({})
    BY <2>1, SameDue
  <2> QED BY <1>1, <2>1, <2>2
<1> QED BY <1>2, <1>3, <1>5, <1>6, <1>7, <1>8, <1>9, <1>10, <1>11, <1>12,
           <1>13 DEF Next, Dial, DialQuietly

-----------------------------------------------------------------------------
(* The legs *)

Untouched(l) == leg'[l].state = leg[l].state /\ leg'[l].cause = leg[l].cause

HungUp(h, S, l) ==
    /\ h.op = "hangup" /\ h.leg = l
    /\ leg'[l].state = "Destroyed" /\ leg'[l].cause = h.cause
    /\ S = {Step("teardown", l, h.cause), Step("close", l, h.cause),
            Step("notify", l, h.cause)}

LEMMA ExecuteLeg ==
    ASSUME leg \in [Side -> LegObj], NEW h, NEW S, Effect(h, S),
           h.leg \in Side, NEW l \in Side
    PROVE  Untouched(l) \/ HungUp(h, S, l)
<1>1. CASE HangupEffect(h, S)
  <2>1. PICK u : u = [leg EXCEPT ![h.leg].state = "Destroyed",
                                 ![h.leg].cause = h.cause]
    OBVIOUS
  <2>2. /\ u[l].state = IF l = h.leg THEN "Destroyed" ELSE leg[l].state
        /\ u[l].cause = IF l = h.leg THEN h.cause ELSE leg[l].cause
    BY <2>1, LegAfter
  <2>3. CASE IsTerminal(h.leg)
    BY <1>1, <2>3 DEF HangupEffect, Untouched
  <2>4. CASE ~IsTerminal(h.leg)
    <3>1. leg' = u
      BY <1>1, <2>1, <2>4 DEF HangupEffect
    <3>2. CASE l = h.leg
      BY <1>1, <2>2, <2>4, <3>1, <3>2 DEF HangupEffect, HungUp
    <3>3. CASE l # h.leg
      BY <2>2, <3>1, <3>3 DEF Untouched
    <3> QED BY <3>2, <3>3
  <2> QED BY <2>3, <2>4
<1>2. CASE LastEffect(h, S)
  <2>1. PICK u : u = [leg EXCEPT ![h.leg].closed = TRUE]
    OBVIOUS
  <2>2. u[l].state = leg[l].state /\ u[l].cause = leg[l].cause
    BY <2>1, LegAfter
  <2>3. leg' = leg \/ leg' = u
    BY <1>2, <2>1 DEF LastEffect
  <2> QED BY <2>2, <2>3 DEF Untouched
<1>3. CASE UNCHANGED leg
  BY <1>3 DEF Untouched
<1> QED BY <1>1, <1>2, <1>3 DEF Effect, TeardownEffect, NotifyEffect,
     TerminateEffect, LegTerminatedEffect, StopEffect, StopLegsEffect

\* The dial action never ends a leg by hanging it up, and leaves the legs
\* alone once the call is answered.
LEMMA QuietLegs ==
    ASSUME leg \in [Side -> LegObj], DialQuietly
    PROVE  /\ \A l \in Side : leg'[l].cause = leg[l].cause
           /\ leg'["B"].state = "Destroyed" => leg["B"].state = "Destroyed"
           /\ pc \in {"answered", "bridge", "check", "capture", "wait",
                      "returning"} => UNCHANGED leg
<1>1. "A" \in Side /\ "B" \in Side
  BY DEF Side
<1>2. \/ UNCHANGED leg
      \/ \E s : /\ leg' = [leg EXCEPT !["A"].state = s]
                /\ pc = "idle"
      \/ \E s \in {"Created", "Failed", "Answered"} :
            /\ leg' = [leg EXCEPT !["B"].state = s]
            /\ pc \in {"adopted", "invite", "waiting", "acked"}
  BY DEF DialQuietly, AdoptInboundLeg, Originate, CreateSessionPendingRemote,
     SendINVITE, HandleFailure, DialFails, Undo, Handle2xx, SendACK,
     TransitionToAnswered, DialReturns, NewBridge, WaitCheck, WaitCapture,
     Return
<1>3. \A s : \A l \in Side :
         /\ [leg EXCEPT !["A"].state = s][l].cause = leg[l].cause
         /\ [leg EXCEPT !["B"].state = s][l].cause = leg[l].cause
         /\ [leg EXCEPT !["A"].state = s]["B"].state = leg["B"].state
         /\ [leg EXCEPT !["B"].state = s]["B"].state = s
  BY <1>1, LegAfter
<1>4. CASE UNCHANGED leg
  BY <1>4
<1>5. ASSUME NEW s, leg' = [leg EXCEPT !["A"].state = s], pc = "idle"
      PROVE  /\ \A l \in Side : leg'[l].cause = leg[l].cause
             /\ leg'["B"].state = leg["B"].state
  BY <1>3, <1>5
<1>6. ASSUME NEW s \in {"Created", "Failed", "Answered"},
             leg' = [leg EXCEPT !["B"].state = s]
      PROVE  /\ \A l \in Side : leg'[l].cause = leg[l].cause
             /\ leg'["B"].state # "Destroyed"
  <2>1. /\ \A l \in Side : leg'[l].cause = leg[l].cause
        /\ leg'["B"].state = s
    <3>1. PICK u : u = [leg EXCEPT !["B"].state = s]
      OBVIOUS
    <3>2. u["B"].state = s /\ \A l \in Side : u[l].cause = leg[l].cause
      BY <1>1, <3>1, LegAfter
    <3> QED BY <1>6, <3>1, <3>2
  <2>2. s # "Destroyed"
    OBVIOUS
  <2> QED BY <2>1, <2>2
<1> QED BY <1>2, <1>4, <1>5, <1>6

-----------------------------------------------------------------------------
(* The bridge is told of the end of a leg *)

LEMMA WatchedExecute ==
    ASSUME TypeOK, Stages, Watched, NEW t \in Thread, Execute(t)
    PROVE  Watched'
<1>0. TodoType /\ leg \in [Side -> LegObj]
  BY TypeTodo DEF TypeOK
<1>1. PICK h, ss : Executed(t, h, ss)
  BY <1>0, ExecuteFacts
<1>2. PICK S : S = StepsIn(ss)
  OBVIOUS
<1>3. /\ h \in Due /\ h.leg \in Side
      /\ Effect(h, S) /\ Replaced(h, S) /\ UNCHANGED pc /\ TodoType'
      /\ bridge' \in {bridge, "Terminating", "Terminated"}
  BY <1>0, <1>1, <1>2, ExecuteKeeps
<1> SUFFICES ASSUME pc = "bridging" \/ bridge' = "Active", NEW l \in Side,
                    leg'[l].state # "Answered"
             PROVE  Pending({"notify", "legTerminated"}, l)'
  BY <1>3 DEF Watched
<1>4. pc = "bridging" \/ bridge = "Active"
  BY <1>3
<1>5. bridge # "none"
  BY <1>4 DEF Stages
<1>6. SUFFICES \E x \in Due' : x.op \in {"notify", "legTerminated"} /\ x.leg = l
  BY <1>3, PendingDueNext
<1>7. CASE HungUp(h, S, l)
  <2>1. Step("notify", l, h.cause) \in Due'
    BY <1>3, <1>7 DEF HungUp, Replaced
  <2> QED BY <2>1 DEF Step
<1>8. CASE Untouched(l)
  <2>1. Pending({"notify", "legTerminated"}, l)
    BY <1>4, <1>8 DEF Watched, Untouched
  <2>2. PICK x \in Due : x.op \in {"notify", "legTerminated"} /\ x.leg = l
    BY <1>0, <2>1, PendingDue
  <2>3. CASE x # h
    BY <1>3, <2>2, <2>3 DEF Replaced
  <2>4. CASE x = h /\ h.op = "notify"
    <3>1. NotifyEffect(h, S)
      BY <1>3, <2>4 DEF Effect, HangupEffect, TeardownEffect, TerminateEffect,
         LegTerminatedEffect, StopEffect, StopLegsEffect, LastEffect
    <3>2. Step("legTerminated", l, h.cause) \in Due'
      BY <1>3, <1>5, <2>2, <2>4, <3>1 DEF NotifyEffect, Replaced
    <3> QED BY <3>2 DEF Step
  <2>5. CASE x = h /\ h.op = "legTerminated"
    <3>1. LegTerminatedEffect(h, S)
      BY <1>3, <2>5 DEF Effect, HangupEffect, TeardownEffect, TerminateEffect,
         NotifyEffect, StopEffect, StopLegsEffect, LastEffect
    <3> QED BY <1>4, <3>1 DEF LegTerminatedEffect, Locked
  <2> QED BY <2>2, <2>3, <2>4, <2>5
<1> QED BY <1>0, <1>3, <1>7, <1>8, ExecuteLeg

\* Steps that are due stay due when a goroutine starts.
LEMMA PendingBegun ==
    ASSUME TodoType, NEW S, Begun(S), NEW ops, NEW l, Pending(ops, l)
    PROVE  Pending(ops, l)'
<1>1. TodoType' /\ Due \subseteq Due'
  BY DEF Begun
<1>2. \E x \in Due : x.op \in ops /\ x.leg = l
  BY PendingDue
<1>3. \E x \in Due' : x.op \in ops /\ x.leg = l
  BY <1>1, <1>2
<1>4. Pending(ops, l)' <=> \E x \in Due' : x.op \in ops /\ x.leg = l
  BY <1>1, PendingDueNext
<1> QED BY <1>3, <1>4

\* The actions that start a goroutine, StartFailed included, change neither
\* the legs nor the bridge.
Starts ==
    \/ pc \in {"start", "bridging"} /\ StartFailed
    \/ WaitForTermination \/ DialplanEnds
    \/ \E l \in Side : Monitor(l) \/ ExtHangup(l)
    \/ CallerEnds \/ CalleeBYE

\* A step that does not take the callee for gone.
Unaware(x) == x.leg = "B" => x.cause # "RemoteBYE" /\ x.op # "cancel"

LEMMA StartsFacts ==
    ASSUME TodoType, Quiet, Starts
    PROVE  /\ \E S : /\ Begun(S)
                     /\ \A x \in S : \/ Unaware(x)
                                     \/ "B" \in left' \/ dlg["B"].done
           /\ UNCHANGED <<leg, dlg, media, bridge, contact, told>>
           /\ left \subseteq left'
           /\ pc' = "bridging" => pc = "bridging"
           /\ pc' = pc \/ pc \in {"start", "bridging", "wait", "returned"}
<1>1. /\ UNCHANGED <<leg, dlg, media, bridge, contact, told>>
      /\ left \subseteq left'
      /\ pc' = "bridging" => pc = "bridging"
      /\ pc' = pc \/ pc \in {"start", "bridging", "wait", "returned"}
  BY DEF Starts, StartFailed, StartFails, WaitForTermination, DialplanEnds,
     Monitor, ExtHangup, CallerEnds, CalleeBYE
<1>2. SUFFICES \E S : /\ Begun(S)
                      /\ \A x \in S : \/ Unaware(x)
                                      \/ "B" \in left' \/ dlg["B"].done
  BY <1>1
<1>3. CASE pc \in {"start", "bridging"} /\ StartFailed
  <2>1. Begun({Step("hangup", "B", "Error")})
    BY <1>3, StartFailsDue
  <2>2. Unaware(Step("hangup", "B", "Error"))
    BY DEF Unaware, Step
  <2> QED BY <2>1, <2>2
<1>4. CASE WaitForTermination
  <2>1. PICK S \in SUBSET {Step("stop", "A", "None")} : Begun(S)
    BY <1>4, WaitDue
  <2>2. Unaware(Step("stop", "A", "None"))
    BY DEF Unaware, Step
  <2> QED BY <2>1, <2>2
<1>5. CASE DialplanEnds
  <2>1. PICK S \in SUBSET {Step("terminate", "A", "None")} : Begun(S)
    BY <1>5, EndsDue
  <2>2. Unaware(Step("terminate", "A", "None"))
    BY DEF Unaware, Step
  <2> QED BY <2>1, <2>2
<1>6. ASSUME NEW l \in Side, Monitor(l)
      PROVE  \E S : /\ Begun(S)
                    /\ \A x \in S : \/ Unaware(x)
                                    \/ "B" \in left' \/ dlg["B"].done
  <2>1. \/ dlg[l].done /\ Begun({Step("hangup", l, "RemoteBYE")})
        \/ Begun({})
    BY <1>6, MonitorDue
  <2>2. l = "A" => Unaware(Step("hangup", l, "RemoteBYE"))
    BY DEF Unaware, Step
  <2>3. l = "A" \/ l = "B"
    BY DEF Side
  <2> QED BY <2>1, <2>2, <2>3
<1>7. ASSUME NEW l \in Side, ExtHangup(l)
      PROVE  \E S : /\ Begun(S)
                    /\ \A x \in S : \/ Unaware(x)
                                    \/ "B" \in left' \/ dlg["B"].done
  <2>1. Begun({Step("terminate", l, "None")})
    BY <1>7, ExtDue
  <2>2. Unaware(Step("terminate", l, "None"))
    BY DEF Unaware, Step
  <2> QED BY <2>1, <2>2
<1>8. CASE CallerEnds
  <2>1. Begun({Step("cancel", "A", "None"), Step("mark", "A", "None")})
    BY <1>8, CallerDue
  <2>2. /\ Unaware(Step("cancel", "A", "None"))
        /\ Unaware(Step("mark", "A", "None"))
    BY DEF Unaware, Step
  <2> QED BY <2>1, <2>2
<1>9. CASE CalleeBYE
  <2>1. \E S : Begun(S)
    BY <1>9, CalleeDue
  <2>2. "B" \in left'
    BY <1>9 DEF CalleeBYE
  <2> QED BY <2>1, <2>2
<1> QED BY <1>3, <1>4, <1>5, <1>6, <1>7, <1>8, <1>9 DEF Starts

\* Every action executes a step, starts a goroutine, or leaves the steps alone.
LEMMA NextCases ==
    ASSUME Next
    PROVE  \/ \E t \in Thread : Execute(t)
           \/ DialQuietly
           \/ Starts
           \/ Start /\ ~StartFailed
           \/ BridgeMedia /\ ~StartFailed
           \/ \E s \in {"Ringing", "EarlyMedia"} : Provisional(s)
           \/ \E l \in Side : OnTerminated(l)
           \/ ConfirmWithACK
<1>1. Start => pc = "start"
  BY DEF Start
<1>2. BridgeMedia => pc = "bridging"
  BY DEF BridgeMedia
<1> QED BY <1>1, <1>2 DEF Next, Dial, DialQuietly, Starts

LEMMA WatchedNext ==
    ASSUME TypeOK, Quiet, Stages, Watched, Next
    PROVE  Watched'
<1>0. TodoType /\ leg \in [Side -> LegObj]
  BY TypeTodo DEF TypeOK
<1>1. ASSUME NEW S, Begun(S), UNCHANGED leg,
             pc' = "bridging" \/ bridge' = "Active" =>
                pc = "bridging" \/ bridge = "Active"
      PROVE  Watched'
  BY <1>0, <1>1, PendingBegun DEF Watched
<1>2. CASE \E t \in Thread : Execute(t)
  BY <1>2, WatchedExecute
<1>3. CASE DialQuietly
  <2>1. /\ UNCHANGED todo /\ pc' # "bridging"
        /\ bridge' = "Active" => bridge = "Active"
        /\ pc \in Bridged => pc \in {"check", "capture", "wait", "returning"}
    BY <1>3 DEF DialQuietly, AdoptInboundLeg, Originate,
       CreateSessionPendingRemote, SendINVITE, HandleFailure, DialFails, Undo,
       Handle2xx, SendACK, TransitionToAnswered, DialReturns, NewBridge,
       WaitCheck, WaitCapture, Return, Bridged
  <2>2. CASE bridge' = "Active"
    <3>1. UNCHANGED leg
      BY <1>0, <1>3, <2>1, <2>2, QuietLegs DEF Stages
    <3> QED BY <1>0, <1>1, <2>1, <3>1, SameDue
  <2>3. CASE bridge' # "Active"
    BY <2>1, <2>3 DEF Watched
  <2> QED BY <2>2, <2>3
<1>4. CASE Starts
  BY <1>0, <1>1, <1>4, StartsFacts
<1>5. CASE Start /\ ~StartFailed
  BY <1>5 DEF Start, StartFailed, Watched
<1>6. CASE BridgeMedia /\ ~StartFailed
  <2>1. UNCHANGED <<todo, leg>> /\ pc = "bridging"
    BY <1>6 DEF BridgeMedia, StartFailed
  <2> QED BY <1>0, <1>1, <2>1, SameDue
<1>7. CASE \E s \in {"Ringing", "EarlyMedia"} : Provisional(s)
  <2>1. pc = "waiting" /\ UNCHANGED <<pc, bridge>>
    BY <1>7 DEF Provisional
  <2> QED BY <2>1 DEF Watched, Stages, Dialling
<1>8. CASE (\E l \in Side : OnTerminated(l)) \/ ConfirmWithACK
  <2>1. UNCHANGED <<todo, leg, pc, bridge>>
    BY <1>8 DEF OnTerminated, ConfirmWithACK
  <2> QED BY <1>0, <1>1, <2>1, SameDue
<1> QED BY <1>2, <1>3, <1>4, <1>5, <1>6, <1>7, <1>8, NextCases

-----------------------------------------------------------------------------
(* Who ended the callee's leg *)

LEMMA AttributedExecute ==
    ASSUME TypeOK, Attributed, NEW t \in Thread, Execute(t)
    PROVE  Attributed'
<1>0. TodoType /\ leg \in [Side -> LegObj] /\ "B" \in Side
  BY TypeTodo DEF TypeOK, Side
<1>1. PICK h, ss : Executed(t, h, ss)
  BY <1>0, ExecuteFacts
<1>2. PICK S : S = StepsIn(ss)
  OBVIOUS
<1>3. /\ h \in Due /\ h.leg \in Side
      /\ Effect(h, S) /\ Replaced(h, S) /\ UNCHANGED left
      /\ told \subseteq told'
  BY <1>0, <1>1, <1>2, ExecuteKeeps
<1>4. dlg'["B"].state \in {dlg["B"].state, "Terminated"}
  <2>1. PICK u, v : /\ u = [dlg EXCEPT ![h.leg].state = "Terminated"]
                    /\ v = [dlg EXCEPT ![h.leg].done = TRUE]
    OBVIOUS
  <2>2. /\ u["B"].state \in {dlg["B"].state, "Terminated"}
        /\ v["B"].state = dlg["B"].state
    BY <1>3, <2>1 DEF TypeOK, Side
  <2>3. dlg' \in {dlg, u, v}
    BY <1>3, <2>1 DEF Effect, HangupEffect, TeardownEffect, NotifyEffect,
       TerminateEffect, LegTerminatedEffect, StopEffect, StopLegsEffect,
       LastEffect
  <2> QED BY <2>2, <2>3
<1>5. dlg'["B"].state # "WaitingACK"
  BY <1>4 DEF Attributed
<1> SUFFICES ASSUME ~CalleeGone'
             PROVE  /\ leg'["B"].cause # "RemoteBYE"
                    /\ ~dlg'["B"].done
                    /\ \A x \in Due' : Unaware(x)
  BY <1>5 DEF Attributed, Unaware
<1>6. /\ ~CalleeGone /\ leg["B"].cause # "RemoteBYE" /\ ~dlg["B"].done
      /\ \A x \in Due : Unaware(x)
  BY <1>3 DEF CalleeGone, Attributed, Unaware
<1>7. Unaware(h)
  BY <1>3, <1>6
<1>8. leg'["B"].cause # "RemoteBYE"
  <2>1. CASE Untouched("B")
    BY <1>6, <2>1 DEF Untouched
  <2>2. CASE HungUp(h, S, "B")
    BY <1>7, <2>2 DEF HungUp, Unaware
  <2> QED BY <1>0, <1>3, <2>1, <2>2, ExecuteLeg
<1>9. ~dlg'["B"].done
  <2>1. PICK u, v : /\ u = [dlg EXCEPT ![h.leg].state = "Terminated"]
                    /\ v = [dlg EXCEPT ![h.leg].done = TRUE]
    OBVIOUS
  <2>2. /\ u["B"].done = dlg["B"].done
        /\ h.leg # "B" => v["B"].done = dlg["B"].done
    BY <1>3, <2>1 DEF TypeOK, Side
  <2>3. dlg' \in {dlg, u} \/ (dlg' = v /\ h.op = "cancel")
    BY <1>3, <2>1 DEF Effect, HangupEffect, TeardownEffect, NotifyEffect,
       TerminateEffect, LegTerminatedEffect, StopEffect, StopLegsEffect,
       LastEffect
  <2> QED BY <1>6, <1>7, <2>2, <2>3 DEF Unaware
<1>10. ASSUME NEW x \in S
       PROVE  Unaware(x)
  <2>1. CASE HangupEffect(h, S)
    BY <1>7, <1>10, <2>1 DEF HangupEffect, Unaware, Step
  <2>2. CASE TeardownEffect(h, S) \/ LegTerminatedEffect(h, S)
             \/ StopEffect(h, S) \/ StopLegsEffect(h, S) \/ LastEffect(h, S)
    <3>1. x.op # "cancel" /\ x.cause \in {"None", "BridgePeer"}
      BY <1>10, <2>2 DEF TeardownEffect, LegTerminatedEffect, StopEffect,
         StopLegsEffect, LastEffect, Step
    <3> QED BY <3>1 DEF Unaware
  <2>3. CASE NotifyEffect(h, S)
    <3>1. h.leg = "A" \/ h.leg = "B"
      BY <1>3 DEF Side
    <3>2. /\ x.op \in {"destroy", "terminate", "unlist", "legTerminated"}
          /\ x.cause = h.cause
          /\ x.leg = h.leg
      BY <1>10, <2>3, <3>1 DEF NotifyEffect, Step
    <3> QED BY <1>7, <3>2 DEF Unaware
  <2>4. CASE TerminateEffect(h, S)
    <3>1. x.leg = h.leg
      BY <1>10, <2>4 DEF TerminateEffect, Step
    <3>2. CASE h.leg = "B"
      <4>1. dlg["B"].state \in DlgState
        BY <1>0 DEF TypeOK
      <4>2. dlg["B"].state = "Confirmed"
        BY <1>10, <2>4, <3>2, <4>1 DEF TerminateEffect, Attributed, DlgState
      <4>3. "B" \in told'
        BY <1>7, <1>10, <2>4, <3>2, <4>2 DEF TerminateEffect, Unaware
      <4> QED BY <4>3 DEF CalleeGone
    <3> QED BY <3>1, <3>2 DEF Unaware
  <2> QED BY <1>3, <2>1, <2>2, <2>3, <2>4 DEF Effect
<1>11. \A x \in Due' : Unaware(x)
  BY <1>3, <1>6, <1>10 DEF Replaced
<1> QED BY <1>8, <1>9, <1>11

LEMMA AttributedNext ==
    ASSUME TypeOK, Quiet, Attributed, Next
    PROVE  Attributed'
<1>0. TodoType /\ leg \in [Side -> LegObj] /\ "B" \in Side
  BY TypeTodo DEF TypeOK, Side
<1>1. ASSUME NEW S, Begun(S),
             \A x \in S : Unaware(x) \/ "B" \in left' \/ dlg["B"].done,
             leg'["B"].cause = leg["B"].cause,
             dlg'["B"].state \in {dlg["B"].state, "Confirmed"},
             dlg'["B"].done = dlg["B"].done,
             left \subseteq left', UNCHANGED told
      PROVE  Attributed'
  <2>1. dlg'["B"].state # "WaitingACK"
    BY <1>1 DEF Attributed
  <2>2. CASE CalleeGone'
    BY <2>1, <2>2 DEF Attributed
  <2>3. CASE ~CalleeGone'
    <3>1. ~CalleeGone /\ "B" \notin left'
      BY <1>1, <2>3 DEF CalleeGone
    <3>2. \A x \in Due' : Unaware(x)
      BY <1>1, <3>1 DEF Attributed, Begun, Unaware
    <3> QED BY <1>1, <2>1, <3>1, <3>2 DEF Attributed, Unaware
  <2> QED BY <2>2, <2>3
<1>2. ASSUME UNCHANGED <<todo, left, told>>,
             leg'["B"].cause = leg["B"].cause,
             dlg'["B"].state \in {dlg["B"].state, "Confirmed"},
             dlg'["B"].done = dlg["B"].done
      PROVE  Attributed'
  <2>1. Begun({})
    BY <1>0, <1>2, SameDue
  <2> QED BY <1>1, <1>2, <2>1
<1>3. CASE \E t \in Thread : Execute(t)
  BY <1>3, AttributedExecute
<1>4. CASE DialQuietly
  <2>1. UNCHANGED <<todo, left, told>>
    BY <1>4 DEF DialQuietly, AdoptInboundLeg, Originate,
       CreateSessionPendingRemote, SendINVITE, HandleFailure, DialFails, Undo,
       Handle2xx, SendACK, TransitionToAnswered, DialReturns, NewBridge,
       WaitCheck, WaitCapture, Return
  <2>2. dlg' \in {dlg, [dlg EXCEPT !["B"].state = "Confirmed"]}
    BY <1>4 DEF DialQuietly, AdoptInboundLeg, Originate,
       CreateSessionPendingRemote, SendINVITE, HandleFailure, DialFails, Undo,
       Handle2xx, SendACK, TransitionToAnswered, DialReturns, NewBridge,
       WaitCheck, WaitCapture, Return
  <2>3. /\ dlg'["B"].state \in {dlg["B"].state, "Confirmed"}
        /\ dlg'["B"].done = dlg["B"].done
    BY <1>0, <2>2 DEF TypeOK
  <2>4. leg'["B"].cause = leg["B"].cause
    BY <1>0, <1>4, QuietLegs
  <2> QED BY <1>2, <2>1, <2>3, <2>4
<1>5. CASE Starts
  <2>1. PICK S : /\ Begun(S)
                 /\ \A x \in S : \/ Unaware(x)
                                 \/ "B" \in left' \/ dlg["B"].done
    BY <1>0, <1>5, StartsFacts
  <2>2. UNCHANGED <<leg, dlg, told>> /\ left \subseteq left'
    BY <1>0, <1>5, StartsFacts
  <2> QED BY <1>1, <2>1, <2>2
<1>6. CASE (Start /\ ~StartFailed) \/ (BridgeMedia /\ ~StartFailed)
  <2>1. UNCHANGED <<todo, leg, dlg, left, told>>
    BY <1>6 DEF Start, BridgeMedia, StartFailed
  <2> QED BY <1>2, <2>1
<1>7. ASSUME NEW s \in {"Ringing", "EarlyMedia"}, Provisional(s)
      PROVE  Attributed'
  <2>1. UNCHANGED <<todo, dlg, left, told>>
        /\ leg' = [leg EXCEPT !["B"].state = s]
    BY <1>7 DEF Provisional
  <2>2. leg'["B"].cause = leg["B"].cause
    BY <1>0, <2>1, LegAfter
  <2> QED BY <1>2, <2>1, <2>2
<1>8. ASSUME NEW l \in Side, OnTerminated(l)
      PROVE  Attributed'
  <2>1. UNCHANGED <<todo, leg, dlg, left, told>>
    BY <1>8 DEF OnTerminated
  <2> QED BY <1>2, <2>1
<1>9. CASE ConfirmWithACK
  <2>1. UNCHANGED <<todo, leg, left, told>>
        /\ dlg' = [dlg EXCEPT !["A"].state = "Confirmed"]
    BY <1>9 DEF ConfirmWithACK
  <2>2. dlg'["B"] = dlg["B"]
    BY <1>0, <2>1 DEF TypeOK
  <2> QED BY <1>2, <2>1, <2>2
<1> QED BY <1>3, <1>4, <1>5, <1>6, <1>7, <1>8, <1>9, NextCases

-----------------------------------------------------------------------------
(* What is left at the RTP manager *)

LEMMA ExcusedNext ==
    ASSUME TypeOK, Quiet, Excused, Next
    PROVE  Excused'
<1>0. /\ TodoType /\ "A" \in Side /\ "B" \in Side
      /\ dlg \in [Side -> [state : DlgState, done : BOOLEAN]]
      /\ media \in [Side -> MediaState]
  BY TypeTodo DEF TypeOK, Side
<1>1. ASSUME dlg["A"].done => dlg'["A"].done,
             relay' = "kept" => relay = "kept" \/ "bridge" \in Env,
             relay' = "stray" => relay = "stray" \/ CutOff("bridge"),
             media'["B"] = "lost" => media["B"] = "lost" \/ CutOff("session")
      PROVE  Excused'
  BY <1>1 DEF Excused, CutOff
<1>2. ASSUME NEW l \in Side, \/ \E s : dlg' = [dlg EXCEPT ![l].state = s]
                              \/ dlg' = [dlg EXCEPT ![l].done = TRUE]
      PROVE  dlg["A"].done => dlg'["A"].done
  BY <1>0, <1>2, DlgUpdates
<1>3. ASSUME NEW l \in Side, DestroyMedia(l)
      PROVE  media'["B"] = "lost" => media["B"] = "lost" \/ CutOff("session")
  BY <1>0, <1>3, DestroyMediaFacts DEF CutOff
<1>4. ASSUME NEW t \in Thread, Execute(t)
      PROVE  Excused'
  <2>1. PICK h, ss : Executed(t, h, ss)
    BY <1>0, <1>4, ExecuteFacts
  <2>2. PICK S : S = StepsIn(ss)
    OBVIOUS
  <2>3. h.leg \in Side /\ Effect(h, S)
    BY <1>0, <2>1, <2>2, ExecuteKeeps
  <2>4. /\ \/ UNCHANGED dlg
           \/ \E s : dlg' = [dlg EXCEPT ![h.leg].state = s]
           \/ dlg' = [dlg EXCEPT ![h.leg].done = TRUE]
        /\ UNCHANGED media \/ DestroyMedia("B")
        /\ relay' = "kept" => relay = "kept" \/ "bridge" \in Env
        /\ relay' = "stray" => relay = "stray"
    BY <2>3 DEF Effect, HangupEffect, TeardownEffect, NotifyEffect,
       TerminateEffect, LegTerminatedEffect, StopEffect, StopLegsEffect,
       LastEffect
  <2> QED BY <1>0, <1>1, <1>2, <1>3, <2>3, <2>4
<1>5. CASE DialQuietly
  <2>1. /\ UNCHANGED dlg \/ dlg' = [dlg EXCEPT !["B"].state = "Confirmed"]
        /\ UNCHANGED relay
        /\ \/ UNCHANGED media
           \/ DestroyMedia("B")
           \/ media' = [media EXCEPT !["B"] = "held"]
           \/ CutOff("session")
    BY <1>5 DEF DialQuietly, AdoptInboundLeg, Originate,
       CreateSessionPendingRemote, SendINVITE, HandleFailure, DialFails, Undo,
       Handle2xx, SendACK, TransitionToAnswered, DialReturns, NewBridge,
       WaitCheck, WaitCapture, Return
  <2>2. dlg["A"].done => dlg'["A"].done
    BY <1>0, <1>2, <2>1
  <2>3. media'["B"] = "lost" => media["B"] = "lost" \/ CutOff("session")
    BY <1>0, <1>3, <2>1
  <2> QED BY <1>1, <2>1, <2>2, <2>3
<1>6. CASE Start \/ BridgeMedia
  <2>1. /\ UNCHANGED <<dlg, media>>
        /\ relay' = "kept" => relay = "kept"
        /\ relay' = "stray" => relay = "stray" \/ CutOff("bridge")
    BY <1>6 DEF Start, BridgeMedia, StartFails
  <2> QED BY <1>1, <2>1
<1>7. CASE \/ WaitForTermination \/ DialplanEnds
           \/ \E s \in {"Ringing", "EarlyMedia"} : Provisional(s)
           \/ \E l \in Side : Monitor(l) \/ ExtHangup(l)
           \/ CallerEnds \/ CalleeBYE
  <2>1. UNCHANGED <<dlg, media, relay>>
    BY <1>7 DEF WaitForTermination, DialplanEnds, Provisional, Monitor,
       ExtHangup, CallerEnds, CalleeBYE
  <2> QED BY <1>1, <2>1
<1>8. ASSUME NEW l \in Side, OnTerminated(l)
      PROVE  Excused'
  <2>1. UNCHANGED <<dlg, relay>> /\ DestroyMedia(l)
    BY <1>8 DEF OnTerminated
  <2> QED BY <1>1, <1>3, <2>1
<1>9. CASE ConfirmWithACK
  <2>1. /\ UNCHANGED <<relay, media>>
        /\ dlg' = [dlg EXCEPT !["A"].state = "Confirmed"]
    BY <1>9 DEF ConfirmWithACK
  <2> QED BY <1>0, <1>1, <1>2, <2>1
<1> QED BY <1>4, <1>5, <1>6, <1>7, <1>8, <1>9 DEF Next, Dial, DialQuietly

-----------------------------------------------------------------------------
(* The callee's media session *)

Owning == {"invite", "waiting", "undo", "acking", "acked"}

LEMMA MediaExecute ==
    ASSUME TypeOK, MediaOwned, NEW t \in Thread, Execute(t)
    PROVE  MediaOwned'
<1>0. TodoType /\ leg \in [Side -> LegObj] /\ "B" \in Side
  BY TypeTodo DEF TypeOK, Side
<1>1. PICK h, ss : Executed(t, h, ss)
  BY <1>0, ExecuteFacts
<1>2. PICK S : S = StepsIn(ss)
  OBVIOUS
<1>3. /\ h \in Due /\ h.leg \in Side
      /\ Effect(h, S) /\ Replaced(h, S) /\ UNCHANGED pc /\ TodoType'
  BY <1>0, <1>1, <1>2, ExecuteKeeps
<1>4. media'["B"] = "held" => media["B"] = "held" /\ h.op # "destroy"
  <2>1. DestroyMedia("B") \/ (UNCHANGED media /\ h.op # "destroy")
    BY <1>3 DEF Effect, HangupEffect, TeardownEffect, NotifyEffect,
       TerminateEffect, LegTerminatedEffect, StopEffect, StopLegsEffect,
       LastEffect
  <2> QED BY <2>1, DestroyMediaFacts DEF TypeOK, Side
<1> SUFFICES ASSUME media'["B"] = "held", pc \notin Owning,
                    leg'["B"].state # "Answered"
             PROVE  \E x \in Due' : x.op \in {"notify", "destroy"} /\ x.leg = "B"
  BY <1>3, PendingDueNext DEF MediaOwned, Owning
<1>5. CASE HungUp(h, S, "B")
  <2>1. Step("notify", "B", h.cause) \in Due'
    BY <1>3, <1>5 DEF HungUp, Replaced
  <2> QED BY <2>1 DEF Step
<1>6. CASE Untouched("B")
  <2>1. Pending({"notify", "destroy"}, "B")
    BY <1>4, <1>6 DEF MediaOwned, Untouched, Owning
  <2>2. PICK x \in Due : x.op \in {"notify", "destroy"} /\ x.leg = "B"
    BY <1>0, <2>1, PendingDue
  <2>3. CASE x # h
    BY <1>3, <2>2, <2>3 DEF Replaced
  <2>4. CASE x = h
    <3>1. h.op = "notify" /\ h.leg = "B"
      BY <1>4, <2>2, <2>4
    <3>2. NotifyEffect(h, S)
      BY <1>3, <3>1 DEF Effect, HangupEffect, TeardownEffect, TerminateEffect,
         LegTerminatedEffect, StopEffect, StopLegsEffect, LastEffect
    <3>3. Step("destroy", "B", h.cause) \in Due'
      BY <1>3, <3>1, <3>2 DEF NotifyEffect, Replaced
    <3> QED BY <3>3 DEF Step
  <2> QED BY <2>3, <2>4
<1> QED BY <1>0, <1>3, <1>5, <1>6, ExecuteLeg

LEMMA MediaNext ==
    ASSUME TypeOK, Quiet, Stages, MediaOwned, Next
    PROVE  MediaOwned'
<1>0. TodoType /\ leg \in [Side -> LegObj] /\ "B" \in Side
  BY TypeTodo DEF TypeOK, Side
<1>1. ASSUME NEW S, Begun(S), UNCHANGED leg,
             media'["B"] = "held" => media["B"] = "held",
             pc \in Owning => pc' \in Owning
      PROVE  MediaOwned'
  BY <1>0, <1>1, PendingBegun DEF MediaOwned, Owning
<1>2. CASE \E t \in Thread : Execute(t)
  BY <1>2, MediaExecute
<1>3. CASE DialQuietly
  <2>1. CASE AdoptInboundLeg \/ Originate \/ CreateSessionPendingRemote
    BY <1>0, <2>1 DEF AdoptInboundLeg, Originate, CreateSessionPendingRemote,
       Stages, MediaOwned, TypeOK
  <2>2. CASE SendINVITE \/ HandleFailure \/ DialFails \/ Handle2xx \/ SendACK
    BY <2>2 DEF SendINVITE, HandleFailure, DialFails, Handle2xx, SendACK,
       MediaOwned
  <2>3. CASE Undo
    BY <2>3, DestroyMediaFacts DEF Undo, MediaOwned, TypeOK, Side
  <2>4. CASE TransitionToAnswered
    <3>1. leg'["B"].state = "Answered"
      BY <1>0, <2>4, LegAfter DEF TransitionToAnswered
    <3> QED BY <3>1 DEF MediaOwned
  <2>5. CASE DialReturns \/ NewBridge \/ WaitCheck \/ WaitCapture \/ Return
    <3>1. UNCHANGED <<todo, leg, media>> /\ pc \notin Owning
      BY <2>5 DEF DialReturns, NewBridge, WaitCheck, WaitCapture, Return, Owning
    <3> QED BY <1>0, <1>1, <3>1, SameDue
  <2> QED BY <1>3, <2>1, <2>2, <2>3, <2>4, <2>5 DEF DialQuietly
<1>4. CASE Starts
  <2>1. PICK S : Begun(S)
    BY <1>0, <1>4, StartsFacts
  <2>2. /\ UNCHANGED <<leg, media>>
        /\ pc' = pc \/ pc \in {"start", "bridging", "wait", "returned"}
    BY <1>0, <1>4, StartsFacts
  <2> QED BY <1>1, <2>1, <2>2 DEF Owning
<1>5. CASE (Start /\ ~StartFailed) \/ (BridgeMedia /\ ~StartFailed)
  <2>1. UNCHANGED <<todo, leg, media>> /\ pc \notin Owning
    BY <1>5 DEF Start, BridgeMedia, StartFailed, Owning
  <2> QED BY <1>0, <1>1, <2>1, SameDue
<1>6. CASE \E s \in {"Ringing", "EarlyMedia"} : Provisional(s)
  BY <1>6 DEF Provisional, MediaOwned
<1>7. ASSUME NEW l \in Side, OnTerminated(l)
      PROVE  MediaOwned'
  <2>1. /\ UNCHANGED <<todo, leg, pc>>
        /\ media'["B"] = "held" => media["B"] = "held"
    BY <1>0, <1>7, DestroyMediaFacts DEF OnTerminated, TypeOK
  <2> QED BY <1>0, <1>1, <2>1, SameDue
<1>8. CASE ConfirmWithACK
  <2>1. UNCHANGED <<todo, leg, pc, media>>
    BY <1>8 DEF ConfirmWithACK
  <2> QED BY <1>0, <1>1, <2>1, SameDue
<1> QED BY <1>2, <1>3, <1>4, <1>5, <1>6, <1>7, <1>8, NextCases

-----------------------------------------------------------------------------
(* The callee is released *)

LEMMA ReleasedExecute ==
    ASSUME TypeOK, Attributed, CalleeReleased, NEW t \in Thread, Execute(t)
    PROVE  CalleeReleased'
<1>0. TodoType /\ leg \in [Side -> LegObj] /\ "B" \in Side
  BY TypeTodo DEF TypeOK, Side
<1>1. PICK h, ss : Executed(t, h, ss)
  BY <1>0, ExecuteFacts
<1>2. PICK S : S = StepsIn(ss)
  OBVIOUS
<1>3. /\ h \in Due /\ h.leg \in Side
      /\ Effect(h, S) /\ Replaced(h, S) /\ UNCHANGED <<left, contact>>
      /\ told \subseteq told' /\ TodoType'
  BY <1>0, <1>1, <1>2, ExecuteKeeps
<1> SUFFICES ASSUME contact, leg'["B"].state = "Destroyed", ~CalleeGone'
             PROVE  \E x \in Due' : x.op \in {"teardown"} /\ x.leg = "B"
  BY <1>3, PendingDueNext DEF CalleeReleased, CalleeGone
<1>4. ~CalleeGone
  BY <1>3 DEF CalleeGone
<1>5. CASE HungUp(h, S, "B")
  <2>1. Step("teardown", "B", h.cause) \in Due'
    BY <1>3, <1>5 DEF HungUp, Replaced
  <2> QED BY <2>1 DEF Step
<1>6. CASE Untouched("B")
  <2>1. Pending({"teardown"}, "B")
    BY <1>4, <1>6 DEF CalleeReleased, Untouched, CalleeGone
  <2>2. PICK x \in Due : x.op \in {"teardown"} /\ x.leg = "B"
    BY <1>0, <2>1, PendingDue
  <2>3. CASE x # h
    BY <1>3, <2>2, <2>3 DEF Replaced
  <2>4. CASE x = h
    <3>1. TeardownEffect(h, S)
      BY <1>3, <2>2, <2>4 DEF Effect, HangupEffect, NotifyEffect,
         TerminateEffect, LegTerminatedEffect, StopEffect, StopLegsEffect,
         LastEffect
    <3>2. leg["B"].cause # "RemoteBYE"
      BY <1>4 DEF Attributed
    <3>3. "B" \in told'
      BY <2>2, <2>4, <3>1, <3>2 DEF TeardownEffect, SendBYE
    <3> QED BY <3>3 DEF CalleeGone
  <2> QED BY <2>3, <2>4
<1> QED BY <1>0, <1>3, <1>5, <1>6, ExecuteLeg

LEMMA ReleasedNext ==
    ASSUME TypeOK, Quiet, Stages, Attributed, CalleeReleased, Next
    PROVE  CalleeReleased'
<1>0. TodoType /\ leg \in [Side -> LegObj] /\ "B" \in Side
  BY TypeTodo DEF TypeOK, Side
<1>1. ASSUME NEW S, Begun(S),
             contact' /\ leg'["B"].state = "Destroyed" =>
                contact /\ leg["B"].state = "Destroyed",
             left \subseteq left', UNCHANGED told
      PROVE  CalleeReleased'
  BY <1>0, <1>1, PendingBegun DEF CalleeReleased
<1>2. CASE \E t \in Thread : Execute(t)
  BY <1>2, ReleasedExecute
<1>3. CASE DialQuietly
  <2>1. UNCHANGED <<todo, left, told>>
    BY <1>3 DEF DialQuietly, AdoptInboundLeg, Originate,
       CreateSessionPendingRemote, SendINVITE, HandleFailure, DialFails, Undo,
       Handle2xx, SendACK, TransitionToAnswered, DialReturns, NewBridge,
       WaitCheck, WaitCapture, Return
  <2>2. leg'["B"].state = "Destroyed" => leg["B"].state = "Destroyed"
    BY <1>0, <1>3, QuietLegs
  <2>3. leg["B"].state = "Destroyed" => contact
    BY DEF Stages
  <2> QED BY <1>0, <1>1, <2>1, <2>2, <2>3, SameDue
<1>4. CASE Starts
  <2>1. PICK S : Begun(S)
    BY <1>0, <1>4, StartsFacts
  <2>2. UNCHANGED <<leg, contact, told>> /\ left \subseteq left'
    BY <1>0, <1>4, StartsFacts
  <2> QED BY <1>1, <2>1, <2>2
<1>5. CASE (Start /\ ~StartFailed) \/ (BridgeMedia /\ ~StartFailed)
  <2>1. UNCHANGED <<todo, leg, contact, left, told>>
    BY <1>5 DEF Start, BridgeMedia, StartFailed
  <2> QED BY <1>0, <1>1, <2>1, SameDue
<1>6. ASSUME NEW s \in {"Ringing", "EarlyMedia"}, Provisional(s)
      PROVE  CalleeReleased'
  <2>1. leg'["B"].state = s
    BY <1>0, <1>6, LegAfter DEF Provisional
  <2> QED BY <2>1 DEF CalleeReleased
<1>7. CASE (\E l \in Side : OnTerminated(l)) \/ ConfirmWithACK
  <2>1. UNCHANGED <<todo, leg, contact, left, told>>
    BY <1>7 DEF OnTerminated, ConfirmWithACK
  <2> QED BY <1>0, <1>1, <2>1, SameDue
<1> QED BY <1>2, <1>3, <1>4, <1>5, <1>6, <1>7, NextCases

-----------------------------------------------------------------------------
(* The theorems *)

LEMMA IInvNext == IInv /\ [Next]_vars => IInv'
<1> SUFFICES ASSUME IInv, [Next]_vars PROVE IInv'
  OBVIOUS
<1>0. TodoType
  BY TypeTodo DEF IInv
<1>1. CASE Next
  <2>1. TypeOK' /\ Quiet'
    BY <1>0, <1>1, TypeNext, QuietNext DEF IInv
  <2>2. Stages' /\ Timely'
    BY <1>0, <1>1, StagesNext, TimelyNext DEF IInv
  <2>3. Silenced' /\ Excused' /\ Watched'
    BY <1>0, <1>1, SilencedNext, ExcusedNext, WatchedNext DEF IInv
  <2>4. Attributed' /\ MediaOwned' /\ CalleeReleased'
    BY <1>1, AttributedNext, MediaNext, ReleasedNext DEF IInv
  <2> QED BY <2>1, <2>2, <2>3, <2>4 DEF IInv
<1>2. CASE UNCHANGED vars
  <2>1. TypeOK'
    BY <1>2 DEF IInv, TypeOK, vars
  <2>2. Due' = Due /\ Ordered' = Ordered
    BY <1>2 DEF Due, Ordered, vars
  <2>3. \A ops, l : Pending(ops, l)' <=> Pending(ops, l)
    BY <1>2 DEF Pending, vars
  <2>4. Quiet' /\ Stages' /\ Timely'
    BY <1>2, <2>2 DEF IInv, Quiet, Idle, Stages, Timely, vars
  <2>5. Silenced' /\ Excused' /\ Attributed'
    BY <1>2, <2>2 DEF IInv, Silenced, Excused, CutOff, Attributed, CalleeGone,
       vars
  <2>6. Watched' /\ MediaOwned' /\ CalleeReleased'
    BY <1>2, <2>3 DEF IInv, Watched, MediaOwned, CalleeReleased, vars
  <2> QED BY <2>1, <2>4, <2>5, <2>6 DEF IInv
<1> QED BY <1>1, <1>2

\* The inductive invariant of the dial: what is due, what has begun and what
\* both legs, the bridge and the callee's far end have come to are consistent at
\* every step of every goroutine (leg.go, bridge.go, originator.go).
THEOREM InvariantHolds == Spec => []IInv
BY IInvInit, IInvNext, PTL DEF Spec

\* Type correctness: the variables keep their types; in particular a goroutine
\* of the dial action, the monitors and the BYE handlers only ever has steps
\* of leg.go, bridge.go, originator.go and the dialog manager to execute.
THEOREM TypeCorrect == Spec => []TypeOK
<1>1. IInv => TypeOK
  BY DEF IInv
<1> QED BY <1>1, InvariantHolds, PTL

\* Whoever ends a leg, and whenever, NewBridge and Start between their steps
\* included: an active bridge has two answered legs or is about to be told
\* that one has ended (bridge.go, handleLegTerminated).
THEOREM BridgeIsWatched == Spec => []BridgeWatched
<1>1. IInv => BridgeWatched
  BY DEF IInv, Watched, BridgeWatched
<1> QED BY <1>1, InvariantHolds, PTL

\* The callee's media session is never forgotten: the originator, an answered
\* leg or a cleanup that is still to run owns it (originator.go), also if the
\* callee hangs up before the leg is moved to Answered.  The RTP manager is left
\* with one that nobody owns only if RPCs about sessions can fail, or if the
\* caller has hung up, which may have cut off its creation.
THEOREM CalleeMediaIsOwned == Spec => []BMediaOwned
<1>1. IInv => BMediaOwned
  BY DEF IInv, MediaOwned, Excused, BMediaOwned
<1> QED BY <1>1, InvariantHolds, PTL

\* An answered callee whose leg is gone has hung up or was sent a BYE, or one
\* is about to go out, however many goroutines hang up at once (leg.go,
\* originator.go): the cause RemoteBYE, which silences the teardown, is never
\* wrong about the callee.
THEOREM CalleeIsReleased == Spec => []CalleeReleased
<1>1. IInv => CalleeReleased
  BY DEF IInv
<1> QED BY <1>1, InvariantHolds, PTL

\* A stopped bridge relays no media, with any number of Stops under way and
\* whatever Start has reached (bridge.go, Start and Stop), unless UnbridgeMedia
\* failed, or BridgeMedia was cut off after the RTP manager had executed it.
THEOREM StoppedBridgeIsSilent == Spec => []StoppedIsSilent
<1>1. IInv => StoppedIsSilent
  BY DEF IInv, TypeOK, RelayState, Silenced, Excused, StoppedIsSilent
<1> QED BY <1>1, InvariantHolds, PTL

-----------------------------------------------------------------------------
(* A leg that has ended stays ended *)

Unanswered == {"idle", "adopted", "media", "invite", "waiting"}

\* Until the originator has moved the B leg to Answered nobody ends that leg,
\* if the B dialog is not ended before; nor the A leg before it is made.
Fresh ==
    /\ pc \in Unanswered => dlg["B"].state = "none"
    /\ pc \in Unanswered \cup {"acking", "acked"} =>
          /\ leg["B"].state \notin {"Failed", "Destroyed"}
          /\ ~dlg["B"].done
          /\ \A x \in Due : x.leg # "B"
    /\ pc = "idle" =>
          /\ leg["A"].state = "none"
          /\ \A x \in Due : x.op # "hangup"

LEMMA FreshInit == Init => Fresh
<1> SUFFICES ASSUME Init PROVE Fresh
  OBVIOUS
<1>1. PICK s \in {"WaitingACK", "Confirmed"} :
         dlg = [l \in Side |-> [state |-> IF l = "A" THEN s ELSE "none",
                                done |-> FALSE]]
  BY DEF Init
<1>2. dlg["B"].state = "none" /\ ~dlg["B"].done
  <2>1. dlg["B"] = [state |-> "none", done |-> FALSE]
    BY <1>1 DEF Side
  <2> QED BY <2>1
<1>3. leg["A"].state = "none" /\ leg["B"].state = "none"
  BY DEF Init, Side
<1>4. Due = {}
  BY Empty DEF Init, Due
<1> QED BY <1>2, <1>3, <1>4 DEF Fresh

LEMMA FreshExecute ==
    ASSUME IInv, Fresh, NEW t \in Thread, Execute(t)
    PROVE  Fresh'
<1>0. TodoType /\ leg \in [Side -> LegObj] /\ "A" \in Side /\ "B" \in Side
  BY TypeTodo DEF IInv, TypeOK, Side
<1>1. PICK h, ss : Executed(t, h, ss)
  BY <1>0, ExecuteFacts
<1>2. PICK S : S = StepsIn(ss)
  OBVIOUS
<1>3. /\ h \in Due /\ h.leg \in Side
      /\ Effect(h, S) /\ Replaced(h, S) /\ UNCHANGED pc
  BY <1>0, <1>1, <1>2, ExecuteKeeps
<1>4. CASE pc \in Unanswered \cup {"acking", "acked"}
  <2>1. h.leg = "A" /\ bridge = "none"
    BY <1>3, <1>4 DEF Fresh, IInv, Stages, Dialling, Unanswered, Side
  <2>2. h.op \notin StopOps
    BY <1>3, <2>1 DEF IInv, Timely
  <2>3. Untouched("B")
    BY <1>0, <1>3, <2>1, ExecuteLeg DEF HungUp
  <2>4. dlg'["B"] = dlg["B"]
    BY <1>0, <1>3, <2>1 DEF Effect, HangupEffect, TeardownEffect,
       NotifyEffect, TerminateEffect, LegTerminatedEffect, StopEffect,
       StopLegsEffect, LastEffect, IInv, TypeOK
  <2>5. ASSUME NEW x \in S
        PROVE  x.leg # "B" /\ x.op # "hangup"
    BY <1>3, <2>1, <2>2, <2>5 DEF Effect, HangupEffect, TeardownEffect,
       NotifyEffect, TerminateEffect, LegTerminatedEffect, StopEffect,
       StopLegsEffect, LastEffect, Step, StopOps
  <2>6. \A x \in Due' : x \in Due \/ (x.leg # "B" /\ x.op # "hangup")
    BY <1>3, <2>5 DEF Replaced
  <2>7. pc = "idle" => Untouched("A")
    <3>1. pc = "idle" => h.op # "hangup"
      BY <1>3 DEF Fresh
    <3> QED BY <1>0, <1>3, <3>1, ExecuteLeg DEF HungUp
  <2> QED BY <1>3, <1>4, <2>3, <2>4, <2>6, <2>7 DEF Fresh, Untouched
<1>5. CASE pc \notin Unanswered \cup {"acking", "acked"}
  BY <1>3, <1>5 DEF Fresh, Unanswered
<1> QED BY <1>4, <1>5

LEMMA FreshNext ==
    ASSUME "eager" \notin Env, IInv, Fresh, [Next]_vars
    PROVE  Fresh'
<1>0. TodoType /\ leg \in [Side -> LegObj] /\ "A" \in Side /\ "B" \in Side
  BY TypeTodo DEF IInv, TypeOK, Side
<1>1. CASE \E t \in Thread : Execute(t)
  BY <1>1, FreshExecute
<1>2. ASSUME DialQuietly
      PROVE  Fresh'
  <2>1. UNCHANGED todo
    BY <1>2 DEF DialQuietly, AdoptInboundLeg, Originate,
       CreateSessionPendingRemote, SendINVITE, HandleFailure, DialFails, Undo,
       Handle2xx, SendACK, TransitionToAnswered, DialReturns, NewBridge,
       WaitCheck, WaitCapture, Return
  <2>2. Due' = Due
    BY <1>0, <2>1, SameDue
  <2>3. \A s : /\ [leg EXCEPT !["A"].state = s]["B"].state = leg["B"].state
               /\ [leg EXCEPT !["B"].state = s]["B"].state = s
    BY <1>0, LegAfter
  <2>4. CASE AdoptInboundLeg
    <3>1. leg'["B"].state = leg["B"].state
      BY <2>3, <2>4 DEF AdoptInboundLeg
    <3> QED BY <2>2, <2>4, <3>1 DEF AdoptInboundLeg, Fresh, Unanswered
  <2>5. CASE Originate
    <3>1. leg'["B"].state \in {leg["B"].state, "Created"}
      BY <2>3, <2>5 DEF Originate
    <3> QED BY <2>2, <2>5, <3>1 DEF Originate, Fresh, Unanswered
  <2>6. CASE CreateSessionPendingRemote
    BY <2>2, <2>6 DEF CreateSessionPendingRemote, Fresh, Unanswered
  <2>7. CASE SendINVITE
    <3>1. pc' = "waiting" => leg'["B"].state = "Created"
      BY <2>3, <2>7 DEF SendINVITE
    <3> QED BY <2>2, <2>7, <3>1 DEF SendINVITE, Fresh, Unanswered
  <2>8. CASE Handle2xx
    <3>1. dlg'["B"].done = dlg["B"].done
      BY <1>0, <2>8 DEF Handle2xx, IInv, TypeOK
    <3> QED BY <2>2, <2>8, <3>1 DEF Handle2xx, Fresh, Unanswered
  <2>9. CASE SendACK
    BY <2>2, <2>9 DEF SendACK, Fresh, Unanswered
  <2>10. CASE \/ HandleFailure \/ DialFails \/ Undo \/ TransitionToAnswered
              \/ DialReturns \/ NewBridge \/ WaitCheck \/ WaitCapture \/ Return
    BY <2>10 DEF HandleFailure, DialFails, Undo, TransitionToAnswered,
       DialReturns, NewBridge, WaitCheck, WaitCapture, Return, Fresh, Unanswered
  <2> QED BY <1>2, <2>4, <2>5, <2>6, <2>7, <2>8, <2>9, <2>10 DEF DialQuietly
<1>3. ASSUME Next, NEW S, Begun(S), UNCHANGED <<pc, leg, dlg>>,
             pc \in Unanswered \cup {"acking", "acked"} =>
                \A x \in S : x.leg # "B",
             pc = "idle" => \A x \in S : x.op # "hangup"
      PROVE  Fresh'
  <2>1. Due' = Due \cup S
    BY <1>3 DEF Begun
  <2> QED BY <1>3, <2>1 DEF Fresh
<1>4. CASE \/ pc \in {"start", "bridging"} /\ StartFailed
           \/ WaitForTermination \/ DialplanEnds
           \/ Start /\ ~StartFailed
           \/ BridgeMedia /\ ~StartFailed
  BY <1>4 DEF StartFailed, StartFails, WaitForTermination, DialplanEnds,
     Start, BridgeMedia, Fresh, Unanswered
<1>5. ASSUME Next, NEW l \in Side, Monitor(l)
      PROVE  Fresh'
  <2>1. UNCHANGED <<pc, leg, dlg>> /\ l \in mon
    BY <1>5 DEF Monitor
  <2>2. CASE Begun({})
    BY <1>3, <1>5, <2>1, <2>2
  <2>3. CASE dlg[l].done /\ Begun({Step("hangup", l, "RemoteBYE")})
    <3>1. pc \in Unanswered \cup {"acking", "acked"} => l # "B"
      BY <2>3 DEF Fresh
    <3>2. pc # "idle"
      BY <2>1, <3>1 DEF IInv, Stages, Unanswered, Side
    <3>3. Step("hangup", l, "RemoteBYE").leg = l
      BY DEF Step
    <3> QED BY <1>3, <1>5, <2>1, <2>3, <3>1, <3>2, <3>3
  <2> QED BY <1>0, <1>5, <2>2, <2>3, MonitorDue DEF IInv
<1>6. ASSUME Next, NEW l \in Side, ExtHangup(l)
      PROVE  Fresh'
  <2>1. /\ UNCHANGED <<pc, leg, dlg>>
        /\ dlg[l].state # "none"
        /\ l = "A" \/ pc \notin {"acking", "acked"}
    BY <1>6 DEF ExtHangup
  <2>2. pc \in Unanswered \cup {"acking", "acked"} => l # "B"
    BY <2>1 DEF Fresh
  <2>3. Begun({Step("terminate", l, "None")})
    BY <1>0, <1>6, ExtDue
  <2>4. /\ Step("terminate", l, "None").leg = l
        /\ Step("terminate", l, "None").op = "terminate"
    BY DEF Step
  <2> QED BY <1>3, <1>6, <2>1, <2>2, <2>3, <2>4
<1>7. ASSUME Next, CallerEnds
      PROVE  Fresh'
  <2>1. UNCHANGED <<pc, leg, dlg>>
    BY <1>7 DEF CallerEnds
  <2>2. Begun({Step("cancel", "A", "None"), Step("mark", "A", "None")})
    BY <1>0, <1>7, CallerDue DEF IInv
  <2>3. \A x \in {Step("cancel", "A", "None"), Step("mark", "A", "None")} :
           x.leg # "B" /\ x.op # "hangup"
    BY DEF Step
  <2> QED BY <1>3, <1>7, <2>1, <2>2, <2>3
<1>8. CASE CalleeBYE
  <2>1. /\ contact /\ pc \notin {"acking", "acked"} /\ UNCHANGED pc
    BY <1>8 DEF CalleeBYE
  <2>2. pc \notin Unanswered
    BY <2>1 DEF IInv, Stages, Dialling, Unanswered
  <2> QED BY <2>1, <2>2 DEF Fresh, Unanswered
<1>9. ASSUME NEW s \in {"Ringing", "EarlyMedia"}, Provisional(s)
      PROVE  Fresh'
  <2>1. UNCHANGED <<todo, dlg, pc>> /\ pc = "waiting"
    BY <1>9 DEF Provisional
  <2>2. leg'["B"].state = s
    BY <1>0, <1>9, LegAfter DEF Provisional
  <2>3. Due' = Due
    BY <1>0, <2>1, SameDue
  <2> QED BY <2>1, <2>2, <2>3 DEF Fresh, Unanswered
<1>10. ASSUME \/ UNCHANGED vars \/ \E l \in Side : OnTerminated(l)
       PROVE  Fresh'
  <2>1. UNCHANGED <<todo, leg, dlg, pc>>
    BY <1>10 DEF vars, OnTerminated
  <2>2. Due' = Due
    BY <1>0, <2>1, SameDue
  <2> QED BY <2>1, <2>2 DEF Fresh
<1>11. CASE ConfirmWithACK
  <2>1. UNCHANGED <<todo, leg, pc>>
        /\ dlg' = [dlg EXCEPT !["A"].state = "Confirmed"]
    BY <1>11 DEF ConfirmWithACK
  <2>2. dlg'["B"] = dlg["B"]
    BY <1>0, <2>1 DEF IInv, TypeOK
  <2>3. Due' = Due
    BY <1>0, <2>1, SameDue
  <2> QED BY <2>1, <2>2, <2>3 DEF Fresh
<1> QED BY <1>1, <1>2, <1>4, <1>5, <1>6, <1>7, <1>8, <1>9, <1>10, <1>11,
           NextCases DEF Starts

StaysDown == \A l \in Side : IsTerminal(l) => IsTerminal(l)'

LEMMA DownNext ==
    ASSUME IInv, Fresh, [Next]_vars
    PROVE  StaysDown
<1>0. TodoType /\ leg \in [Side -> LegObj] /\ "A" \in Side /\ "B" \in Side
  BY TypeTodo DEF IInv, TypeOK, Side
<1>1. ASSUME NEW t \in Thread, Execute(t)
      PROVE  StaysDown
  <2>1. PICK h, ss : Executed(t, h, ss)
    BY <1>0, <1>1, ExecuteFacts
  <2>2. Effect(h, StepsIn(ss)) /\ h.leg \in Side
    BY <1>0, <2>1, ExecuteKeeps
  <2>3. ASSUME NEW l \in Side
        PROVE  leg'[l].state \in {leg[l].state, "Destroyed"}
    BY <1>0, <2>2, ExecuteLeg DEF Untouched, HungUp
  <2> QED BY <2>3 DEF StaysDown, IsTerminal
<1>2. CASE UNCHANGED leg
  BY <1>2 DEF StaysDown, IsTerminal
<1>3. ASSUME DialQuietly \/ \E s \in {"Ringing", "EarlyMedia"} : Provisional(s)
      PROVE  StaysDown
  <2>1. \/ UNCHANGED leg
        \/ pc = "idle" /\ \E s : leg' = [leg EXCEPT !["A"].state = s]
        \/ /\ pc \in {"adopted", "invite", "waiting", "acked"}
           /\ \E s : leg' = [leg EXCEPT !["B"].state = s]
    BY <1>3 DEF DialQuietly, AdoptInboundLeg, Originate,
       CreateSessionPendingRemote, SendINVITE, HandleFailure, DialFails, Undo,
       Handle2xx, SendACK, TransitionToAnswered, DialReturns, NewBridge,
       WaitCheck, WaitCapture, Return, Provisional
  <2>2. ASSUME NEW s, pc = "idle", leg' = [leg EXCEPT !["A"].state = s]
        PROVE  StaysDown
    <3>1. leg'["B"].state = leg["B"].state
      BY <1>0, <2>2, LegAfter
    <3>2. leg["A"].state = "none"
      BY <2>2 DEF Fresh
    <3> QED BY <3>1, <3>2 DEF StaysDown, IsTerminal, Side
  <2>3. ASSUME NEW s, pc \in {"adopted", "invite", "waiting", "acked"},
               leg' = [leg EXCEPT !["B"].state = s]
        PROVE  StaysDown
    <3>1. leg'["A"].state = leg["A"].state
      BY <1>0, <2>3, LegAfter
    <3>2. leg["B"].state \notin {"Failed", "Destroyed"}
      BY <2>3 DEF Fresh, Unanswered
    <3> QED BY <3>1, <3>2 DEF StaysDown, IsTerminal, Side
  <2> QED BY <1>2, <2>1, <2>2, <2>3
<1>4. ASSUME Starts
      PROVE  UNCHANGED leg
  BY <1>0, <1>4, StartsFacts DEF IInv
<1>5. ASSUME \/ Start /\ ~StartFailed
             \/ BridgeMedia /\ ~StartFailed
             \/ \E l \in Side : OnTerminated(l)
             \/ ConfirmWithACK \/ UNCHANGED vars
      PROVE  UNCHANGED leg
  BY <1>5 DEF Start, BridgeMedia, StartFailed, OnTerminated, ConfirmWithACK,
     vars
<1> QED BY <1>1, <1>2, <1>3, <1>4, <1>5, NextCases

\* A leg that has ended, Failed or Destroyed, never comes back, whichever
\* goroutines hang up and whatever responses arrive - provided that the B
\* dialog is not ended between its creation and the transition to Answered,
\* which originator.go makes whatever the state of the leg is.
THEOREM LegsStayDown ==
    ASSUME "eager" \notin Env
    PROVE  Spec => [][StaysDown]_vars
<1>1. IInv /\ Fresh /\ [Next]_vars => Fresh' /\ [StaysDown]_vars
  BY FreshNext, DownNext
<1> QED BY <1>1, FreshInit, InvariantHolds, PTL DEF Spec

=============================================================================
