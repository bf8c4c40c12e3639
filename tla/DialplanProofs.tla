--------------------------- MODULE DialplanProofs ---------------------------
(***************************************************************************)
(* Proofs about Dialplan: the RTP manager below it still is one, every     *)
(* call runs the right route, a dial finds who is registered and a prompt  *)
(* never meets one that still plays.                                       *)
(***************************************************************************)
EXTENDS Dialplan, RtpMediaProofs, SequenceTheorems,
        WellFoundedInduction

-----------------------------------------------------------------------------
(* Routes *)

LEMMA LeastOf ==
    ASSUME NEW S, S \subseteq Nat, S # {}
    PROVE  \E i \in S : \A j \in S : i <= j
<1> DEFINE below == {ss \in Nat \X Nat : ss[1] < ss[2]}
<1>0. IsWellFoundedOn(below, Nat)
  BY NatLessThanWellFounded, Zenon DEF OpToRel
<1>1. PICK i \in S : \A j \in S : ~(<<j, i>> \in below)
  BY <1>0, WFMin
<1>2. ASSUME NEW j \in S PROVE i <= j
  <2>1. PICK w \in Nat \X Nat : w[1] = j /\ w[2] = i /\ w = <<j, i>>
    OBVIOUS
  <2>2. ~(w[1] < w[2])
    BY <1>1, <2>1
  <2> QED BY <2>1, <2>2
<1> QED BY <1>2

LEMMA FirstOnes ==
    ASSUME NEW s \in Seq(STRING), NEW n \in Nat, n <= Len(s)
    PROVE  /\ SubSeq(s, 1, n) \in Seq(STRING) /\ Len(SubSeq(s, 1, n)) = n
           /\ \A i \in 1..n : SubSeq(s, 1, n)[i] = s[i]
<1>1. Len(s) \in Nat
  OBVIOUS
<1>2. \A i \in 1..n : s[i] \in STRING
  BY <1>1
<1>3. /\ SubSeq(s, 1, n) \in Seq(STRING)
      /\ Len(SubSeq(s, 1, n)) = IF 1 <= n THEN n - 1 + 1 ELSE 0
      /\ \A i \in 1..(n - 1 + 1) : SubSeq(s, 1, n)[i] = s[1 + i - 1]
  BY <1>2, SubSeqProperties
<1>4. /\ n - 1 + 1 = n /\ (~(1 <= n) => n = 0)
      /\ \A i \in 1..n : 1 + i - 1 = i
  OBVIOUS
<1> QED BY <1>3, <1>4

\* The prefix of a pattern, its characters but the last.
LEMMA PrefixIs ==
    ASSUME NEW p \in Seq(STRING), NEW dst \in Seq(STRING), p # <<>>
    PROVE  IsPrefix(Front(p), dst) <=>
              /\ Len(p) - 1 <= Len(dst)
              /\ \A i \in 1..(Len(p) - 1) : p[i] = dst[i]
<1> DEFINE n == Len(p) - 1
<1>1. n \in Nat /\ Len(dst) \in Nat
  BY EmptySeq
<1>0. n <= Len(p) /\ Front(p) = SubSeq(p, 1, n)
  BY <1>1 DEF Front
<1>2. /\ Front(p) \in Seq(STRING) /\ Len(Front(p)) = n
      /\ \A i \in 1..n : Front(p)[i] = p[i]
  <2> HIDE DEF n
  <2>1. /\ SubSeq(p, 1, n) \in Seq(STRING) /\ Len(SubSeq(p, 1, n)) = n
        /\ \A i \in 1..n : SubSeq(p, 1, n)[i] = p[i]
    BY <1>0, <1>1, FirstOnes
  <2> QED BY <1>0, <2>1
<1>3. CASE n <= Len(dst)
  <2>1. /\ SubSeq(dst, 1, n) \in Seq(STRING) /\ Len(SubSeq(dst, 1, n)) = n
        /\ \A i \in 1..n : SubSeq(dst, 1, n)[i] = dst[i]
    BY <1>1, <1>3, FirstOnes
  <2>2. SubSeq(Front(p), 1, n) = Front(p)
    BY <1>1, <1>2
  <2>3. SubSeq(dst, 1, n) = Front(p) <=> \A i \in 1..n : p[i] = dst[i]
    BY <1>2, <2>1, SeqEqual
  <2> QED BY <1>1, <1>2, <1>3, <2>2, <2>3 DEF IsPrefix
<1>4. CASE ~(n <= Len(dst))
  BY <1>1, <1>2, <1>4 DEF IsPrefix
<1> QED BY <1>3, <1>4

\* A compiled pattern matches only numbers that the pattern covers: a * that is
\* taken literally covers itself.
LEMMA MatchCovers ==
    ASSUME NEW r \in Route, Valid(r), NEW dst \in Seq(STRING), Match(r, dst)
    PROVE  r.enabled /\ Covers(r.pattern, dst)
<1> DEFINE p == r.pattern
           n == Len(p)
           m == Len(dst)
<1>0. m \in Nat
  OBVIOUS
<1>1. p \in Seq(STRING) /\ p # <<>> /\ n \in Nat /\ n >= 1
  BY EmptySeq DEF Valid, Route
<1>2. \/ n = m /\ \A i \in 1..n : p[i] = dst[i]
      \/ p[n] = "*" /\ n - 1 <= m /\ \A i \in 1..(n - 1) : p[i] = dst[i]
  <2>1. CASE p = dst
    BY <1>1, <2>1
  <2>2. CASE IsDefault(r)
    BY <1>0, <2>2 DEF IsDefault
  <2>3. CASE IsPrefixed(r) /\ IsPrefix(Front(p), dst)
    BY <1>1, <2>3, PrefixIs DEF IsPrefixed, Last
  <2> QED BY <2>1, <2>2, <2>3 DEF Match
<1> DEFINE at == [i \in 1..(n + 1) |-> IF i = n + 1 THEN m + 1 ELSE i]
<1>3. at \in [1..(n + 1) -> 1..(m + 1)]
  BY <1>0, <1>1, <1>2
<1>4. at[1] = 1 /\ at[n + 1] = m + 1
  BY <1>0, <1>1
<1>5. ASSUME NEW i \in 1..n
      PROVE  IF p[i] = "*" THEN at[i] <= at[i + 1]
             ELSE at[i + 1] = at[i] + 1 /\ p[i] = dst[at[i]]
  <2>1. at[i] = i /\ at[i + 1] = IF i = n THEN m + 1 ELSE i + 1
    BY <1>1
  <2> HIDE DEF at
  <2> QED BY <1>0, <1>1, <1>2, <2>1
<1> HIDE DEF at
<1>6. Covers(p, dst)
  BY <1>3, <1>4, <1>5 DEF Covers
<1> QED BY <1>6 DEF Match

\* A pattern with a * at its end only matches every number it covers: each
\* character before the end has its place in the number.
LEMMA CoversMatch ==
    ASSUME NEW r \in Route, Valid(r), NEW dst \in Seq(STRING),
           r.enabled, Covers(r.pattern, dst), StarLast(r.pattern)
    PROVE  Match(r, dst)
<1> DEFINE p == r.pattern
           n == Len(p)
           m == Len(dst)
<1>0. m \in Nat
  OBVIOUS
<1>1. p \in Seq(STRING) /\ p # <<>> /\ n \in Nat /\ n >= 1
  BY EmptySeq DEF Valid, Route
<1>2. PICK at \in [1..(n + 1) -> 1..(m + 1)] :
         /\ at[1] = 1 /\ at[n + 1] = m + 1
         /\ \A i \in 1..n :
               IF p[i] = "*" THEN at[i] <= at[i + 1]
               ELSE at[i + 1] = at[i] + 1 /\ p[i] = dst[at[i]]
  BY DEF Covers
<1>3. \A i \in 1..(n - 1) : p[i] # "*"
  BY DEF StarLast
<1> HIDE DEF p, n, m
<1>4. \A i \in 1..n : at[i] = i
  <2> DEFINE wrong == {i \in 1..n : at[i] # i}
  <2> SUFFICES ASSUME wrong # {} PROVE FALSE
    OBVIOUS
  <2>0. wrong \subseteq Nat
    BY <1>1
  <2> HIDE DEF wrong
  <2>5. PICK i \in wrong : \A j \in wrong : i <= j
    BY <2>0, LeastOf
  <2>1. /\ i \in 1..n /\ at[i] # i
        /\ \A j \in 1..n : at[j] # j => i <= j
    BY <2>5 DEF wrong
  <2>2. i # 1 /\ i - 1 \in 1..(n - 1) /\ i - 1 \in 1..n
    BY <1>1, <1>2, <2>1
  <2>3. at[i - 1] = i - 1
    BY <1>1, <2>1, <2>2
  <2>4. at[(i - 1) + 1] = at[i - 1] + 1
    BY <1>2, <1>3, <2>2
  <2> QED BY <1>1, <2>1, <2>2, <2>3, <2>4
<1>5. \A i \in 1..(n - 1) : p[i] = dst[i]
  <2> SUFFICES ASSUME NEW i \in 1..(n - 1) PROVE p[i] = dst[i]
    OBVIOUS
  <2>1. i \in 1..n /\ at[i] = i
    BY <1>1, <1>4
  <2> QED BY <1>2, <1>3, <2>1
<1>6. n \in 1..n /\ at[n] = n
  BY <1>1, <1>4
<1>7. CASE p[n] = "*"
  <2>1. n <= m + 1
    BY <1>2, <1>6, <1>7
  <2>2. IsDefault(r) \/ (IsPrefixed(r) /\ IsPrefix(Front(p), dst))
    <3>1. n - 1 <= m
      BY <1>0, <1>1, <2>1
    <3>2. IsPrefix(Front(p), dst)
      BY <1>1, <1>5, <3>1, PrefixIs DEF n, m
    <3> QED BY <1>7, <3>2 DEF IsDefault, IsPrefixed, Last, p, n
  <2> QED BY <2>2 DEF Match, p
<1>8. CASE p[n] # "*"
  <2>1. n = m /\ p[n] = dst[n]
    BY <1>0, <1>1, <1>2, <1>6, <1>8
  <2>2. \A i \in 1..n : p[i] = dst[i]
    BY <1>1, <1>5, <2>1
  <2>3. p = dst
    BY <1>1, <2>1, <2>2, SeqEqual DEF n, m
  <2> QED BY <2>3 DEF Match, p
<1> QED BY <1>7, <1>8

\* What Sort promises of a list of routes.
InOrder(rs) ==
    /\ rs \in Seq(Route)
    /\ \A i \in 1..Len(rs) : Valid(rs[i])
    /\ \A i, j \in 1..Len(rs) : i < j => rs[i].priority <= rs[j].priority

LEMMA SortOrders ==
    ASSUME NEW file \in Seq(Route), NEW rs \in Sorted(file),
           \A i \in 1..Len(file) : Valid(file[i])
    PROVE  InOrder(rs)
<1> DEFINE n == Len(file)
<1>1. PICK f \in [1..n -> 1..n] :
         /\ \A i, j \in 1..n : i < j => file[f[i]].priority <= file[f[j]].priority
         /\ rs = [i \in 1..n |-> file[f[i]]]
  BY DEF Sorted
<1>2. n \in Nat /\ \A i \in 1..n : f[i] \in 1..n /\ file[f[i]] \in Route
  BY <1>1
<1>3. rs \in Seq(Route) /\ Len(rs) = n
  <2>1. rs \in [1..n -> Route]
    BY <1>1, <1>2
  <2>2. rs \in Seq(Route)
    BY <1>2, <2>1, SeqDef
  <2> QED BY <1>2, <2>1, <2>2, LenProperties
<1> QED BY <1>1, <1>2, <1>3 DEF InOrder

\* RouteList.Match on such a list: the first hit is the best.
LEMMA FirstIsBest ==
    ASSUME InOrder(routes), NEW dst \in Seq(STRING)
    PROVE  LET fits == {i \in 1..Len(routes) :
                          routes[i].enabled /\ Covers(routes[i].pattern, dst)}
               kept == {i \in fits : StarLast(routes[i].pattern)}
               r == FirstMatch(dst)
           IN  /\ r \in Route \cup {None}
               /\ IF r = None THEN kept = {}
                  ELSE \E i \in fits : /\ routes[i] = r
                                       /\ \A j \in kept : routes[i].priority
                                                            <= routes[j].priority
<1> DEFINE fits == {i \in 1..Len(routes) :
                      routes[i].enabled /\ Covers(routes[i].pattern, dst)}
           kept == {i \in fits : StarLast(routes[i].pattern)}
           hits == {i \in 1..Len(routes) : Match(routes[i], dst)}
<1>1. \A i \in 1..Len(routes) : routes[i] \in Route /\ Valid(routes[i])
  BY DEF InOrder
<1>2. hits \subseteq fits /\ kept \subseteq hits
  BY <1>1, MatchCovers, CoversMatch
<1>3. CASE hits = {}
  BY <1>2, <1>3 DEF FirstMatch
<1>4. CASE hits # {}
  <2>1. hits \subseteq Nat
    BY DEF InOrder
  <2>2. \E i \in hits : \A j \in hits : i <= j
    BY <1>4, <2>1, LeastOf
  <2>3. PICK i \in hits : i = CHOOSE x \in hits : \A j \in hits : x <= j
    BY <2>2
  <2>4. \A j \in hits : i <= j
    BY <2>2, <2>3
  <2>5. FirstMatch(dst) = routes[i]
    BY <1>4, <2>3 DEF FirstMatch
  <2>6. routes[i] \in Route /\ routes[i] # None
    BY <1>1, NoneIsNoRoute
  <2>7. \A j \in hits : routes[i].priority <= routes[j].priority
    <3> SUFFICES ASSUME NEW j \in hits
                 PROVE  routes[i].priority <= routes[j].priority
      OBVIOUS
    <3>1. i = j \/ i < j
      BY <2>1, <2>4
    <3>2. routes[i].priority \in Int
      BY <1>1 DEF Route
    <3> QED BY <3>1, <3>2 DEF InOrder
  <2> QED BY <1>2, <2>5, <2>6, <2>7
<1> QED BY <1>3, <1>4

-----------------------------------------------------------------------------
(* The RTP manager below the dialplan.  Every step of the composition is a  *)
(* step of RtpManager or leaves it alone, so that its theorems hold here.   *)

LEMMA PoolDestroyStep ==
    ASSUME TypeOK, NEW s, PoolDestroySession(s)
    PROVE  [Next]_vars
<1>1. CASE s \in sessions /\ DestroySession(s)
  <2>1. s \in Sid
    BY <1>1 DEF TypeOK
  <2> QED BY <1>1, <2>1 DEF Next
<1>2. CASE UNCHANGED vars
  BY <1>2
<1> QED BY <1>1, <1>2 DEF PoolDestroySession

\* An executor's step other than the start of a prompt happens in the
\* signaling process alone.
LEMMA ExecutorFrame ==
    ASSUME NEW c \in Call, ExecutorStep(c)
    PROVE  \/ UNCHANGED vars
           \/ \E p \in Pid : PlayAudioAction(c, p)
<1>1. \A p \in NewPid : p \in Pid
  BY DEF NewPid, NextOf
<1> QED BY <1>1 DEF ExecutorStep, FindRoute, RouteOver, PlayAudioRefused,
             PlayReturn, DialAction, Resolve, DialReturn, HangupAction, Finish

LEMMA RtpStep ==
    ASSUME TypeOK, [DialplanNext]_allVars
    PROVE  [Next]_vars
<1>1. ASSUME NEW f \in Config, Reload(f) PROVE [Next]_vars
  BY <1>1 DEF Reload
<1>2. ASSUME NEW c \in NewCall, NEW s \in NewSid, NEW r \in Remote, NEW d \in Dest,
             Invite(c, s, r, d)
      PROVE  [Next]_vars
  <2>1. c \in Call /\ s \in Sid
    BY DEF NewCall, NewSid, NextOf
  <2> QED BY <1>2, <2>1 DEF Invite, Next
<1>3. ASSUME NEW c \in Call, ExecutorStep(c) PROVE [Next]_vars
  <2>1. ASSUME NEW p \in Pid, PlayAudioAction(c, p) PROVE Next
    <3>1. PlayAudio(p, ivr[c].sid) /\ ivr[c].sid \in Sid
      BY <2>1 DEF PlayAudioAction, PlayAudio, TypeOK
    <3> QED BY <3>1 DEF Next
  <2> QED BY <1>3, <2>1, ExecutorFrame
<1>4. ASSUME NEW c \in Call, Registration(c) \/ CallerHangup(c) PROVE [Next]_vars
  BY <1>4 DEF Registration, CallerHangup
<1>5. ASSUME NEW c \in Call, OnTerminated(c) \/ MigrateAway(c) PROVE [Next]_vars
  BY <1>5, PoolDestroyStep DEF OnTerminated, MigrateAway
<1>6. ASSUME NEW p \in Pid, ServeEvents(p) \/ RunPlayback(p) PROVE [Next]_vars
  BY <1>6 DEF ServeEvents, RunPlayback, Next
<1>7. CASE Shutdown
  BY <1>7 DEF Shutdown, Next
<1>8. CASE UNCHANGED allVars
  BY <1>8 DEF allVars
<1> QED BY <1>1, <1>2, <1>3, <1>4, <1>5, <1>6, <1>7, <1>8 DEF DialplanNext

\* The composition implements RtpManager: whatever the signaling side does, it
\* drives the RTP manager only through that module's actions.
THEOREM DialplanRefines == DialplanSpec => Spec
<1>1. DialplanInit => Init
  BY DEF DialplanInit
<1>2. TypeOK /\ [DialplanNext]_allVars => [Next]_vars
  BY RtpStep
<1>3. SessInv => LiveSessions
  BY DEF SessInv
<1> QED BY <1>1, <1>2, <1>3, TypeInit, TypeNext, SessInit, SessNext, PTL
        DEF DialplanSpec, Spec

-----------------------------------------------------------------------------
(* The lookups of a dial *)

LEMMA LookupFacts ==
    ASSUME NEW ext \in Address, NEW reg \in SUBSET Reg, NEW k \in 1..Lookups
    PROVE  /\ \A st \in SUBSET reg :
                 LookupBindings(st, ext, k) \subseteq LookupBindings(reg, ext, k)
           /\ \A x \in LookupBindings(reg, ext, k) :
                 /\ x \in reg /\ RegisteredFor(ext, x)
                 /\ \A b \in reg : b.aor = x.aor =>
                       b \in LookupBindings(reg, ext, k)
<1>1. k = 1 \/ k = 2 \/ k = 3 \/ k = 4
  BY DEF Lookups
<1>2. \A x \in reg : x.aor \in Address
  BY Bindings
<1>3. CASE k = 1
  <2>1. \A s : LookupBindings(s, ext, k) = {b \in s : b.aor = BuildAOR(ext)}
    BY <1>3 DEF LookupBindings
  <2>2. BuildAOR(ext).user = ext.user
        /\ (ext.host # "" => BuildAOR(ext).host = ext.host)
    BY DEF BuildAOR, Address
  <2> QED BY <2>1, <2>2, ZenonT(30) DEF RegisteredFor
<1>4. CASE k = 2
  BY <1>4 DEF LookupBindings
<1>5. CASE k = 3
  <2>1. \A s : LookupBindings(s, ext, k) = {b \in s : b.aor = ext}
    BY <1>5 DEF LookupBindings
  <2> QED BY <2>1, ZenonT(30) DEF RegisteredFor
<1>6. CASE k = 4
  <2>1. \A s : LookupBindings(s, ext, k)
                  = {b \in s : ext.host = "" /\ b.aor.user = ext.user}
    BY <1>6 DEF LookupBindings, LookupByUser
  <2>2. \A s, b : b \in LookupBindings(s, ext, k)
                  <=> b \in s /\ ext.host = "" /\ b.aor.user = ext.user
    BY <2>1, ZenonT(40)
  <2> QED BY <2>2 DEF RegisteredFor
<1> QED BY <1>1, <1>3, <1>4, <1>5, <1>6

\* The third and the last lookup between them miss nobody.
LEMMA LookupsComplete ==
    ASSUME NEW ext \in Address, NEW reg \in SUBSET Reg, NEW b \in reg,
           RegisteredFor(ext, b)
    PROVE  b \in LookupBindings(reg, ext, 3) \cup LookupBindings(reg, ext, Lookups)
<1>1. b.aor \in Address
  BY Bindings
<1>2. CASE ext.host = ""
  <2>1. LookupBindings(reg, ext, Lookups)
           = {x \in reg : ext.host = "" /\ x.aor.user = ext.user}
    BY DEF LookupBindings, LookupByUser, Lookups
  <2> QED BY <1>2, <2>1 DEF RegisteredFor
<1>3. CASE ext.host # ""
  <2>1. b.aor.user = ext.user /\ b.aor.host = ext.host
    BY <1>3 DEF RegisteredFor
  <2>2. b.aor = ext
    BY <1>1, <2>1 DEF Address
  <2>3. LookupBindings(reg, ext, 3) = {x \in reg : x.aor = ext}
    BY DEF LookupBindings
  <2> QED BY <2>2, <2>3
<1> QED BY <1>2, <1>3

-----------------------------------------------------------------------------
(* What a step of the RTP manager leaves of a playback: the session and the *)
(* call it is for, and its final event.  Only PlayAudio makes a new one.    *)

PlaysKept ==
    \A q \in Pid :
        /\ play[q].pc = "idle" => play'[q].pc = "idle"
        /\ play[q].pc # "idle" =>
              /\ play'[q].pc # "idle"
              /\ play'[q].sid = play[q].sid /\ play'[q].call = play[q].call
              /\ play[q].ch # "open" => play'[q].ch # "open"

LEMMA KeptByStop ==
    ASSUME TypeOK, SessInv,
           (\E s \in Sid : DestroySession(s)) \/ CloseAll
    PROVE  PlaysKept /\ \A q \in Pid : play'[q].pc = play[q].pc
<1>1. ASSUME NEW s \in Sid, DestroySession(s)
      PROVE  \A q \in Pid : /\ play'[q].pc = play[q].pc
                            /\ play'[q].sid = play[q].sid
                            /\ play'[q].call = play[q].call
                            /\ play'[q].ch = play[q].ch
  <2>1. Stop(sess[s].call)
    BY <1>1 DEF DestroySession
  <2>2. CASE UNCHANGED play
    BY <2>2
  <2>3. CASE play' = [play EXCEPT ![activeCalls[sess[s].call]].cancelled = TRUE]
    BY <2>3 DEF TypeOK, Playback
  <2> QED BY <2>1, <2>2, <2>3 DEF Stop
<1>2. ASSUME CloseAll
      PROVE  \A q \in Pid : /\ play'[q].pc = play[q].pc
                            /\ play'[q].sid = play[q].sid
                            /\ play'[q].call = play[q].call
                            /\ play'[q].ch = play[q].ch
  BY <1>2 DEF CloseAll, TypeOK, Playback
<1> QED BY <1>1, <1>2 DEF PlaysKept

LEMMA KeptByPlayback ==
    ASSUME TypeOK, PlayInv, NEW p \in Pid, Handler(p) \/ Goroutine(p)
    PROVE  PlaysKept
<1>1. play[p].ch # "open" => play[p].pc \in {"closing", "ending", "done"}
  BY DEF PlayInv, PlayStages
<1>2. \A q \in Pid \ {p} : play'[q] = play[q]
  BY HandlerEffect, GoroutineEffect
<1>3. play'[p].sid = play[p].sid /\ play'[p].call = play[p].call
  BY HandlerEffect, GoroutineEffect
<1>4. CASE Handler(p)
  <2>1. play[p].pc = "idle" <=> play'[p].pc = "idle"
    BY <1>4, HandlerEffect
  <2>2. play[p].ch # "open" => play'[p].ch # "open"
    BY <1>1, <1>4, HandlerEffect
  <2> QED BY <1>2, <1>3, <2>1, <2>2 DEF PlaysKept
<1>5. CASE Goroutine(p)
  <2>1. play[p].pc = "idle" <=> play'[p].pc = "idle"
    BY <1>5, GoroutineEffect
  <2>2. play[p].ch # "open" => play'[p].ch # "open"
    BY <1>1, <1>5, GoroutineEffect
  <2> QED BY <1>2, <1>3, <2>1, <2>2 DEF PlaysKept
<1> QED BY <1>4, <1>5

LEMMA KeptUnchanged == ASSUME UNCHANGED play PROVE PlaysKept
BY DEF PlaysKept

-----------------------------------------------------------------------------
(* The invariant of the signaling side *)

Look ==
    [target : Target, reg : SUBSET Reg, k : 1..Lookups, steady : SUBSET Reg,
     contact : Target \cup Reg \cup {None}]

Ivr ==
    [pc : IvrPC, dst : Seq(STRING), route : Route \cup {None}, step : Nat,
     sid : Sid \cup {None}, pid : Pid \cup {None}, look : Look \cup {None},
     terminated : BOOLEAN]

\* The routes are there once the process is up, valid and in order.
RouteTable ==
    /\ started \in {"starting", "up", "exited"}
    /\ started = "up" <=> routes # None
    /\ started = "up" => InOrder(routes)

CallTypes ==
    /\ dialog \in [Call -> {"none", "up", "over"}]
    /\ ivr \in [Call -> Ivr]
    /\ moved \subseteq Call /\ freed \subseteq Call

\* The pool's entries and the lost requests are of sessions that were made.
Affinity ==
    /\ tracked \subseteq Sid /\ lost \subseteq Sid \ tracked
    /\ \A s \in tracked \cup lost : ~Fresh(s)

\* A dialplan runs for a dialog, on the session of its call.
Placed(c) ==
    LET i == ivr[c] IN
    /\ i.pc = "none" <=> dialog[c] = "none"
    /\ i.pc # "none" => started = "up" /\ i.sid \in Sid /\ sess[i.sid].call = c
    /\ i.pc = "playing" =>
          i.pid \in Pid /\ play[i.pid].pc # "idle" /\ play[i.pid].sid = i.sid

\* It runs the best route for its number.
Best(r, dst) ==
    LET fits == {i \in 1..Len(routes) :
                   routes[i].enabled /\ Covers(routes[i].pattern, dst)}
        kept == {i \in fits : StarLast(routes[i].pattern)}
    IN  IF r = None THEN kept = {}
        ELSE \E i \in fits : /\ routes[i] = r
                             /\ \A j \in kept : routes[i].priority
                                                  <= routes[j].priority

Routed(c) ==
    LET i == ivr[c] IN
    /\ i.pc \notin {"none", "match", "done"} => Best(i.route, i.dst)
    /\ i.pc \in {"step", "playing", "resolving", "dialing"} => i.route \in Route

\* The lookups it has made would have found the devices that have been there
\* since the first.
Looking(c) ==
    LET l == ivr[c].look IN
    ivr[c].pc = "resolving" =>
        /\ l \in Look
        /\ l.steady \subseteq l.reg
        /\ \A j \in 1..Lookups : IsUser(l.target) /\ j < l.k =>
              LookupBindings(l.steady, l.target.ext, j) = {}

\* At most one prompt of a call is without its final event, and that one is
\* waited for or the route is over.
Open(p, c) == play[p].pc # "idle" /\ play[p].call = c /\ play[p].ch = "open"

Quiet(c) ==
    /\ \A p, q \in Pid : Open(p, c) /\ Open(q, c) => p = q
    /\ ivr[c].pc \in {"none", "match", "step", "resolving", "dialing"} =>
          \A p \in Pid : ~Open(p, c)
    /\ ivr[c].pc = "playing" => \A p \in Pid : Open(p, c) => p = ivr[c].pid

Stage(c) == Placed(c) /\ Routed(c) /\ Looking(c) /\ Quiet(c)

CallInv ==
    RouteTable /\ CallTypes /\ Affinity /\ \A c \in Call : Stage(c)

LEMMA IdleIvr == Idle \in Ivr
BY DEF Idle, Ivr, IvrPC

LEMMA CallInit == DialplanInit => CallInv
<1> SUFFICES ASSUME DialplanInit PROVE CallInv
  OBVIOUS
<1> USE DEF DialplanInit
<1>1. RouteTable /\ Affinity
  BY DEF RouteTable, Affinity
<1>3. CallTypes
  BY IdleIvr DEF CallTypes
<1>4. ASSUME NEW c \in Call PROVE Stage(c)
  <2>1. ivr[c].pc = "none"
    BY DEF Idle
  <2>2. \A p \in Pid : ~Open(p, c)
    BY DEF Init, Open
  <2> QED BY <2>1, <2>2 DEF Stage, Placed, Routed, Looking, Quiet
<1> QED BY <1>1, <1>3, <1>4 DEF CallInv

\* A call that a step is not about.  Prompts may begin for other calls.
KeptFor(c) ==
    \A q \in Pid :
        /\ play[q].pc = "idle" => play'[q].pc = "idle" \/ play'[q].call # c
        /\ play[q].pc # "idle" =>
              /\ play'[q].pc # "idle"
              /\ play'[q].sid = play[q].sid /\ play'[q].call = play[q].call
              /\ play[q].ch # "open" => play'[q].ch # "open"

LEMMA StageFrame ==
    ASSUME NEW c \in Call, Stage(c), SessionKept, KeptFor(c),
           UNCHANGED <<started, routes>>, ivr'[c] = ivr[c],
           (dialog'[c] = "none") <=> (dialog[c] = "none")
    PROVE  Stage(c)'
<1>1. Placed(c)'
  <2>1. \A s \in Sid : sess[s].call = c => sess'[s].call = c
    BY NoneIsFresh DEF SessionKept, Fresh
  <2> QED BY <2>1 DEF Stage, Placed, KeptFor
<1>2. Routed(c)' /\ Looking(c)'
  BY DEF Stage, Routed, Best, Looking
<1>3. \A p \in Pid : Open(p, c)' => Open(p, c)
  BY DEF Open, KeptFor
<1>4. Quiet(c)'
  BY <1>3 DEF Stage, Quiet
<1> QED BY <1>1, <1>2, <1>4 DEF Stage

\* A step of one dialplan in the signaling process.
LEMMA IvrMove ==
    ASSUME CallInv, NEW c \in Call, NEW x \in Ivr, ivr' = [ivr EXCEPT ![c] = x],
           dialog' \in [Call -> {"none", "up", "over"}],
           \A e \in Call \ {c} : dialog'[e] = dialog[e],
           UNCHANGED <<vars, routes, started, tracked, moved, freed, lost>>,
           Stage(c)'
    PROVE  CallInv'
<1>1. sess' = sess /\ play' = play
  BY DEF vars, sessVars, playVars
<1>2. RouteTable' /\ Affinity'
  BY <1>1 DEF CallInv, RouteTable, Affinity, InOrder, Fresh
<1>3. CallTypes'
  BY DEF CallInv, CallTypes
<1>4. ASSUME NEW e \in Call PROVE Stage(e)'
  <2>1. CASE e = c
    BY <2>1
  <2>2. CASE e # c
    <3>1. ivr'[e] = ivr[e] /\ dialog'[e] = dialog[e]
      BY <2>2 DEF CallInv, CallTypes
    <3>2. SessionKept /\ KeptFor(e)
      BY <1>1 DEF SessionKept, KeptFor, Fresh
    <3> QED BY <3>1, <3>2, StageFrame DEF CallInv
  <2> QED BY <2>1, <2>2
<1> QED BY <1>2, <1>3, <1>4 DEF CallInv

\* The executor goes on with its route, or leaves it.
LEMMA Proceed ==
    ASSUME CallInv, NEW c \in Call, NEW x \in Ivr, ivr' = [ivr EXCEPT ![c] = x],
           ivr[c].pc \in {"step", "playing", "resolving", "dialing"},
           x.pc \in {"step", "finish", "resolving", "dialing"},
           x.dst = ivr[c].dst, x.route = ivr[c].route, x.sid = ivr[c].sid,
           x.pc # "finish" => \A p \in Pid : ~Open(p, c),
           x.pc = "resolving" =>
               /\ x.look \in Look
               /\ x.look.steady \subseteq x.look.reg
               /\ \A j \in 1..Lookups : IsUser(x.look.target) /\ j < x.look.k =>
                     LookupBindings(x.look.steady, x.look.target.ext, j) = {},
           UNCHANGED dialog \/ dialog' = [dialog EXCEPT ![c] = "over"],
           UNCHANGED <<vars, routes, started, tracked, moved, freed, lost>>
    PROVE  CallInv'
<1>0. Stage(c) /\ ivr'[c] = x
  BY DEF CallInv, CallTypes
<1>1. sess' = sess /\ play' = play
  BY DEF vars, sessVars, playVars
<1>2. /\ dialog' \in [Call -> {"none", "up", "over"}]
      /\ \A e \in Call \ {c} : dialog'[e] = dialog[e]
      /\ dialog'[c] # "none"
  <2>1. dialog \in [Call -> {"none", "up", "over"}] /\ dialog[c] # "none"
    BY <1>0 DEF CallInv, CallTypes, Stage, Placed
  <2>2. CASE UNCHANGED dialog
    BY <2>1, <2>2
  <2>3. CASE dialog' = [dialog EXCEPT ![c] = "over"]
    BY <2>1, <2>3
  <2> QED BY <2>2, <2>3
<1>3. Placed(c)'
  BY <1>0, <1>1, <1>2 DEF Stage, Placed
<1>4. Routed(c)'
  BY <1>0 DEF Stage, Routed, Best
<1>5. Looking(c)'
  BY <1>0 DEF Looking
<1>6. Quiet(c)'
  <2>1. \A p \in Pid : Open(p, c)' <=> Open(p, c)
    BY <1>1 DEF Open
  <2> QED BY <1>0, <2>1 DEF Stage, Quiet
<1> QED BY <1>0, <1>2, <1>3, <1>4, <1>5, <1>6, IvrMove DEF Stage

\* The end of an action, as an update of the call's record.
LEMMA StepDoneMove ==
    ASSUME CallInv, NEW c \in Call, NEW ok, StepDone(c, ok)
    PROVE  \E x \in Ivr :
              /\ ivr' = [ivr EXCEPT ![c] = x]
              /\ x.pc = IF ok THEN "step" ELSE "finish"
              /\ x.dst = ivr[c].dst /\ x.route = ivr[c].route
              /\ x.sid = ivr[c].sid
<1>0. ivr \in [Call -> Ivr] /\ ivr[c] \in Ivr
  BY DEF CallInv, CallTypes
<1>1. PICK n \in Nat : n = IF ok THEN ivr[c].step + 1 ELSE ivr[c].step
  BY <1>0 DEF Ivr
<1>2. PICK x : x = [ivr[c] EXCEPT !.pc = IF ok THEN "step" ELSE "finish",
                                  !.step = n, !.look = None]
  OBVIOUS
<1>3. /\ x \in Ivr /\ x.pc = IF ok THEN "step" ELSE "finish"
      /\ x.dst = ivr[c].dst /\ x.route = ivr[c].route /\ x.sid = ivr[c].sid
  BY <1>0, <1>2 DEF Ivr, IvrPC
<1>4. ivr' = [ivr EXCEPT ![c] = x]
  BY <1>0, <1>1, <1>2 DEF StepDone, Ivr
<1> QED BY <1>3, <1>4

LEMMA StepDoneInv ==
    ASSUME CallInv, NEW c \in Call, NEW ok, StepDone(c, ok),
           ivr[c].pc \in {"step", "playing", "resolving", "dialing"},
           ok => \A p \in Pid : ~Open(p, c),
           UNCHANGED dialog \/ dialog' = [dialog EXCEPT ![c] = "over"],
           UNCHANGED <<vars, routes, started, tracked, moved, freed, lost>>
    PROVE  CallInv'
<1>1. PICK x \in Ivr :
         /\ ivr' = [ivr EXCEPT ![c] = x]
         /\ x.pc = IF ok THEN "step" ELSE "finish"
         /\ x.dst = ivr[c].dst /\ x.route = ivr[c].route
         /\ x.sid = ivr[c].sid
  BY StepDoneMove
<1> QED BY <1>1, Proceed

LEMMA FindRouteInv ==
    ASSUME CallInv, NEW c \in Call, FindRoute(c)
    PROVE  CallInv'
<1>0. ivr \in [Call -> Ivr] /\ ivr[c] \in Ivr /\ Stage(c)
  BY DEF CallInv, CallTypes
<1>1. ivr[c].pc = "match" /\ started = "up" /\ dialog[c] # "none"
  BY <1>0 DEF FindRoute, Stage, Placed
<1>2. PICK r : r = FirstMatch(ivr[c].dst)
  OBVIOUS
<1>3. r \in Route \cup {None} /\ Best(r, ivr[c].dst)
  <2>1. InOrder(routes) /\ ivr[c].dst \in Seq(STRING)
    BY <1>0, <1>1 DEF CallInv, RouteTable, Ivr
  <2> QED BY <1>2, <2>1, FirstIsBest DEF Best
<1>4. PICK x : x = [ivr[c] EXCEPT !.pc = IF r = None THEN "finish" ELSE "step",
                                  !.route = r]
  OBVIOUS
<1>5. /\ x \in Ivr /\ x.pc = IF r = None THEN "finish" ELSE "step"
      /\ x.dst = ivr[c].dst /\ x.route = r /\ x.sid = ivr[c].sid
  BY <1>0, <1>3, <1>4 DEF Ivr, IvrPC
<1>6. ivr' = [ivr EXCEPT ![c] = x] /\ ivr'[c] = x
  BY <1>0, <1>2, <1>4 DEF FindRoute, Ivr
<1>7. /\ UNCHANGED <<vars, routes, started, tracked, moved, freed, lost>>
      /\ UNCHANGED dialog /\ sess' = sess /\ play' = play
  BY DEF FindRoute, vars, sessVars, playVars
<1>8. Placed(c)'
  BY <1>0, <1>1, <1>5, <1>6, <1>7 DEF Stage, Placed
<1>9. Routed(c)'
  BY <1>3, <1>5, <1>6, <1>7 DEF Routed, Best
<1>10. Looking(c)'
  BY <1>5, <1>6 DEF Looking
<1>11. Quiet(c)'
  <2>1. \A p \in Pid : Open(p, c)' <=> Open(p, c)
    BY <1>7 DEF Open
  <2> QED BY <1>0, <1>1, <1>5, <1>6, <2>1 DEF Stage, Quiet
<1>12. dialog' \in [Call -> {"none", "up", "over"}]
       /\ \A e \in Call \ {c} : dialog'[e] = dialog[e]
  BY <1>7 DEF CallInv, CallTypes
<1> QED BY <1>5, <1>6, <1>7, <1>8, <1>9, <1>10, <1>11, <1>12, IvrMove DEF Stage

LEMMA FinishInv ==
    ASSUME CallInv, NEW c \in Call, Finish(c)
    PROVE  CallInv'
<1>0. ivr \in [Call -> Ivr] /\ ivr[c] \in Ivr /\ Stage(c)
  BY DEF CallInv, CallTypes
<1>1. PICK x : x = [Idle EXCEPT !.pc = "done", !.sid = ivr[c].sid]
  OBVIOUS
<1>2. x \in Ivr /\ x.pc = "done" /\ x.sid = ivr[c].sid
  BY <1>0, <1>1, IdleIvr DEF Ivr, IvrPC
<1>3. ivr' = [ivr EXCEPT ![c] = x] /\ ivr'[c] = x /\ ivr[c].pc = "finish"
  BY <1>0, <1>1 DEF Finish
<1>4. /\ UNCHANGED <<vars, routes, started, tracked, moved, freed, lost>>
      /\ sess' = sess /\ play' = play
  BY DEF Finish, vars, sessVars, playVars
<1>5. /\ dialog' \in [Call -> {"none", "up", "over"}] /\ dialog'[c] = "over"
      /\ \A e \in Call \ {c} : dialog'[e] = dialog[e]
  BY DEF CallInv, CallTypes, Finish
<1>6. Placed(c)'
  BY <1>0, <1>2, <1>3, <1>4, <1>5 DEF Stage, Placed
<1>7. Routed(c)' /\ Looking(c)'
  BY <1>2, <1>3 DEF Routed, Looking
<1>8. Quiet(c)'
  <2>1. \A p \in Pid : Open(p, c)' <=> Open(p, c)
    BY <1>4 DEF Open
  <2> QED BY <1>0, <1>2, <1>3, <2>1 DEF Stage, Quiet
<1> QED BY <1>2, <1>3, <1>4, <1>5, <1>6, <1>7, <1>8, IvrMove DEF Stage

LEMMA PlayReturnInv ==
    ASSUME CallInv, NEW c \in Call, PlayReturn(c)
    PROVE  CallInv'
<1>1. /\ ivr[c].pc = "playing" /\ ivr[c].pid \in Pid
      /\ \A p \in Pid : Open(p, c) => p = ivr[c].pid
  BY DEF CallInv, Stage, Placed, Quiet, PlayReturn
<1>2. UNCHANGED <<vars, routes, started, tracked, moved, freed, lost>>
      /\ UNCHANGED dialog
  BY DEF PlayReturn
<1>3. CASE StepDone(c, play[ivr[c].pid].ch = "completed")
  <2>1. play[ivr[c].pid].ch = "completed" => \A p \in Pid : ~Open(p, c)
    BY <1>1 DEF Open
  <2> QED BY <1>1, <1>2, <1>3, <2>1, StepDoneInv
<1>4. CASE StepDone(c, FALSE)
  BY <1>1, <1>2, <1>4, StepDoneInv
<1> QED BY <1>3, <1>4 DEF PlayReturn

\* No prompt is open while the executor is between two actions.
LEMMA QuietBetween ==
    ASSUME CallInv, NEW c \in Call,
           ivr[c].pc \in {"step", "resolving", "dialing"}
    PROVE  \A p \in Pid : ~Open(p, c)
BY DEF CallInv, Stage, Quiet

LEMMA OtherActionsInv ==
    ASSUME CallInv, NEW c \in Call,
           RouteOver(c) \/ PlayAudioRefused(c) \/ DialReturn(c) \/ HangupAction(c)
    PROVE  CallInv'
<1>0. ivr \in [Call -> Ivr] /\ ivr[c] \in Ivr
  BY DEF CallInv, CallTypes
<1>1. CASE RouteOver(c)
  <2>1. PICK x : x = [ivr[c] EXCEPT !.pc = "finish"]
    OBVIOUS
  <2>2. /\ x \in Ivr /\ x.pc = "finish" /\ x.dst = ivr[c].dst
        /\ x.route = ivr[c].route /\ x.sid = ivr[c].sid
    BY <1>0, <2>1 DEF Ivr, IvrPC
  <2>3. ivr' = [ivr EXCEPT ![c] = x] /\ ivr[c].pc = "step"
    BY <1>0, <1>1, <2>1 DEF RouteOver, Goto
  <2>4. UNCHANGED <<vars, routes, started, tracked, moved, freed, lost>>
        /\ UNCHANGED dialog
    BY <1>1 DEF RouteOver
  <2> QED BY <2>2, <2>3, <2>4, Proceed
<1>2. CASE PlayAudioRefused(c)
  BY <1>2, StepDoneInv DEF PlayAudioRefused, At
<1>3. CASE DialReturn(c)
  <2>1. PICK ok \in BOOLEAN :
           /\ StepDone(c, ok)
           /\ dialog' = IF ok THEN [dialog EXCEPT ![c] = "over"] ELSE dialog
    BY <1>3 DEF DialReturn
  <2>2. UNCHANGED dialog \/ dialog' = [dialog EXCEPT ![c] = "over"]
    BY <2>1
  <2> QED BY <1>3, <2>1, <2>2, StepDoneInv, QuietBetween DEF DialReturn
<1>4. CASE HangupAction(c)
  <2>0. PICK n \in Nat : n = ivr[c].step + 1
    BY <1>0 DEF Ivr
  <2>1. PICK x : x = [ivr[c] EXCEPT !.step = n, !.terminated = TRUE]
    OBVIOUS
  <2>2. /\ x \in Ivr /\ x.pc = ivr[c].pc /\ x.dst = ivr[c].dst
        /\ x.route = ivr[c].route /\ x.sid = ivr[c].sid
    BY <1>0, <2>1 DEF Ivr
  <2>3. ivr' = [ivr EXCEPT ![c] = x] /\ ivr[c].pc = "step"
    BY <1>0, <1>4, <2>0, <2>1 DEF HangupAction, At, Ivr
  <2>4. UNCHANGED <<vars, routes, started, tracked, moved, freed, lost>>
        /\ dialog' = [dialog EXCEPT ![c] = "over"]
    BY <1>4 DEF HangupAction
  <2> QED BY <2>2, <2>3, <2>4, Proceed, QuietBetween
<1> QED BY <1>1, <1>2, <1>3, <1>4

LEMMA DialActionInv ==
    ASSUME CallInv, NEW c \in Call, DialAction(c)
    PROVE  CallInv'
<1>0. ivr \in [Call -> Ivr] /\ ivr[c] \in Ivr /\ ivr[c].pc = "step"
  BY DEF CallInv, CallTypes, DialAction, At
<1>1. PICK t \in Target, reg \in SUBSET Reg :
         ivr' = [ivr EXCEPT
               ![c].pc = "resolving",
               ![c].look = [target |-> t, reg |-> reg, k |-> 1,
                            steady |-> reg, contact |-> None]]
  BY DEF DialAction
<1>2. PICK l : l = [target |-> t, reg |-> reg, k |-> 1, steady |-> reg,
                    contact |-> None]
  OBVIOUS
<1>3. /\ l \in Look /\ l.steady \subseteq l.reg
      /\ \A j \in 1..Lookups : ~(j < l.k)
  BY <1>2 DEF Look, Lookups
<1>4. PICK x : x = [ivr[c] EXCEPT !.pc = "resolving", !.look = l]
  OBVIOUS
<1>5. /\ x \in Ivr /\ x.pc = "resolving" /\ x.dst = ivr[c].dst
      /\ x.route = ivr[c].route /\ x.sid = ivr[c].sid /\ x.look = l
  BY <1>0, <1>3, <1>4 DEF Ivr, IvrPC
<1>6. ivr' = [ivr EXCEPT ![c] = x]
  BY <1>0, <1>1, <1>2, <1>4 DEF Ivr
<1>7. UNCHANGED <<vars, routes, started, tracked, moved, freed, lost>>
      /\ UNCHANGED dialog
  BY DEF DialAction
<1> QED BY <1>0, <1>3, <1>5, <1>6, <1>7, Proceed, QuietBetween

LEMMA RegistrationInv ==
    ASSUME CallInv, NEW c \in Call, Registration(c)
    PROVE  CallInv'
<1>0. /\ ivr \in [Call -> Ivr] /\ ivr[c] \in Ivr /\ Stage(c)
      /\ ivr[c].pc = "resolving"
  BY DEF CallInv, CallTypes, Registration
<1>1. PICK l \in Look :
         /\ l = ivr[c].look /\ l.steady \subseteq l.reg
         /\ \A j \in 1..Lookups : IsUser(l.target) /\ j < l.k =>
               LookupBindings(l.steady, l.target.ext, j) = {}
  BY <1>0 DEF Stage, Looking
<1>2. PICK b \in Reg :
         ivr' = [ivr EXCEPT ![c].look =
                   [l EXCEPT !.reg = IF b \in l.reg THEN l.reg \ {b}
                                                     ELSE l.reg \cup {b},
                             !.steady = l.steady \ {b}]]
  BY <1>1 DEF Registration
<1>3. PICK reg \in SUBSET Reg :
         reg = IF b \in l.reg THEN l.reg \ {b} ELSE l.reg \cup {b}
  <2>1. l.reg \in SUBSET Reg
    BY DEF Look
  <2> QED BY <2>1
<1>4. PICK st \in SUBSET Reg :
         st = l.steady \ {b} /\ st \subseteq reg /\ st \subseteq l.steady
  <2>1. l.steady \in SUBSET Reg
    BY DEF Look
  <2>2. l.steady \ {b} \subseteq reg
    <3>1. CASE b \in l.reg
      BY <1>1, <1>3, <3>1
    <3>2. CASE b \notin l.reg
      BY <1>1, <1>3, <3>2
    <3> QED BY <3>1, <3>2
  <2> QED BY <2>1, <2>2
<1>5. PICK m : m = [l EXCEPT !.reg = reg, !.steady = st]
  OBVIOUS
<1>6. /\ m \in Look /\ m.reg = reg /\ m.steady = st /\ m.k = l.k
      /\ m.target = l.target
  BY <1>5 DEF Look
<1>7. \A j \in 1..Lookups : IsUser(m.target) /\ j < m.k =>
         LookupBindings(m.steady, m.target.ext, j) = {}
  <2> SUFFICES ASSUME NEW j \in 1..Lookups, IsUser(l.target), j < l.k
               PROVE  LookupBindings(st, l.target.ext, j) = {}
    BY <1>6
  <2>1. LookupBindings(l.steady, l.target.ext, j) = {}
    BY <1>1
  <2>2. l.target.ext \in Address /\ l.steady \in SUBSET Reg
    BY Targets DEF Look
  <2> QED BY <1>4, <2>1, <2>2, LookupFacts
<1>8. PICK x : x = [ivr[c] EXCEPT !.look = m]
  OBVIOUS
<1>9. /\ x \in Ivr /\ x.pc = "resolving" /\ x.dst = ivr[c].dst
      /\ x.route = ivr[c].route /\ x.sid = ivr[c].sid /\ x.look = m
  BY <1>0, <1>6, <1>8 DEF Ivr
<1>10. ivr' = [ivr EXCEPT ![c] = x]
  <2>1. ivr' = [ivr EXCEPT ![c].look = m]
    BY <1>2, <1>3, <1>4, <1>5
  <2> QED BY <1>0, <1>8, <2>1 DEF Ivr
<1>11. UNCHANGED <<vars, routes, started, tracked, moved, freed, lost>>
       /\ UNCHANGED dialog
  BY DEF Registration
<1>12. m.steady \subseteq m.reg
  BY <1>4, <1>6
<1> QED BY <1>0, <1>6, <1>7, <1>9, <1>10, <1>11, <1>12, Proceed, QuietBetween

LEMMA ResolveInv ==
    ASSUME CallInv, NEW c \in Call, Resolve(c)
    PROVE  CallInv'
<1>0. /\ ivr \in [Call -> Ivr] /\ ivr[c] \in Ivr /\ Stage(c)
      /\ ivr[c].pc = "resolving"
  BY DEF CallInv, CallTypes, Resolve
<1>1. PICK l \in Look :
         /\ l = ivr[c].look /\ l.steady \subseteq l.reg
         /\ \A j \in 1..Lookups : IsUser(l.target) /\ j < l.k =>
               LookupBindings(l.steady, l.target.ext, j) = {}
  BY <1>0 DEF Stage, Looking
<1>2. /\ UNCHANGED <<vars, routes, started, tracked, moved, freed, lost>>
      /\ UNCHANGED dialog
  BY DEF Resolve
<1>3. l.target \in Target /\ l.target.ext \in Address /\ l.reg \in SUBSET Reg
      /\ l.steady \in SUBSET Reg /\ l.k \in 1..Lookups
  BY Targets DEF Look
<1>4. ASSUME NEW y \in Target \cup Reg,
             ivr' = [ivr EXCEPT
                      ![c].pc = "dialing",
                      ![c].look = [target |-> l.target, reg |-> {}, k |-> 1,
                                   steady |-> {}, contact |-> y]]
      PROVE  CallInv'
  <2>1. PICK m \in Look : m = [target |-> l.target, reg |-> {}, k |-> 1,
                               steady |-> {}, contact |-> y]
    <3>1. {} \in SUBSET Reg /\ 1 \in 1..Lookups /\ y \in Target \cup Reg \cup {None}
      BY <1>4 DEF Lookups
    <3> QED BY <1>3, <3>1 DEF Look
  <2>2. PICK x : x = [ivr[c] EXCEPT !.pc = "dialing", !.look = m]
    OBVIOUS
  <2>3. /\ x \in Ivr /\ x.pc = "dialing" /\ x.dst = ivr[c].dst
        /\ x.route = ivr[c].route /\ x.sid = ivr[c].sid
    BY <1>0, <2>2 DEF Ivr, IvrPC
  <2>4. ivr' = [ivr EXCEPT ![c] = x]
    BY <1>0, <1>4, <2>1, <2>2 DEF Ivr
  <2> QED BY <1>0, <1>2, <2>3, <2>4, Proceed, QuietBetween
<1>5. ASSUME LookupBindings(l.reg, l.target.ext, l.k) = {}, l.k < Lookups,
             ivr' = [ivr EXCEPT ![c].look.k = @ + 1]
      PROVE  CallInv'
  <2>1. PICK n \in 1..Lookups : n = l.k + 1
    BY <1>3, <1>5 DEF Lookups
  <2>2. PICK m : m = [l EXCEPT !.k = n]
    OBVIOUS
  <2>3. /\ m \in Look /\ m.reg = l.reg /\ m.steady = l.steady /\ m.k = n
        /\ m.target = l.target
    BY <2>2 DEF Look
  <2>4. LookupBindings(l.steady, l.target.ext, l.k) = {}
    BY <1>1, <1>3, <1>5, LookupFacts
  <2>5. \A j \in 1..Lookups : IsUser(m.target) /\ j < m.k =>
           LookupBindings(m.steady, m.target.ext, j) = {}
    <3> SUFFICES ASSUME NEW j \in 1..Lookups, IsUser(l.target), j < n
                 PROVE  LookupBindings(l.steady, l.target.ext, j) = {}
      BY <2>3
    <3>1. j < l.k \/ j = l.k
      BY <1>3, <2>1 DEF Lookups
    <3> QED BY <1>1, <2>4, <3>1
  <2>6. PICK x : x = [ivr[c] EXCEPT !.look = m]
    OBVIOUS
  <2>7. /\ x \in Ivr /\ x.pc = "resolving" /\ x.dst = ivr[c].dst
        /\ x.route = ivr[c].route /\ x.sid = ivr[c].sid /\ x.look = m
    BY <1>0, <2>3, <2>6 DEF Ivr
  <2>8. ivr' = [ivr EXCEPT ![c] = x]
    BY <1>0, <1>1, <1>5, <2>1, <2>2, <2>6 DEF Ivr, Look
  <2>9. m.steady \subseteq m.reg
    BY <1>1, <2>3
  <2> QED BY <1>0, <1>2, <2>3, <2>5, <2>7, <2>8, <2>9, Proceed, QuietBetween
<1>6. ASSUME StepDone(c, FALSE) PROVE CallInv'
  BY <1>0, <1>2, <1>6, StepDoneInv
<1>7. Primary(LookupBindings(l.reg, l.target.ext, l.k)) \subseteq Reg
  BY <1>3, LookupFacts DEF Primary
<1> QED BY <1>1, <1>3, <1>4, <1>5, <1>6, <1>7 DEF Resolve

\* The start of a prompt: the only step that makes a playback, for its call.
LEMMA PlayAudioInv ==
    ASSUME TypeOK, CallInv, NEW c \in Call, NEW p \in Pid, PlayAudioAction(c, p)
    PROVE  CallInv'
<1>0. /\ ivr \in [Call -> Ivr] /\ ivr[c] \in Ivr /\ Stage(c)
      /\ ivr[c].pc = "step" /\ ivr[c].sid \in Sid /\ sess[ivr[c].sid].call = c
      /\ started = "up" /\ dialog[c] # "none"
  BY DEF CallInv, CallTypes, PlayAudioAction, At, Stage, Placed
<1>1. /\ play[p].pc = "idle" /\ UNCHANGED sess
      /\ play' = [play EXCEPT ![p] =
            [@ EXCEPT !.pc = "found", !.sid = ivr[c].sid,
                      !.call = sess[ivr[c].sid].call,
                      !.port = sess[ivr[c].sid].port, !.rpc = "started"]]
  BY DEF PlayAudioAction, PlayAudio, sessVars
<1>2. /\ play'[p].pc = "found" /\ play'[p].sid = ivr[c].sid
      /\ play'[p].call = c
      /\ \A q \in Pid \ {p} : play'[q] = play[q]
  BY <1>0, <1>1 DEF TypeOK, Playback
<1>3. UNCHANGED <<routes, started, dialog, tracked, moved, freed, lost>>
  BY DEF PlayAudioAction
<1>4. PICK x : x = [ivr[c] EXCEPT !.pc = "playing", !.pid = p]
  OBVIOUS
<1>5. /\ x \in Ivr /\ x.pc = "playing" /\ x.pid = p /\ x.dst = ivr[c].dst
      /\ x.route = ivr[c].route /\ x.sid = ivr[c].sid
  BY <1>0, <1>4 DEF Ivr, IvrPC
<1>6. ivr' = [ivr EXCEPT ![c] = x] /\ ivr'[c] = x
  BY <1>0, <1>4 DEF PlayAudioAction, Ivr
<1>7. RouteTable' /\ Affinity'
  BY <1>1, <1>3 DEF CallInv, RouteTable, Affinity, InOrder, Fresh
<1>8. CallTypes'
  BY <1>3, <1>5, <1>6 DEF CallInv, CallTypes
<1>9. ASSUME NEW e \in Call, e # c PROVE Stage(e)'
  <2>1. SessionKept /\ KeptFor(e)
    BY <1>1, <1>2, <1>9 DEF SessionKept, KeptFor, Fresh
  <2>2. ivr'[e] = ivr[e] /\ dialog'[e] = dialog[e]
    BY <1>0, <1>3, <1>6, <1>9
  <2> QED BY <1>3, <2>1, <2>2, StageFrame DEF CallInv
<1>10. Stage(c)'
  <2>1. Placed(c)'
    BY <1>0, <1>1, <1>2, <1>3, <1>5, <1>6 DEF Placed
  <2>2. Routed(c)' /\ Looking(c)'
    BY <1>0, <1>3, <1>5, <1>6 DEF Stage, Routed, Best, Looking
  <2>3. \A q \in Pid : Open(q, c)' => q = p
    BY <1>0, <1>2 DEF Stage, Quiet, Open
  <2>4. Quiet(c)'
    BY <1>5, <1>6, <2>3 DEF Quiet
  <2> QED BY <2>1, <2>2, <2>4 DEF Stage
<1> QED BY <1>7, <1>8, <1>9, <1>10 DEF CallInv

\* Steps that leave the dialplans alone.
LEMMA AroundInv ==
    ASSUME CallInv, SessionKept, PlaysKept, UNCHANGED <<routes, started, ivr>>,
           dialog' \in [Call -> {"none", "up", "over"}],
           \A c \in Call : (dialog'[c] = "none") <=> (dialog[c] = "none"),
           moved' \subseteq Call, freed' \subseteq Call,
           tracked' \subseteq tracked,
           \A s \in lost' \ lost : s \in Sid \ tracked' /\ ~Fresh(s)
    PROVE  CallInv'
<1>1. RouteTable' /\ CallTypes'
  BY DEF CallInv, RouteTable, InOrder, CallTypes
<1>2. Affinity'
  BY DEF CallInv, Affinity, SessionKept
<1>3. ASSUME NEW c \in Call PROVE Stage(c)'
  <2>1. KeptFor(c)
    BY DEF PlaysKept, KeptFor
  <2> QED BY <2>1, StageFrame DEF CallInv
<1> QED BY <1>1, <1>2, <1>3 DEF CallInv

\* The end of a media session, of the dialog or by a drain.
LEMMA PoolDestroyEffect ==
    ASSUME TypeOK, SessInv, SessionLife, CallInv, NEW s \in Sid,
           PoolDestroySession(s)
    PROVE  /\ SessionKept /\ PlaysKept
           /\ tracked' \subseteq tracked
           /\ \A t \in lost' \ lost : t \in Sid \ tracked' /\ ~Fresh(t)
<1>1. SessionKept
  BY PoolDestroyStep, SessionStep
<1>2. PlaysKept
  <2>1. CASE UNCHANGED vars
    BY <2>1, KeptUnchanged DEF vars, playVars
  <2>2. CASE DestroySession(s)
    BY <2>2, KeptByStop
  <2> QED BY <2>1, <2>2 DEF PoolDestroySession
<1>3. tracked' = tracked \ {s}
  BY DEF PoolDestroySession
<1>4. \A t \in lost' \ lost : t = s /\ s \in sessions
  BY DEF PoolDestroySession
<1> QED BY <1>1, <1>2, <1>3, <1>4, LiveIsCreated

LEMMA InviteInv ==
    ASSUME TypeOK, SessInv, SessionLife, CallInv, NEW c \in Call, NEW s \in Sid,
           NEW r \in Remote, NEW d \in Dest, Invite(c, s, r, d)
    PROVE  CallInv'
<1>0. /\ ivr \in [Call -> Ivr] /\ ivr[c] \in Ivr /\ Stage(c) /\ ivr[c].pc = "none"
      /\ started = "up" /\ dialog[c] = "none" /\ d \in Seq(STRING)
  BY Numbers DEF CallInv, CallTypes, Invite, Stage, Placed
<1>1. /\ Fresh(s) /\ play' = play
      /\ sess'[s].call = c /\ \A t \in Sid \ {s} : sess'[t] = sess[t]
  BY DEF Invite, CreateSession, playVars, TypeOK
<1>2. SessionKept
  BY <1>1 DEF SessionKept, Fresh
<1>3. PlaysKept
  BY <1>1, KeptUnchanged
<1>4. /\ UNCHANGED <<routes, started, moved, freed, lost>>
      /\ tracked' = tracked \cup {s}
      /\ dialog' \in [Call -> {"none", "up", "over"}] /\ dialog'[c] = "up"
      /\ \A e \in Call \ {c} : dialog'[e] = dialog[e]
  BY DEF Invite, CallInv, CallTypes
<1>5. PICK x : x = [Idle EXCEPT !.pc = "match", !.dst = d, !.sid = s]
  OBVIOUS
<1>6. x \in Ivr /\ x.pc = "match" /\ x.sid = s
  BY <1>0, <1>5, IdleIvr DEF Ivr, IvrPC
<1>7. ivr' = [ivr EXCEPT ![c] = x] /\ ivr'[c] = x
  BY <1>0, <1>5 DEF Invite
<1>8. RouteTable' /\ CallTypes'
  BY <1>4, <1>6, <1>7 DEF CallInv, RouteTable, InOrder, CallTypes
<1>9. Affinity'
  <2>1. s \notin tracked \cup lost
    BY <1>1 DEF CallInv, Affinity
  <2>2. ~Fresh(s)'
    BY <1>1, NoneIsFresh DEF Fresh
  <2> QED BY <1>2, <1>4, <2>1, <2>2 DEF CallInv, Affinity, SessionKept
<1>10. ASSUME NEW e \in Call, e # c PROVE Stage(e)'
  <2>1. KeptFor(e)
    BY <1>3 DEF PlaysKept, KeptFor
  <2>2. ivr'[e] = ivr[e] /\ dialog'[e] = dialog[e]
    BY <1>0, <1>4, <1>7, <1>10
  <2> QED BY <1>2, <1>4, <2>1, <2>2, StageFrame DEF CallInv
<1>11. Stage(c)'
  <2>1. Placed(c)'
    BY <1>0, <1>1, <1>4, <1>6, <1>7 DEF Placed
  <2>2. Routed(c)' /\ Looking(c)'
    BY <1>6, <1>7 DEF Routed, Looking
  <2>3. \A p \in Pid : Open(p, c)' <=> Open(p, c)
    BY <1>1 DEF Open
  <2>4. Quiet(c)'
    BY <1>0, <1>6, <1>7, <2>3 DEF Stage, Quiet
  <2> QED BY <2>1, <2>2, <2>4 DEF Stage
<1> QED BY <1>8, <1>9, <1>10, <1>11 DEF CallInv

\* Start-up: no call is there yet.
LEMMA ReloadInv ==
    ASSUME CallInv, NEW f \in Config, Reload(f)
    PROVE  CallInv'
<1>1. /\ started = "starting" /\ UNCHANGED <<sess, play>>
      /\ UNCHANGED <<dialog, ivr, tracked, moved, freed, lost>>
  BY DEF Reload, vars, sessVars, playVars
<1>2. RouteTable'
  <2>1. CASE \A i \in 1..Len(f) : Valid(f[i])
    <3>1. started' = "up" /\ routes' \in Sorted(f) /\ f \in Seq(Route)
      BY <2>1, RouteFiles DEF Reload
    <3>2. InOrder(routes')
      BY <2>1, <3>1, SortOrders
    <3>3. routes' # None /\ InOrder(routes)'
      BY <3>2, NoneIsNoRoute DEF InOrder
    <3> QED BY <3>1, <3>3 DEF RouteTable
  <2>2. CASE ~\A i \in 1..Len(f) : Valid(f[i])
    BY <1>1, <2>2 DEF Reload, CallInv, RouteTable
  <2> QED BY <2>1, <2>2
<1>3. CallTypes' /\ Affinity'
  BY <1>1 DEF CallInv, CallTypes, Affinity, Fresh
<1>4. ASSUME NEW c \in Call PROVE Stage(c)'
  <2>1. ivr[c].pc = "none" /\ Stage(c)
    BY <1>1 DEF CallInv, Stage, Placed
  <2> QED BY <1>1, <2>1 DEF Stage, Placed, Routed, Looking, Quiet, Open
<1> QED BY <1>2, <1>3, <1>4 DEF CallInv

RtpInv == TypeOK /\ SessInv /\ SessionLife /\ PlayInv

LEMMA CallNext ==
    ASSUME RtpInv, CallInv, [DialplanNext]_allVars
    PROVE  CallInv'
<1> USE DEF RtpInv
<1>0. SessionKept
  BY RtpStep, SessionStep
<1>1. ASSUME NEW f \in Config, Reload(f) PROVE CallInv'
  BY <1>1, ReloadInv
<1>2. ASSUME NEW c \in NewCall, NEW s \in NewSid, NEW r \in Remote, NEW d \in Dest,
             Invite(c, s, r, d)
      PROVE  CallInv'
  <2>1. c \in Call /\ s \in Sid
    BY DEF NewCall, NewSid, NextOf
  <2> QED BY <1>2, <2>1, InviteInv
<1>3. ASSUME NEW c \in Call, ExecutorStep(c) PROVE CallInv'
  <2>1. \A p \in NewPid : p \in Pid
    BY DEF NewPid, NextOf
  <2> QED BY <1>3, <2>1, FindRouteInv, OtherActionsInv, PlayAudioInv,
             PlayReturnInv, DialActionInv, ResolveInv, FinishInv
          DEF ExecutorStep
<1>4. ASSUME NEW c \in Call, Registration(c) PROVE CallInv'
  BY <1>4, RegistrationInv
<1>5. ASSUME NEW c \in Call, CallerHangup(c) PROVE CallInv'
  <2>1. /\ UNCHANGED <<vars, routes, started, ivr, tracked, moved, freed, lost>>
        /\ dialog' \in [Call -> {"none", "up", "over"}]
        /\ \A e \in Call : (dialog'[e] = "none") <=> (dialog[e] = "none")
        /\ moved \subseteq Call /\ freed \subseteq Call
    BY <1>5 DEF CallerHangup, CallInv, CallTypes
  <2>2. PlaysKept
    BY <2>1, KeptUnchanged DEF vars, playVars
  <2> QED BY <1>0, <2>1, <2>2, AroundInv
<1>6. ASSUME NEW c \in Call, OnTerminated(c) \/ MigrateAway(c) PROVE CallInv'
  <2>1. /\ ivr[c].sid \in Sid /\ UNCHANGED <<routes, started, ivr, dialog>>
        /\ moved' \subseteq Call /\ freed' \subseteq Call
        /\ dialog \in [Call -> {"none", "up", "over"}]
    BY <1>6 DEF OnTerminated, MigrateAway, CallInv, CallTypes, Stage, Placed
  <2>2. CASE PoolDestroySession(ivr[c].sid)
    BY <2>1, <2>2, PoolDestroyEffect, AroundInv
  <2>3. CASE UNCHANGED <<vars, tracked, lost>>
    <3>1. PlaysKept
      BY <2>3, KeptUnchanged DEF vars, playVars
    <3> QED BY <1>0, <2>1, <2>3, <3>1, AroundInv
  <2> QED BY <1>6, <2>2, <2>3 DEF OnTerminated, MigrateAway
<1>7. ASSUME UNCHANGED dpVars, PlaysKept PROVE CallInv'
  <2>1. /\ UNCHANGED <<routes, started, ivr, dialog, tracked, lost, moved, freed>>
        /\ dialog \in [Call -> {"none", "up", "over"}]
        /\ moved \subseteq Call /\ freed \subseteq Call
    BY <1>7 DEF dpVars, CallInv, CallTypes
  <2> QED BY <1>0, <1>7, <2>1, AroundInv
<1>8. ASSUME NEW p \in Pid, ServeEvents(p) \/ RunPlayback(p) PROVE CallInv'
  BY <1>7, <1>8, KeptByPlayback DEF ServeEvents, RunPlayback
<1>9. CASE Shutdown
  <2>1. CASE GracefulStop
    BY <1>7, <1>9, <2>1, KeptUnchanged DEF Shutdown, GracefulStop, playVars
  <2>2. CASE CloseAll
    BY <1>7, <1>9, <2>2, KeptByStop DEF Shutdown
  <2> QED BY <1>9, <2>1, <2>2 DEF Shutdown
<1>10. CASE UNCHANGED allVars
  BY <1>7, <1>10, KeptUnchanged DEF allVars, vars, playVars
<1> QED BY <1>1, <1>2, <1>3, <1>4, <1>5, <1>6, <1>8, <1>9, <1>10 DEF DialplanNext

LEMMA RtpInvariant == DialplanSpec => []RtpInv
<1>1. TypeOK /\ SessInv /\ SessionLife /\ PlayInv => RtpInv
  BY DEF RtpInv
<1> QED BY <1>1, DialplanRefines, TypeCorrect, SessInvariant,
           SessionLifeInvariant, PlayInvariant, PTL

LEMMA CallInvariant == DialplanSpec => []CallInv
<1>1. RtpInv /\ CallInv /\ [DialplanNext]_allVars => CallInv'
  BY CallNext
<1> QED BY <1>1, CallInit, RtpInvariant, PTL DEF DialplanSpec

-----------------------------------------------------------------------------
(* The properties *)

\* Every dialplan runs for a dialog, on the session its call was answered with,
\* and waits for a prompt on that session; no session whose DestroySession
\* request was lost is still known to the pool.
THEOREM DialplanTypes == DialplanSpec => []CallTypeOK
<1>1. CallInv => CallTypeOK
  <2> SUFFICES ASSUME CallInv PROVE CallTypeOK
    OBVIOUS
  <2>1. \A c \in Call : ivr[c].pc \in IvrPC
    BY DEF CallInv, CallTypes, Ivr
  <2> QED BY <2>1 DEF CallInv, RouteTable, CallTypes, Affinity, Stage, Placed,
                      CallTypeOK
<1> QED BY <1>1, CallInvariant, PTL

\* For every valid route file, in whatever order it lists its routes, and every
\* number: a call runs an enabled route that covers the number in the documented
\* sense, and no enabled route that covers it is passed over, unless its pattern
\* has a * before the end, which route.go does not understand.
THEOREM RouteIsBest == DialplanSpec => []BestRoute
<1>1. CallInv => BestRoute
  BY DEF CallInv, Stage, Routed, Best, BestRoute
<1> QED BY <1>1, CallInvariant, PTL

\* Only the handler that has found the session refuses a prompt.
LEMMA RefusalStep ==
    ASSUME RtpInv, CallInv, DialplanNext, NEW p \in Pid,
           play[p].pc = "found", play'[p].pc = "done"
    PROVE  \/ sess[play[p].sid].remote = "none"
           \/ LET q == activeCalls[play[p].call] IN
              q # None /\ play[q].ch # "open"
<1> USE DEF RtpInv
<1>1. Handler(p)
  <2>1. ASSUME UNCHANGED play PROVE FALSE
    BY <2>1
  <2>2. ASSUME \A q \in Pid : play'[q].pc = play[q].pc PROVE FALSE
    BY <2>2
  <2>3. ASSUME NEW f \in Config, Reload(f) PROVE FALSE
    BY <2>1, <2>3 DEF Reload, vars, playVars
  <2>4. ASSUME NEW c, NEW s, NEW r, NEW d, Invite(c, s, r, d) PROVE FALSE
    BY <2>1, <2>4 DEF Invite, CreateSession, playVars
  <2>5. ASSUME NEW c \in Call, ExecutorStep(c) PROVE FALSE
    <3>1. ASSUME NEW q \in Pid, PlayAudioAction(c, q) PROVE FALSE
      <4>1. play[q].pc = "idle" /\ q # p
            /\ \A x \in Pid \ {q} : play'[x] = play[x]
        BY <3>1 DEF PlayAudioAction, PlayAudio, TypeOK
      <4> QED BY <4>1
    <3> QED BY <2>1, <2>5, <3>1, ExecutorFrame DEF vars, playVars
  <2>6. ASSUME NEW c \in Call, Registration(c) \/ CallerHangup(c) PROVE FALSE
    BY <2>1, <2>6 DEF Registration, CallerHangup, vars, playVars
  <2>7. ASSUME NEW c \in Call, OnTerminated(c) \/ MigrateAway(c) PROVE FALSE
    <3>1. \/ UNCHANGED vars
          \/ DestroySession(ivr[c].sid) /\ ivr[c].sid \in Sid
      BY <2>7 DEF OnTerminated, MigrateAway, PoolDestroySession, TypeOK
    <3> QED BY <2>1, <2>2, <3>1, KeptByStop DEF vars, playVars
  <2>8. CASE Shutdown
    <3>1. CASE GracefulStop
      BY <2>1, <3>1 DEF GracefulStop, playVars
    <3>2. CASE CloseAll
      BY <2>2, <3>2, KeptByStop
    <3> QED BY <2>8, <3>1, <3>2 DEF Shutdown
  <2>9. ASSUME NEW q \in Pid, Handler(q) \/ Goroutine(q), q # p PROVE FALSE
    BY <2>9, HandlerEffect, GoroutineEffect
  <2>10. CASE Goroutine(p)
    BY <2>10, GoroutineEffect
  <2>11. PICK q \in Pid : Handler(q) \/ Goroutine(q)
    BY <2>3, <2>4, <2>5, <2>6, <2>7, <2>8
       DEF DialplanNext, ServeEvents, RunPlayback
  <2> QED BY <2>9, <2>10, <2>11
<1>2. PlayStart(p)
  <2>1. ASSUME ServeStarted(p) \/ ServeFinal(p) PROVE FALSE
    <3>1. PICK x : play' = [play EXCEPT ![p].rpc = x]
      BY <2>1 DEF ServeStarted, ServeFinal
    <3> QED BY <3>1, PlayFields DEF TypeOK
  <2> QED BY <1>1, <2>1 DEF Handler
<1>3. sess[play[p].sid].remote = "none" \/ activeCalls[play[p].call] # None
  <2>1. ASSUME play' = [play EXCEPT ![p].pc = "starting"] PROVE FALSE
    BY <2>1 DEF TypeOK, Playback
  <2> QED BY <1>2, <2>1 DEF PlayStart
<1>4. ASSUME activeCalls[play[p].call] # None
      PROVE  play[activeCalls[play[p].call]].ch # "open"
  <2>1. PICK c : c = play[p].call
    OBVIOUS
  <2>2. c \in Call
    BY <2>1 DEF PlayInv, PlayStages, Copied, SessionLife
  <2>3. PICK q \in Pid : q = activeCalls[c]
    BY <1>4, <2>1, <2>2 DEF TypeOK
  <2>4. play[q].call = c /\ play[q].pc \notin {"idle", "found", "done"}
    BY <1>4, <2>1, <2>2, <2>3 DEF PlayInv, TrackedIsRunning
  <2>5. Open(p, c)
    BY <2>1 DEF Open, PlayInv, PlayStages
  <2>6. ~Open(q, c)
    BY <2>2, <2>4, <2>5 DEF CallInv, Stage, Quiet
  <2> QED BY <2>1, <2>3, <2>4, <2>6 DEF Open
<1> QED BY <1>3, <1>4

\* A prompt that is refused although the caller has a port meets one of its call
\* that has sent its final event, never one that plays.
THEOREM RefusalsHaveCause == DialplanSpec => RefusedForCause
<1>1. RtpInv /\ CallInv /\ [DialplanNext]_allVars =>
        [\A p \in Pid : play[p].pc = "found" /\ play'[p].pc = "done" =>
          \/ sess[play[p].sid].remote = "none"
          \/ LET q == activeCalls[play[p].call] IN
             q # None /\ play[q].ch # "open"]_allVars
  BY RefusalStep
<1> QED BY <1>1, RtpInvariant, CallInvariant, PTL
        DEF DialplanSpec, RefusedForCause

\* DialsRegistered, for one call.
DialStep(c) ==
    LET l == ivr[c].look
        ext == l.target.ext
    IN
    ivr[c].pc = "resolving" /\ IsUser(l.target) =>
      /\ ivr'[c].pc = "finish" => \A b \in l.steady : ~RegisteredFor(ext, b)
      /\ ivr'[c].pc = "dialing" =>
            LET x == ivr'[c].look.contact IN
            /\ x \in l.reg /\ RegisteredFor(ext, x)
            /\ \A b \in l.steady :
                  b.aor = x.aor => b.q = 0 \/ Rank(b) <= Rank(x)

LEMMA ResolveStep ==
    ASSUME CallInv, NEW c \in Call, Resolve(c) PROVE DialStep(c)
<1>0. /\ ivr \in [Call -> Ivr] /\ ivr[c] \in Ivr /\ Stage(c)
      /\ ivr[c].pc = "resolving"
  BY DEF CallInv, CallTypes, Resolve
<1>1. PICK l \in Look :
         /\ l = ivr[c].look /\ l.steady \subseteq l.reg
         /\ \A j \in 1..Lookups : IsUser(l.target) /\ j < l.k =>
               LookupBindings(l.steady, l.target.ext, j) = {}
  BY <1>0 DEF Stage, Looking
<1>2. PICK ext \in Address : ext = l.target.ext
  BY Targets DEF Look
<1>3. l.reg \in SUBSET Reg /\ l.steady \in SUBSET Reg /\ l.k \in 1..Lookups
  BY DEF Look
<1>4. PICK found : found = LookupBindings(l.reg, ext, l.k)
  OBVIOUS
<1> SUFFICES ASSUME IsUser(l.target)
             PROVE  /\ ivr'[c].pc = "finish" =>
                          \A b \in l.steady : ~RegisteredFor(ext, b)
                    /\ ivr'[c].pc = "dialing" =>
                          LET x == ivr'[c].look.contact IN
                          /\ x \in l.reg /\ RegisteredFor(ext, x)
                          /\ \A b \in l.steady :
                                b.aor = x.aor => b.q = 0 \/ Rank(b) <= Rank(x)
  BY <1>1, <1>2 DEF DialStep
<1>5. ASSUME ivr' = [ivr EXCEPT ![c].look.k = @ + 1]
      PROVE  ivr'[c].pc = "resolving"
  BY <1>0, <1>5 DEF Ivr
<1>6. ASSUME found = {}, l.k = Lookups, StepDone(c, FALSE)
      PROVE  ivr'[c].pc = "finish" /\ \A b \in l.steady : ~RegisteredFor(ext, b)
  <2>1. ivr'[c].pc = "finish"
    BY <1>0, <1>6, StepDoneMove
  <2>2. LookupBindings(l.steady, ext, 3) = {}
    BY <1>1, <1>2, <1>6 DEF Lookups
  <2>3. LookupBindings(l.steady, ext, Lookups) = {}
    <3>1. LookupBindings(l.reg, ext, Lookups) = {} /\ Lookups \in 1..Lookups
      BY <1>3, <1>4, <1>6
    <3> QED BY <1>1, <1>3, <3>1, LookupFacts
  <2> QED BY <1>3, <2>1, <2>2, <2>3, LookupsComplete
<1>7. ASSUME NEW y \in Primary(found),
             ivr' = [ivr EXCEPT
                      ![c].pc = "dialing",
                      ![c].look = [target |-> l.target, reg |-> {}, k |-> 1,
                                   steady |-> {}, contact |-> y]]
      PROVE  /\ ivr'[c].pc = "dialing" /\ ivr'[c].look.contact = y
             /\ y \in l.reg /\ RegisteredFor(ext, y)
             /\ \A b \in l.steady :
                   b.aor = y.aor => b.q = 0 \/ Rank(b) <= Rank(y)
  <2>1. ivr'[c].pc = "dialing" /\ ivr'[c].look.contact = y
    BY <1>0, <1>7 DEF Ivr
  <2>2. y \in found /\ \A b \in found : b.q <= y.q
    BY <1>7 DEF Primary
  <2>3. y \in l.reg /\ RegisteredFor(ext, y)
        /\ \A b \in l.reg : b.aor = y.aor => b \in found
    BY <1>3, <1>4, <2>2, LookupFacts
  <2>4. \A b \in found : b.q \in Nat
    BY <1>3, <1>4, LookupFacts, Bindings
  <2>5. \A b \in found : b.q = 0 \/ Rank(b) <= Rank(y)
    BY <2>2, <2>4 DEF Rank
  <2> QED BY <1>1, <2>1, <2>3, <2>5
<1>8. ~IsDirect(l.target)
  BY DEF IsDirect, IsUser
<1> QED BY <1>1, <1>2, <1>4, <1>5, <1>6, <1>7, <1>8 DEF Resolve

LEMMA DialNext ==
    ASSUME RtpInv, CallInv, DialplanNext, NEW c \in Call
    PROVE  DialStep(c)
<1> SUFFICES ASSUME ivr[c].pc = "resolving", ~Resolve(c) PROVE DialStep(c)
  BY ResolveStep DEF DialStep
<1>0. ivr \in [Call -> Ivr]
  BY DEF CallInv, CallTypes
<1>1. ivr'[c].pc = "resolving"
  <2>1. ASSUME UNCHANGED ivr PROVE ivr'[c].pc = "resolving"
    BY <2>1
  <2>2. ASSUME NEW e \in Call, e # c, \E x : ivr' = [ivr EXCEPT ![e] = x]
        PROVE  ivr'[c].pc = "resolving"
    BY <1>0, <2>2
  <2>3. ASSUME NEW f \in Config, Reload(f) PROVE ivr'[c].pc = "resolving"
    BY <2>1, <2>3 DEF Reload
  <2>4. ASSUME NEW e \in NewCall, NEW s, NEW r, NEW d, Invite(e, s, r, d)
        PROVE  ivr'[c].pc = "resolving"
    <3>1. e # c /\ e \in Call
      BY <2>4 DEF NewCall, NextOf, CallInv, Stage, Placed
    <3> QED BY <2>2, <2>4, <3>1 DEF Invite
  <2>5. ASSUME NEW e \in Call, ExecutorStep(e) PROVE ivr'[c].pc = "resolving"
    <3>1. e # c
      BY <2>5 DEF ExecutorStep, FindRoute, RouteOver, PlayAudioAction, At,
           PlayAudioRefused, PlayReturn, DialAction, DialReturn, HangupAction,
           Finish
    <3>2. ivr'[c] = ivr[c]
      BY <1>0, <2>5, <3>1
         DEF ExecutorStep, FindRoute, RouteOver, PlayAudioAction, Goto,
             PlayAudioRefused, PlayReturn, DialAction, Resolve, DialReturn,
             HangupAction, Finish, StepDone
    <3> QED BY <3>2
  <2>6. ASSUME NEW e \in Call, Registration(e) PROVE ivr'[c].pc = "resolving"
    <3>1. PICK b, x : ivr' = [ivr EXCEPT ![e].look = x]
      BY <2>6 DEF Registration
    <3> QED BY <1>0, <3>1 DEF Ivr
  <2>7. ASSUME NEW e \in Call, CallerHangup(e) \/ OnTerminated(e) \/ MigrateAway(e)
        PROVE  ivr'[c].pc = "resolving"
    BY <2>1, <2>7 DEF CallerHangup, OnTerminated, MigrateAway
  <2>8. ASSUME UNCHANGED dpVars PROVE ivr'[c].pc = "resolving"
    BY <2>1, <2>8 DEF dpVars
  <2> QED BY <2>3, <2>4, <2>5, <2>6, <2>7, <2>8
          DEF DialplanNext, ServeEvents, RunPlayback, Shutdown
<1> QED BY <1>1 DEF DialStep

\* A dial that gives up has missed nobody who was registered all the while, and
\* one that rings a device rings one of the best that were, of those that gave a
\* q-value.
THEOREM DialsFindRegistered == DialplanSpec => DialsRegistered
<1>1. RtpInv /\ CallInv /\ [DialplanNext]_allVars =>
        [\A c \in Call : DialStep(c)]_allVars
  BY DialNext
<1> QED BY <1>1, RtpInvariant, CallInvariant, PTL
        DEF DialplanSpec, DialsRegistered, DialStep
=============================================================================
