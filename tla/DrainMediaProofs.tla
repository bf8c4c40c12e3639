-------------------------- MODULE DrainMediaProofs --------------------------
(***************************************************************************)
(* Proofs about the calls and the media in Drain, for drains that do not   *)
(* overlap: a call that is up is heard; no session is left in the pool's   *)
(* indices that nothing refers to; a media bridge relays between sessions  *)
(* that exist and is torn down with them; bridged calls are on one node;   *)
(* and a drain that has ended accounts for every session it found.         *)
(***************************************************************************)
EXTENDS DrainProofs

-----------------------------------------------------------------------------
(* Sessions and their calls *)

\* Identifiers are not reused, and the pool knows sessions where they are.
Ids == \A s \in Sid :
          /\ rtp[s] # None => s \in used
          /\ sessionToNode[s] # None =>
                rtp[s] # None /\ rtp[s].node = sessionToNode[s]

\* Session s was made for call c.
Owns(s, c) == s \in used /\ (rtp[s] # None => rtp[s].call = c)

CallOK(c) ==
    /\ dlg[c].sid # None => Owns(dlg[c].sid, c)
    /\ handle[c] # None => Owns(handle[c], c)
    /\ dlg[c].state = "none" => dlg[c].sid = None
    /\ dlg[c].state \in {"Early", "Confirmed"} => dlg[c].sid # None
    /\ c \in cbs => dlg[c].state = "Terminated" /\ dlg[c].sid # None
    /\ picked[c] # None => dlg[c].state = "none" /\ handle[c] = None
    /\ Ringing(c) => sessionToNode[handle[c]] # None

-----------------------------------------------------------------------------
(* Migrations.  What is known of leg i of migration m depends on its step;  *)
(* sid, cl and live are the session id of the leg's dialog, the session its *)
(* far end sends to, and whether its call is up and not stranded.           *)

Moving == Placed \cup {"create"}

Updated(m, i) == m.pc = "bridge" \/ (m.pc = "update" /\ i < m.k)
Destroyed(m, i) == \/ m.pc = "destroy" /\ i < m.k
                   \/ m.pc = "update" /\ i >= m.k

\* Until the re-INVITE of a leg its media is on the old session, which stays
\* until all legs have moved; a rollback strands the legs that had moved.
Moved(m, i, sid, cl) ==
    CASE m.pc = "create" -> cl = sid
      [] m.pc \in {"invite", "answer"} ->
            IF i < m.k THEN cl \in {sid, m.new[i]} /\ (m.ok => cl = m.new[i])
                       ELSE cl = sid
      [] m.pc = "rollback" ->
            IF i < m.k THEN cl = sid ELSE cl \in {sid, m.new[i]}
      [] OTHER -> cl = m.new[i]

LegOK(m, i, sid, cl, live, at) ==
    /\ sid = IF Updated(m, i) THEN m.new[i] ELSE m.old[i]
    /\ Destroyed(m, i) => at[m.old[i]] = None
    /\ live =>
         /\ Moved(m, i, sid, cl)
         /\ m.pc \in {"create", "invite", "answer", "rollback"} => at[sid] # None
         /\ m.pc \notin {"rollback", "bridge"} /\ Len(m.legs) = 1
              /\ Len(m.new) = 1 => at[m.new[1]] # None

Live(c) == dlg[c].state \in {"Early", "Confirmed"} /\ c \notin stranded

LegsOK(m) == \A i \in 1..Len(m.legs) :
    LET c == m.legs[i] IN
    /\ m.old[i] # None /\ Owns(m.old[i], c)
    /\ i <= Len(m.new) => Owns(m.new[i], c)
    /\ LegOK(m, i, dlg[c].sid, client[c], Live(c), sessionToNode)

MigOK(d, r) ==
    LET m == mig[d][r] IN
    m.pc \in Moving =>
      /\ m.legs[1] \notin BLegs
      /\ Len(m.legs) = 2 => m.legs[2] = Peer[m.legs[1]]
      /\ m.old[1] = r /\ Len(m.old) >= Len(m.legs)
      /\ \A i \in 1..Len(m.new) : m.new[i] \notin op[d].snap
      /\ LegsOK(m)

\* The sessions a drain found are on its node, as long as they exist, and it
\* migrates them to another one.
OpOK(d) ==
    /\ op[d].pc \in {"start", "migrating"} => \A s \in op[d].snap :
          s \in used /\ (rtp[s] # None => rtp[s].node = op[d].node)
    /\ op[d].pc = "migrating" => op[d].target # op[d].node
    /\ \A r \in Sid : mig[d][r].pc \notin {"none", "skipped", "done"} =>
          op[d].pc = "migrating" /\ r \in op[d].snap

\* No two migrations are of the same call.
Apart == \A d \in DrainOp : \A r, q \in Sid :
    mig[d][r].pc \in Moving /\ mig[d][q].pc \in Moving
      /\ mig[d][r].legs[1] = mig[d][q].legs[1] => r = q

InMigration(c) == \E d \in DrainOp, r \in Sid :
    /\ mig[d][r].pc \in Moving
    /\ \E i \in 1..Len(mig[d][r].legs) : mig[d][r].legs[i] = c

Heard == \A c \in Call : Live(c) /\ ~InMigration(c) =>
            client[c] = dlg[c].sid /\ sessionToNode[dlg[c].sid] # None

MediaInv ==
    /\ Ids
    /\ \A c \in Call : CallOK(c)
    /\ \A d \in DrainOp : OpOK(d)
    /\ \A d \in DrainOp, r \in Sid : MigOK(d, r)
    /\ Apart
    /\ Heard

\* The new sessions that a migration has yet to hand over or to destroy.
Pending(m) == {m.new[i] : i \in {j \in 1..Len(m.new) :
                  \/ m.pc \in {"create", "invite", "answer", "destroy"}
                  \/ m.pc \in {"rollback", "update"} /\ j >= m.k}}

\* The end of the call has been handled and no migration has revived it.
Over(c) == dlg[c].state = "Terminated" /\ c \notin cbs \cup stranded

Names(c, s) == \/ dlg[c].sid = s /\ ~Over(c)
               \/ Ringing(c) /\ handle[c] = s

Named == \A s \in Sid : sessionToNode[s] # None =>
    \/ \E c \in Call : Names(c, s)
    \/ \E d \in DrainOp, r \in Sid : s \in Pending(mig[d][r])

-----------------------------------------------------------------------------
(* Frames.  Every step acts on one call: what it changes of the sessions    *)
(* and of the dialogs is that call's.                                       *)

IdsKept == /\ used \subseteq used'
           /\ \A s \in used : rtp'[s] \in {rtp[s], None}

OnlyCall(c) ==
    /\ stranded \subseteq stranded'
    /\ \A e \in Call \ {c} :
          /\ dlg'[e] = dlg[e] /\ handle'[e] = handle[e]
          /\ client'[e] = client[e] /\ picked'[e] = picked[e]
          /\ e \in cbs' <=> e \in cbs
          /\ \A s \in Sid : Owns(s, e) => sessionToNode'[s] = sessionToNode[s]

LEMMA OwnsKept ==
    ASSUME IdsKept, NEW s, NEW c, Owns(s, c)
    PROVE  Owns(s, c)'
BY DEF IdsKept, Owns

LEMMA DestroyFacts ==
    ASSUME Shape, Ids, NEW x \in Sid, NEW c \in Call, Owns(x, c),
           NEW b \in BOOLEAN, DestroySession(x, b), UNCHANGED used
    PROVE  /\ Ids' /\ IdsKept
           /\ sessionToNode'[x] = None
           /\ \A s \in Sid \ {x} : sessionToNode'[s] = sessionToNode[s]
           /\ \A e \in Call \ {c} : \A s \in Sid :
                 Owns(s, e) => sessionToNode'[s] = sessionToNode[s]
<1>1. /\ sessionToNode \in [Sid -> Node \cup {None}]
      /\ rtp \in [Sid -> [node : Node, call : Call] \cup {None}]
      /\ used \subseteq Sid
  BY DEF Shape, PoolTypes
<1>2. /\ sessionToNode' = [sessionToNode EXCEPT ![x] = None]
      /\ rtp' = rtp \/ rtp' = [rtp EXCEPT ![x] = None]
  BY DEF DestroySession, UntrackSession
<1>3. /\ sessionToNode'[x] = None
      /\ \A s \in Sid \ {x} : sessionToNode'[s] = sessionToNode[s]
                              /\ rtp'[s] = rtp[s]
      /\ rtp'[x] \in {rtp[x], None}
  BY <1>1, <1>2
<1>4. Ids'
  BY <1>3 DEF Ids
<1>5. IdsKept
  BY <1>1, <1>3 DEF IdsKept
<1>6. ASSUME NEW e \in Call \ {c}, NEW s \in Sid, Owns(s, e)
      PROVE  sessionToNode'[s] = sessionToNode[s]
  BY <1>3, <1>6 DEF Owns, Ids
<1> QED BY <1>3, <1>4, <1>5, <1>6

LEMMA CreateFacts ==
    ASSUME Shape, Ids, NEW x \in Sid, NEW c \in Call, NEW n \in Node,
           x \notin used \/ rtp[x] = [node |-> n, call |-> c],
           used' = used \cup {x},
           rtp' = [rtp EXCEPT ![x] = [node |-> n, call |-> c]],
           sessionToNode' = [sessionToNode EXCEPT ![x] = n]
    PROVE  /\ Ids' /\ IdsKept /\ Owns(x, c)'
           /\ sessionToNode'[x] = n
           /\ \A s \in Sid \ {x} : sessionToNode'[s] = sessionToNode[s]
           /\ \A e \in Call \ {c} : \A s \in Sid :
                 Owns(s, e) => sessionToNode'[s] = sessionToNode[s]
<1>1. /\ sessionToNode \in [Sid -> Node \cup {None}]
      /\ rtp \in [Sid -> [node : Node, call : Call] \cup {None}]
      /\ used \subseteq Sid
  BY DEF Shape, PoolTypes
<1>2. PICK v : v = [node |-> n, call |-> c]
  OBVIOUS
<1>3. v # None /\ v.node = n /\ v.call = c
  BY <1>2, NoneIsNew DEF NoneIsNew
<1>4. /\ sessionToNode'[x] = n /\ rtp'[x] = v
      /\ \A s \in Sid \ {x} : sessionToNode'[s] = sessionToNode[s]
                              /\ rtp'[s] = rtp[s]
  BY <1>1, <1>2
<1>5. Ids'
  BY <1>1, <1>3, <1>4 DEF Ids
<1>6. IdsKept /\ Owns(x, c)'
  BY <1>1, <1>2, <1>3, <1>4 DEF IdsKept, Owns
<1>7. ASSUME NEW e \in Call \ {c}, NEW s \in Sid, Owns(s, e)
      PROVE  sessionToNode'[s] = sessionToNode[s]
  BY <1>2, <1>3, <1>4, <1>7 DEF Owns
<1> QED BY <1>4, <1>5, <1>6, <1>7

\* A leg keeps its place when its dialog and its far end do, its call is not
\* taken up again, and its sessions stay known.
LEMMA LegKept ==
    ASSUME NEW m, NEW i, NEW sid, NEW cl, NEW live, NEW at, NEW live2, NEW at2,
           LegOK(m, i, sid, cl, live, at),
           live2 => live,
           Destroyed(m, i) => at2[m.old[i]] = at[m.old[i]],
           live2 => at2[sid] = at[sid],
           live2 /\ Len(m.legs) = 1 /\ Len(m.new) = 1 => at2[m.new[1]] = at[m.new[1]]
    PROVE  LegOK(m, i, sid, cl, live2, at2)
BY DEF LegOK

LEMMA CallCarried ==
    ASSUME Shape, IdsKept, NEW c, OnlyCall(c), NEW e \in Call \ {c}, CallOK(e)
    PROVE  CallOK(e)'
<1>1. dlg[e].sid \in Sid \cup {None} /\ handle[e] \in Sid \cup {None}
  BY DEF Shape, CallTypes, DlgRec
<1>2. Ringing(e)' <=> Ringing(e)
  BY DEF OnlyCall, Ringing
<1>3. /\ dlg'[e] = dlg[e] /\ handle'[e] = handle[e]
      /\ picked'[e] = picked[e] /\ (e \in cbs' <=> e \in cbs)
  BY DEF OnlyCall
<1>4. Ringing(e) => sessionToNode'[handle[e]] = sessionToNode[handle[e]]
  BY <1>1 DEF OnlyCall, Ringing, CallOK
<1>5. \A s : Owns(s, e) => Owns(s, e)'
  BY OwnsKept
<1> QED BY <1>2, <1>3, <1>4, <1>5 DEF CallOK

LEMMA LegsCarried ==
    ASSUME Shape, IdsKept, NEW c, OnlyCall(c), \A e \in Call : CallOK(e),
           NEW m \in MigRec, LegsOK(m), Len(m.old) >= Len(m.legs),
           Len(m.new) <= Len(m.legs),
           \A i \in 1..Len(m.legs) : m.legs[i] # c
    PROVE  LegsOK(m)'
<1>0. m.legs \in Seq(Call) /\ m.new \in Seq(Sid) /\ m.old \in Seq(Sid \cup {None})
  BY DEF MigRec
<1> SUFFICES ASSUME NEW i \in 1..Len(m.legs)
             PROVE  LET e == m.legs[i] IN
                    /\ m.old[i] # None /\ Owns(m.old[i], e)'
                    /\ i <= Len(m.new) => Owns(m.new[i], e)'
                    /\ LegOK(m, i, dlg'[e].sid, client'[e], Live(e)', sessionToNode')
  BY DEF LegsOK
<1>1. PICK e \in Call : e = m.legs[i] /\ e # c
  BY <1>0
<1>2. /\ m.old[i] # None /\ Owns(m.old[i], e)
      /\ i <= Len(m.new) => Owns(m.new[i], e)
      /\ LegOK(m, i, dlg[e].sid, client[e], Live(e), sessionToNode)
  BY <1>1 DEF LegsOK
<1>3. /\ dlg'[e] = dlg[e] /\ client'[e] = client[e] /\ (Live(e)' => Live(e))
      /\ \A s \in Sid : Owns(s, e) => sessionToNode'[s] = sessionToNode[s]
  BY <1>1 DEF OnlyCall, Live
<1>4. m.old[i] \in Sid /\ (i <= Len(m.new) => m.new[i] \in Sid)
  <2>1. PICK n \in Nat : n = Len(m.legs)
    BY <1>0
  <2>2. PICK p \in Nat : p = Len(m.new)
    BY <1>0
  <2>3. PICK q \in Nat : q = Len(m.old)
    BY <1>0
  <2>4. i \in 1..q /\ (i <= p => i \in 1..p)
    BY <2>1, <2>2, <2>3
  <2> QED BY <1>0, <1>2, <2>2, <2>3, <2>4
<1>5. sessionToNode'[m.old[i]] = sessionToNode[m.old[i]]
  BY <1>2, <1>3, <1>4
<1>6. Live(e) => sessionToNode'[dlg[e].sid] = sessionToNode[dlg[e].sid]
  <2>1. dlg[e].sid \in Sid \cup {None}
    BY DEF Shape, CallTypes, DlgRec
  <2>2. Live(e) => dlg[e].sid # None /\ Owns(dlg[e].sid, e)
    BY DEF Live, CallOK
  <2> QED BY <1>3, <2>1, <2>2
<1>7. Len(m.legs) = 1 /\ Len(m.new) = 1 =>
         sessionToNode'[m.new[1]] = sessionToNode[m.new[1]]
  <2>1. Len(m.legs) = 1 => i = 1
    OBVIOUS
  <2> QED BY <1>2, <1>3, <1>4, <2>1
<1>8. LegOK(m, i, dlg'[e].sid, client'[e], Live(e)', sessionToNode')
  BY <1>2, <1>3, <1>5, <1>6, <1>7, LegKept
<1>9. Owns(m.old[i], e)' /\ (i <= Len(m.new) => Owns(m.new[i], e)')
  BY <1>2, OwnsKept
<1> QED BY <1>1, <1>2, <1>8, <1>9

\* What MigOK says of a migration m, and its form after a step.
MovingOK(m, r, snap) ==
    /\ m.legs[1] \notin BLegs
    /\ Len(m.legs) = 2 => m.legs[2] = Peer[m.legs[1]]
    /\ m.old[1] = r /\ Len(m.old) >= Len(m.legs)
    /\ \A i \in 1..Len(m.new) : m.new[i] \notin snap

LEMMA MigNow ==
    ASSUME NEW d \in DrainOp, NEW r \in Sid, MigOK(d, r),
           NEW m, m = mig[d][r], m.pc \in Moving
    PROVE  MovingOK(m, r, op[d].snap) /\ LegsOK(m)
BY DEF MigOK, MovingOK, LegsOK, Owns, Live

LEMMA MigNext ==
    ASSUME NEW d \in DrainOp, NEW r \in Sid, NEW m, m = mig'[d][r],
           m.pc \in Moving => MovingOK(m, r, op'[d].snap) /\ LegsOK(m)'
    PROVE  MigOK(d, r)'
BY DEF MigOK, MovingOK, LegsOK, Owns, Live

\* The legs of a migration, and those of two.
LEMMA LegFacts ==
    ASSUME NEW m \in MigRec, Legs(m), m.pc \in Moving
    PROVE  /\ m.legs \in Seq(Call) /\ m.new \in Seq(Sid)
           /\ m.old \in Seq(Sid \cup {None})
           /\ Len(m.legs) \in {1, 2} /\ m.k \in 1..Len(m.legs)
           /\ Len(m.new) \in 0..Len(m.legs)
           /\ m.pc = "create" => Len(m.new) = m.k - 1
           /\ m.pc # "create" => Len(m.new) = Len(m.legs)
<1>0. /\ m.legs \in Seq(Call) /\ m.new \in Seq(Sid)
      /\ m.old \in Seq(Sid \cup {None})
  BY DEF MigRec
<1>1. PICK n \in Nat : n = Len(m.legs)
  BY <1>0
<1>2. m.k \in 1..n /\ n <= 2
  BY <1>1 DEF Legs, Moving
<1>3. n \in {1, 2}
  BY <1>2
<1>4. PICK p \in Nat : p = Len(m.new)
  BY <1>0
<1>5. /\ m.pc = "create" => p = m.k - 1
      /\ m.pc # "create" => p = n
  BY <1>1, <1>4 DEF Legs, Moving
<1>6. p \in 0..n
  BY <1>2, <1>5
<1> QED BY <1>0, <1>1, <1>2, <1>3, <1>4, <1>5, <1>6

LEMMA LegsApart ==
    ASSUME Shape, NodeInv, MediaInv,
           NEW d \in DrainOp, NEW r \in Sid, NEW e \in DrainOp, NEW q \in Sid,
           mig[d][r].pc \in Moving, mig[e][q].pc \in Moving,
           NEW i \in 1..Len(mig[d][r].legs), NEW j \in 1..Len(mig[e][q].legs),
           mig[d][r].legs[i] = mig[e][q].legs[j]
    PROVE  d = e /\ r = q /\ i = j
<1>1. d = e
  <2>1. \A f \in DrainOp, s \in Sid : mig[f][s].pc \in Moving => op[f].pc = "migrating"
    BY DEF MediaInv, OpOK, Moving, Placed
  <2> QED BY <2>1 DEF NodeInv, Entries, Busy
<1>2. PICK m \in MigRec : m = mig[d][r]
  BY DEF Shape, DrainTypes
<1>3. PICK n \in MigRec : n = mig[d][q]
  BY DEF Shape, DrainTypes
<1>4. MovingOK(m, r, op[d].snap) /\ MovingOK(n, q, op[d].snap)
  BY <1>1, <1>2, <1>3, MigNow DEF MediaInv
<1>5. Legs(m) /\ Legs(n)
  BY <1>2, <1>3 DEF Shape, Migs
<1>6. /\ Len(m.legs) \in {1, 2} /\ Len(n.legs) \in {1, 2}
      /\ m.legs \in Seq(Call) /\ n.legs \in Seq(Call)
  BY <1>1, <1>2, <1>3, <1>5, LegFacts
<1>7. /\ i \in {1, 2} /\ (i = 2 => Len(m.legs) = 2)
      /\ j \in {1, 2} /\ (j = 2 => Len(n.legs) = 2)
  BY <1>1, <1>2, <1>3, <1>6
<1>8. /\ m.legs[1] \in Call /\ n.legs[1] \in Call
      /\ m.legs[i] \in Call /\ n.legs[j] \in Call /\ m.legs[i] = n.legs[j]
  BY <1>1, <1>2, <1>3, <1>6, <1>7
<1>9. /\ i = 2 => m.legs[2] \in BLegs /\ m.legs[2] = Peer[m.legs[1]]
      /\ j = 2 => n.legs[2] \in BLegs /\ n.legs[2] = Peer[n.legs[1]]
  <2>1. \A c \in Call : Peer[c] # None => Peer[c] \in BLegs
    BY DEF BLegs
  <2>2. None \notin Call
    BY NoneIsNew DEF NoneIsNew
  <2> QED BY <1>4, <1>7, <1>8, <2>1, <2>2 DEF MovingOK
<1>10. i = j
  BY <1>4, <1>7, <1>8, <1>9 DEF MovingOK
<1>11. m.legs[1] = n.legs[1]
  <2>1. CASE i = 1
    BY <1>8, <1>10, <2>1
  <2>2. CASE i = 2
    <3>1. Peer[m.legs[1]] = Peer[n.legs[1]] /\ Peer[m.legs[1]] # None
      BY <1>8, <1>9, <1>10, <2>2, NoneIsNew DEF NoneIsNew
    <3> QED BY <1>8, <3>1, OneCaller DEF OneCaller
  <2> QED BY <1>7, <2>1, <2>2
<1>12. r = q
  BY <1>1, <1>2, <1>3, <1>11 DEF MediaInv, Apart
<1> QED BY <1>1, <1>10, <1>12

\* A leg whose dialog keeps its session id, when sessions are only forgotten,
\* and none while its call is up.
Quiet(c) ==
    /\ dlg'[c].sid = dlg[c].sid
    /\ \A s \in Sid : sessionToNode[s] = None => sessionToNode'[s] = None
    /\ Live(c)' => /\ Live(c) /\ client'[c] = client[c]
                   /\ UNCHANGED sessionToNode

LEMMA QuietLegs ==
    ASSUME Shape, IdsKept, NEW c \in Call, OnlyCall(c), Quiet(c),
           \A e \in Call : CallOK(e),
           NEW m \in MigRec, Legs(m), m.pc \in Moving, LegsOK(m),
           Len(m.old) >= Len(m.legs)
    PROVE  LegsOK(m)'
<1>0. /\ m.legs \in Seq(Call) /\ m.new \in Seq(Sid)
      /\ m.old \in Seq(Sid \cup {None})
      /\ Len(m.legs) \in {1, 2} /\ Len(m.new) \in 0..Len(m.legs)
  BY LegFacts
<1>l. Len(m.old) \in Nat /\ Len(m.new) \in Nat
  BY <1>0
<1> SUFFICES ASSUME NEW i \in 1..Len(m.legs)
             PROVE  LET e == m.legs[i] IN
                    /\ m.old[i] # None /\ Owns(m.old[i], e)'
                    /\ i <= Len(m.new) => Owns(m.new[i], e)'
                    /\ LegOK(m, i, dlg'[e].sid, client'[e], Live(e)', sessionToNode')
  BY DEF LegsOK
<1>1. PICK e \in Call : e = m.legs[i]
  BY <1>0
<1>2. /\ m.old[i] # None /\ Owns(m.old[i], e)
      /\ i <= Len(m.new) => Owns(m.new[i], e)
      /\ LegOK(m, i, dlg[e].sid, client[e], Live(e), sessionToNode)
  BY <1>1 DEF LegsOK
<1>3. Owns(m.old[i], e)' /\ (i <= Len(m.new) => Owns(m.new[i], e)')
  BY <1>2, OwnsKept
<1>4. m.old[i] \in Sid /\ (i <= Len(m.new) => m.new[i] \in Sid)
  <2>1. i \in 1..Len(m.old) /\ (i <= Len(m.new) => i \in 1..Len(m.new))
    BY <1>0, <1>l
  <2> QED BY <1>0, <1>2, <2>1
<1>5. CASE e # c
  <2>3. /\ dlg'[e] = dlg[e] /\ client'[e] = client[e] /\ (Live(e)' => Live(e))
        /\ \A s \in Sid : Owns(s, e) => sessionToNode'[s] = sessionToNode[s]
    BY <1>5 DEF OnlyCall, Live
  <2>5. sessionToNode'[m.old[i]] = sessionToNode[m.old[i]]
    BY <1>2, <1>4, <2>3
  <2>6. Live(e) => sessionToNode'[dlg[e].sid] = sessionToNode[dlg[e].sid]
    <3>1. dlg[e].sid \in Sid \cup {None}
      BY DEF Shape, CallTypes, DlgRec
    <3>2. Live(e) => dlg[e].sid # None /\ Owns(dlg[e].sid, e)
      BY DEF Live, CallOK
    <3> QED BY <2>3, <3>1, <3>2
  <2>7. Len(m.legs) = 1 /\ Len(m.new) = 1 =>
           sessionToNode'[m.new[1]] = sessionToNode[m.new[1]]
    <3>1. Len(m.legs) = 1 => i = 1
      OBVIOUS
    <3> QED BY <1>2, <1>4, <2>3, <3>1
  <2>8. LegOK(m, i, dlg'[e].sid, client'[e], Live(e)', sessionToNode')
    BY <1>2, <2>3, <2>5, <2>6, <2>7, LegKept
  <2> QED BY <1>1, <1>2, <1>3, <2>8
<1>6. CASE e = c
  <2>1. dlg'[e].sid = dlg[e].sid
    BY <1>6 DEF Quiet
  <2>2. Destroyed(m, i) => sessionToNode'[m.old[i]] = None
    BY <1>2, <1>4, <1>6 DEF Quiet, LegOK
  <2>3. Live(e)' => Live(e) /\ client'[e] = client[e] /\ sessionToNode' = sessionToNode
    BY <1>6 DEF Quiet
  <2>4. LegOK(m, i, dlg'[e].sid, client'[e], Live(e)', sessionToNode')
    BY <1>2, <2>1, <2>2, <2>3 DEF LegOK
  <2> QED BY <1>1, <1>2, <1>3, <2>4
<1> QED BY <1>5, <1>6

\* A step of a call: the call is quiet, or it is new and is heard.
LEMMA CallStep ==
    ASSUME Shape, NodeInv, MediaInv, NEW c \in Call, UNCHANGED <<op, mig>>,
           IdsKept, Ids', OnlyCall(c), CallOK(c)',
           dlg[c].sid # None => Quiet(c),
           dlg[c].sid = None /\ Live(c)' =>
              client'[c] = dlg'[c].sid /\ sessionToNode'[dlg'[c].sid] # None
    PROVE  MediaInv'
<1>1. \A e \in Call : CallOK(e)'
  BY CallCarried DEF MediaInv
<1>2. ASSUME NEW d \in DrainOp PROVE OpOK(d)'
  <2>1. op' = op /\ mig' = mig
    OBVIOUS
  <2>2. OpOK(d)
    BY DEF MediaInv
  <2> QED BY <2>1, <2>2 DEF OpOK, IdsKept
<1>3. ASSUME NEW d \in DrainOp, NEW r \in Sid PROVE MigOK(d, r)'
  <2>1. PICK m \in MigRec : m = mig[d][r]
    BY DEF Shape, DrainTypes
  <2>2. Legs(m) /\ MigOK(d, r) /\ \A e \in Call : CallOK(e)
    BY <2>1 DEF Shape, Migs, MediaInv
  <2>3. CASE m.pc \in Moving
    <3>1. MovingOK(m, r, op[d].snap) /\ LegsOK(m)
      BY <2>1, <2>2, <2>3, MigNow
    <3>2. /\ m.legs \in Seq(Call) /\ Len(m.new) \in 0..Len(m.legs)
          /\ Len(m.legs) \in {1, 2}
      BY <2>2, <2>3, LegFacts
    <3>3. Len(m.old) >= Len(m.legs) /\ Len(m.new) <= Len(m.legs)
      BY <3>1, <3>2 DEF MovingOK
    <3>4. LegsOK(m)'
      <4>1. CASE dlg[c].sid # None
        BY <2>2, <2>3, <3>1, <3>3, <4>1, QuietLegs
      <4>2. CASE dlg[c].sid = None
        <5>1. \A i \in 1..Len(m.legs) : m.legs[i] # c
          <6> SUFFICES ASSUME NEW i \in 1..Len(m.legs), m.legs[i] = c
                       PROVE  FALSE
            OBVIOUS
          <6>1. LegOK(m, i, None, client[c], Live(c), sessionToNode) /\ m.old[i] # None
            BY <3>1, <4>2 DEF LegsOK
          <6>2. Updated(m, i) => m.new[i] = None
            BY <6>1 DEF LegOK
          <6>3. Updated(m, i)
            BY <6>1 DEF LegOK
          <6>4. m.new \in Seq(Sid) /\ (m.pc # "create" => Len(m.new) = Len(m.legs))
            BY <2>2, <2>3, LegFacts
          <6>5. m.new[i] \in Sid
            BY <6>3, <6>4 DEF Updated
          <6> QED BY <6>2, <6>3, <6>5, NoneIsNew DEF NoneIsNew
        <5> QED BY <2>2, <3>1, <3>3, <5>1, LegsCarried
      <4> QED BY <4>1, <4>2
    <3> QED BY <2>1, <3>1, <3>4, MigNext
  <2>4. CASE m.pc \notin Moving
    BY <2>1, <2>4, MigNext
  <2> QED BY <2>3, <2>4
<1>4. Apart'
  BY DEF MediaInv, Apart
<1>5. Heard'
  <2> SUFFICES ASSUME NEW e \in Call, Live(e)', ~InMigration(e)'
               PROVE  client'[e] = dlg'[e].sid /\ sessionToNode'[dlg'[e].sid] # None
    BY DEF Heard
  <2>1. ~InMigration(e)
    BY DEF InMigration
  <2>2. Live(e) => client[e] = dlg[e].sid /\ sessionToNode[dlg[e].sid] # None
    BY <2>1 DEF MediaInv, Heard
  <2>3. CASE e # c
    <3>1. dlg'[e] = dlg[e] /\ client'[e] = client[e] /\ Live(e)
      BY <2>3 DEF OnlyCall, Live
    <3>2. dlg[e].sid \in Sid /\ Owns(dlg[e].sid, e)
      BY <3>1 DEF Live, MediaInv, CallOK, Shape, CallTypes, DlgRec
    <3>3. sessionToNode'[dlg[e].sid] = sessionToNode[dlg[e].sid]
      BY <2>3, <3>2 DEF OnlyCall
    <3> QED BY <2>2, <3>1, <3>3
  <2>4. CASE e = c
    BY <2>2, <2>4 DEF Quiet
  <2> QED BY <2>3, <2>4
<1> QED BY <1>1, <1>2, <1>3, <1>4, <1>5 DEF MediaInv

-----------------------------------------------------------------------------
(* Calls *)

\* A step that leaves dialogs, sessions and migrations alone.
LEMMA IdleStep ==
    ASSUME Shape, NodeInv, MediaInv, NEW c \in Call,
           UNCHANGED <<op, mig, sessionToNode, rtp, used, dlg, handle, client,
                       cbs>>,
           stranded \subseteq stranded',
           \A e \in Call \ {c} : picked'[e] = picked[e],
           picked'[c] # None => picked[c] # None
                                \/ (dlg[c].state = "none" /\ handle[c] = None)
    PROVE  MediaInv'
<1>1. IdsKept /\ Ids'
  BY DEF IdsKept, Ids, MediaInv
<1>2. OnlyCall(c)
  BY DEF OnlyCall
<1>3. CallOK(c)
  BY DEF MediaInv
<1>4. CallOK(c)'
  BY <1>3 DEF CallOK, Owns, Ringing
<1>5. Quiet(c)
  BY DEF Quiet, Live
<1>6. Live(c)' => dlg[c].sid # None
  BY <1>3 DEF CallOK, Live
<1> QED BY <1>1, <1>2, <1>4, <1>5, <1>6, CallStep

LEMMA MediaCalls ==
    ASSUME Shape, NodeInv, MediaInv, CallNext
    PROVE  MediaInv'
<1>t. /\ dlg \in [Call -> DlgRec] /\ handle \in [Call -> Sid \cup {None}]
      /\ client \in [Call -> Sid \cup {None}]
      /\ picked \in [Call -> Node \cup {None}]
      /\ sessionToNode \in [Sid -> Node \cup {None}]
      /\ used \subseteq Sid
  BY DEF Shape, CallTypes, PoolTypes
<1>n. None \notin Sid /\ None \notin Node
  BY NoneIsNew DEF NoneIsNew
<1>i. Ids /\ \A e \in Call : CallOK(e)
  BY DEF MediaInv
<1>1. ASSUME NEW c \in Call, SelectMember(c) PROVE MediaInv'
  <2>1. /\ UNCHANGED <<op, mig, stranded, sessionToNode, rtp, used, dlg, handle,
                       client, cbs>>
        /\ dlg[c].state = "none" /\ handle[c] = None
        /\ \E n \in Node : picked' = [picked EXCEPT ![c] = n]
    BY <1>1 DEF SelectMember, poolVars, drainVars
  <2>2. \A e \in Call \ {c} : picked'[e] = picked[e]
    BY <1>t, <2>1
  <2> QED BY <2>1, <2>2, IdleStep
<1>2. ASSUME NEW c \in Call, CreateSession(c) PROVE MediaInv'
  <2>1. PICK s \in Sid \ used :
         /\ used' = used \cup {s}
         /\ rtp' = [rtp EXCEPT ![s] = [node |-> picked[c], call |-> c]]
         /\ sessionToNode' = [sessionToNode EXCEPT ![s] = picked[c]]
         /\ handle' = [handle EXCEPT ![c] = s]
         /\ IF c \in BLegs THEN UNCHANGED <<dlg, client>>
            ELSE /\ dlg' = [dlg EXCEPT ![c] = [state |-> "Early", sid |-> s]]
                 /\ client' = [client EXCEPT ![c] = s]
    BY <1>2 DEF CreateSession, TrackSession
  <2>2. /\ picked[c] \in Node /\ picked' = [picked EXCEPT ![c] = None]
        /\ UNCHANGED <<op, mig, stranded, cbs>>
    BY <1>2, <1>t DEF CreateSession, drainVars
  <2>3. /\ Ids' /\ IdsKept /\ Owns(s, c)' /\ sessionToNode'[s] = picked[c]
        /\ \A e \in Call \ {c} : \A x \in Sid :
              Owns(x, e) => sessionToNode'[x] = sessionToNode[x]
    BY <1>i, <2>1, <2>2, CreateFacts
  <2>4. dlg[c].state = "none" /\ dlg[c].sid = None /\ handle[c] = None /\ c \notin cbs
    BY <1>i, <1>n, <2>2 DEF CallOK
  <2>5. /\ handle'[c] = s /\ picked'[c] = None
        /\ \A e \in Call \ {c} : handle'[e] = handle[e] /\ picked'[e] = picked[e]
    BY <1>t, <2>1, <2>2
  <2>6. /\ c \in BLegs => dlg'[c] = dlg[c] /\ client'[c] = client[c]
        /\ c \notin BLegs => /\ dlg'[c].state = "Early" /\ dlg'[c].sid = s
                             /\ client'[c] = s
        /\ \A e \in Call \ {c} : dlg'[e] = dlg[e] /\ client'[e] = client[e]
    BY <1>t, <2>1
  <2>7. OnlyCall(c)
    BY <2>2, <2>3, <2>5, <2>6 DEF OnlyCall
  <2>8. CallOK(c)'
    BY <1>n, <2>2, <2>3, <2>4, <2>5, <2>6 DEF CallOK, Ringing
  <2>9. Live(c)' => client'[c] = dlg'[c].sid /\ sessionToNode'[dlg'[c].sid] # None
    BY <1>n, <2>2, <2>3, <2>4, <2>6 DEF Live
  <2> QED BY <2>2, <2>3, <2>4, <2>7, <2>8, <2>9, CallStep
<1>3. ASSUME NEW c \in Call, CreateSessionFails(c) PROVE MediaInv'
  <2>1. /\ UNCHANGED <<op, mig, stranded, sessionToNode, rtp, used, dlg, handle,
                       client, cbs>>
        /\ picked' = [picked EXCEPT ![c] = None]
    BY <1>3 DEF CreateSessionFails, drainVars
  <2>2. /\ \A e \in Call \ {c} : picked'[e] = picked[e]
        /\ picked'[c] = None
    BY <1>t, <2>1
  <2> QED BY <2>1, <2>2, IdleStep
<1>a. ASSUME NEW c \in Call, NEW st \in {"Confirmed", "Terminated"},
             dlg[c].state \in {"Early", "Confirmed"},
             dlg' = [dlg EXCEPT ![c].state = st],
             cbs' = IF st = "Terminated" THEN cbs \cup {c} ELSE cbs,
             UNCHANGED <<op, mig, stranded, sessionToNode, rtp, used, handle,
                         client, picked>>
      PROVE  MediaInv'
  <2>1. /\ dlg'[c].state = st /\ dlg'[c].sid = dlg[c].sid
        /\ \A e \in Call \ {c} : dlg'[e] = dlg[e]
    BY <1>a, <1>t DEF DlgRec
  <2>2. CallOK(c) /\ dlg[c].sid # None /\ picked[c] = None /\ c \notin cbs
    BY <1>a, <1>i DEF CallOK
  <2>3. IdsKept /\ Ids'
    BY <1>a, <1>i DEF IdsKept, Ids
  <2>4. OnlyCall(c)
    BY <1>a, <2>1 DEF OnlyCall
  <2>5. CallOK(c)'
    BY <1>a, <2>1, <2>2 DEF CallOK, Owns, Ringing
  <2>6. Quiet(c)
    BY <1>a, <2>1 DEF Quiet, Live
  <2> QED BY <1>a, <2>2, <2>3, <2>4, <2>5, <2>6, CallStep
<1>4. ASSUME NEW c \in Call, Confirm(c) PROVE MediaInv'
  <2>1. /\ dlg[c].state = "Early" /\ dlg' = [dlg EXCEPT ![c].state = "Confirmed"]
        /\ UNCHANGED <<op, mig, stranded, sessionToNode, rtp, used, handle,
                       client, picked, cbs>>
    BY <1>4 DEF Confirm, poolVars, drainVars
  <2> QED BY <1>a, <2>1
<1>5. ASSUME NEW c \in Call, Handle2xx(c) PROVE MediaInv'
  <2>1. /\ c \in BLegs /\ dlg[c].state = "none" /\ handle[c] # None /\ Ringing(c)
        /\ dlg' = [dlg EXCEPT ![c] = [state |-> "Confirmed", sid |-> handle[c]]]
        /\ client' = [client EXCEPT ![c] = handle[c]]
        /\ UNCHANGED <<op, mig, stranded, sessionToNode, rtp, used, handle,
                       picked, cbs>>
    BY <1>5 DEF Handle2xx, Ringing, poolVars, drainVars
  <2>2. /\ dlg'[c].state = "Confirmed" /\ dlg'[c].sid = handle[c]
        /\ client'[c] = handle[c]
        /\ \A e \in Call \ {c} : dlg'[e] = dlg[e] /\ client'[e] = client[e]
    BY <1>t, <2>1
  <2>3. /\ dlg[c].sid = None /\ sessionToNode[handle[c]] # None
        /\ Owns(handle[c], c) /\ picked[c] = None /\ c \notin cbs
    BY <1>i, <2>1 DEF CallOK
  <2>4. IdsKept /\ Ids'
    BY <1>i, <2>1 DEF IdsKept, Ids
  <2>5. OnlyCall(c)
    BY <2>1, <2>2 DEF OnlyCall
  <2>6. CallOK(c)'
    BY <2>1, <2>2, <2>3 DEF CallOK, Owns, Ringing
  <2> QED BY <2>1, <2>2, <2>3, <2>4, <2>5, <2>6, CallStep
<1>6. ASSUME NEW c \in Call, Terminate(c) PROVE MediaInv'
  <2>1. /\ dlg[c].state \in {"Early", "Confirmed"} /\ cbs' = cbs \cup {c}
        /\ dlg' = [dlg EXCEPT ![c].state = "Terminated"]
        /\ UNCHANGED <<op, mig, stranded, sessionToNode, rtp, used, handle,
                       client, picked>>
    BY <1>6 DEF Terminate, poolVars, drainVars
  <2> QED BY <1>a, <2>1
<1>7. ASSUME NEW c \in Call, OnTerminated(c) PROVE MediaInv'
  <2>1. /\ c \in cbs /\ cbs' = cbs \ {c} /\ DestroySession(dlg[c].sid, FALSE)
        /\ UNCHANGED <<op, mig, stranded, used, dlg, handle, client, picked>>
    BY <1>7 DEF OnTerminated, drainVars
  <2>2. /\ dlg[c].state = "Terminated" /\ dlg[c].sid \in Sid
        /\ Owns(dlg[c].sid, c) /\ CallOK(c) /\ picked[c] = None
    BY <1>i, <1>t, <2>1 DEF CallOK, DlgRec
  <2>3. PICK x \in Sid : x = dlg[c].sid
    BY <2>2
  <2>4. /\ Ids' /\ IdsKept /\ sessionToNode'[x] = None
        /\ \A s \in Sid \ {x} : sessionToNode'[s] = sessionToNode[s]
        /\ \A e \in Call \ {c} : \A s \in Sid :
              Owns(s, e) => sessionToNode'[s] = sessionToNode[s]
    BY <1>i, <2>1, <2>2, <2>3, DestroyFacts
  <2>5. OnlyCall(c)
    BY <2>1, <2>4 DEF OnlyCall
  <2>6. PICK y : y = handle[c]
    OBVIOUS
  <2>7. Owns(x, c)' /\ (y # None => Owns(y, c)')
    BY <2>2, <2>3, <2>4, <2>6, OwnsKept DEF CallOK
  <2>9. CallOK(c)'
    BY <2>1, <2>2, <2>3, <2>6, <2>7 DEF CallOK, Ringing, Owns
  <2>8. Quiet(c)
    BY <2>1, <2>2, <2>4 DEF Quiet, Live
  <2> QED BY <1>n, <2>1, <2>2, <2>4, <2>5, <2>8, <2>9, CallStep
<1>8. ASSUME NEW c \in Call, DialFails(c) PROVE MediaInv'
  <2>1. /\ Ringing(c) /\ DestroySession(handle[c], FALSE)
        /\ dlg' = [dlg EXCEPT ![c].state = "Terminated"]
        /\ UNCHANGED <<op, mig, stranded, used, handle, client, picked, cbs>>
    BY <1>8 DEF DialFails, drainVars
  <2>2. /\ dlg[c].state = "none" /\ handle[c] \in Sid /\ dlg[c].sid = None
        /\ Owns(handle[c], c) /\ CallOK(c) /\ picked[c] = None /\ c \notin cbs
    BY <1>i, <1>t, <2>1 DEF CallOK, Ringing
  <2>3. PICK x \in Sid : x = handle[c]
    BY <2>2
  <2>4. /\ Ids' /\ IdsKept
        /\ \A e \in Call \ {c} : \A s \in Sid :
              Owns(s, e) => sessionToNode'[s] = sessionToNode[s]
    BY <1>i, <2>1, <2>2, <2>3, DestroyFacts
  <2>5. /\ dlg'[c].state = "Terminated" /\ dlg'[c].sid = None
        /\ \A e \in Call \ {c} : dlg'[e] = dlg[e]
    BY <1>t, <2>1, <2>2 DEF DlgRec
  <2>6. OnlyCall(c)
    BY <2>1, <2>4, <2>5 DEF OnlyCall
  <2>7. Owns(x, c)'
    BY <2>2, <2>3, <2>4, OwnsKept
  <2>8. CallOK(c)'
    BY <2>1, <2>2, <2>3, <2>5, <2>7 DEF CallOK, Ringing
  <2>9. ~Live(c)'
    BY <2>5 DEF Live
  <2> QED BY <2>1, <2>2, <2>4, <2>6, <2>8, <2>9, CallStep
<1>9. ASSUME NEW c \in Call, StartBridge(c) PROVE MediaInv'
  <2>1. /\ UNCHANGED <<op, mig, sessionToNode, rtp, used, dlg, handle, client,
                       cbs, picked>>
        /\ stranded \subseteq stranded'
    BY <1>9 DEF StartBridge, poolVars
  <2> QED BY <2>1, IdleStep
<1>10. ASSUME NEW c \in Call, StopBridge(c) PROVE MediaInv'
  <2>1. UNCHANGED <<op, mig, sessionToNode, rtp, used, dlg, handle, client,
                    cbs, picked, stranded>>
    BY <1>10 DEF StopBridge, poolVars, drainVars
  <2> QED BY <2>1, IdleStep
<1> QED BY <1>1, <1>2, <1>3, <1>4, <1>5, <1>6, <1>7, <1>8, <1>9, <1>10
        DEF CallNext

-----------------------------------------------------------------------------
(* Drain operations *)

CallsSame == UNCHANGED <<sessionToNode, rtp, used, dlg, handle, client, cbs,
                         picked, stranded>>

\* A step that leaves the calls and the migrations that move legs alone.
LEMMA DrainStep ==
    ASSUME Shape, NodeInv, MediaInv, CallsSame,
           \A d \in DrainOp : OpOK(d)',
           \A d \in DrainOp, r \in Sid :
              mig[d][r].pc \in Moving \/ mig'[d][r].pc \in Moving =>
                 mig'[d][r] = mig[d][r] /\ op'[d].snap = op[d].snap
    PROVE  MediaInv'
<1> USE DEF CallsSame
<1>1. Ids' /\ \A c \in Call : CallOK(c)'
  <2>1. Ids /\ \A c \in Call : CallOK(c)
    BY DEF MediaInv
  <2> QED BY <2>1 DEF Ids, CallOK, Owns, Ringing
<1>2. ASSUME NEW d \in DrainOp, NEW r \in Sid PROVE MigOK(d, r)'
  <2>1. PICK m : m = mig'[d][r]
    OBVIOUS
  <2>2. CASE m.pc \in Moving
    <3>1. m = mig[d][r] /\ op'[d].snap = op[d].snap
      BY <2>1, <2>2
    <3>2. MovingOK(m, r, op'[d].snap) /\ LegsOK(m)
      BY <2>2, <3>1, MigNow DEF MediaInv
    <3>3. LegsOK(m)'
      BY <3>2 DEF LegsOK, Owns, Live
    <3> QED BY <2>1, <3>2, <3>3, MigNext
  <2>3. CASE m.pc \notin Moving
    BY <2>1, <2>3, MigNext
  <2> QED BY <2>2, <2>3
<1>3. Apart'
  BY DEF MediaInv, Apart
<1>4. Heard'
  <2> SUFFICES ASSUME NEW c \in Call, Live(c)', ~InMigration(c)'
               PROVE  client[c] = dlg[c].sid /\ sessionToNode[dlg[c].sid] # None
    BY DEF Heard
  <2>1. Live(c) /\ ~InMigration(c)
    BY DEF Live, InMigration
  <2> QED BY <2>1 DEF MediaInv, Heard
<1> QED BY <1>1, <1>2, <1>3, <1>4 DEF MediaInv

LEMMA OpSame ==
    ASSUME CallsSame, NEW d \in DrainOp, OpOK(d), op'[d] = op[d], mig'[d] = mig[d]
    PROVE  OpOK(d)'
BY DEF CallsSame, OpOK

\* An operation that is over, or that has not begun, has no migrations.
LEMMA OpPasses ==
    ASSUME Shape, NodeInv, MediaInv, CallsSame, NEW d \in DrainOp, UNCHANGED mig,
           NEW f \in OpRec, op' = [op EXCEPT ![d] = f],
           \/ f.pc = op[d].pc /\ f.snap = op[d].snap /\ f.node = op[d].node
              /\ f.target = op[d].target
           \/ /\ f.pc # "migrating"
              /\ f.pc = "start" =>
                    f.snap = SessionsOnNode(f.node) /\ f.node \in Node
              /\ \A r \in Sid : mig[d][r].pc \in {"none", "skipped", "done"}
    PROVE  MediaInv'
<1>1. op'[d] = f /\ \A e \in DrainOp \ {d} : op'[e] = op[e]
  BY DEF Shape, DrainTypes
<1>2. \A e \in DrainOp \ {d} : OpOK(e)'
  BY <1>1, OpSame DEF MediaInv
<1>3. OpOK(d)'
  <2>1. OpOK(d) /\ Ids
    BY DEF MediaInv
  <2>2. CASE f.pc = op[d].pc /\ f.snap = op[d].snap /\ f.node = op[d].node
             /\ f.target = op[d].target
    BY <1>1, <2>1, <2>2 DEF OpOK, CallsSame
  <2>3. CASE ~(f.pc = op[d].pc /\ f.snap = op[d].snap /\ f.node = op[d].node
               /\ f.target = op[d].target)
    <3>1. f.pc = "start" => \A s \in f.snap :
             s \in used /\ (rtp[s] # None => rtp[s].node = f.node)
      BY <2>1, <2>3, NoneIsNew DEF SessionsOnNode, Ids, NoneIsNew
    <3> QED BY <1>1, <2>3, <3>1 DEF OpOK, CallsSame
  <2> QED BY <2>2, <2>3
<1>4. \A e \in DrainOp, r \in Sid :
         mig[e][r].pc \in Moving \/ mig'[e][r].pc \in Moving =>
            mig'[e][r] = mig[e][r] /\ op'[e].snap = op[e].snap
  BY <1>1 DEF Moving, Placed
<1> QED BY <1>2, <1>3, <1>4, DrainStep

LEMMA MediaOps ==
    ASSUME Shape, NodeInv, MediaInv, NEW d \in DrainOp,
           OpStep(d) \/ Timeout(d) \/ \E n \in Node : StartDrain(d, n)
    PROVE  MediaInv'
<1>t. op \in [DrainOp -> OpRec]
  BY DEF Shape, DrainTypes
<1>o. op[d] \in OpRec /\ OpOK(d)
  BY <1>t DEF MediaInv
<1>i. \A r \in Sid : mig[d][r].pc # "none" => op[d].pc \notin {"new", "start"}
  BY DEF Shape, Migs
<1>1. ASSUME NEW p \in OpPC, NEW b \in BOOLEAN, UNCHANGED mig, CallsSame,
             op' = [op EXCEPT ![d].pc = p, ![d].failed = b],
             p \notin {"start", "migrating"},
             \A r \in Sid : mig[d][r].pc \in {"none", "skipped", "done"}
      PROVE  MediaInv'
  <2>1. PICK f : f = [op[d] EXCEPT !.pc = p, !.failed = b]
    OBVIOUS
  <2>2. f \in OpRec /\ f.pc = p
    BY <1>o, <2>1 DEF OpRec
  <2>3. op' = [op EXCEPT ![d] = f]
    BY <1>1, <1>t, <2>1
  <2> QED BY <1>1, <2>2, <2>3, OpPasses
<1>2. ASSUME NEW p \in OpPC, UNCHANGED mig, CallsSame,
             op' = [op EXCEPT ![d].pc = p],
             p \notin {"start", "migrating"},
             \A r \in Sid : mig[d][r].pc \in {"none", "skipped", "done"}
      PROVE  MediaInv'
  <2>1. PICK f : f = [op[d] EXCEPT !.pc = p]
    OBVIOUS
  <2>2. f \in OpRec /\ f.pc = p
    BY <1>o, <2>1 DEF OpRec
  <2>3. op' = [op EXCEPT ![d] = f]
    BY <1>2, <1>t, <2>1
  <2> QED BY <1>2, <2>2, <2>3, OpPasses
<1>q. op[d].pc # "migrating" =>
         \A r \in Sid : mig[d][r].pc \in {"none", "skipped", "done"}
  BY <1>o DEF OpOK
<1>3. CASE NoSessions(d) \/ CompleteDrain(d) \/ Disable(d)
  <2>1. \E p \in {"complete", "disable", "done"} : op' = [op EXCEPT ![d].pc = p]
    BY <1>3 DEF NoSessions, CompleteDrain, Disable
  <2>2. op[d].pc # "migrating" /\ UNCHANGED mig /\ CallsSame
    BY <1>3 DEF NoSessions, CompleteDrain, Disable, CallsSame, poolVars, callVars
  <2> QED BY <1>2, <1>q, <2>1, <2>2 DEF OpPC
<1>4. CASE Wait(d)
  <2>1. \E p \in {"complete", "done"} : op' = [op EXCEPT ![d].pc = p]
    BY <1>4 DEF Wait
  <2>2. /\ UNCHANGED mig /\ CallsSame
        /\ \A r \in Sid : mig[d][r].pc \in {"none", "skipped", "done"}
    BY <1>4 DEF Wait, CallsSame, poolVars, callVars
  <2> QED BY <1>2, <2>1, <2>2 DEF OpPC
<1>5. CASE FailDrain(d)
  <2>1. /\ op' = [op EXCEPT ![d].pc = "done", ![d].failed = TRUE]
        /\ op[d].pc # "migrating" /\ UNCHANGED mig /\ CallsSame
    BY <1>5 DEF FailDrain, CallsSame, callVars
  <2> QED BY <1>1, <1>q, <2>1 DEF OpPC
<1>6. CASE Timeout(d)
  <2>1. PICK f : f = [op[d] EXCEPT !.cancelled = TRUE]
    OBVIOUS
  <2>2. /\ f \in OpRec /\ f.pc = op[d].pc /\ f.snap = op[d].snap
        /\ f.node = op[d].node /\ f.target = op[d].target
    BY <1>o, <2>1 DEF OpRec
  <2>3. op' = [op EXCEPT ![d] = f] /\ UNCHANGED mig /\ CallsSame
    BY <1>6, <1>t, <2>1 DEF Timeout, CallsSame, callVars
  <2> QED BY <2>2, <2>3, OpPasses
<1>7. ASSUME NEW n \in Node, StartDrain(d, n) PROVE MediaInv'
  <2>1. PICK f : f = [NoOp EXCEPT !.pc = "start", !.node = n,
                                  !.snap = SessionsOnNode(n)]
    OBVIOUS
  <2>2. /\ f.pc = "start" /\ f.node = n /\ f.snap = SessionsOnNode(n)
        /\ f \in OpRec
    BY <2>1 DEF NoOp, OpRec, OpPC, SessionsOnNode
  <2>3. /\ op' = [op EXCEPT ![d] = f] /\ UNCHANGED mig /\ CallsSame
        /\ op[d].pc = "new"
    BY <1>7, <2>1 DEF StartDrain, CallsSame, callVars
  <2> QED BY <1>q, <2>2, <2>3, OpPasses
<1>8. CASE Migrate(d)
  <2>1. PICK t \in Node \ {op[d].node} :
           op' = [op EXCEPT ![d].pc = "migrating", ![d].target = t]
    BY <1>8 DEF Migrate
  <2>2. /\ op[d].pc = "start" /\ CallsSame
        /\ mig' = [mig EXCEPT ![d] = [s \in Sid |->
                      IF s \in op[d].snap THEN [Idle EXCEPT !.pc = "queued"]
                                          ELSE Idle]]
    BY <1>8 DEF Migrate, CallsSame, poolVars, callVars
  <2>3. /\ op'[d].pc = "migrating" /\ op'[d].target = t
        /\ op'[d].node = op[d].node /\ op'[d].snap = op[d].snap
        /\ \A e \in DrainOp \ {d} : op'[e] = op[e]
    BY <1>t, <2>1 DEF OpRec
  <2>4. /\ \A e \in DrainOp \ {d} : mig'[e] = mig[e]
        /\ \A r \in Sid : /\ mig'[d][r].pc \in {"none", "queued"}
                          /\ mig'[d][r].pc = "queued" => r \in op[d].snap
    BY <2>2 DEF Shape, DrainTypes, Idle
  <2>5. OpOK(d)'
    BY <1>o, <2>1, <2>2, <2>3, <2>4 DEF OpOK, CallsSame
  <2>6. \A e \in DrainOp \ {d} : OpOK(e)'
    BY <2>2, <2>3, <2>4, OpSame DEF MediaInv
  <2>7. \A e \in DrainOp, r \in Sid :
           mig[e][r].pc \in Moving \/ mig'[e][r].pc \in Moving =>
              mig'[e][r] = mig[e][r] /\ op'[e].snap = op[e].snap
    BY <1>i, <2>2, <2>3, <2>4 DEF Moving, Placed
  <2> QED BY <2>2, <2>5, <2>6, <2>7, DrainStep
<1> QED BY <1>3, <1>4, <1>5, <1>6, <1>7, <1>8 DEF OpStep

LEMMA MediaNodes ==
    ASSUME Shape, NodeInv, MediaInv, NEW n \in Node,
           CancelDrain(n) \/ CheckHealth(n)
    PROVE  MediaInv'
<1>1. CASE CheckHealth(n)
  <2>1. CallsSame /\ UNCHANGED <<op, mig>>
    BY <1>1 DEF CheckHealth, CallsSame, callVars, drainVars
  <2>2. \A d \in DrainOp : OpOK(d)'
    BY <2>1, OpSame DEF MediaInv
  <2> QED BY <2>1, <2>2, DrainStep
<1>2. CASE CancelDrain(n)
  <2>1. PICK d \in DrainOp : d = activeDrains[n]
    BY <1>2 DEF CancelDrain, Shape, DrainTypes
  <2>2. /\ op' = [op EXCEPT ![d].cancelled = TRUE] /\ UNCHANGED mig /\ CallsSame
    BY <1>2, <2>1 DEF CancelDrain, CallsSame, callVars
  <2>3. op \in [DrainOp -> OpRec]
    BY DEF Shape, DrainTypes
  <2>4. PICK f : f = [op[d] EXCEPT !.cancelled = TRUE]
    OBVIOUS
  <2>5. /\ f \in OpRec /\ f.pc = op[d].pc /\ f.snap = op[d].snap
        /\ f.node = op[d].node /\ f.target = op[d].target
    BY <2>3, <2>4 DEF OpRec
  <2>6. op' = [op EXCEPT ![d] = f]
    BY <2>2, <2>3, <2>4
  <2> QED BY <2>2, <2>5, <2>6, OpPasses
<1> QED BY <1>1, <1>2

-----------------------------------------------------------------------------
(* Migrations *)

\* What is known of the legs of a migration.
LEMMA LegsKnown ==
    ASSUME Shape, NodeInv, MediaInv, NEW d \in DrainOp, NEW r \in Sid,
           NEW m \in MigRec, m = mig[d][r], m.pc \in Moving,
           NEW i \in 1..Len(m.legs), NEW e, e = m.legs[i]
    PROVE  /\ e \in Call /\ m.old[i] \in Sid /\ Owns(m.old[i], e)
           /\ i <= Len(m.new) => m.new[i] \in Sid /\ Owns(m.new[i], e)
           /\ LegOK(m, i, dlg[e].sid, client[e], Live(e), sessionToNode)
           /\ dlg[e].sid \in Sid /\ Owns(dlg[e].sid, e)
           /\ \A j \in 1..Len(m.legs) : m.legs[j] = e => j = i
<1>1. Legs(m) /\ MovingOK(m, r, op[d].snap) /\ LegsOK(m)
  BY MigNow DEF Shape, Migs, MediaInv
<1>2. /\ m.legs \in Seq(Call) /\ m.new \in Seq(Sid)
      /\ m.old \in Seq(Sid \cup {None})
      /\ Len(m.legs) \in {1, 2} /\ Len(m.new) \in 0..Len(m.legs)
      /\ m.pc # "create" => Len(m.new) = Len(m.legs)
  BY <1>1, LegFacts
<1>3. Len(m.old) \in Nat /\ Len(m.old) >= Len(m.legs)
  BY <1>1, <1>2 DEF MovingOK
<1>4. e \in Call /\ i \in 1..Len(m.old) /\ (i <= Len(m.new) => i \in 1..Len(m.new))
  BY <1>2, <1>3
<1>5. /\ m.old[i] # None /\ Owns(m.old[i], e)
      /\ i <= Len(m.new) => Owns(m.new[i], e)
      /\ LegOK(m, i, dlg[e].sid, client[e], Live(e), sessionToNode)
  BY <1>1 DEF LegsOK
<1>6. m.old[i] \in Sid /\ (i <= Len(m.new) => m.new[i] \in Sid)
  BY <1>2, <1>4, <1>5
<1>7. dlg[e].sid \in Sid /\ Owns(dlg[e].sid, e)
  <2>1. Updated(m, i) => i <= Len(m.new)
    BY <1>2 DEF Updated
  <2>2. dlg[e].sid = IF Updated(m, i) THEN m.new[i] ELSE m.old[i]
    BY <1>5 DEF LegOK
  <2> QED BY <1>5, <1>6, <2>1, <2>2
<1>8. ASSUME NEW j \in 1..Len(m.legs), m.legs[j] = e PROVE j = i
  BY <1>8, LegsApart
<1> QED BY <1>4, <1>5, <1>6, <1>7, <1>8

\* A step of a migration on one of its legs.
LegSame(m, i) ==
    LET e == m.legs[i] IN
    /\ dlg'[e] = dlg[e] /\ client'[e] = client[e] /\ (Live(e)' => Live(e))
    /\ sessionToNode'[m.old[i]] = sessionToNode[m.old[i]]
    /\ sessionToNode'[dlg[e].sid] = sessionToNode[dlg[e].sid]
    /\ i <= Len(m.new) => sessionToNode'[m.new[i]] = sessionToNode[m.new[i]]

LEMMA OtherLegs ==
    ASSUME Shape, NodeInv, MediaInv, NEW d \in DrainOp, NEW r \in Sid,
           NEW m \in MigRec, m = mig[d][r], m.pc \in Moving,
           NEW c \in Call, OnlyCall(c),
           NEW i \in 1..Len(m.legs), m.legs[i] # c
    PROVE  LegSame(m, i)
<1>1. PICK e : e = m.legs[i]
  OBVIOUS
<1>2. /\ e \in Call /\ e # c /\ m.old[i] \in Sid /\ Owns(m.old[i], e)
      /\ i <= Len(m.new) => m.new[i] \in Sid /\ Owns(m.new[i], e)
      /\ dlg[e].sid \in Sid /\ Owns(dlg[e].sid, e)
  BY <1>1, LegsKnown
<1>3. /\ dlg'[e] = dlg[e] /\ client'[e] = client[e] /\ (Live(e)' => Live(e))
      /\ \A s \in Sid : Owns(s, e) => sessionToNode'[s] = sessionToNode[s]
  BY <1>2 DEF OnlyCall, Live
<1>4. /\ sessionToNode'[m.old[i]] = sessionToNode[m.old[i]]
      /\ sessionToNode'[dlg[e].sid] = sessionToNode[dlg[e].sid]
      /\ i <= Len(m.new) => sessionToNode'[m.new[i]] = sessionToNode[m.new[i]]
  BY <1>2, <1>3
<1> QED BY <1>1, <1>3, <1>4 DEF LegSame, Live

OneMig(d, r, n) ==
    /\ mig'[d][r] = n
    /\ \A e \in DrainOp, q \in Sid : e # d \/ q # r => mig'[e][q] = mig[e][q]
    /\ \A e \in DrainOp : /\ op'[e].pc = op[e].pc /\ op'[e].node = op[e].node
                          /\ op'[e].target = op[e].target
                          /\ op'[e].snap = op[e].snap

HeardNext(e) == Live(e)' => /\ client'[e] = dlg'[e].sid
                            /\ sessionToNode'[dlg'[e].sid] # None

LEMMA MigFrame ==
    ASSUME Shape, NodeInv, MediaInv, NEW d \in DrainOp, NEW r \in Sid,
           NEW m \in MigRec, m = mig[d][r], m.pc \in Moving,
           NEW k \in 1..Len(m.legs), NEW c, c = m.legs[k],
           NEW n \in MigRec, OneMig(d, r, n), n.pc \in Moving \cup {"done"},
           IdsKept, Ids', OnlyCall(c), CallOK(c)',
           n.pc \in Moving =>
              /\ MovingOK(n, r, op[d].snap) /\ LegsOK(n)'
              /\ n.legs[1] = m.legs[1]
              /\ Len(n.legs) <= Len(m.legs)
              /\ \A i \in 1..Len(n.legs) : n.legs[i] = m.legs[i],
           \A i \in 1..Len(m.legs) : n.pc = "done" \/ i > Len(n.legs) =>
              HeardNext(m.legs[i])
    PROVE  MediaInv'
<1>0. c \in Call /\ \A i \in 1..Len(m.legs) : m.legs[i] \in Call
  BY LegsKnown
<1>l. Len(n.legs) \in Nat /\ Len(m.legs) \in Nat
  BY DEF MigRec
<1>1. \A e \in Call : CallOK(e)'
  BY <1>0, CallCarried DEF MediaInv
<1>2. ASSUME NEW e \in DrainOp PROVE OpOK(e)'
  <2>1. OpOK(e) /\ OpOK(d)
    BY DEF MediaInv
  <2>2. op[d].pc = "migrating" /\ r \in op[d].snap
    BY <2>1 DEF OpOK, Moving, Placed
  <2>3. /\ op'[e].pc = op[e].pc /\ op'[e].node = op[e].node
        /\ op'[e].target = op[e].target /\ op'[e].snap = op[e].snap
    BY DEF OneMig
  <2>4. \A q \in Sid : mig'[e][q].pc \notin {"none", "skipped", "done"} =>
           op[e].pc = "migrating" /\ q \in op[e].snap
    BY <2>1, <2>2 DEF OpOK, OneMig
  <2> QED BY <2>1, <2>3, <2>4 DEF OpOK, IdsKept
<1>3. ASSUME NEW e \in DrainOp, NEW q \in Sid PROVE MigOK(e, q)'
  <2>1. op'[e].snap = op[e].snap
    BY DEF OneMig
  <2>2. CASE e = d /\ q = r
    BY <2>1, <2>2, MigNext DEF OneMig
  <2>3. CASE ~(e = d /\ q = r)
    <3>1. PICK p \in MigRec : p = mig[e][q]
      BY DEF Shape, DrainTypes
    <3>2. p = mig'[e][q]
      BY <2>3, <3>1 DEF OneMig
    <3>3. CASE p.pc \in Moving
      <4>1. MovingOK(p, q, op[e].snap) /\ LegsOK(p) /\ Legs(p)
        BY <3>1, <3>3, MigNow DEF MediaInv, Shape, Migs
      <4>2. /\ Len(p.legs) \in {1, 2} /\ Len(p.new) \in 0..Len(p.legs)
        BY <3>3, <4>1, LegFacts
      <4>3. Len(p.old) >= Len(p.legs) /\ Len(p.new) <= Len(p.legs)
        BY <4>1, <4>2 DEF MovingOK
      <4>4. \A i \in 1..Len(p.legs) : p.legs[i] # c
        BY <2>3, <3>1, <3>3, LegsApart
      <4>5. LegsOK(p)'
        BY <4>1, <4>3, <4>4, LegsCarried DEF MediaInv
      <4> QED BY <2>1, <3>2, <4>1, <4>5, MigNext
    <3>4. CASE p.pc \notin Moving
      BY <3>2, <3>4, MigNext
    <3> QED BY <3>3, <3>4
  <2> QED BY <2>2, <2>3
<1>4. Apart'
  <2> SUFFICES ASSUME NEW e \in DrainOp, NEW p \in Sid, NEW q \in Sid,
                      mig'[e][p].pc \in Moving, mig'[e][q].pc \in Moving,
                      mig'[e][p].legs[1] = mig'[e][q].legs[1]
               PROVE  p = q
    BY DEF Apart
  <2>1. \A s \in Sid : mig'[e][s].pc \in Moving =>
           mig[e][s].pc \in Moving /\ mig'[e][s].legs[1] = mig[e][s].legs[1]
    BY DEF OneMig
  <2> QED BY <2>1 DEF MediaInv, Apart
<1>5. Heard'
  <2> SUFFICES ASSUME NEW e \in Call, Live(e)', ~InMigration(e)'
               PROVE  client'[e] = dlg'[e].sid /\ sessionToNode'[dlg'[e].sid] # None
    BY DEF Heard
  <2>1. CASE \E i \in 1..Len(m.legs) : m.legs[i] = e
    <3>1. PICK i \in 1..Len(m.legs) : m.legs[i] = e
      BY <2>1
    <3>2. CASE n.pc = "done" \/ i > Len(n.legs)
      BY <3>1, <3>2 DEF HeardNext
    <3>3. CASE n.pc \in Moving /\ ~(i > Len(n.legs))
      <4>1. i \in 1..Len(n.legs) /\ n.legs[i] = e
        BY <1>l, <3>1, <3>3
      <4>2. InMigration(e)'
        BY <3>3, <4>1 DEF InMigration, OneMig
      <4> QED BY <4>2
    <3> QED BY <3>2, <3>3
  <2>2. CASE ~(\E i \in 1..Len(m.legs) : m.legs[i] = e)
    <3>1. e # c
      BY <2>2
    <3>2. ~InMigration(e)
      <4> SUFFICES ASSUME NEW f \in DrainOp, NEW q \in Sid, mig[f][q].pc \in Moving,
                          NEW i \in 1..Len(mig[f][q].legs), mig[f][q].legs[i] = e
                   PROVE  FALSE
        BY DEF InMigration
      <4>1. f # d \/ q # r
        BY <2>2
      <4>2. mig'[f][q] = mig[f][q]
        BY <4>1 DEF OneMig
      <4>3. InMigration(e)'
        BY <4>2 DEF InMigration
      <4> QED BY <4>3
    <3>3. dlg'[e] = dlg[e] /\ client'[e] = client[e] /\ Live(e)
      BY <3>1 DEF OnlyCall, Live
    <3>4. dlg[e].sid \in Sid /\ Owns(dlg[e].sid, e)
      BY <3>3 DEF Live, MediaInv, CallOK, Shape, CallTypes, DlgRec
    <3>5. sessionToNode'[dlg[e].sid] = sessionToNode[dlg[e].sid]
      BY <3>1, <3>4 DEF OnlyCall
    <3>6. client[e] = dlg[e].sid /\ sessionToNode[dlg[e].sid] # None
      BY <3>2, <3>3 DEF MediaInv, Heard
    <3> QED BY <3>3, <3>5, <3>6
  <2> QED BY <2>1, <2>2
<1> QED BY <1>1, <1>2, <1>3, <1>4, <1>5 DEF MediaInv

LEMMA MigOnly ==
    ASSUME Shape, NEW d \in DrainOp, NEW r \in Sid, NEW n,
           mig' = [mig EXCEPT ![d][r] = n], Fails(d) \/ UNCHANGED op
    PROVE  OneMig(d, r, n)
<1>1. mig \in [DrainOp -> [Sid -> MigRec]] /\ op \in [DrainOp -> OpRec]
  BY DEF Shape, DrainTypes
<1>2. /\ mig'[d][r] = n
      /\ \A e \in DrainOp, q \in Sid : e # d \/ q # r => mig'[e][q] = mig[e][q]
  BY <1>1
<1>3. \A e \in DrainOp : /\ op'[e].pc = op[e].pc /\ op'[e].node = op[e].node
                         /\ op'[e].target = op[e].target
                         /\ op'[e].snap = op[e].snap
  BY <1>1 DEF Fails, OpRec
<1> QED BY <1>2, <1>3 DEF OneMig

\* A step of a migration that leaves calls and sessions alone, but for calls
\* that it strands.
LEMMA QuietMig ==
    ASSUME Shape, NodeInv, MediaInv, NEW c \in Call,
           UNCHANGED <<sessionToNode, rtp, used, dlg, handle, cbs, picked>>,
           \A e \in Call \ {c} : client'[e] = client[e],
           stranded \subseteq stranded'
    PROVE  IdsKept /\ Ids' /\ OnlyCall(c) /\ CallOK(c)'
<1>1. Ids /\ CallOK(c)
  BY DEF MediaInv
<1> QED BY <1>1 DEF IdsKept, Ids, OnlyCall, CallOK, Owns, Ringing

\* Answered: the far end of leg k has moved, or not; ok says it is known to.
LEMMA MediaAnswered ==
    ASSUME Shape, NodeInv, MediaInv, NEW d \in DrainOp, NEW r \in Sid,
           NEW m \in MigRec, m = mig[d][r], m.pc \in {"invite", "answer"},
           NEW c, c = m.legs[m.k], NEW ok \in BOOLEAN, Answered(d, r, ok),
           UNCHANGED <<op, sessionToNode, rtp, used, dlg, handle, cbs, picked,
                       stranded>>,
           \A e \in Call \ {c} : client'[e] = client[e],
           client'[c] \in {client[c], m.new[m.k]},
           ok => client'[c] = m.new[m.k]
    PROVE  MediaInv'
<1>m. m.pc \in Moving /\ Legs(m)
  BY DEF Moving, Placed, Shape, Migs
<1>0. /\ m.k \in 1..Len(m.legs) /\ Len(m.legs) \in {1, 2}
      /\ Len(m.new) = Len(m.legs)
  BY <1>m, LegFacts
<1>a. PICK a \in BOOLEAN : a = (m.ok /\ ok)
  OBVIOUS
<1>p. PICK p \in {"destroy", "rollback"} :
         p = IF m.ok /\ ok THEN "destroy" ELSE "rollback"
  OBVIOUS
<1>1. PICK n : n = IF m.k < Len(m.legs)
                   THEN [m EXCEPT !.k = m.k + 1, !.ok = a, !.pc = "invite"]
                   ELSE [m EXCEPT !.k = 1, !.ok = a, !.pc = p]
  OBVIOUS
<1>2. mig' = [mig EXCEPT ![d][r] = n]
  BY <1>a, <1>p, <1>1 DEF Answered
<1>3. /\ n \in MigRec /\ n.legs = m.legs /\ n.new = m.new /\ n.old = m.old
      /\ n.ok => m.ok /\ ok
      /\ \/ m.k < Len(m.legs) /\ n.k = m.k + 1 /\ n.pc = "invite"
         \/ m.k = Len(m.legs) /\ n.k = 1 /\ n.pc = "destroy" /\ m.ok /\ ok
         \/ m.k = Len(m.legs) /\ n.k = 1 /\ n.pc = "rollback"
  <2>1. /\ n \in MigRec /\ n.legs = m.legs /\ n.new = m.new /\ n.old = m.old
        /\ n.ok = a
        /\ \/ m.k < Len(m.legs) /\ n.k = m.k + 1 /\ n.pc = "invite"
           \/ m.k = Len(m.legs) /\ n.k = 1 /\ n.pc = p
    <3>1. m.k + 1 \in Nat /\ "invite" \in MigPC /\ p \in MigPC
      BY <1>0 DEF MigPC
    <3>2. CASE m.k < Len(m.legs)
      <4>1. n = [m EXCEPT !.k = m.k + 1, !.ok = a, !.pc = "invite"]
        BY <1>1, <3>2
      <4> QED BY <3>1, <3>2, <4>1 DEF MigRec
    <3>3. CASE ~(m.k < Len(m.legs))
      <4>1. n = [m EXCEPT !.k = 1, !.ok = a, !.pc = p]
        BY <1>1, <3>3
      <4>2. m.k = Len(m.legs)
        BY <1>0, <3>3
      <4> QED BY <3>1, <4>1, <4>2 DEF MigRec
    <3> QED BY <3>2, <3>3
  <2> QED BY <1>a, <1>p, <2>1
<1>4. OneMig(d, r, n)
  BY <1>2, MigOnly
<1>5. c \in Call
  BY <1>0, <1>m, LegsKnown
<1>6. IdsKept /\ Ids' /\ OnlyCall(c) /\ CallOK(c)'
  BY <1>5, QuietMig
<1>7. MovingOK(m, r, op[d].snap)
  BY <1>m, MigNow DEF MediaInv
<1>8. MovingOK(n, r, op[d].snap) /\ n.pc \in Moving
  BY <1>3, <1>7 DEF MovingOK, Moving, Placed
<1>9. ASSUME NEW i \in 1..Len(n.legs)
      PROVE  LET e == n.legs[i] IN
             /\ n.old[i] # None /\ Owns(n.old[i], e)'
             /\ i <= Len(n.new) => Owns(n.new[i], e)'
             /\ LegOK(n, i, dlg'[e].sid, client'[e], Live(e)', sessionToNode')
  <2>1. PICK e : e = m.legs[i]
    OBVIOUS
  <2>2. /\ e \in Call /\ m.old[i] \in Sid /\ Owns(m.old[i], e)
        /\ i <= Len(m.new) => m.new[i] \in Sid /\ Owns(m.new[i], e)
        /\ LegOK(m, i, dlg[e].sid, client[e], Live(e), sessionToNode)
        /\ \A j \in 1..Len(m.legs) : m.legs[j] = e => j = i
    BY <1>3, <1>m, <2>1, LegsKnown
  <2>3. Owns(m.old[i], e)' /\ (i <= Len(m.new) => Owns(m.new[i], e)')
    BY <1>6, <2>2, OwnsKept
  <2>4. /\ i # m.k => client'[e] = client[e]
        /\ i = m.k => /\ client'[e] \in {client[e], m.new[i]}
                      /\ ok => client'[e] = m.new[i]
    BY <1>0, <2>1, <2>2
  <2>5. /\ dlg[e].sid = m.old[i]
        /\ Live(e) => /\ IF i < m.k
                         THEN /\ client[e] \in {dlg[e].sid, m.new[i]}
                              /\ m.ok => client[e] = m.new[i]
                         ELSE client[e] = dlg[e].sid
                      /\ sessionToNode[dlg[e].sid] # None
                      /\ Len(m.legs) = 1 => sessionToNode[m.new[1]] # None
    BY <1>0, <2>2 DEF LegOK, Moved, Updated
  <2>6. Live(e)' => Live(e)
    BY DEF Live
  <2>7. LegOK(n, i, dlg'[e].sid, client'[e], Live(e)', sessionToNode')
    <3>1. CASE n.pc = "invite"
      <4>1. /\ ~Updated(n, i) /\ ~Destroyed(n, i)
        BY <3>1 DEF Updated, Destroyed
      <4>2. Live(e) => Moved(n, i, dlg[e].sid, client'[e])
        <5>1. n.k = m.k + 1 /\ m.k \in Nat /\ i \in Nat
          BY <1>0, <1>3, <3>1
        <5>2. i < n.k <=> (i < m.k \/ i = m.k)
          BY <5>1
        <5> QED BY <1>3, <2>4, <2>5, <2>6, <3>1, <5>2 DEF Moved
      <4> QED BY <1>0, <1>3, <2>5, <2>6, <3>1, <4>1, <4>2 DEF LegOK
    <3>2. CASE n.pc = "destroy"
      <4>1. /\ ~Updated(n, i) /\ ~Destroyed(n, i)
        BY <1>3, <3>2 DEF Updated, Destroyed
      <4>2. i < m.k \/ i = m.k
        BY <1>0, <1>3, <3>2
      <4>3. Live(e) => client'[e] = m.new[i]
        BY <1>3, <2>4, <2>5, <2>6, <3>2, <4>2
      <4>4. Live(e) => Moved(n, i, dlg[e].sid, client'[e])
        BY <1>3, <3>2, <4>3 DEF Moved
      <4> QED BY <1>0, <1>3, <2>5, <2>6, <3>2, <4>1, <4>4 DEF LegOK
    <3>3. CASE n.pc = "rollback"
      <4>1. /\ ~Updated(n, i) /\ ~Destroyed(n, i)
        BY <3>3 DEF Updated, Destroyed
      <4>2. Live(e) => client'[e] \in {dlg[e].sid, m.new[i]}
        BY <2>4, <2>5
      <4>3. Live(e) => Moved(n, i, dlg[e].sid, client'[e])
        BY <1>3, <3>3, <4>2 DEF Moved
      <4> QED BY <1>0, <1>3, <2>5, <2>6, <3>3, <4>1, <4>3 DEF LegOK
    <3> QED BY <1>3, <3>1, <3>2, <3>3
  <2>8. n.legs[i] = e /\ n.old[i] = m.old[i] /\ n.new[i] = m.new[i] /\ m.old[i] # None
    BY <1>3, <2>1, <2>2, NoneIsNew DEF NoneIsNew
  <2> QED BY <1>3, <2>3, <2>7, <2>8
<1>10. LegsOK(n)'
  BY <1>9 DEF LegsOK
<1>11. \A i \in 1..Len(m.legs) : ~(n.pc = "done" \/ i > Len(n.legs))
  BY <1>0, <1>3
<1>12. /\ n.legs[1] = m.legs[1] /\ Len(n.legs) <= Len(m.legs)
       /\ \A i \in 1..Len(n.legs) : n.legs[i] = m.legs[i]
  BY <1>0, <1>3
<1> QED BY <1>0, <1>3, <1>4, <1>6, <1>8, <1>10, <1>11, <1>12, <1>m, MigFrame

LEMMA LegsNext ==
    ASSUME Shape, NodeInv, MediaInv, NEW d \in DrainOp, NEW r \in Sid,
           NEW m \in MigRec, m = mig[d][r], m.pc \in Moving, IdsKept,
           NEW n \in MigRec, n.old = m.old, Len(n.legs) <= Len(m.legs),
           \A i \in 1..Len(n.legs) : n.legs[i] = m.legs[i],
           \A i \in 1..Len(n.legs) : i <= Len(n.new) =>
              (i <= Len(m.new) /\ n.new[i] = m.new[i])
              \/ Owns(n.new[i], m.legs[i])',
           \A i \in 1..Len(n.legs) :
              LegOK(n, i, dlg'[m.legs[i]].sid, client'[m.legs[i]],
                    Live(m.legs[i])', sessionToNode')
    PROVE  LegsOK(n)'
<1> SUFFICES ASSUME NEW i \in 1..Len(n.legs)
             PROVE  LET e == n.legs[i] IN
                    /\ n.old[i] # None /\ Owns(n.old[i], e)'
                    /\ i <= Len(n.new) => Owns(n.new[i], e)'
                    /\ LegOK(n, i, dlg'[e].sid, client'[e], Live(e)', sessionToNode')
  BY DEF LegsOK
<1>0. Len(n.legs) \in Nat /\ Len(m.legs) \in Nat
  BY DEF MigRec
<1>1. PICK e : e = m.legs[i] /\ e = n.legs[i]
  OBVIOUS
<1>2. i \in 1..Len(m.legs)
  BY <1>0
<1>3. /\ m.old[i] \in Sid /\ Owns(m.old[i], e)
      /\ i <= Len(m.new) => m.new[i] \in Sid /\ Owns(m.new[i], e)
  BY <1>1, <1>2, LegsKnown
<1>4. Owns(m.old[i], e)' /\ (i <= Len(m.new) => Owns(m.new[i], e)')
  BY <1>3, OwnsKept
<1>5. PICK x : x = n.new[i]
  OBVIOUS
<1>6. i <= Len(n.new) => Owns(x, e)'
  BY <1>1, <1>4, <1>5
<1>7. LegOK(n, i, dlg'[e].sid, client'[e], Live(e)', sessionToNode')
  BY <1>1
<1>8. n.old[i] = m.old[i] /\ m.old[i] # None
  BY <1>3, NoneIsNew DEF NoneIsNew
<1> QED BY <1>1, <1>4, <1>5, <1>6, <1>7, <1>8

LEMMA NextLegMig ==
    ASSUME NEW d \in DrainOp, NEW r \in Sid, NEW m \in MigRec, m = mig[d][r],
           m.k \in 1..Len(m.legs), Len(m.legs) \in {1, 2},
           NEW p \in MigPC, NextLeg(d, r, p)
    PROVE  \E n \in MigRec :
             /\ mig' = [mig EXCEPT ![d][r] = n]
             /\ n.legs = m.legs /\ n.new = m.new /\ n.old = m.old /\ n.ok = m.ok
             /\ \/ m.k < Len(m.legs) /\ n.k = m.k + 1 /\ n.pc = m.pc
                \/ m.k = Len(m.legs) /\ n.k = 1 /\ n.pc = p
<1>1. CASE m.k < Len(m.legs)
  <2>1. PICK n : n = [m EXCEPT !.k = m.k + 1]
    OBVIOUS
  <2>2. mig' = [mig EXCEPT ![d][r] = n]
    BY <1>1, <2>1 DEF NextLeg
  <2>3. /\ n \in MigRec /\ n.legs = m.legs /\ n.new = m.new /\ n.old = m.old
        /\ n.ok = m.ok /\ n.k = m.k + 1 /\ n.pc = m.pc
    <3>1. m.k + 1 \in Nat
      OBVIOUS
    <3> QED BY <2>1, <3>1 DEF MigRec
  <2> QED BY <1>1, <2>2, <2>3
<1>2. CASE ~(m.k < Len(m.legs))
  <2>1. PICK n : n = [m EXCEPT !.k = 1, !.pc = p]
    OBVIOUS
  <2>2. mig' = [mig EXCEPT ![d][r] = n] /\ m.k = Len(m.legs)
    BY <1>2, <2>1 DEF NextLeg
  <2>3. /\ n \in MigRec /\ n.legs = m.legs /\ n.new = m.new /\ n.old = m.old
        /\ n.ok = m.ok /\ n.k = 1 /\ n.pc = p
    BY <2>1 DEF MigRec
  <2> QED BY <2>2, <2>3
<1> QED BY <1>1, <1>2

LEMMA MediaInvite ==
    ASSUME Shape, NodeInv, MediaInv, NEW d \in DrainOp, NEW r \in Sid,
           SendReINVITE(d, r) \/ Answer(d, r)
    PROVE  MediaInv'
<1>1. PICK m \in MigRec : m = mig[d][r] /\ Legs(m)
  BY DEF Shape, DrainTypes, Migs
<1>2. PICK c : c = m.legs[m.k]
  OBVIOUS
<1>t. client \in [Call -> Sid \cup {None}]
  BY DEF Shape, CallTypes
<1>3. CASE Answer(d, r)
  <2>1. PICK ok \in BOOLEAN :
          /\ client' = IF ok THEN [client EXCEPT ![c] = m.new[m.k]] ELSE client
          /\ \/ Answered(d, r, ok)
             \/ op[d].cancelled /\ Answered(d, r, FALSE)
    BY <1>1, <1>2, <1>3 DEF Answer
  <2>2. /\ m.pc = "answer"
        /\ UNCHANGED <<op, sessionToNode, rtp, used, dlg, handle, cbs, picked,
                       stranded>>
    BY <1>1, <1>3 DEF Answer, poolVars
  <2>3. PICK b \in BOOLEAN : Answered(d, r, b) /\ (b => ok)
    BY <2>1
  <2>4. m.pc \in Moving
    BY <2>2 DEF Moving, Placed
  <2>5. m.k \in 1..Len(m.legs)
    BY <1>1, <2>4, LegFacts
  <2>6. c \in Call
    BY <1>1, <1>2, <2>4, <2>5, LegsKnown
  <2>7. /\ \A e \in Call \ {c} : client'[e] = client[e]
        /\ client'[c] \in {client[c], m.new[m.k]}
        /\ b => client'[c] = m.new[m.k]
    BY <1>t, <2>1, <2>3, <2>6
  <2> QED BY <1>1, <1>2, <2>2, <2>3, <2>7, MediaAnswered
<1>4. CASE SendReINVITE(d, r)
  <2>1. /\ m.pc = "invite"
        /\ UNCHANGED <<op, sessionToNode, rtp, used, dlg, handle, cbs, picked,
                       stranded, client>>
        /\ Answered(d, r, FALSE) \/ Go(d, r, "answer")
    BY <1>1, <1>4 DEF SendReINVITE, poolVars
  <2>m. m.pc \in Moving
    BY <2>1 DEF Moving, Placed
  <2>2. CASE Answered(d, r, FALSE)
    BY <1>1, <1>2, <2>1, <2>2, MediaAnswered
  <2>3. CASE Go(d, r, "answer")
    <3>0. m.k \in 1..Len(m.legs) /\ Len(m.legs) \in {1, 2} /\ Len(m.new) = Len(m.legs)
      BY <1>1, <2>1, <2>m, LegFacts
    <3>1. PICK n : n = [m EXCEPT !.pc = "answer"]
      OBVIOUS
    <3>2. /\ n \in MigRec /\ n.legs = m.legs /\ n.new = m.new /\ n.old = m.old
          /\ n.ok = m.ok /\ n.k = m.k /\ n.pc = "answer"
      BY <3>1 DEF MigRec, MigPC
    <3>3. mig' = [mig EXCEPT ![d][r] = n]
      BY <1>1, <2>3, <3>1 DEF Go, Shape, DrainTypes
    <3>4. OneMig(d, r, n)
      BY <2>1, <3>3, MigOnly
    <3>5. c \in Call
      BY <1>1, <1>2, <2>m, <3>0, LegsKnown
    <3>6. IdsKept /\ Ids' /\ OnlyCall(c) /\ CallOK(c)'
      BY <2>1, <3>5, QuietMig
    <3>7. MovingOK(m, r, op[d].snap)
      BY <1>1, <2>m, MigNow DEF MediaInv
    <3>8. MovingOK(n, r, op[d].snap) /\ n.pc \in Moving
      BY <3>2, <3>7 DEF MovingOK, Moving, Placed
    <3>9. ASSUME NEW i \in 1..Len(m.legs), NEW e, e = m.legs[i]
          PROVE  LegOK(n, i, dlg'[e].sid, client'[e], Live(e)', sessionToNode')
      <4>1. LegOK(m, i, dlg[e].sid, client[e], Live(e), sessionToNode)
        BY <1>1, <2>m, <3>9, LegsKnown
      <4>2. Live(e)' => Live(e)
        BY <2>1 DEF Live
      <4>3. LegOK(n, i, dlg[e].sid, client[e], Live(e), sessionToNode)
        BY <2>1, <3>2, <4>1 DEF LegOK, Moved, Updated, Destroyed
      <4> QED BY <2>1, <4>2, <4>3, LegKept
    <3>10. LegsOK(n)'
      BY <1>1, <2>m, <3>0, <3>2, <3>6, <3>9, LegsNext, SMTT(30)
    <3> QED BY <1>1, <1>2, <2>m, <3>0, <3>2, <3>4, <3>6, <3>8, <3>10, MigFrame
  <2> QED BY <2>1, <2>2, <2>3
<1> QED BY <1>3, <1>4

LEMMA DestroyCall ==
    ASSUME Shape, NodeInv, MediaInv, NEW c \in Call, NEW x \in Sid, Owns(x, c),
           dlg[c].sid # None,
           NEW b \in BOOLEAN, DestroySession(x, b), stranded \subseteq stranded',
           UNCHANGED <<used, dlg, handle, client, cbs, picked>>
    PROVE  /\ IdsKept /\ Ids' /\ OnlyCall(c) /\ CallOK(c)'
           /\ sessionToNode'[x] = None
           /\ \A s \in Sid \ {x} : sessionToNode'[s] = sessionToNode[s]
<1>1. Ids /\ CallOK(c)
  BY DEF MediaInv
<1>2. /\ Ids' /\ IdsKept
      /\ sessionToNode'[x] = None
      /\ \A s \in Sid \ {x} : sessionToNode'[s] = sessionToNode[s]
      /\ \A e \in Call \ {c} : \A s \in Sid :
            Owns(s, e) => sessionToNode'[s] = sessionToNode[s]
  BY <1>1, DestroyFacts
<1>3. OnlyCall(c)
  BY <1>2 DEF OnlyCall
<1>4. PICK y : y = dlg[c].sid
  OBVIOUS
<1>5. PICK z : z = handle[c]
  OBVIOUS
<1>6. Owns(y, c)' /\ (z # None => Owns(z, c)')
  BY <1>1, <1>2, <1>4, <1>5, OwnsKept DEF CallOK
<1>7. CallOK(c)'
  BY <1>1, <1>4, <1>5, <1>6 DEF CallOK, Ringing, Owns
<1> QED BY <1>2, <1>3, <1>7

\* A rollback destroys the new session of a leg.  If its far end has moved it
\* is stranded, otherwise the leg is where it was.
LEMMA MediaRollback ==
    ASSUME Shape, NodeInv, MediaInv, NEW d \in DrainOp, NEW r \in Sid,
           Rollback(d, r)
    PROVE  MediaInv'
<1>1. PICK m \in MigRec : m = mig[d][r] /\ Legs(m)
  BY DEF Shape, DrainTypes, Migs
<1>2. PICK c : c = m.legs[m.k]
  OBVIOUS
<1>3. PICK x : x = m.new[m.k]
  OBVIOUS
<1>4. /\ m.pc = "rollback" /\ DestroySession(x, op[d].cancelled)
      /\ stranded' = IF client[c] = x THEN stranded \cup {c} ELSE stranded
      /\ NextLeg(d, r, "done") /\ Fails(d)
      /\ UNCHANGED <<used, dlg, handle, client, cbs, picked>>
  BY <1>1, <1>2, <1>3 DEF Rollback
<1>m. m.pc \in Moving
  BY <1>4 DEF Moving, Placed
<1>5. m.k \in 1..Len(m.legs) /\ Len(m.legs) \in {1, 2} /\ Len(m.new) = Len(m.legs)
  BY <1>1, <1>4, <1>m, LegFacts
<1>6. /\ c \in Call /\ x \in Sid /\ Owns(x, c)
      /\ dlg[c].sid \in Sid
  BY <1>1, <1>2, <1>3, <1>5, <1>m, LegsKnown, SMTT(30)
<1>7. /\ IdsKept /\ Ids' /\ OnlyCall(c) /\ CallOK(c)'
      /\ sessionToNode'[x] = None
      /\ \A s \in Sid \ {x} : sessionToNode'[s] = sessionToNode[s]
  <2>1. op[d].cancelled \in BOOLEAN
    BY DEF Shape, DrainTypes, OpRec
  <2>2. dlg[c].sid # None
    BY <1>6, NoneIsNew DEF NoneIsNew
  <2> QED BY <1>4, <1>6, <2>1, <2>2, DestroyCall
<1>8. PICK n \in MigRec :
         /\ mig' = [mig EXCEPT ![d][r] = n]
         /\ n.legs = m.legs /\ n.new = m.new /\ n.old = m.old /\ n.ok = m.ok
         /\ \/ m.k < Len(m.legs) /\ n.k = m.k + 1 /\ n.pc = "rollback"
            \/ m.k = Len(m.legs) /\ n.k = 1 /\ n.pc = "done"
  BY <1>1, <1>4, <1>5, NextLegMig DEF MigPC
<1>9. OneMig(d, r, n)
  BY <1>4, <1>8, MigOnly
<1>10. MovingOK(m, r, op[d].snap)
  BY <1>1, <1>m, MigNow DEF MediaInv
<1>11. MovingOK(n, r, op[d].snap) /\ n.pc \in Moving \cup {"done"}
  BY <1>8, <1>10 DEF MovingOK, Moving, Placed
<1>12. ASSUME NEW i \in 1..Len(m.legs), NEW e, e = m.legs[i]
       PROVE  /\ dlg'[e].sid = m.old[i]
              /\ Live(e)' => /\ IF i <= m.k THEN client'[e] = dlg'[e].sid
                                ELSE client'[e] \in {dlg'[e].sid, m.new[i]}
                             /\ sessionToNode'[dlg'[e].sid] # None
  <2>1. /\ e \in Call /\ dlg[e].sid \in Sid
        /\ LegOK(m, i, dlg[e].sid, client[e], Live(e), sessionToNode)
        /\ \A j \in 1..Len(m.legs) : m.legs[j] = e => j = i
    BY <1>1, <1>m, <1>12, LegsKnown
  <2>2. /\ dlg[e].sid = m.old[i]
        /\ Live(e) => /\ IF i < m.k THEN client[e] = dlg[e].sid
                         ELSE client[e] \in {dlg[e].sid, m.new[i]}
                      /\ sessionToNode[dlg[e].sid] # None
    BY <1>4, <2>1 DEF LegOK, Moved, Updated
  <2>3. Live(e)' => Live(e)
    BY <1>4 DEF Live
  <2>4. CASE i = m.k
    <3>1. e = c /\ m.new[i] = x
      BY <1>2, <1>3, <1>12, <2>4
    <3>2. Live(e)' => client[e] # x
      BY <1>4, <3>1 DEF Live
    <3>3. Live(e)' => client[e] = dlg[e].sid /\ dlg[e].sid # x
      BY <1>5, <2>2, <2>3, <2>4, <3>1, <3>2
    <3> QED BY <1>4, <1>5, <1>7, <2>1, <2>2, <2>3, <2>4, <3>3
  <2>5. CASE i # m.k
    <3>1. e # c
      BY <1>2, <1>5, <2>1, <2>5
    <3>2. sessionToNode'[dlg[e].sid] = sessionToNode[dlg[e].sid]
      BY <1>1, <1>6, <1>7, <1>m, <1>12, <3>1, OtherLegs DEF LegSame
    <3>3. i <= m.k <=> i < m.k
      BY <1>5, <2>5
    <3> QED BY <1>4, <2>2, <2>3, <3>2, <3>3
  <2> QED BY <2>4, <2>5
<1>13. n.pc \in Moving => LegsOK(n)'
  <2> SUFFICES ASSUME n.pc \in Moving PROVE LegsOK(n)'
    OBVIOUS
  <2>1. n.pc = "rollback" /\ n.k = m.k + 1
    BY <1>8 DEF Moving, Placed
  <2>2. ASSUME NEW i \in 1..Len(m.legs), NEW e, e = m.legs[i]
        PROVE  LegOK(n, i, dlg'[e].sid, client'[e], Live(e)', sessionToNode')
    <3>1. i < n.k <=> i <= m.k
      BY <1>5, <2>1
    <3>2. /\ dlg'[e].sid = m.old[i]
          /\ Live(e)' => /\ IF i < n.k THEN client'[e] = dlg'[e].sid
                            ELSE client'[e] \in {dlg'[e].sid, m.new[i]}
                         /\ sessionToNode'[dlg'[e].sid] # None
      BY <1>12, <2>2, <3>1
    <3> QED BY <1>8, <2>1, <3>2 DEF LegOK, Moved, Updated, Destroyed
  <2> QED BY <1>1, <1>5, <1>7, <1>8, <1>m, <2>2, LegsNext, SMTT(30)
<1>14. ASSUME NEW i \in 1..Len(m.legs), n.pc = "done" \/ i > Len(n.legs)
       PROVE  HeardNext(m.legs[i])
  <2>1. i <= m.k
    BY <1>5, <1>8, <1>14
  <2>2. PICK e : e = m.legs[i]
    OBVIOUS
  <2> QED BY <1>12, <2>1, <2>2 DEF HeardNext
<1>15. /\ n.legs[1] = m.legs[1] /\ Len(n.legs) <= Len(m.legs)
       /\ \A i \in 1..Len(n.legs) : n.legs[i] = m.legs[i]
  BY <1>5, <1>8
<1> QED BY <1>1, <1>2, <1>5, <1>7, <1>9, <1>11, <1>13, <1>14, <1>15, <1>m, MigFrame

\* The old session of a leg goes once all far ends have moved.
LEMMA MediaDestroy ==
    ASSUME Shape, NodeInv, MediaInv, NEW d \in DrainOp, NEW r \in Sid,
           DestroyOld(d, r)
    PROVE  MediaInv'
<1>1. PICK m \in MigRec : m = mig[d][r] /\ Legs(m)
  BY DEF Shape, DrainTypes, Migs
<1>2. PICK c : c = m.legs[m.k]
  OBVIOUS
<1>3. PICK x : x = IF Len(m.legs) = 1 THEN dlg[m.legs[1]].sid ELSE m.old[m.k]
  OBVIOUS
<1>4. /\ m.pc = "destroy" /\ DestroySession(x, op[d].cancelled)
      /\ NextLeg(d, r, "update")
      /\ UNCHANGED <<op, used, dlg, handle, client, cbs, picked, stranded>>
  BY <1>1, <1>3 DEF DestroyOld
<1>m. m.pc \in Moving
  BY <1>4 DEF Moving, Placed
<1>5. m.k \in 1..Len(m.legs) /\ Len(m.legs) \in {1, 2} /\ Len(m.new) = Len(m.legs)
  BY <1>1, <1>4, <1>m, LegFacts
<1>6. /\ c \in Call /\ x = m.old[m.k] /\ x \in Sid /\ Owns(x, c)
      /\ dlg[c].sid \in Sid
  <2>1. /\ c \in Call /\ m.old[m.k] \in Sid /\ Owns(m.old[m.k], c)
        /\ dlg[c].sid \in Sid
        /\ LegOK(m, m.k, dlg[c].sid, client[c], Live(c), sessionToNode)
    BY <1>1, <1>2, <1>5, <1>m, LegsKnown
  <2>2. dlg[c].sid = m.old[m.k]
    BY <1>4, <2>1 DEF LegOK, Updated
  <2>3. Len(m.legs) = 1 => m.k = 1
    BY <1>5
  <2> QED BY <1>2, <1>3, <2>1, <2>2, <2>3
<1>7. /\ IdsKept /\ Ids' /\ OnlyCall(c) /\ CallOK(c)'
      /\ sessionToNode'[x] = None
      /\ \A s \in Sid \ {x} : sessionToNode'[s] = sessionToNode[s]
  <2>1. op[d].cancelled \in BOOLEAN
    BY DEF Shape, DrainTypes, OpRec
  <2>2. dlg[c].sid # None
    BY <1>6, NoneIsNew DEF NoneIsNew
  <2> QED BY <1>4, <1>6, <2>1, <2>2, DestroyCall
<1>8. PICK n \in MigRec :
         /\ mig' = [mig EXCEPT ![d][r] = n]
         /\ n.legs = m.legs /\ n.new = m.new /\ n.old = m.old /\ n.ok = m.ok
         /\ \/ m.k < Len(m.legs) /\ n.k = m.k + 1 /\ n.pc = "destroy"
            \/ m.k = Len(m.legs) /\ n.k = 1 /\ n.pc = "update"
  BY <1>1, <1>4, <1>5, NextLegMig DEF MigPC
<1>9. OneMig(d, r, n)
  BY <1>4, <1>8, MigOnly
<1>10. MovingOK(m, r, op[d].snap)
  BY <1>1, <1>m, MigNow DEF MediaInv
<1>11. MovingOK(n, r, op[d].snap) /\ n.pc \in Moving
  BY <1>8, <1>10 DEF MovingOK, Moving, Placed
<1>12. ASSUME NEW i \in 1..Len(m.legs), NEW e, e = m.legs[i]
       PROVE  LegOK(n, i, dlg'[e].sid, client'[e], Live(e)', sessionToNode')
  <2>1. /\ e \in Call /\ dlg[e].sid \in Sid /\ m.old[i] \in Sid
        /\ LegOK(m, i, dlg[e].sid, client[e], Live(e), sessionToNode)
    BY <1>1, <1>m, <1>12, LegsKnown
  <2>2. /\ dlg[e].sid = m.old[i]
        /\ i < m.k => sessionToNode[m.old[i]] = None
        /\ Live(e) => /\ client[e] = m.new[i]
                      /\ Len(m.legs) = 1 => sessionToNode[m.new[1]] # None
    BY <1>4, <1>5, <2>1 DEF LegOK, Moved, Updated, Destroyed
  <2>3. Live(e)' => Live(e)
    BY <1>4 DEF Live
  <2>4. i <= m.k => sessionToNode'[m.old[i]] = None
    <3>1. i <= m.k <=> (i < m.k \/ i = m.k)
      BY <1>5
    <3> QED BY <1>6, <1>7, <2>1, <2>2, <3>1
  <2>5. Len(m.legs) = 1 => sessionToNode'[m.new[1]] = sessionToNode[m.new[1]]
    <3> SUFFICES ASSUME Len(m.legs) = 1
                 PROVE  sessionToNode'[m.new[1]] = sessionToNode[m.new[1]]
      OBVIOUS
    <3>1. m.old[m.k] = r /\ m.new[1] \notin op[d].snap /\ m.new[1] \in Sid
      BY <1>5, <1>10 DEF MovingOK, MigRec
    <3>2. r \in op[d].snap
      BY <1>1, <1>4 DEF MediaInv, OpOK
    <3> QED BY <1>6, <1>7, <3>1, <3>2
  <2>6. Destroyed(n, i) => i <= m.k
    BY <1>5, <1>8 DEF Destroyed
  <2>7. ~Updated(n, i)
    BY <1>5, <1>8 DEF Updated
  <2>8. n.pc \in {"destroy", "update"}
    BY <1>8
  <2> QED BY <1>4, <1>5, <1>8, <2>2, <2>3, <2>4, <2>5, <2>6, <2>7, <2>8
          DEF LegOK, Moved
<1>13. LegsOK(n)'
  BY <1>1, <1>5, <1>7, <1>8, <1>m, <1>12, LegsNext, SMTT(30)
<1>14. \A i \in 1..Len(m.legs) : ~(n.pc = "done" \/ i > Len(n.legs))
  BY <1>5, <1>8
<1>15. /\ n.legs[1] = m.legs[1] /\ Len(n.legs) <= Len(m.legs)
       /\ \A i \in 1..Len(n.legs) : n.legs[i] = m.legs[i]
  BY <1>5, <1>8
<1> QED BY <1>1, <1>2, <1>5, <1>7, <1>9, <1>11, <1>13, <1>14, <1>15, <1>m, MigFrame

\* The dialog of a leg takes over the new session, where its far end is.
LEMMA MediaUpdate ==
    ASSUME Shape, NodeInv, MediaInv, NEW d \in DrainOp, NEW r \in Sid,
           SetSessionID(d, r)
    PROVE  MediaInv'
<1>1. PICK m \in MigRec : m = mig[d][r] /\ Legs(m)
  BY DEF Shape, DrainTypes, Migs
<1>2. PICK c : c = m.legs[m.k]
  OBVIOUS
<1>3. PICK x : x = m.new[m.k]
  OBVIOUS
<1>4. /\ m.pc = "update" /\ dlg' = [dlg EXCEPT ![c].sid = x]
      /\ stranded \subseteq stranded'
      /\ NextLeg(d, r, IF Len(m.legs) = 1 THEN "done" ELSE "bridge")
      /\ UNCHANGED <<op, sessionToNode, rtp, used, handle, client, cbs, picked>>
  BY <1>1, <1>2, <1>3 DEF SetSessionID, poolVars
<1>m. m.pc \in Moving
  BY <1>4 DEF Moving, Placed
<1>5. m.k \in 1..Len(m.legs) /\ Len(m.legs) \in {1, 2} /\ Len(m.new) = Len(m.legs)
  BY <1>1, <1>4, <1>m, LegFacts
<1>6. /\ c \in Call /\ x \in Sid /\ Owns(x, c) /\ dlg[c].sid \in Sid
  BY <1>1, <1>2, <1>3, <1>5, <1>m, LegsKnown, SMTT(30)
<1>7. /\ dlg'[c].sid = x /\ dlg'[c].state = dlg[c].state
      /\ \A e \in Call \ {c} : dlg'[e] = dlg[e]
  BY <1>4, <1>6 DEF Shape, CallTypes, DlgRec
<1>8. IdsKept /\ Ids' /\ OnlyCall(c) /\ CallOK(c)'
  <2>1. Ids /\ CallOK(c) /\ dlg[c].sid # None /\ x # None
    BY <1>6, NoneIsNew DEF MediaInv, NoneIsNew
  <2>2. IdsKept /\ Ids'
    BY <1>4, <2>1 DEF IdsKept, Ids
  <2>3. OnlyCall(c)
    BY <1>4, <1>7 DEF OnlyCall
  <2>4. dlg[c].state # "none"
    BY <2>1 DEF CallOK
  <2>5. CallOK(c)'
    BY <1>4, <1>6, <1>7, <2>1, <2>4 DEF CallOK, Owns, Ringing
  <2> QED BY <2>2, <2>3, <2>5
<1>9. PICK p \in {"done", "bridge"} :
         NextLeg(d, r, p) /\ (p = "done" <=> Len(m.legs) = 1)
  BY <1>4
<1>10. PICK n \in MigRec :
         /\ mig' = [mig EXCEPT ![d][r] = n]
         /\ n.legs = m.legs /\ n.new = m.new /\ n.old = m.old /\ n.ok = m.ok
         /\ \/ m.k < Len(m.legs) /\ n.k = m.k + 1 /\ n.pc = "update"
            \/ m.k = Len(m.legs) /\ n.k = 1 /\ n.pc = p
  <2>1. p \in MigPC
    BY DEF MigPC
  <2> QED BY <1>1, <1>4, <1>5, <1>9, <2>1, NextLegMig
<1>11. OneMig(d, r, n)
  BY <1>4, <1>10, MigOnly
<1>12. MovingOK(m, r, op[d].snap)
  BY <1>1, <1>m, MigNow DEF MediaInv
<1>13. MovingOK(n, r, op[d].snap) /\ n.pc \in Moving \cup {"done"}
  BY <1>10, <1>12 DEF MovingOK, Moving, Placed
<1>14. ASSUME NEW i \in 1..Len(m.legs), NEW e, e = m.legs[i]
       PROVE  /\ dlg'[e].sid = IF i <= m.k THEN m.new[i] ELSE m.old[i]
              /\ i > m.k => sessionToNode'[m.old[i]] = None
              /\ Live(e)' => /\ client'[e] = m.new[i]
                             /\ Len(m.legs) = 1 => sessionToNode'[m.new[1]] # None
  <2>1. /\ e \in Call
        /\ LegOK(m, i, dlg[e].sid, client[e], Live(e), sessionToNode)
        /\ \A j \in 1..Len(m.legs) : m.legs[j] = e => j = i
    BY <1>1, <1>m, <1>14, LegsKnown
  <2>2. /\ dlg[e].sid = IF i < m.k THEN m.new[i] ELSE m.old[i]
        /\ i >= m.k => sessionToNode[m.old[i]] = None
        /\ Live(e) => /\ client[e] = m.new[i]
                      /\ Len(m.legs) = 1 => sessionToNode[m.new[1]] # None
    BY <1>4, <1>5, <2>1 DEF LegOK, Moved, Updated, Destroyed
  <2>3. Live(e)' => Live(e)
    BY <1>4, <1>7, <2>1 DEF Live
  <2>4. dlg'[e].sid = IF i <= m.k THEN m.new[i] ELSE m.old[i]
    <3>1. CASE i = m.k
      BY <1>2, <1>3, <1>5, <1>7, <1>14, <3>1
    <3>2. CASE i # m.k
      <4>1. e # c
        BY <1>2, <1>5, <2>1, <3>2
      <4>2. i <= m.k <=> i < m.k
        BY <1>5, <3>2
      <4> QED BY <1>7, <2>1, <2>2, <4>1, <4>2
    <3> QED BY <3>1, <3>2
  <2>5. i > m.k => i >= m.k
    BY <1>5
  <2> QED BY <1>4, <2>2, <2>3, <2>4, <2>5
<1>15. n.pc \in Moving => LegsOK(n)'
  <2> SUFFICES ASSUME n.pc \in Moving PROVE LegsOK(n)'
    OBVIOUS
  <2>1. \/ n.pc = "update" /\ n.k = m.k + 1
        \/ n.pc = "bridge" /\ m.k = Len(m.legs) /\ Len(m.legs) = 2
    BY <1>5, <1>9, <1>10 DEF Moving, Placed
  <2>2. ASSUME NEW i \in 1..Len(m.legs), NEW e, e = m.legs[i]
        PROVE  LegOK(n, i, dlg'[e].sid, client'[e], Live(e)', sessionToNode')
    <3>1. Updated(n, i) <=> i <= m.k
      BY <1>5, <2>1 DEF Updated
    <3>2. Destroyed(n, i) => i > m.k
      BY <1>5, <2>1 DEF Destroyed
    <3>3. /\ dlg'[e].sid = IF Updated(n, i) THEN n.new[i] ELSE n.old[i]
          /\ Destroyed(n, i) => sessionToNode'[n.old[i]] = None
          /\ Live(e)' => /\ client'[e] = n.new[i]
                         /\ Len(n.legs) = 1 => sessionToNode'[n.new[1]] # None
      BY <1>10, <1>14, <2>2, <3>1, <3>2
    <3> QED BY <2>1, <3>3 DEF LegOK, Moved
  <2> QED BY <1>1, <1>5, <1>8, <1>10, <1>m, <2>2, LegsNext, SMTT(30)
<1>16. ASSUME NEW i \in 1..Len(m.legs), n.pc = "done" \/ i > Len(n.legs)
       PROVE  HeardNext(m.legs[i])
  <2>1. Len(m.legs) = 1 /\ i = 1 /\ m.k = 1
    <3>1. n.legs = m.legs /\ ~(i > Len(m.legs))
      BY <1>5, <1>10
    <3>2. n.pc = "done"
      BY <1>16, <3>1
    <3>3. p = "done"
      BY <1>10, <3>2
    <3>4. Len(m.legs) = 1
      BY <1>9, <3>3
    <3> QED BY <1>5, <3>4
  <2>2. PICK e : e = m.legs[i]
    OBVIOUS
  <2>3. /\ dlg'[e].sid = m.new[1]
        /\ Live(e)' => client'[e] = m.new[1] /\ sessionToNode'[m.new[1]] # None
    BY <1>14, <2>1, <2>2
  <2> QED BY <2>2, <2>3 DEF HeardNext
<1>17. /\ n.legs[1] = m.legs[1] /\ Len(n.legs) <= Len(m.legs)
       /\ \A i \in 1..Len(n.legs) : n.legs[i] = m.legs[i]
  BY <1>5, <1>10
<1> QED BY <1>1, <1>2, <1>5, <1>8, <1>11, <1>13, <1>15, <1>16, <1>17, <1>m, MigFrame

\* The new media bridge is refused unless the pool finds both new sessions.
LEMMA MediaBridge ==
    ASSUME Shape, NodeInv, MediaInv, NEW d \in DrainOp, NEW r \in Sid,
           BridgeMedia(d, r)
    PROVE  MediaInv'
<1>1. PICK m \in MigRec : m = mig[d][r] /\ Legs(m)
  BY DEF Shape, DrainTypes, Migs
<1>2. /\ m.pc = "bridge" /\ Go(d, r, "done")
      /\ UNCHANGED <<sessionToNode, rtp, used, dlg, handle, client, cbs, picked>>
      /\ Fails(d) \/ UNCHANGED op
      /\ \/ SameNode(m.new[1], m.new[2]) /\ UNCHANGED stranded
         \/ stranded' = stranded \cup {m.legs[1], m.legs[2]}
  BY <1>1 DEF BridgeMedia, poolVars
<1>m. m.pc \in Moving
  BY <1>2 DEF Moving, Placed
<1>3. 1 \in 1..Len(m.legs) /\ Len(m.legs) = 2 /\ Len(m.new) = 2
  BY <1>1, <1>2, <1>m, LegFacts DEF Legs
<1>4. PICK c : c = m.legs[1]
  OBVIOUS
<1>5. c \in Call
  BY <1>1, <1>3, <1>4, <1>m, LegsKnown
<1>6. IdsKept /\ Ids' /\ OnlyCall(c) /\ CallOK(c)'
  BY <1>2, <1>5, QuietMig
<1>7. PICK n : n = [m EXCEPT !.pc = "done"]
  OBVIOUS
<1>8. n \in MigRec /\ n.pc = "done"
  BY <1>7 DEF MigRec, MigPC
<1>9. mig' = [mig EXCEPT ![d][r] = n]
  BY <1>1, <1>2, <1>7 DEF Go, Shape, DrainTypes
<1>10. OneMig(d, r, n)
  BY <1>2, <1>9, MigOnly
<1>11. ASSUME NEW i \in 1..Len(m.legs) PROVE HeardNext(m.legs[i])
  <2>1. PICK e : e = m.legs[i]
    OBVIOUS
  <2>2. LegOK(m, i, dlg[e].sid, client[e], Live(e), sessionToNode)
    BY <1>1, <1>m, <2>1, LegsKnown
  <2>3. /\ dlg[e].sid = m.new[i]
        /\ Live(e) => client[e] = m.new[i]
    BY <1>2, <2>2 DEF LegOK, Moved, Updated
  <2>4. i \in {1, 2}
    BY <1>3
  <2>5. Live(e)' => Live(e) /\ SameNode(m.new[1], m.new[2])
    BY <1>2, <2>1, <2>4 DEF Live
  <2>6. SameNode(m.new[1], m.new[2]) => sessionToNode[m.new[i]] # None
    BY <2>4 DEF SameNode
  <2> QED BY <1>2, <2>1, <2>3, <2>5, <2>6 DEF HeardNext
<1> QED BY <1>1, <1>3, <1>4, <1>6, <1>8, <1>10, <1>11, <1>m, MigFrame DEF Moving, Placed

\* A leg gets its new session on the target, or the legs stay where they are.
LEMMA MediaCreate ==
    ASSUME Shape, NodeInv, MediaInv, NEW d \in DrainOp, NEW r \in Sid,
           CreateSessionOnNode(d, r)
    PROVE  MediaInv'
<1>1. PICK m \in MigRec : m = mig[d][r] /\ Legs(m)
  BY DEF Shape, DrainTypes, Migs
<1>2. PICK c : c = m.legs[m.k]
  OBVIOUS
<1>3. PICK t : t = op[d].target
  OBVIOUS
<1>4. m.pc = "create"
  BY <1>1 DEF CreateSessionOnNode
<1>m. m.pc \in Moving
  BY <1>4 DEF Moving
<1>5. /\ m.k \in 1..Len(m.legs) /\ Len(m.legs) \in {1, 2}
      /\ Len(m.new) = m.k - 1 /\ m.legs \in Seq(Call) /\ m.new \in Seq(Sid)
  BY <1>1, <1>4, <1>m, LegFacts
<1>6. c \in Call /\ dlg[c].sid \in Sid /\ Owns(dlg[c].sid, c)
  BY <1>1, <1>2, <1>5, <1>m, LegsKnown
<1>7. MovingOK(m, r, op[d].snap)
  BY <1>1, <1>m, MigNow DEF MediaInv
<1>8. /\ op[d].pc = "migrating" /\ t \in Node /\ t # op[d].node
      /\ \A s \in op[d].snap :
            s \in used /\ (rtp[s] # None => rtp[s].node = op[d].node)
  <2>1. OpOK(d)
    BY DEF MediaInv
  <2>2. op[d].pc = "migrating"
    BY <1>1, <1>4, <2>1 DEF OpOK
  <2>3. t \in Node
    BY <1>1, <1>3, <1>4 DEF Shape, Migs
  <2> QED BY <1>3, <2>1, <2>2, <2>3 DEF OpOK
<1>9. ASSUME NEW i \in 1..Len(m.legs), NEW e, e = m.legs[i]
      PROVE  /\ dlg[e].sid = m.old[i] /\ dlg[e].sid \in Sid
             /\ Live(e) => client[e] = dlg[e].sid /\ sessionToNode[dlg[e].sid] # None
  <2>1. /\ LegOK(m, i, dlg[e].sid, client[e], Live(e), sessionToNode)
        /\ dlg[e].sid \in Sid
    BY <1>1, <1>m, <1>9, LegsKnown
  <2> QED BY <1>4, <2>1 DEF LegOK, Moved, Updated
<1>10. CASE /\ Fails(d)
            /\ mig' = [mig EXCEPT ![d][r] =
                  IF m.k = 1 THEN [m EXCEPT !.pc = "done"]
                  ELSE [m EXCEPT !.pc = "rollback", !.k = 1,
                                 !.legs = SubSeq(m.legs, 1, 1)]]
            /\ UNCHANGED <<sessionToNode, rtp, used, callVars, stranded>>
  <2>0. UNCHANGED <<dlg, handle, client, cbs, picked>>
    BY <1>10 DEF callVars
  <2>1. IdsKept /\ Ids' /\ OnlyCall(c) /\ CallOK(c)'
    BY <1>6, <1>10, <2>0, QuietMig
  <2>2. \A e : Live(e)' <=> Live(e)
    BY <1>10, <2>0 DEF Live
  <2>3. ASSUME NEW i \in 1..Len(m.legs) PROVE HeardNext(m.legs[i])
    <3>1. PICK e : e = m.legs[i]
      OBVIOUS
    <3> QED BY <1>9, <1>10, <2>0, <2>2, <3>1 DEF HeardNext
  <2>4. CASE m.k = 1
    <3>1. PICK n : n = [m EXCEPT !.pc = "done"]
      OBVIOUS
    <3>2. n \in MigRec /\ n.pc = "done"
      BY <3>1 DEF MigRec, MigPC
    <3>3. mig' = [mig EXCEPT ![d][r] = n]
      BY <1>10, <2>4, <3>1
    <3>4. OneMig(d, r, n)
      BY <1>10, <3>3, MigOnly
    <3> QED BY <1>1, <1>2, <1>5, <1>m, <2>1, <2>3, <3>2, <3>4, MigFrame
            DEF Moving, Placed
  <2>5. CASE m.k # 1
    <3>0. m.k = 2 /\ Len(m.legs) = 2 /\ Len(m.new) = 1
      BY <1>5, <2>5
    <3>s. PICK l : l = SubSeq(m.legs, 1, 1)
      OBVIOUS
    <3>l. l \in Seq(Call) /\ Len(l) = 1 /\ l[1] = m.legs[1]
      BY <1>5, <3>0, <3>s, SubSeqProperties
    <3>1. PICK n : n = [m EXCEPT !.pc = "rollback", !.k = 1, !.legs = l]
      OBVIOUS
    <3>2. /\ n \in MigRec /\ n.pc = "rollback" /\ n.k = 1 /\ n.legs = l
          /\ n.new = m.new /\ n.old = m.old
      BY <3>1, <3>l DEF MigRec, MigPC
    <3>3. mig' = [mig EXCEPT ![d][r] = n]
      BY <1>10, <2>5, <3>1, <3>s
    <3>4. OneMig(d, r, n)
      BY <1>10, <3>3, MigOnly
    <3>5. MovingOK(n, r, op[d].snap) /\ n.pc \in Moving
      BY <1>7, <3>0, <3>2, <3>l DEF MovingOK, Moving, Placed
    <3>6. /\ n.legs[1] = m.legs[1] /\ Len(n.legs) <= Len(m.legs)
          /\ \A i \in 1..Len(n.legs) : n.legs[i] = m.legs[i]
      BY <3>0, <3>2, <3>l
    <3>7. ASSUME NEW i \in 1..Len(n.legs)
          PROVE  LegOK(n, i, dlg'[m.legs[i]].sid, client'[m.legs[i]],
                       Live(m.legs[i])', sessionToNode')
      <4>1. PICK e : e = m.legs[i]
        OBVIOUS
      <4>2. i = 1
        BY <3>2, <3>l
      <4>3. /\ dlg'[e].sid = m.old[i]
            /\ Live(e)' => /\ client'[e] = dlg'[e].sid
                           /\ sessionToNode'[dlg'[e].sid] # None
        BY <1>9, <1>10, <2>0, <2>2, <3>0, <4>1, <4>2
      <4>4. LegOK(n, i, dlg'[e].sid, client'[e], Live(e)', sessionToNode')
        BY <3>2, <4>2, <4>3 DEF LegOK, Moved, Updated, Destroyed
      <4> QED BY <4>1, <4>4
    <3>8. LegsOK(n)'
      <4>1. \A i \in 1..Len(n.legs) : i <= Len(n.new) =>
               i <= Len(m.new) /\ n.new[i] = m.new[i]
        BY <3>2
      <4> QED BY <1>1, <1>m, <2>1, <3>2, <3>6, <3>7, <4>1, LegsNext, SMTT(30)
    <3> QED BY <1>1, <1>2, <1>5, <1>m, <2>1, <2>3, <3>2, <3>4, <3>5, <3>6, <3>8,
               MigFrame
  <2> QED BY <2>4, <2>5
<1>11. ASSUME NEW x \in Sid, x \notin used \/ rtp[x] = [node |-> t, call |-> c],
              used' = used \cup {x},
              rtp' = [rtp EXCEPT ![x] = [node |-> t, call |-> c]],
              TrackSession(x, t),
              mig' = [mig EXCEPT ![d][r] =
                     IF m.k < Len(m.legs)
                     THEN [m EXCEPT !.new = Append(m.new, x), !.k = m.k + 1]
                     ELSE [m EXCEPT !.new = Append(m.new, x), !.k = 1,
                                    !.pc = "invite"]],
              UNCHANGED <<op, callVars, stranded>>
       PROVE  MediaInv'
  <2>0. UNCHANGED <<dlg, handle, client, cbs, picked>>
    BY <1>11 DEF callVars
  <2>1. /\ Ids' /\ IdsKept /\ Owns(x, c)' /\ sessionToNode'[x] = t
        /\ \A s \in Sid \ {x} : sessionToNode'[s] = sessionToNode[s]
        /\ \A e \in Call \ {c} : \A s \in Sid :
              Owns(s, e) => sessionToNode'[s] = sessionToNode[s]
    BY <1>6, <1>8, <1>11, CreateFacts, ZenonT(30) DEF MediaInv, TrackSession
  <2>2. OnlyCall(c)
    BY <1>11, <2>0, <2>1 DEF OnlyCall
  <2>n. t # None /\ None \notin Sid
    BY <1>8, NoneIsNew DEF NoneIsNew
  <2>3. CallOK(c)'
    <3>1. CallOK(c) /\ dlg[c].sid # None
      BY <1>6, <2>n DEF MediaInv
    <3>2. PICK y : y = dlg[c].sid
      OBVIOUS
    <3>3. PICK z : z = handle[c]
      OBVIOUS
    <3>4. Owns(y, c)' /\ (z # None => Owns(z, c)')
      BY <2>1, <3>1, <3>2, <3>3, OwnsKept DEF CallOK
    <3> QED BY <2>0, <3>1, <3>2, <3>3, <3>4 DEF CallOK, Ringing, Owns
  <2>4. x \notin op[d].snap
    <3>1. x \in used => rtp[x].node = t /\ rtp[x] # None
      BY <1>6, <1>8, <1>11, NoneIsNew DEF NoneIsNew
    <3> QED BY <1>8, <3>1
  <2>5. PICK w : w = Append(m.new, x)
    OBVIOUS
  <2>6. /\ w \in Seq(Sid) /\ Len(w) = m.k /\ w[m.k] = x
        /\ \A i \in 1..Len(m.new) : w[i] = m.new[i]
    BY <1>5, <1>11, <2>5
  <2>7. PICK n : n = IF m.k < Len(m.legs) THEN [m EXCEPT !.new = w, !.k = m.k + 1]
                     ELSE [m EXCEPT !.new = w, !.k = 1, !.pc = "invite"]
    OBVIOUS
  <2>8. mig' = [mig EXCEPT ![d][r] = n]
    BY <1>11, <2>5, <2>7
  <2>9. /\ n \in MigRec /\ n.legs = m.legs /\ n.old = m.old /\ n.new = w
        /\ \/ n.pc = "create" /\ n.k = m.k + 1
           \/ n.pc = "invite" /\ n.k = 1
    <3>1. m.k + 1 \in Nat
      BY <1>5
    <3>2. CASE m.k < Len(m.legs)
      <4>1. n = [m EXCEPT !.new = w, !.k = m.k + 1]
        BY <2>7, <3>2
      <4> QED BY <1>4, <2>6, <3>1, <4>1 DEF MigRec
    <3>3. CASE ~(m.k < Len(m.legs))
      <4>1. n = [m EXCEPT !.new = w, !.k = 1, !.pc = "invite"]
        BY <2>7, <3>3
      <4> QED BY <2>6, <4>1 DEF MigRec, MigPC
    <3> QED BY <3>2, <3>3
  <2>10. OneMig(d, r, n)
    BY <1>11, <2>8, MigOnly
  <2>11. MovingOK(n, r, op[d].snap) /\ n.pc \in Moving
    <3>1. \A i \in 1..Len(w) : i = m.k \/ i \in 1..Len(m.new)
      BY <1>5, <2>6
    <3>2. \A i \in 1..Len(w) : w[i] \notin op[d].snap
      BY <1>7, <2>4, <2>6, <3>1 DEF MovingOK
    <3> QED BY <1>7, <2>9, <3>2 DEF MovingOK, Moving, Placed
  <2>12. ASSUME NEW i \in 1..Len(m.legs), NEW e, e = m.legs[i]
         PROVE  LegOK(n, i, dlg'[e].sid, client'[e], Live(e)', sessionToNode')
    <3>1. /\ dlg[e].sid = m.old[i] /\ dlg[e].sid \in Sid
          /\ Live(e) => client[e] = dlg[e].sid /\ sessionToNode[dlg[e].sid] # None
      BY <1>9, <2>12
    <3>2. Live(e)' => Live(e)
      BY <1>11, <2>0 DEF Live
    <3>3. Live(e)' => sessionToNode'[dlg[e].sid] # None
      BY <2>1, <2>n, <3>1, <3>2
    <3>4. ~Updated(n, i) /\ ~Destroyed(n, i)
      BY <2>9 DEF Updated, Destroyed
    <3>5. Len(n.legs) = 1 => n.new[1] = x
      BY <1>5, <2>6, <2>9
    <3>6. n.pc = "invite" => ~(i < n.k)
      BY <2>9
    <3> QED BY <2>0, <2>1, <2>9, <2>n, <3>1, <3>2, <3>3, <3>4, <3>5, <3>6
            DEF LegOK, Moved
  <2>13. LegsOK(n)'
    <3>1. ASSUME NEW i \in 1..Len(n.legs), i <= Len(n.new)
          PROVE  (i <= Len(m.new) /\ n.new[i] = m.new[i]) \/ Owns(n.new[i], m.legs[i])'
      <4>1. i <= m.k
        BY <2>6, <2>9, <3>1
      <4>2. CASE i = m.k
        BY <1>2, <2>1, <2>6, <2>9, <4>2
      <4>3. CASE i # m.k
        <5>1. i \in 1..Len(m.new)
          BY <1>5, <4>1, <4>3
        <5> QED BY <1>5, <2>6, <2>9, <5>1
      <4> QED BY <4>2, <4>3
    <3>2. Len(n.legs) <= Len(m.legs) /\ \A i \in 1..Len(n.legs) : n.legs[i] = m.legs[i]
      BY <1>5, <2>9
    <3>3. ASSUME NEW i \in 1..Len(n.legs)
          PROVE  LegOK(n, i, dlg'[m.legs[i]].sid, client'[m.legs[i]],
                       Live(m.legs[i])', sessionToNode')
      <4>1. PICK e : e = m.legs[i]
        OBVIOUS
      <4>2. i \in 1..Len(m.legs)
        BY <2>9
      <4> QED BY <2>12, <4>1, <4>2
    <3>4. n \in MigRec /\ n.old = m.old /\ IdsKept
      BY <2>1, <2>9
    <3> QED BY <1>1, <1>m, <3>1, <3>2, <3>3, <3>4, LegsNext, SMTT(30)
  <2>14. \A i \in 1..Len(m.legs) : ~(n.pc = "done" \/ i > Len(n.legs))
    BY <1>5, <2>9
  <2>15. /\ n.legs[1] = m.legs[1] /\ Len(n.legs) <= Len(m.legs)
         /\ \A i \in 1..Len(n.legs) : n.legs[i] = m.legs[i]
    BY <1>5, <2>9
  <2> QED BY <1>1, <1>2, <1>5, <1>m, <2>1, <2>2, <2>3, <2>9, <2>10, <2>11, <2>13,
             <2>14, <2>15, MigFrame
<1>12. \/ /\ Fails(d)
          /\ mig' = [mig EXCEPT ![d][r] =
                  IF m.k = 1 THEN [m EXCEPT !.pc = "done"]
                  ELSE [m EXCEPT !.pc = "rollback", !.k = 1,
                                 !.legs = SubSeq(m.legs, 1, 1)]]
          /\ UNCHANGED <<sessionToNode, rtp, used, callVars, stranded>>
       \/ /\ UNCHANGED <<op, callVars, stranded>>
          /\ ~(Sid \ used = {} /\ Held(t, c) = {})
          /\ \E x \in IF Held(t, c) # {} THEN Held(t, c)
                      ELSE {CHOOSE y \in Sid \ used : TRUE} :
               /\ used' = used \cup {x}
               /\ rtp' = [rtp EXCEPT ![x] = [node |-> t, call |-> c]]
               /\ TrackSession(x, t)
               /\ mig' = [mig EXCEPT ![d][r] =
                     IF m.k < Len(m.legs)
                     THEN [m EXCEPT !.new = Append(m.new, x), !.k = m.k + 1]
                     ELSE [m EXCEPT !.new = Append(m.new, x), !.k = 1,
                                    !.pc = "invite"]]
  BY <1>1, <1>2, <1>3 DEF CreateSessionOnNode
<1>13. \A x \in IF Held(t, c) # {} THEN Held(t, c)
                ELSE {CHOOSE y \in Sid \ used : TRUE} :
          ~(Sid \ used = {} /\ Held(t, c) = {}) =>
             x \in Sid /\ (x \notin used \/ rtp[x] = [node |-> t, call |-> c])
  <2>1. Sid \ used # {} => (CHOOSE y \in Sid \ used : TRUE) \in Sid \ used
    OBVIOUS
  <2> QED BY <2>1 DEF Held
<1> QED BY <1>10, <1>11, <1>12, <1>13

\* A session that a drain found is looked up once: while a migration moves the
\* call, the call is not found under the id of another of these sessions.
LEMMA NotMoving ==
    ASSUME Shape, NodeInv, MediaInv, NEW d \in DrainOp, NEW r \in Sid,
           mig[d][r].pc = "lookup", NEW c \in Call, c \notin BLegs, dlg[c].sid = r
    PROVE  ~InMigration(c) /\ (Peer[c] # None => ~InMigration(Peer[c]))
<1>1. op[d].pc = "migrating" /\ r \in op[d].snap
  BY DEF MediaInv, OpOK
<1>2. ASSUME NEW e \in DrainOp, NEW q \in Sid, mig[e][q].pc \in Moving,
             mig[e][q].legs[1] = c
      PROVE  FALSE
  <2>1. e = d
    <3>1. op[e].pc = "migrating"
      BY <1>2 DEF MediaInv, OpOK, Moving, Placed
    <3> QED BY <1>1, <3>1 DEF NodeInv, Entries, Busy
  <2>2. q # r
    BY <1>2, <2>1 DEF Moving, Placed
  <2>3. PICK m \in MigRec : m = mig[e][q] /\ Legs(m)
    BY DEF Shape, DrainTypes, Migs
  <2>4. /\ Len(m.legs) \in {1, 2} /\ Len(m.new) \in 0..Len(m.legs)
        /\ m.k \in 1..Len(m.legs)
        /\ m.pc # "create" => Len(m.new) = Len(m.legs)
    BY <1>2, <2>3, LegFacts
  <2>5. MovingOK(m, q, op[d].snap)
    BY <1>2, <2>1, <2>3, MigNow DEF MediaInv
  <2>l. PICK p \in Nat : p = Len(m.legs)
    BY <2>4
  <2>6. p \in {1, 2} /\ 1 \in 1..p /\ 1 \in 1..Len(m.legs)
    BY <2>4, <2>l
  <2>7. LegOK(m, 1, dlg[c].sid, client[c], Live(c), sessionToNode)
    BY <1>2, <2>3, <2>6, LegsKnown
  <2>8. Updated(m, 1) => 1 \in 1..Len(m.new)
    BY <2>4, <2>l, <2>6 DEF Updated
  <2>9. r = IF Updated(m, 1) THEN m.new[1] ELSE m.old[1]
    BY <2>7 DEF LegOK
  <2> QED BY <1>1, <2>2, <2>5, <2>8, <2>9 DEF MovingOK
<1>3. ASSUME NEW e \in DrainOp, NEW q \in Sid, mig[e][q].pc \in Moving,
             NEW i \in 1..Len(mig[e][q].legs)
      PROVE  /\ mig[e][q].legs[i] # c
             /\ Peer[c] # None => mig[e][q].legs[i] # Peer[c]
  <2>1. PICK m \in MigRec : m = mig[e][q] /\ Legs(m)
    BY DEF Shape, DrainTypes, Migs
  <2>2. Len(m.legs) \in {1, 2} /\ m.legs \in Seq(Call)
    BY <1>3, <2>1, LegFacts
  <2>3. MovingOK(m, q, op[e].snap)
    BY <1>3, <2>1, MigNow DEF MediaInv
  <2>i. i = 1 \/ (i = 2 /\ Len(m.legs) = 2)
    <3>1. PICK p \in {1, 2} : p = Len(m.legs)
      BY <2>2
    <3>2. i \in 1..p
      BY <2>1, <3>1
    <3>3. \A j \in 1..p : j = 1 \/ (j = 2 /\ p = 2)
      OBVIOUS
    <3> QED BY <3>1, <3>2, <3>3
  <2>j. m.legs[1] \in Call /\ (Len(m.legs) = 2 => m.legs[2] \in Call)
    BY <2>2
  <2>4. /\ m.legs[1] \in Call /\ m.legs[1] # c /\ m.legs[1] \notin BLegs
        /\ i = 1 \/ (i = 2 /\ m.legs[2] = Peer[m.legs[1]] /\ m.legs[2] \in Call)
    BY <1>2, <1>3, <2>1, <2>3, <2>i, <2>j DEF MovingOK
  <2>5. Peer[c] # None => Peer[c] \in BLegs
    BY DEF BLegs
  <2>6. m.legs[1] # c /\ (Peer[c] # None => m.legs[1] # Peer[c])
    BY <2>4, <2>5
  <2>7. CASE i = 2
    <3>1. Peer[m.legs[1]] # None /\ Peer[m.legs[1]] \in BLegs
      BY <2>4, <2>7, NoneIsNew DEF NoneIsNew, BLegs
    <3>2. Peer[c] # None => Peer[c] # Peer[m.legs[1]]
      BY <2>4, OneCaller DEF OneCaller
    <3> QED BY <2>1, <2>4, <2>7, <3>1, <3>2
  <2> QED BY <2>1, <2>4, <2>6, <2>7
<1> QED BY <1>3 DEF InMigration

\* A step of a migration that does not move a leg, before or after it.
LEMMA MigIdle ==
    ASSUME Shape, NodeInv, MediaInv, CallsSame, NEW d \in DrainOp, NEW r \in Sid,
           NEW p \in {"lookup", "skipped", "done"}, Go(d, r, p),
           Fails(d) \/ UNCHANGED op, mig[d][r].pc \in {"queued", "lookup"}
    PROVE  MediaInv'
<1>1. PICK m \in MigRec : m = mig[d][r]
  BY DEF Shape, DrainTypes
<1>2. PICK n : n = [m EXCEPT !.pc = p]
  OBVIOUS
<1>3. n.pc = p
  BY <1>1, <1>2 DEF MigRec
<1>4. mig' = [mig EXCEPT ![d][r] = n]
  BY <1>1, <1>2 DEF Go
<1>5. OneMig(d, r, n)
  BY <1>4, MigOnly
<1>6. \A e \in DrainOp : OpOK(e)'
  <2> SUFFICES ASSUME NEW e \in DrainOp PROVE OpOK(e)'
    OBVIOUS
  <2>1. OpOK(e)
    BY DEF MediaInv
  <2> QED BY <1>3, <1>5, <2>1 DEF OpOK, OneMig, CallsSame
<1>7. \A e \in DrainOp, q \in Sid :
         mig[e][q].pc \in Moving \/ mig'[e][q].pc \in Moving =>
            mig'[e][q] = mig[e][q] /\ op'[e].snap = op[e].snap
  BY <1>3, <1>5 DEF OneMig, Moving, Placed
<1> QED BY <1>6, <1>7, DrainStep

\* MigrateSession finds the call of the session: its legs begin to move.
Found(c, l, n) ==
    /\ l \in Seq(Call) /\ Len(l) \in {1, 2} /\ l[1] = c
    /\ Len(l) = 2 => l[2] = Peer[c] /\ dlg[l[2]].sid # None
    /\ n.pc = "create" /\ n.legs = l /\ n.new = <<>> /\ n.k = 1
    /\ Len(n.old) = Len(l) /\ \A i \in 1..Len(l) : n.old[i] = dlg[l[i]].sid

LEMMA MediaFound ==
    ASSUME Shape, NodeInv, MediaInv, CallsSame, NEW d \in DrainOp, NEW r \in Sid,
           mig[d][r].pc = "lookup", NEW c \in Call, c \notin BLegs,
           dlg[c].sid = r, NEW l, NEW n \in MigRec, Found(c, l, n),
           OneMig(d, r, n)
    PROVE  MediaInv'
<1> USE DEF Found
<1>n. n.pc \in Moving
  BY DEF Moving
<1>1. ~InMigration(c) /\ (Peer[c] # None => ~InMigration(Peer[c]))
  BY NotMoving
<1>2. OneMig(d, r, n)
  OBVIOUS
<1>3. ASSUME NEW i \in 1..Len(l)
      PROVE  l[i] \in Call /\ ~InMigration(l[i]) /\ dlg[l[i]].sid \in Sid
  <2>1. i = 1 \/ (i = 2 /\ Len(l) = 2)
    OBVIOUS
  <2>2. l[i] \in Call
    OBVIOUS
  <2>3. CASE i = 1
    BY <1>1, <2>2, <2>3
  <2>4. CASE i = 2 /\ Len(l) = 2
    <3>1. Peer[c] # None
      BY <2>2, <2>4, NoneIsNew DEF NoneIsNew
    <3>2. dlg[l[i]].sid \in Sid \cup {None}
      BY <2>2 DEF Shape, CallTypes, DlgRec
    <3> QED BY <1>1, <2>2, <2>4, <3>1, <3>2
  <2> QED BY <2>1, <2>3, <2>4
<1>4. Ids' /\ \A e \in Call : CallOK(e)'
  <2>1. Ids /\ \A e \in Call : CallOK(e)
    BY DEF MediaInv
  <2> QED BY <2>1 DEF Ids, CallOK, Owns, Ringing, CallsSame
<1>5. ASSUME NEW e \in DrainOp PROVE OpOK(e)'
  <2>1. OpOK(e)
    BY DEF MediaInv
  <2> QED BY <1>2, <2>1 DEF OpOK, OneMig, CallsSame
<1>6. LegsOK(n)'
  <2>1. \A i \in 1..Len(l) : n.old[i] = dlg[l[i]].sid
    OBVIOUS
  <2> SUFFICES ASSUME NEW i \in 1..Len(l), NEW e, e = l[i]
               PROVE  /\ n.old[i] # None /\ Owns(n.old[i], e)'
                      /\ ~(i <= Len(n.new))
                      /\ LegOK(n, i, dlg'[e].sid, client'[e], Live(e)', sessionToNode')
    BY DEF LegsOK
  <2>2. e \in Call /\ ~InMigration(e) /\ dlg[e].sid \in Sid /\ n.old[i] = dlg[e].sid
    BY <1>3, <2>1
  <2>3. CallOK(e) /\ dlg[e].sid # None
    BY <2>2, NoneIsNew DEF MediaInv, NoneIsNew
  <2>4. n.old[i] # None /\ Owns(n.old[i], e)'
    BY <2>2, <2>3 DEF CallOK, Owns, CallsSame
  <2>5. Live(e) => client[e] = dlg[e].sid /\ sessionToNode[dlg[e].sid] # None
    BY <2>2 DEF MediaInv, Heard
  <2>6. Len(n.new) = 0
    OBVIOUS
  <2>7. LegOK(n, i, dlg[e].sid, client[e], Live(e), sessionToNode)
    BY <2>2, <2>5, <2>6 DEF LegOK, Moved, Updated, Destroyed
  <2>8. LegOK(n, i, dlg'[e].sid, client'[e], Live(e)', sessionToNode')
    BY <2>7 DEF CallsSame, Live
  <2> QED BY <2>4, <2>6, <2>8
<1>7. MovingOK(n, r, op[d].snap)
  <2>1. n.old[1] = r /\ Len(n.old) = Len(l) /\ Len(n.new) = 0
    OBVIOUS
  <2> QED BY <2>1 DEF MovingOK
<1>8. ASSUME NEW e \in DrainOp, NEW q \in Sid PROVE MigOK(e, q)'
  <2>1. CASE e = d /\ q = r
    BY <1>2, <1>6, <1>7, <2>1, MigNext DEF OneMig
  <2>2. CASE e # d \/ q # r
    <3>1. PICK m : m = mig[e][q] /\ m = mig'[e][q]
      BY <1>2, <2>2 DEF OneMig
    <3>o. op'[e].snap = op[e].snap
      BY <1>2 DEF OneMig
    <3>2. m.pc \in Moving => MovingOK(m, q, op'[e].snap) /\ LegsOK(m)
      BY <3>1, <3>o, MigNow DEF MediaInv
    <3>3. LegsOK(m) => LegsOK(m)'
      BY DEF LegsOK, Owns, Live, CallsSame
    <3> QED BY <3>1, <3>2, <3>3, MigNext
  <2> QED BY <2>1, <2>2
<1>9. ASSUME NEW q \in Sid, q # r, mig[d][q].pc \in Moving
      PROVE  mig[d][q].legs[1] # c
  <2>1. PICK m \in MigRec : m = mig[d][q] /\ Legs(m)
    BY DEF Shape, DrainTypes, Migs
  <2>2. 1 \in 1..Len(m.legs)
    BY <1>9, <2>1, LegFacts
  <2> QED BY <1>1, <1>9, <2>1, <2>2 DEF InMigration
<1>10. Apart'
  <2> SUFFICES ASSUME NEW e \in DrainOp, NEW p \in Sid, NEW q \in Sid,
                      mig'[e][p].pc \in Moving, mig'[e][q].pc \in Moving,
                      mig'[e][p].legs[1] = mig'[e][q].legs[1]
               PROVE  p = q
    BY DEF Apart
  <2>1. CASE e # d \/ (p # r /\ q # r)
    BY <1>2, <2>1 DEF OneMig, MediaInv, Apart
  <2>2. CASE e = d /\ (p = r \/ q = r)
    BY <1>2, <1>9, <2>2 DEF OneMig
  <2> QED BY <2>1, <2>2
<1>11. Heard'
  <2> SUFFICES ASSUME NEW e \in Call, Live(e)', ~InMigration(e)'
               PROVE  client[e] = dlg[e].sid /\ sessionToNode[dlg[e].sid] # None
    BY DEF Heard, CallsSame
  <2>1. Live(e)
    BY DEF Live, CallsSame
  <2>2. ~InMigration(e)
    BY <1>2 DEF InMigration, OneMig, Moving, Placed
  <2> QED BY <2>1, <2>2 DEF MediaInv, Heard
<1> QED BY <1>4, <1>5, <1>8, <1>10, <1>11 DEF MediaInv

LEMMA MediaLookup ==
    ASSUME Shape, NodeInv, MediaInv, NEW d \in DrainOp, NEW r \in Sid,
           Acquire(d, r) \/ Lookup(d, r)
    PROVE  MediaInv'
<1>1. CASE Acquire(d, r)
  <2>1. /\ CallsSame /\ UNCHANGED op /\ mig[d][r].pc = "queued"
        /\ Go(d, r, "done") \/ Go(d, r, "lookup")
    BY <1>1 DEF Acquire, CallsSame, poolVars, callVars
  <2> QED BY <2>1, MigIdle
<1>2. CASE Lookup(d, r)
  <2>1. CallsSame /\ mig[d][r].pc = "lookup"
    BY <1>2 DEF Lookup, CallsSame, poolVars, callVars
  <2>2. CASE (Go(d, r, "done") /\ Fails(d)) \/ (Go(d, r, "skipped") /\ UNCHANGED op)
    BY <2>1, <2>2, MigIdle
  <2>3. ASSUME NEW c \in Call, c \notin BLegs, dlg[c].sid = r,
               NEW l \in {<<c>>, <<c, Peer[c]>>},
               Len(l) = 2 => Peer[c] # None /\ dlg[Peer[c]].sid # None,
               UNCHANGED op,
               mig' = [mig EXCEPT ![d][r] =
                         [mig[d][r] EXCEPT !.pc = "create", !.legs = l,
                            !.old = [i \in 1..Len(l) |-> dlg[l[i]].sid]]]
        PROVE  MediaInv'
    <3>1. PICK m \in MigRec : m = mig[d][r] /\ m.new = <<>> /\ m.k = 1
      BY <2>1 DEF Shape, DrainTypes, Migs, Legs, Unstarted
    <3>2. /\ l \in Seq(Call) /\ Len(l) \in {1, 2} /\ l[1] = c
          /\ Len(l) = 2 => l[2] = Peer[c] /\ dlg[l[2]].sid # None
      <4>1. CASE l = <<c>>
        BY <4>1
      <4>2. CASE l = <<c, Peer[c]>>
        <5>1. Peer[c] \in Call
          BY <2>3, <4>2, PeerType DEF PeerType
        <5> QED BY <2>3, <4>2, <5>1
      <4> QED BY <4>1, <4>2
    <3>3. PICK o : o = [i \in 1..Len(l) |-> dlg[l[i]].sid]
      OBVIOUS
    <3>4. o \in Seq(Sid \cup {None})
      <4>1. \A i \in 1..Len(l) : dlg[l[i]].sid \in Sid \cup {None}
        <5>1. \A i \in 1..Len(l) : l[i] \in Call
          BY <3>2
        <5> QED BY <5>1 DEF Shape, CallTypes, DlgRec
      <4>2. Len(l) \in Nat
        BY <3>2
      <4> QED BY <3>3, <4>1, <4>2, FunctionIsSeq
    <3>5. PICK n : n = [m EXCEPT !.pc = "create", !.legs = l, !.old = o]
      OBVIOUS
    <3>6. /\ n \in MigRec /\ n.pc = "create" /\ n.legs = l /\ n.new = <<>>
          /\ n.k = 1 /\ n.old = o
      BY <3>1, <3>2, <3>4, <3>5 DEF MigRec, MigPC
    <3>7. mig' = [mig EXCEPT ![d][r] = n]
      BY <2>3, <3>1, <3>3, <3>5
    <3>8. Len(n.old) = Len(l) /\ \A i \in 1..Len(l) : n.old[i] = dlg[l[i]].sid
      BY <3>2, <3>3, <3>4, <3>6
    <3>9. Found(c, l, n)
      BY <3>2, <3>6, <3>8 DEF Found
    <3>10. OneMig(d, r, n)
      BY <2>3, <3>7, MigOnly
    <3> QED BY <2>1, <2>3, <3>6, <3>9, <3>10, MediaFound
  <2> QED BY <1>2, <2>2, <2>3 DEF Lookup
<1> QED BY <1>1, <1>2

-----------------------------------------------------------------------------
(* Calls are heard *)

LEMMA MediaInit == Init => MediaInv /\ Named
<1> SUFFICES ASSUME Init PROVE MediaInv /\ Named
  OBVIOUS
<1> DEFINE up == Call \ Early
           Fit == {f \in [up -> Sid] : \A c, e \in up : f[c] = f[e] => c = e}
           sid == CHOOSE f \in [up -> Sid] :
                     \A c, e \in up : f[c] = f[e] => c = e
           Of(s) == {c \in up : sid[c] = s}
           Mine(s) == CHOOSE c \in up : sid[c] = s
<1>1. sid \in [up -> Sid] /\ \A c, e \in up : sid[c] = sid[e] => c = e
  <2>1. PICK f \in [Call -> Sid] : \A c, e \in Call : f[c] = f[e] => c = e
    BY EnoughIds DEF EnoughIds
  <2>2. [c \in up |-> f[c]] \in Fit
    BY <2>1
  <2> QED BY <2>2
<1>2. \A s \in Sid : Of(s) # {} => Mine(s) \in up /\ sid[Mine(s)] = s
  OBVIOUS
<1>3. PICK at \in [Call -> Node] :
         /\ sessionToNode = [s \in Sid |-> IF Of(s) = {} THEN None
                                           ELSE at[Mine(s)]]
         /\ rtp = [s \in Sid |-> IF Of(s) = {} THEN None
                                 ELSE [node |-> at[Mine(s)],
                                       call |-> Mine(s)]]
         /\ used = {sid[c] : c \in up}
         /\ dlg = [c \in Call |->
                     IF c \in up THEN [state |-> "Confirmed", sid |-> sid[c]]
                                 ELSE [state |-> "none", sid |-> None]]
         /\ handle = [c \in Call |-> dlg[c].sid]
         /\ client = handle
  BY DEF Init
<1>4. \A c \in up : sid[c] \in Sid /\ Of(sid[c]) # {} /\ Mine(sid[c]) = c
  BY <1>1, <1>2
<1>5. \A s \in Sid : Of(s) # {} => \E c \in up : sid[c] = s /\ Mine(s) = c
  BY <1>2
<1>u. up \subseteq Call
  OBVIOUS
<1> HIDE DEF sid, Of, Mine, up
<1>6. \A c \in up : /\ sessionToNode[sid[c]] = at[c] /\ at[c] \in Node
                    /\ rtp[sid[c]] = [node |-> at[c], call |-> c]
                    /\ rtp[sid[c]] # None
                    /\ dlg[c].state = "Confirmed" /\ dlg[c].sid = sid[c]
                    /\ handle[c] = sid[c] /\ client[c] = sid[c]
  BY <1>3, <1>4, <1>u, NoneIsNew DEF NoneIsNew
<1>7. \A c \in Call : c \notin up =>
         /\ dlg[c].state = "none" /\ dlg[c].sid = None /\ handle[c] = None
  BY <1>3
<1>8. \A s \in Sid : \/ sessionToNode[s] = None /\ rtp[s] = None
                     \/ \E c \in up : s = sid[c]
  BY <1>3, <1>5
<1>n. None \notin Sid /\ None \notin Node
  BY NoneIsNew DEF NoneIsNew
<1>9. /\ cbs = {} /\ picked = [c \in Call |-> None]
      /\ op = [d \in DrainOp |-> NoOp] /\ stranded = {}
      /\ mig = [d \in DrainOp |-> [s \in Sid |-> Idle]]
  BY DEF Init
<1>10. \A d \in DrainOp : op[d].pc = "new" /\ \A r \in Sid : mig[d][r].pc = "none"
  BY <1>9 DEF NoOp, Idle
<1>11. Ids
  <2> SUFFICES ASSUME NEW s \in Sid
               PROVE  /\ rtp[s] # None => s \in used
                      /\ sessionToNode[s] # None =>
                            rtp[s] # None /\ rtp[s].node = sessionToNode[s]
    BY DEF Ids
  <2>1. CASE sessionToNode[s] = None /\ rtp[s] = None
    BY <2>1
  <2>2. ASSUME NEW c \in up, s = sid[c]
        PROVE  s \in used /\ rtp[s] # None /\ rtp[s].node = sessionToNode[s]
    BY <1>3, <1>6, <2>2
  <2> QED BY <1>8, <2>1, <2>2
<1>12. ASSUME NEW c \in Call PROVE CallOK(c)
  <2>1. picked[c] = None /\ c \notin cbs
    BY <1>9
  <2>2. CASE c \in up
    <3>0. PICK x : x = sid[c]
      OBVIOUS
    <3>a. x \in used
      BY <1>3, <2>2, <3>0
    <3>b. rtp[x].call = c
      <4>1. rtp[x] = [node |-> at[c], call |-> c]
        BY <1>6, <2>2, <3>0
      <4> QED BY <4>1
    <3>1. Owns(sid[c], c)
      BY <3>0, <3>a, <3>b DEF Owns
    <3>2. dlg[c].state = "Confirmed" /\ dlg[c].sid = sid[c] /\ handle[c] = sid[c]
      BY <1>6, <2>2
    <3>3. sid[c] # None
      BY <1>4, <1>n, <2>2
    <3> QED BY <2>1, <3>1, <3>2, <3>3 DEF CallOK, Ringing
  <2>3. CASE c \notin up
    BY <1>7, <2>1, <2>3 DEF CallOK, Ringing
  <2> QED BY <2>2, <2>3
<1>13. \A d \in DrainOp : OpOK(d)
  BY <1>10 DEF OpOK
<1>14. \A d \in DrainOp, r \in Sid : MigOK(d, r)
  BY <1>10 DEF MigOK, Moving, Placed
<1>15. Apart
  BY <1>10 DEF Apart, Moving, Placed
<1>16. Heard
  <2> SUFFICES ASSUME NEW c \in Call, Live(c)
               PROVE  client[c] = dlg[c].sid /\ sessionToNode[dlg[c].sid] # None
    BY DEF Heard
  <2>1. c \in up
    BY <1>7 DEF Live
  <2>2. PICK x : x = sid[c]
    OBVIOUS
  <2>3. sessionToNode[x] = at[c] /\ at[c] \in Node /\ dlg[c].sid = x /\ client[c] = x
    BY <1>6, <2>1, <2>2
  <2> QED BY <1>n, <2>3
<1>17. Named
  <2> SUFFICES ASSUME NEW s \in Sid, sessionToNode[s] # None
               PROVE  \E c \in Call : dlg[c].sid = s /\ dlg[c].state # "Terminated"
    BY DEF Named, Names, Over
  <2>1. PICK c \in up : s = sid[c]
    BY <1>8
  <2>2. dlg[c].sid = sid[c] /\ dlg[c].state # "Terminated"
    BY <1>6
  <2> QED BY <1>u, <2>1, <2>2
<1> QED BY <1>11, <1>12, <1>13, <1>14, <1>15, <1>16, <1>17 DEF MediaInv

LEMMA MediaNext == Shape /\ NodeInv /\ MediaInv /\ [Next]_vars => MediaInv'
<1> SUFFICES ASSUME Shape, NodeInv, MediaInv, [Next]_vars PROVE MediaInv'
  OBVIOUS
<1>1. CASE CallNext
  BY <1>1, MediaCalls
<1>2. ASSUME NEW d \in DrainOp,
             OpStep(d) \/ Timeout(d) \/ \E n \in Node : StartDrain(d, n)
      PROVE  MediaInv'
  BY <1>2, MediaOps
<1>3. ASSUME NEW d \in DrainOp, NEW s \in Sid, MigStep(d, s) PROVE MediaInv'
  BY <1>3, MediaLookup, MediaCreate, MediaInvite, MediaRollback, MediaDestroy,
     MediaUpdate, MediaBridge DEF MigStep
<1>4. ASSUME NEW n \in Node, CancelDrain(n) \/ CheckHealth(n) PROVE MediaInv'
  BY <1>4, MediaNodes
<1>5. CASE UNCHANGED vars
  <2>1. CallsSame /\ UNCHANGED <<op, mig>>
    BY <1>5 DEF vars, poolVars, callVars, drainVars, CallsSame
  <2>2. \A d \in DrainOp : OpOK(d)'
    BY <2>1, OpSame DEF MediaInv
  <2> QED BY <2>1, <2>2, DrainStep
<1> QED BY <1>1, <1>2, <1>3, <1>4, <1>5 DEF Next

LEMMA MediaInvariant ==
    ASSUME ~Overlap PROVE Spec => [](Shape /\ NodeInv /\ MediaInv)
<1>1. Init => Shape /\ NodeInv /\ MediaInv
  BY ShapeInit, NodeInit, MediaInit
<1>2. Shape /\ NodeInv /\ MediaInv /\ [Next]_vars => (Shape /\ NodeInv /\ MediaInv)'
  BY ShapeNext, NodeNext, MediaNext
<1> QED BY <1>1, <1>2, PTL DEF Spec

\* However many sessions a drain migrates at a time, whatever fails, and
\* whenever the drain is cancelled or times out or its calls end: an established
\* call that no migration is moving is on a session that exists, that the pool
\* finds and that its far end sends to, unless its migration failed after the
\* far end had moved (migrator.go, pool.go).
THEOREM CallsStayHeard == ASSUME ~Overlap PROVE Spec => []CallHeard
<1>1. Shape /\ NodeInv /\ MediaInv => CallHeard
  <2> SUFFICES ASSUME Shape, MediaInv, NEW c \in Call, Settled(c)
               PROVE  /\ client[c] = dlg[c].sid
                      /\ rtp[dlg[c].sid] # None
                      /\ sessionToNode[dlg[c].sid] = rtp[dlg[c].sid].node
    BY DEF CallHeard
  <2>1. Live(c) /\ dlg[c].state = "Confirmed"
    BY DEF Settled, Live
  <2>2. ~InMigration(c)
    BY DEF Settled, Migrating, Running, InMigration, Moving, Placed
  <2>3. client[c] = dlg[c].sid /\ sessionToNode[dlg[c].sid] # None
    BY <2>1, <2>2 DEF MediaInv, Heard
  <2>4. dlg[c].sid \in Sid
    <3>1. dlg[c].sid \in Sid \cup {None}
      BY DEF Shape, CallTypes, DlgRec
    <3> QED BY <2>1, <3>1 DEF MediaInv, CallOK
  <2> QED BY <2>3, <2>4 DEF MediaInv, Ids
<1> QED BY <1>1, MediaInvariant, PTL

-----------------------------------------------------------------------------
(* Sessions are named.  A step of a call, or of a migration, gives a session *)
(* a name, or takes one from a session that the pool forgets.                *)

LEMMA NamedCall ==
    ASSUME Named, UNCHANGED mig, NEW c \in Call,
           \A e \in Call \ {c} : dlg'[e] = dlg[e] /\ handle'[e] = handle[e],
           stranded \subseteq stranded',
           \A e \in Call \ {c} : e \in cbs' <=> e \in cbs,
           \A s \in Sid : sessionToNode'[s] # None =>
              Names(c, s)' \/ (sessionToNode[s] # None /\ ~Names(c, s))
    PROVE  Named'
<1> SUFFICES ASSUME NEW s \in Sid, sessionToNode'[s] # None, ~Names(c, s)'
             PROVE  \/ \E e \in Call : Names(e, s)'
                    \/ \E d \in DrainOp, r \in Sid : s \in Pending(mig[d][r])
  BY DEF Named, Pending
<1>1. sessionToNode[s] # None /\ ~Names(c, s)
  OBVIOUS
<1>2. \A e \in Call \ {c} : Names(e, s) => Names(e, s)'
  BY DEF Names, Ringing, Over
<1> QED BY <1>1, <1>2 DEF Named

LEMMA NamedMig ==
    ASSUME Named, NEW d \in DrainOp, NEW r \in Sid, NEW n, OneMig(d, r, n),
           UNCHANGED <<dlg, handle, cbs>>, stranded \subseteq stranded',
           \A s \in Sid : sessionToNode'[s] # None =>
              \/ s \in Pending(n)
              \/ sessionToNode[s] # None /\ s \notin Pending(mig[d][r])
    PROVE  Named'
<1> SUFFICES ASSUME NEW s \in Sid, sessionToNode'[s] # None
             PROVE  \/ \E c \in Call : Names(c, s)'
                    \/ \E e \in DrainOp, q \in Sid : s \in Pending(mig'[e][q])
  BY DEF Named, Pending
<1>1. CASE s \in Pending(n)
  BY <1>1 DEF OneMig
<1>2. CASE sessionToNode[s] # None /\ s \notin Pending(mig[d][r])
  <2>1. \A c \in Call : Names(c, s) => Names(c, s)'
    BY DEF Names, Ringing, Over
  <2>2. CASE \E c \in Call : Names(c, s)
    BY <2>1, <2>2
  <2>3. ASSUME NEW e \in DrainOp, NEW q \in Sid, s \in Pending(mig[e][q])
        PROVE  s \in Pending(mig'[e][q])
    <3>1. e # d \/ q # r
      BY <1>2, <2>3
    <3>2. mig'[e][q] = mig[e][q]
      BY <3>1 DEF OneMig
    <3> QED BY <2>3, <3>2
  <2> QED BY <1>2, <2>2, <2>3 DEF Named
<1> QED BY <1>1, <1>2

LEMMA NamedSame ==
    ASSUME Named, UNCHANGED <<dlg, handle, mig, cbs>>,
           stranded \subseteq stranded',
           \A s \in Sid : sessionToNode'[s] # None => sessionToNode[s] # None
    PROVE  Named'
<1> SUFFICES ASSUME NEW s \in Sid, sessionToNode'[s] # None
             PROVE  \/ \E c \in Call : Names(c, s)
                    \/ \E d \in DrainOp, r \in Sid : s \in Pending(mig[d][r])
  <2>1. \A c \in Call : \A s : Names(c, s) => Names(c, s)'
    BY DEF Names, Ringing, Over
  <2> QED BY <2>1 DEF Named, Pending
<1> QED BY DEF Named

\* A migration that goes on with all its new sessions names them.
LEMMA PendingKept ==
    ASSUME NEW m, NEW n, n.new = m.new,
           \/ n.pc \in {"create", "invite", "answer", "destroy"}
           \/ n.pc \in {"rollback", "update"} /\ n.k = 1
    PROVE  Pending(m) \subseteq Pending(n)
<1> SUFFICES ASSUME NEW j \in 1..Len(m.new)
             PROVE  m.new[j] \in Pending(n)
  BY DEF Pending
<1>1. j >= 1
  OBVIOUS
<1> QED BY <1>1 DEF Pending

LEMMA NonePending ==
    ASSUME NEW m, m.pc \notin {"create", "invite", "answer", "destroy",
                               "rollback", "update"}
    PROVE  Pending(m) = {}
BY DEF Pending

LEMMA Forgets ==
    ASSUME NEW x, NEW b, DestroySession(x, b),
           sessionToNode \in [Sid -> Node \cup {None}]
    PROVE  \A s \in Sid : /\ sessionToNode'[s] # None => sessionToNode[s] # None
                          /\ s = x => sessionToNode'[s] = None
BY DEF DestroySession, UntrackSession

LEMMA NamedCalls ==
    ASSUME Shape, MediaInv, Named, CallNext
    PROVE  Named'
<1>t. /\ dlg \in [Call -> DlgRec] /\ handle \in [Call -> Sid \cup {None}]
      /\ sessionToNode \in [Sid -> Node \cup {None}]
  BY DEF Shape, CallTypes, PoolTypes
<1>n. None \notin Sid
  BY NoneIsNew DEF NoneIsNew
<1>i. \A e \in Call : CallOK(e)
  BY DEF MediaInv
<1>1. ASSUME NEW c \in Call,
             SelectMember(c) \/ CreateSessionFails(c) \/ StartBridge(c)
             \/ StopBridge(c)
      PROVE  Named'
  <2>1. UNCHANGED <<dlg, handle, mig, sessionToNode, cbs>>
        /\ stranded \subseteq stranded'
    BY <1>1 DEF SelectMember, CreateSessionFails, StartBridge, StopBridge,
                poolVars, drainVars
  <2> QED BY <2>1, NamedSame
<1>2. ASSUME NEW c \in Call, OnTerminated(c) PROVE Named'
  <2>1. /\ UNCHANGED <<dlg, handle, mig, stranded>>
        /\ c \in cbs /\ cbs' = cbs \ {c} /\ DestroySession(dlg[c].sid, FALSE)
    BY <1>2 DEF OnTerminated, drainVars
  <2>2. \A s \in Sid : sessionToNode'[s] # None =>
           sessionToNode[s] # None /\ s # dlg[c].sid
    BY <1>t, <2>1, Forgets
  <2>3. dlg[c].state = "Terminated"
    BY <1>i, <2>1 DEF CallOK
  <2>4. \A s \in Sid : s # dlg[c].sid => ~Names(c, s)
    BY <2>3 DEF Names, Ringing
  <2> QED BY <2>1, <2>2, <2>4, NamedCall
<1>3. ASSUME NEW c \in Call, CreateSession(c) PROVE Named'
  <2>1. PICK x \in Sid \ used :
         /\ sessionToNode' = [sessionToNode EXCEPT ![x] = picked[c]]
         /\ handle' = [handle EXCEPT ![c] = x]
         /\ IF c \in BLegs THEN UNCHANGED <<dlg, client>>
            ELSE dlg' = [dlg EXCEPT ![c] = [state |-> "Early", sid |-> x]]
    BY <1>3 DEF CreateSession, TrackSession
  <2>2. UNCHANGED <<mig, cbs, stranded>> /\ picked[c] # None
    BY <1>3 DEF CreateSession, drainVars
  <2>3. dlg[c].state = "none" /\ dlg[c].sid = None /\ handle[c] = None
    BY <1>i, <2>2 DEF CallOK
  <2>4. /\ handle'[c] = x
        /\ c \in BLegs => dlg'[c] = dlg[c]
        /\ c \notin BLegs => dlg'[c].sid = x /\ dlg'[c].state = "Early"
        /\ \A e \in Call \ {c} : dlg'[e] = dlg[e] /\ handle'[e] = handle[e]
    BY <1>t, <2>1
  <2>5. \A s \in Sid \ {x} : sessionToNode'[s] = sessionToNode[s]
    BY <1>t, <2>1
  <2>6. Names(c, x)'
    BY <1>n, <2>1, <2>3, <2>4 DEF Names, Ringing, Over
  <2>7. \A s \in Sid : ~Names(c, s)
    BY <1>n, <2>3 DEF Names, Ringing
  <2>8. ASSUME NEW s \in Sid, sessionToNode'[s] # None
        PROVE  Names(c, s)' \/ (sessionToNode[s] # None /\ ~Names(c, s))
    <3>1. CASE s = x
      BY <2>6, <3>1
    <3>2. CASE s # x
      BY <2>5, <2>7, <2>8, <3>2
    <3> QED BY <3>1, <3>2
  <2> QED BY <2>2, <2>4, <2>8, NamedCall
<1>4. ASSUME NEW c \in Call, Confirm(c) \/ Terminate(c) PROVE Named'
  <2>1. /\ UNCHANGED <<handle, mig, sessionToNode, stranded>>
        /\ dlg[c].state \in {"Early", "Confirmed"}
        /\ \/ dlg' = [dlg EXCEPT ![c].state = "Confirmed"] /\ cbs' = cbs
           \/ /\ dlg' = [dlg EXCEPT ![c].state = "Terminated"]
              /\ cbs' = cbs \cup {c}
    BY <1>4 DEF Confirm, Terminate, poolVars, drainVars
  <2>2. /\ dlg'[c].sid = dlg[c].sid
        /\ dlg'[c].state = "Confirmed" \/ c \in cbs'
        /\ \A e \in Call \ {c} : dlg'[e] = dlg[e] /\ (e \in cbs' <=> e \in cbs)
    BY <1>t, <2>1 DEF DlgRec
  <2>3. \A s \in Sid : Names(c, s) => Names(c, s)'
    BY <2>1, <2>2 DEF Names, Ringing, Over
  <2> QED BY <2>1, <2>2, <2>3, NamedCall
<1>5. ASSUME NEW c \in Call, Handle2xx(c) PROVE Named'
  <2>1. /\ Ringing(c)
        /\ UNCHANGED <<handle, mig, sessionToNode, cbs, stranded>>
        /\ dlg' = [dlg EXCEPT ![c] = [state |-> "Confirmed", sid |-> handle[c]]]
    BY <1>5 DEF Handle2xx, poolVars, drainVars
  <2>2. /\ dlg'[c].sid = handle[c] /\ dlg'[c].state = "Confirmed"
        /\ \A e \in Call \ {c} : dlg'[e] = dlg[e]
    BY <1>t, <2>1
  <2>3. dlg[c].sid = None
    BY <1>i, <2>1 DEF CallOK, Ringing
  <2>4. \A s \in Sid : Names(c, s) => Names(c, s)'
    BY <1>n, <2>2, <2>3 DEF Names, Over
  <2> QED BY <2>1, <2>2, <2>4, NamedCall
<1>6. ASSUME NEW c \in Call, DialFails(c) PROVE Named'
  <2>1. /\ Ringing(c) /\ UNCHANGED <<handle, mig, cbs, stranded>>
        /\ DestroySession(handle[c], FALSE)
        /\ dlg' = [dlg EXCEPT ![c].state = "Terminated"]
    BY <1>6 DEF DialFails, drainVars
  <2>2. \A e \in Call \ {c} : dlg'[e] = dlg[e]
    BY <1>t, <2>1
  <2>3. dlg[c].sid = None
    BY <1>i, <2>1 DEF CallOK, Ringing
  <2>4. \A s \in Sid : sessionToNode'[s] # None =>
           sessionToNode[s] # None /\ s # handle[c]
    BY <1>t, <2>1, Forgets
  <2>5. \A s \in Sid : s # handle[c] => ~Names(c, s)
    BY <1>n, <2>3 DEF Names
  <2> QED BY <2>1, <2>2, <2>4, <2>5, NamedCall
<1> QED BY <1>1, <1>2, <1>3, <1>4, <1>5, <1>6 DEF CallNext

LEMMA NamedOps ==
    ASSUME Shape, MediaInv, Named,
           \/ \E d \in DrainOp :
                 OpStep(d) \/ Timeout(d) \/ \E n \in Node : StartDrain(d, n)
           \/ \E n \in Node : CancelDrain(n) \/ CheckHealth(n)
    PROVE  Named'
<1>1. ASSUME NEW d \in DrainOp, Migrate(d) PROVE Named'
  <2>1. /\ op[d].pc = "start"
        /\ UNCHANGED <<dlg, handle, sessionToNode, cbs, stranded>>
        /\ mig' = [mig EXCEPT ![d] = [s \in Sid |->
                      IF s \in op[d].snap THEN [Idle EXCEPT !.pc = "queued"]
                                          ELSE Idle]]
    BY <1>1 DEF Migrate, poolVars, callVars
  <2>2. \A e \in DrainOp \ {d} : mig'[e] = mig[e]
    BY <2>1 DEF Shape, DrainTypes
  <2>3. \A r \in Sid : mig[d][r].pc = "none"
    BY <2>1 DEF Shape, Migs
  <2>4. \A r \in Sid : Pending(mig[d][r]) = {}
    BY <2>3, NonePending
  <2> SUFFICES ASSUME NEW s \in Sid, sessionToNode'[s] # None
               PROVE  \/ \E c \in Call : Names(c, s)
                      \/ \E e \in DrainOp, r \in Sid : s \in Pending(mig'[e][r])
    BY <2>1 DEF Named, Pending, Names, Ringing, Over
  <2>5. ASSUME NEW e \in DrainOp, NEW r \in Sid, s \in Pending(mig[e][r])
        PROVE  s \in Pending(mig'[e][r])
    <3>1. e # d
      BY <2>4, <2>5
    <3> QED BY <2>2, <2>5, <3>1
  <2> QED BY <2>1, <2>5 DEF Named
<1>2. ASSUME NEW d \in DrainOp,
             \/ NoSessions(d) \/ FailDrain(d) \/ Wait(d) \/ CompleteDrain(d)
             \/ Disable(d) \/ Timeout(d) \/ \E n \in Node : StartDrain(d, n)
      PROVE  Named'
  <2>1. UNCHANGED <<dlg, handle, mig, sessionToNode, cbs, stranded>>
    BY <1>2 DEF NoSessions, FailDrain, Wait, CompleteDrain, Disable, Timeout,
                StartDrain, poolVars, callVars
  <2> QED BY <2>1, NamedSame
<1>3. ASSUME NEW n \in Node, CancelDrain(n) \/ CheckHealth(n) PROVE Named'
  <2>1. UNCHANGED <<dlg, handle, mig, sessionToNode, cbs, stranded>>
    BY <1>3 DEF CancelDrain, CheckHealth, callVars, drainVars
  <2> QED BY <2>1, NamedSame
<1> QED BY <1>1, <1>2, <1>3 DEF OpStep

\* The steps of a migration before it has new sessions, after it has handed
\* them over, and those that keep them all.
LEMMA NamedWaits ==
    ASSUME Shape, MediaInv, Named, NEW d \in DrainOp, NEW r \in Sid,
           Acquire(d, r) \/ Lookup(d, r) \/ SendReINVITE(d, r) \/ Answer(d, r)
           \/ BridgeMedia(d, r)
    PROVE  Named'
<1>1. PICK m \in MigRec : m = mig[d][r] /\ Legs(m)
  BY DEF Shape, DrainTypes, Migs
<1>0. /\ UNCHANGED <<dlg, handle, sessionToNode, cbs>>
      /\ stranded \subseteq stranded' /\ (Fails(d) \/ UNCHANGED op)
  BY DEF Acquire, Lookup, SendReINVITE, Answer, BridgeMedia, poolVars, callVars
<1>2. CASE Acquire(d, r) \/ Lookup(d, r) \/ BridgeMedia(d, r)
  <2>1. /\ m.pc \in {"queued", "lookup", "bridge"}
        /\ \E n : mig' = [mig EXCEPT ![d][r] = n]
    <3>1. CASE Acquire(d, r) \/ BridgeMedia(d, r)
      <4>1. /\ m.pc \in {"queued", "bridge"}
            /\ Go(d, r, "done") \/ Go(d, r, "lookup")
        BY <1>1, <3>1 DEF Acquire, BridgeMedia
      <4> QED BY <1>1, <4>1 DEF Go
    <3>2. CASE Lookup(d, r)
      <4>1. m.pc = "lookup"
        BY <1>1, <3>2 DEF Lookup
      <4>2. CASE Go(d, r, "done") \/ Go(d, r, "skipped")
        BY <4>1, <4>2 DEF Go
      <4>3. CASE ~(Go(d, r, "done") \/ Go(d, r, "skipped"))
        BY <3>2, <4>1, <4>3 DEF Lookup
      <4> QED BY <4>2, <4>3
    <3> QED BY <1>2, <3>1, <3>2
  <2>2. PICK n : mig' = [mig EXCEPT ![d][r] = n]
    BY <2>1
  <2>3. OneMig(d, r, n)
    BY <1>0, <2>2, MigOnly
  <2>4. Pending(mig[d][r]) = {}
    BY <1>1, <2>1, NonePending
  <2> QED BY <1>0, <2>3, <2>4, NamedMig
<1>3. CASE SendReINVITE(d, r) \/ Answer(d, r)
  <2>1. /\ m.pc \in {"invite", "answer"}
        /\ Go(d, r, "answer") \/ \E b \in BOOLEAN : Answered(d, r, b)
    BY <1>1, <1>3 DEF SendReINVITE, Answer
  <2>2. \E n : /\ mig' = [mig EXCEPT ![d][r] = n] /\ n.new = m.new
               /\ \/ n.pc \in {"create", "invite", "answer", "destroy"}
                  \/ n.pc \in {"rollback", "update"} /\ n.k = 1
    <3>1. CASE Go(d, r, "answer")
      <4>1. PICK n : n = [m EXCEPT !.pc = "answer"]
        OBVIOUS
      <4>2. n.new = m.new /\ n.pc = "answer"
        BY <4>1 DEF MigRec
      <4>3. mig' = [mig EXCEPT ![d][r] = n]
        BY <1>1, <3>1, <4>1 DEF Go
      <4> QED BY <4>2, <4>3
    <3>2. ASSUME NEW b \in BOOLEAN, Answered(d, r, b)
          PROVE  \E n : /\ mig' = [mig EXCEPT ![d][r] = n] /\ n.new = m.new
                        /\ \/ n.pc \in {"create", "invite", "answer", "destroy"}
                           \/ n.pc \in {"rollback", "update"} /\ n.k = 1
      <4>1. PICK a \in BOOLEAN : a = (m.ok /\ b)
        OBVIOUS
      <4>2. PICK p \in {"destroy", "rollback"} :
               p = IF m.ok /\ b THEN "destroy" ELSE "rollback"
        OBVIOUS
      <4>3. PICK n : n = IF m.k < Len(m.legs)
                         THEN [m EXCEPT !.k = m.k + 1, !.ok = a, !.pc = "invite"]
                         ELSE [m EXCEPT !.k = 1, !.ok = a, !.pc = p]
        OBVIOUS
      <4>4. mig' = [mig EXCEPT ![d][r] = n]
        BY <1>1, <3>2, <4>1, <4>2, <4>3 DEF Answered
      <4>5. n.new = m.new /\ (n.pc = "invite" \/ (n.pc = p /\ n.k = 1))
        <5>1. CASE m.k < Len(m.legs)
          <6>1. n = [m EXCEPT !.k = m.k + 1, !.ok = a, !.pc = "invite"]
            BY <4>3, <5>1
          <6> QED BY <6>1 DEF MigRec
        <5>2. CASE ~(m.k < Len(m.legs))
          <6>1. n = [m EXCEPT !.k = 1, !.ok = a, !.pc = p]
            BY <4>3, <5>2
          <6> QED BY <6>1 DEF MigRec
        <5> QED BY <5>1, <5>2
      <4> QED BY <4>4, <4>5
    <3> QED BY <2>1, <3>1, <3>2
  <2>3. PICK n : /\ mig' = [mig EXCEPT ![d][r] = n] /\ n.new = m.new
                 /\ \/ n.pc \in {"create", "invite", "answer", "destroy"}
                    \/ n.pc \in {"rollback", "update"} /\ n.k = 1
    BY <2>2
  <2>4. OneMig(d, r, n)
    BY <1>0, <2>3, MigOnly
  <2>5. Pending(mig[d][r]) \subseteq Pending(n)
    BY <1>1, <2>3, PendingKept
  <2> QED BY <1>0, <2>4, <2>5, NamedMig
<1> QED BY <1>2, <1>3

LEMMA NamedCreate ==
    ASSUME Shape, MediaInv, Named, NEW d \in DrainOp, NEW r \in Sid,
           CreateSessionOnNode(d, r)
    PROVE  Named'
<1>1. PICK m \in MigRec : m = mig[d][r] /\ Legs(m)
  BY DEF Shape, DrainTypes, Migs
<1>2. PICK c : c = m.legs[m.k]
  OBVIOUS
<1>3. PICK t : t = op[d].target
  OBVIOUS
<1>4. m.pc = "create" /\ UNCHANGED <<dlg, handle, cbs, stranded>>
  BY <1>1 DEF CreateSessionOnNode, callVars
<1>5. /\ m.k \in 1..Len(m.legs) /\ Len(m.legs) \in {1, 2}
      /\ Len(m.new) = m.k - 1 /\ m.new \in Seq(Sid)
  BY <1>1, <1>4, LegFacts DEF Moving
<1>t. sessionToNode \in [Sid -> Node \cup {None}]
  BY DEF Shape, PoolTypes
<1>6. CASE /\ Fails(d)
           /\ mig' = [mig EXCEPT ![d][r] =
                  IF m.k = 1 THEN [m EXCEPT !.pc = "done"]
                  ELSE [m EXCEPT !.pc = "rollback", !.k = 1,
                                 !.legs = SubSeq(m.legs, 1, 1)]]
           /\ UNCHANGED sessionToNode
  <2>1. PICK n : n = IF m.k = 1 THEN [m EXCEPT !.pc = "done"]
                     ELSE [m EXCEPT !.pc = "rollback", !.k = 1,
                                    !.legs = SubSeq(m.legs, 1, 1)]
    OBVIOUS
  <2>2. OneMig(d, r, n)
    BY <1>6, <2>1, MigOnly
  <2>3. Pending(m) \subseteq Pending(n)
    <3>1. CASE m.k = 1
      <4>1. Len(m.new) = 0
        BY <1>5, <3>1
      <4>2. Pending(m) = {}
        BY <4>1 DEF Pending
      <4> QED BY <4>2
    <3>2. CASE m.k # 1
      <4>1. n = [m EXCEPT !.pc = "rollback", !.k = 1,
                          !.legs = SubSeq(m.legs, 1, 1)]
        BY <2>1, <3>2
      <4>2. n.pc = "rollback" /\ n.k = 1 /\ n.new = m.new
        BY <4>1 DEF MigRec
      <4> QED BY <4>2, PendingKept
    <3> QED BY <3>1, <3>2
  <2> QED BY <1>1, <1>4, <1>6, <2>2, <2>3, NamedMig
<1>7. ASSUME NEW x, TrackSession(x, t), UNCHANGED op,
             mig' = [mig EXCEPT ![d][r] =
                     IF m.k < Len(m.legs)
                     THEN [m EXCEPT !.new = Append(m.new, x), !.k = m.k + 1]
                     ELSE [m EXCEPT !.new = Append(m.new, x), !.k = 1,
                                    !.pc = "invite"]],
             x \in Sid
      PROVE  Named'
  <2>1. PICK w : w = Append(m.new, x)
    OBVIOUS
  <2>2. /\ w \in Seq(Sid) /\ Len(w) = Len(m.new) + 1 /\ w[Len(m.new) + 1] = x
        /\ \A i \in 1..Len(m.new) : w[i] = m.new[i]
    BY <1>5, <1>7, <2>1
  <2>3. PICK n : n = IF m.k < Len(m.legs) THEN [m EXCEPT !.new = w, !.k = m.k + 1]
                     ELSE [m EXCEPT !.new = w, !.k = 1, !.pc = "invite"]
    OBVIOUS
  <2>4. mig' = [mig EXCEPT ![d][r] = n]
    BY <1>7, <2>1, <2>3
  <2>5. OneMig(d, r, n)
    BY <1>7, <2>4, MigOnly
  <2>6. n.new = w /\ n.pc \in {"create", "invite"}
    <3>1. CASE m.k < Len(m.legs)
      <4>1. n = [m EXCEPT !.new = w, !.k = m.k + 1]
        BY <2>3, <3>1
      <4> QED BY <1>4, <4>1 DEF MigRec
    <3>2. CASE ~(m.k < Len(m.legs))
      <4>1. n = [m EXCEPT !.new = w, !.k = 1, !.pc = "invite"]
        BY <2>3, <3>2
      <4> QED BY <4>1 DEF MigRec
    <3> QED BY <3>1, <3>2
  <2>7. \A j \in 1..Len(w) : w[j] \in Pending(n)
    BY <2>6 DEF Pending
  <2>8. x \in Pending(n)
    <3>1. Len(m.new) + 1 \in 1..Len(w)
      BY <1>5, <2>2
    <3> QED BY <2>2, <2>7, <3>1
  <2>9. Pending(m) \subseteq Pending(n)
    <3> SUFFICES ASSUME NEW j \in 1..Len(m.new) PROVE m.new[j] \in Pending(n)
      BY DEF Pending
    <3>1. j \in 1..Len(w)
      BY <1>5, <2>2
    <3> QED BY <2>2, <2>7, <3>1
  <2>10. \A s \in Sid \ {x} : sessionToNode'[s] = sessionToNode[s]
    BY <1>7, <1>t DEF TrackSession
  <2> QED BY <1>1, <1>4, <2>5, <2>8, <2>9, <2>10, NamedMig
<1>8. \/ /\ Fails(d)
         /\ mig' = [mig EXCEPT ![d][r] =
                  IF m.k = 1 THEN [m EXCEPT !.pc = "done"]
                  ELSE [m EXCEPT !.pc = "rollback", !.k = 1,
                                 !.legs = SubSeq(m.legs, 1, 1)]]
         /\ UNCHANGED sessionToNode
      \/ /\ UNCHANGED op
         /\ ~(Sid \ used = {} /\ Held(t, c) = {})
         /\ \E x \in IF Held(t, c) # {} THEN Held(t, c)
                     ELSE {CHOOSE y \in Sid \ used : TRUE} :
               /\ TrackSession(x, t)
               /\ mig' = [mig EXCEPT ![d][r] =
                     IF m.k < Len(m.legs)
                     THEN [m EXCEPT !.new = Append(m.new, x), !.k = m.k + 1]
                     ELSE [m EXCEPT !.new = Append(m.new, x), !.k = 1,
                                    !.pc = "invite"]]
  BY <1>1, <1>2, <1>3 DEF CreateSessionOnNode
<1>9. \A x \in IF Held(t, c) # {} THEN Held(t, c)
               ELSE {CHOOSE y \in Sid \ used : TRUE} :
         ~(Sid \ used = {} /\ Held(t, c) = {}) => x \in Sid
  <2>1. Sid \ used # {} => (CHOOSE y \in Sid \ used : TRUE) \in Sid \ used
    OBVIOUS
  <2> QED BY <2>1 DEF Held
<1> QED BY <1>6, <1>7, <1>8, <1>9

\* A step that is done with leg k is done with its new session only.
LEMMA PendingNext ==
    ASSUME NEW m \in MigRec, NEW n \in MigRec, m.pc \in {"rollback", "update"},
           n.new = m.new, Len(m.new) = Len(m.legs), m.k \in 1..Len(m.legs),
           \/ m.k < Len(m.legs) /\ n.k = m.k + 1 /\ n.pc = m.pc
           \/ m.k = Len(m.legs)
    PROVE  Pending(m) \subseteq Pending(n) \cup {m.new[m.k]}
<1> SUFFICES ASSUME NEW j \in 1..Len(m.new), j >= m.k, j # m.k
             PROVE  m.new[j] \in Pending(n)
  BY DEF Pending
<1>0. Len(m.new) \in Nat /\ m.k \in Nat
  BY DEF MigRec
<1>1. m.k < Len(m.legs) /\ j >= m.k + 1
  BY <1>0
<1>2. n.k = m.k + 1 /\ n.pc \in {"rollback", "update"}
  BY <1>1
<1> QED BY <1>1, <1>2 DEF Pending

\* A rollback forgets the new session of leg k and goes on to the next leg;
\* the destruction of the old sessions keeps the new ones.
LEMMA NamedDestroy ==
    ASSUME Shape, MediaInv, Named, NEW d \in DrainOp, NEW r \in Sid,
           Rollback(d, r) \/ DestroyOld(d, r)
    PROVE  Named'
<1>1. PICK m \in MigRec : m = mig[d][r] /\ Legs(m)
  BY DEF Shape, DrainTypes, Migs
<1>t. sessionToNode \in [Sid -> Node \cup {None}]
  BY DEF Shape, PoolTypes
<1>2. /\ m.pc \in {"rollback", "destroy"} /\ UNCHANGED <<dlg, handle, cbs>>
      /\ stranded \subseteq stranded'
      /\ Fails(d) \/ UNCHANGED op
  BY <1>1 DEF Rollback, DestroyOld
<1>3. /\ m.k \in 1..Len(m.legs) /\ Len(m.legs) \in {1, 2}
      /\ Len(m.new) = Len(m.legs)
  BY <1>1, <1>2, LegFacts DEF Moving, Placed
<1>4. CASE DestroyOld(d, r)
  <2>1. /\ m.pc = "destroy" /\ NextLeg(d, r, "update")
        /\ \E x, b : DestroySession(x, b)
    BY <1>1, <1>4 DEF DestroyOld
  <2>2. \A s \in Sid : sessionToNode'[s] # None => sessionToNode[s] # None
    BY <1>t, <2>1, Forgets
  <2>3. "update" \in MigPC
    BY DEF MigPC
  <2>4. PICK n \in MigRec :
           /\ mig' = [mig EXCEPT ![d][r] = n] /\ n.new = m.new
           /\ n.pc = "destroy" \/ (n.k = 1 /\ n.pc = "update")
    BY <1>1, <1>3, <2>1, <2>3, NextLegMig
  <2>5. OneMig(d, r, n)
    BY <1>2, <2>4, MigOnly
  <2>6. Pending(m) \subseteq Pending(n)
    BY <2>4, PendingKept
  <2> QED BY <1>1, <1>2, <2>2, <2>5, <2>6, NamedMig
<1>5. CASE Rollback(d, r)
  <2>1. PICK x : x = m.new[m.k]
    OBVIOUS
  <2>2. /\ m.pc = "rollback" /\ NextLeg(d, r, "done")
        /\ DestroySession(x, op[d].cancelled)
    BY <1>1, <1>5, <2>1 DEF Rollback
  <2>3. \A s \in Sid : sessionToNode'[s] # None => sessionToNode[s] # None /\ s # x
    BY <1>t, <2>2, Forgets
  <2>4. "done" \in MigPC
    BY DEF MigPC
  <2>5. PICK n \in MigRec :
           /\ mig' = [mig EXCEPT ![d][r] = n] /\ n.new = m.new
           /\ \/ m.k < Len(m.legs) /\ n.k = m.k + 1 /\ n.pc = "rollback"
              \/ m.k = Len(m.legs) /\ n.k = 1 /\ n.pc = "done"
    BY <1>1, <1>3, <2>2, <2>4, NextLegMig
  <2>6. OneMig(d, r, n)
    BY <1>2, <2>5, MigOnly
  <2>7. Pending(m) \subseteq Pending(n) \cup {x}
    BY <1>3, <2>1, <2>2, <2>5, PendingNext
  <2> QED BY <1>1, <1>2, <2>3, <2>6, <2>7, NamedMig
<1> QED BY <1>4, <1>5

\* The dialog takes the name of the new session; the old one is forgotten.
LEMMA NamedUpdate ==
    ASSUME Shape, NodeInv, MediaInv, Named, NEW d \in DrainOp, NEW r \in Sid,
           SetSessionID(d, r)
    PROVE  Named'
<1>1. PICK m \in MigRec : m = mig[d][r] /\ Legs(m)
  BY DEF Shape, DrainTypes, Migs
<1>2. PICK c : c = m.legs[m.k]
  OBVIOUS
<1>3. PICK x : x = m.new[m.k]
  OBVIOUS
<1>4. /\ m.pc = "update" /\ dlg' = [dlg EXCEPT ![c].sid = x]
      /\ NextLeg(d, r, IF Len(m.legs) = 1 THEN "done" ELSE "bridge")
      /\ UNCHANGED <<op, sessionToNode, handle, cbs>>
      /\ stranded \subseteq stranded'
      /\ dlg[c].state = "Terminated" => c \in cbs \cup stranded'
  BY <1>1, <1>2, <1>3 DEF SetSessionID, poolVars
<1>m. m.pc \in Moving
  BY <1>4 DEF Moving, Placed
<1>5. m.k \in 1..Len(m.legs) /\ Len(m.legs) \in {1, 2} /\ Len(m.new) = Len(m.legs)
  BY <1>1, <1>4, <1>m, LegFacts
<1>6. c \in Call /\ LegOK(m, m.k, dlg[c].sid, client[c], Live(c), sessionToNode)
  BY <1>1, <1>2, <1>5, <1>m, LegsKnown
<1>7. sessionToNode[dlg[c].sid] = None
  <2>1. ~Updated(m, m.k) /\ Destroyed(m, m.k)
    BY <1>4, <1>5 DEF Updated, Destroyed
  <2> QED BY <1>6, <2>1 DEF LegOK
<1>8. /\ dlg'[c].sid = x /\ dlg'[c].state = dlg[c].state
      /\ \A e \in Call \ {c} : dlg'[e] = dlg[e]
  BY <1>4, <1>6 DEF Shape, CallTypes, DlgRec
<1>9. PICK p \in {"done", "bridge"} : NextLeg(d, r, p)
  BY <1>4
<1>10. PICK n \in MigRec :
         /\ mig' = [mig EXCEPT ![d][r] = n] /\ n.new = m.new
         /\ \/ m.k < Len(m.legs) /\ n.k = m.k + 1 /\ n.pc = "update"
            \/ m.k = Len(m.legs) /\ n.k = 1 /\ n.pc = p
  <2>1. p \in MigPC
    BY DEF MigPC
  <2> QED BY <1>1, <1>4, <1>5, <1>9, <2>1, NextLegMig
<1>11. OneMig(d, r, n)
  BY <1>4, <1>10, MigOnly
<1>12. Pending(m) \subseteq Pending(n) \cup {x}
  BY <1>3, <1>4, <1>5, <1>10, PendingNext
<1> SUFFICES ASSUME NEW s \in Sid, sessionToNode'[s] # None
             PROVE  \/ \E e \in Call : Names(e, s)'
                    \/ \E e \in DrainOp, q \in Sid : s \in Pending(mig'[e][q])
  BY DEF Named, Pending
<1>13. Names(c, x)'
  BY <1>4, <1>8 DEF Names, Over
<1>14. CASE s = x
  BY <1>6, <1>13, <1>14
<1>15. CASE s # x
  <2>1. sessionToNode[s] # None /\ s # dlg[c].sid
    BY <1>4, <1>7
  <2>2. ASSUME NEW e \in Call, Names(e, s) PROVE Names(e, s)'
    BY <1>4, <1>8, <2>1, <2>2 DEF Names, Ringing, Over
  <2>3. ASSUME NEW e \in DrainOp, NEW q \in Sid, s \in Pending(mig[e][q])
        PROVE  s \in Pending(mig'[e][q])
    <3>1. CASE e = d /\ q = r
      BY <1>1, <1>11, <1>12, <1>15, <2>3, <3>1 DEF OneMig
    <3>2. CASE e # d \/ q # r
      BY <1>11, <2>3, <3>2 DEF OneMig
    <3> QED BY <3>1, <3>2
  <2> QED BY <2>1, <2>2, <2>3 DEF Named
<1> QED BY <1>14, <1>15

LEMMA NamedNext == Shape /\ NodeInv /\ MediaInv /\ Named /\ [Next]_vars => Named'
<1> SUFFICES ASSUME Shape, NodeInv, MediaInv, Named, [Next]_vars PROVE Named'
  OBVIOUS
<1>1. CASE CallNext
  BY <1>1, NamedCalls
<1>2. ASSUME NEW d \in DrainOp,
             OpStep(d) \/ Timeout(d) \/ \E n \in Node : StartDrain(d, n)
      PROVE  Named'
  BY <1>2, NamedOps
<1>3. ASSUME NEW d \in DrainOp, NEW s \in Sid, MigStep(d, s) PROVE Named'
  BY <1>3, NamedWaits, NamedCreate, NamedDestroy, NamedUpdate DEF MigStep
<1>4. ASSUME NEW n \in Node, CancelDrain(n) \/ CheckHealth(n) PROVE Named'
  BY <1>4, NamedOps
<1>5. CASE UNCHANGED vars
  <2>1. UNCHANGED <<dlg, handle, mig, sessionToNode, cbs, stranded>>
    BY <1>5 DEF vars, poolVars, callVars, drainVars
  <2> QED BY <2>1, NamedSame
<1> QED BY <1>1, <1>2, <1>3, <1>4, <1>5 DEF Next

\* The pool's index leaks in one way only: a migration that gives its session to
\* a call whose end was already handled.  Every other session the pool knows
\* has someone left to destroy it, a dialog that is not over, a ringing leg or
\* a migration that still runs - through rollbacks, failed creations, cancelled
\* contexts and RPCs that do not get through (migrator.go, pool.go).
THEOREM SessionsStayNamed == ASSUME ~Overlap PROVE Spec => []SessionsNamed
<1>1. Shape /\ NodeInv /\ MediaInv /\ Named /\ [Next]_vars => Named'
  BY NamedNext
<1>2. Init => Named
  BY MediaInit
<1>3. Named => SessionsNamed
  <2> SUFFICES ASSUME Named, NEW s \in Sid, sessionToNode[s] # None,
                      ~\E c \in Call : Names(c, s)
               PROVE  \E d \in DrainOp : \E r \in Running(d) :
                         \E i \in 1..Len(mig[d][r].new) : mig[d][r].new[i] = s
    BY DEF SessionsNamed, Names, Over
  <2>1. PICK d \in DrainOp, r \in Sid : s \in Pending(mig[d][r])
    BY DEF Named
  <2>2. PICK m : m = mig[d][r]
    OBVIOUS
  <2>3. /\ m.pc \in {"create", "invite", "answer", "destroy", "rollback", "update"}
        /\ \E i \in 1..Len(m.new) : m.new[i] = s
    BY <2>1, <2>2 DEF Pending
  <2>4. r \in Running(d)
    BY <2>2, <2>3 DEF Running
  <2> QED BY <2>2, <2>3, <2>4
<1> QED BY <1>1, <1>2, <1>3, MediaInvariant, PTL DEF Spec
-----------------------------------------------------------------------------
(* What the steps do to sessions, calls and migrations, for the invariants    *)
(* about bridged calls and about the outcome of a drain.                      *)

SessionsSame == UNCHANGED <<sessionToNode, rtp, used>>

\* The pool forgets session x, whether the RTP manager did or not.
Forgotten(x) ==
    /\ x \in Sid /\ UNCHANGED used
    /\ sessionToNode'[x] = None /\ rtp'[x] \in {rtp[x], None}
    /\ \A s \in Sid \ {x} : sessionToNode'[s] = sessionToNode[s] /\ rtp'[s] = rtp[s]

\* Session x is made for call c on node n, or found there.
Made(x, n, c) ==
    /\ x \in Sid /\ n \in Node
    /\ x \notin used \/ rtp'[x] = rtp[x]
    /\ used' = used \cup {x}
    /\ rtp'[x] # None /\ rtp'[x].node = n /\ rtp'[x].call = c
    /\ sessionToNode'[x] = n
    /\ \A s \in Sid \ {x} : sessionToNode'[s] = sessionToNode[s] /\ rtp'[s] = rtp[s]

SessionStep == \/ SessionsSame \/ \E x \in Sid : Forgotten(x)
               \/ \E x \in Sid, n \in Node, c \in Call : Made(x, n, c)

LEMMA ForgottenFacts ==
    ASSUME Shape, NEW x \in Sid, NEW b, DestroySession(x, b), UNCHANGED used
    PROVE  Forgotten(x)
<1>1. /\ sessionToNode \in [Sid -> Node \cup {None}]
      /\ rtp \in [Sid -> [node : Node, call : Call] \cup {None}]
  BY DEF Shape, PoolTypes
<1>2. /\ sessionToNode' = [sessionToNode EXCEPT ![x] = None]
      /\ rtp' = rtp \/ rtp' = [rtp EXCEPT ![x] = None]
  BY DEF DestroySession, UntrackSession
<1> QED BY <1>1, <1>2 DEF Forgotten

LEMMA MadeFacts ==
    ASSUME Shape, NEW x \in Sid, NEW n \in Node, NEW c \in Call,
           x \notin used \/ rtp[x] = [node |-> n, call |-> c],
           used' = used \cup {x},
           rtp' = [rtp EXCEPT ![x] = [node |-> n, call |-> c]],
           TrackSession(x, n)
    PROVE  Made(x, n, c)
<1>1. /\ sessionToNode \in [Sid -> Node \cup {None}]
      /\ rtp \in [Sid -> [node : Node, call : Call] \cup {None}]
  BY DEF Shape, PoolTypes
<1>2. PICK v : v = [node |-> n, call |-> c]
  OBVIOUS
<1>3. v # None /\ v.node = n /\ v.call = c
  BY <1>2, NoneIsNew DEF NoneIsNew
<1>4. /\ sessionToNode'[x] = n /\ rtp'[x] = v
      /\ \A s \in Sid \ {x} : sessionToNode'[s] = sessionToNode[s]
                              /\ rtp'[s] = rtp[s]
  BY <1>1, <1>2 DEF TrackSession
<1>5. x \notin used \/ rtp[x] = v
  BY <1>2
<1> QED BY <1>3, <1>4, <1>5 DEF Made

LEMMA SessionFacts == ASSUME Shape, SessionStep PROVE IdsKept
<1>1. used \subseteq Sid
  BY DEF Shape, PoolTypes
<1>2. CASE SessionsSame
  BY <1>2 DEF SessionsSame, IdsKept
<1>3. ASSUME NEW x \in Sid, Forgotten(x) PROVE IdsKept
  BY <1>1, <1>3 DEF Forgotten, IdsKept
<1>4. ASSUME NEW x \in Sid, NEW n \in Node, NEW c \in Call, Made(x, n, c)
      PROVE  IdsKept
  BY <1>1, <1>4 DEF Made, IdsKept
<1> QED BY <1>2, <1>3, <1>4 DEF SessionStep

-----------------------------------------------------------------------------
(* The steps of a migration; m is its record before the step and n after it *)

\* Nothing but the migration changes.
Waits(d, r, m, n) ==
    /\ SessionsSame /\ UNCHANGED <<dlg, relay, stranded>> /\ n.new = m.new
    /\ \/ m.pc = "queued" /\ n.pc = "lookup"
       \/ /\ m.pc \in {"queued", "lookup", "create"} /\ n.pc = "done"
          /\ op[d].cancelled \/ op'[d].failed
       \/ /\ m.pc = "lookup" /\ n.pc = "skipped"
          /\ \E p \in BLegs : dlg[p].sid = r
       \/ m.pc = "lookup" /\ n.pc = "create"
       \/ /\ m.pc = "create" /\ n.pc = "rollback" /\ Len(m.new) = 1
          /\ n.legs[1] = m.legs[1]
       \/ /\ m.pc \in {"invite", "answer"} /\ n.legs = m.legs
          /\ n.pc \in {"invite", "answer", "destroy", "rollback"}
          /\ n.pc = "destroy" => n.k = 1

Creates(d, m, n, x) ==
    /\ m.pc = "create" /\ n.pc \in {"create", "invite"} /\ n.legs = m.legs
    /\ Made(x, op[d].target, m.legs[m.k])
    /\ UNCHANGED <<dlg, relay, stranded>>
    /\ Len(n.new) = m.k /\ Len(m.new) = m.k - 1
    /\ n.new[m.k] = x
    /\ \A i \in 1..Len(m.new) : n.new[i] = m.new[i]

Undoes(d, m, n) ==
    /\ m.pc = "rollback" /\ n.legs = m.legs /\ n.new = m.new
    /\ Forgotten(m.new[m.k])
    /\ UNCHANGED <<dlg, relay>> /\ stranded \subseteq stranded'
    /\ op'[d].failed
    /\ \/ n.pc = "rollback" /\ m.k < Len(m.legs) /\ n.k = m.k + 1
       \/ n.pc = "done" /\ m.k = Len(m.legs)

Destroys(m, n) ==
    /\ m.pc = "destroy" /\ n.legs = m.legs /\ n.new = m.new
    /\ Forgotten(m.old[m.k])
    /\ UNCHANGED <<dlg, relay, stranded>>
    /\ \/ n.pc = "destroy" /\ n.k = m.k + 1
       \/ n.pc = "update" /\ n.k = 1

Updates(m, n, c) ==
    /\ m.pc = "update" /\ n.legs = m.legs /\ n.new = m.new /\ c = m.legs[m.k]
    /\ SessionsSame /\ UNCHANGED relay
    /\ dlg'[c].sid = m.new[m.k] /\ dlg'[c].state = dlg[c].state
    /\ \A e \in Call \ {c} : dlg'[e] = dlg[e]
    /\ stranded \subseteq stranded'
    /\ \/ n.pc = "update" /\ Len(m.legs) = 2
       \/ n.pc = "bridge" /\ Len(m.legs) = 2
       \/ /\ n.pc = "done" /\ Len(m.legs) = 1
          /\ bridge[c].state = "active" => c \in stranded'

Relays(d, m, n) ==
    /\ m.pc = "bridge" /\ n.pc = "done" /\ n.legs = m.legs /\ n.new = m.new
    /\ SessionsSame /\ UNCHANGED dlg /\ stranded \subseteq stranded'
    /\ \/ /\ SameNode(m.new[1], m.new[2])
          /\ relay' = relay \cup {<<op[d].target, m.new[1], m.new[2]>>}
       \/ m.legs[1] \in stranded' /\ UNCHANGED relay

MigEffect(d, r, m, n) ==
    \/ Waits(d, r, m, n)
    \/ \E x \in Sid : Creates(d, m, n, x)
    \/ Undoes(d, m, n)
    \/ Destroys(m, n)
    \/ \E c \in Call : Updates(m, n, c)
    \/ Relays(d, m, n)

\* Beside its own record, a migration changes an operation only to Fails(d).
MigStepped(d, r, m, n) ==
    /\ m \in MigRec /\ m = mig[d][r] /\ Legs(m)
    /\ OneMig(d, r, n)
    /\ UNCHANGED <<handle, picked, bridge, drainState, activeDrains>>
    /\ \A e \in DrainOp : /\ op'[e].cancelled = op[e].cancelled
                          /\ op[e].failed => op'[e].failed
    /\ MigEffect(d, r, m, n)

LEMMA FailsSet ==
    ASSUME Shape, NEW d \in DrainOp, Fails(d) PROVE op'[d].failed = TRUE
BY DEF Shape, DrainTypes, Fails, OpRec

LEMMA MigSteps ==
    ASSUME Shape, NodeInv, MediaInv, NEW d \in DrainOp, NEW r \in Sid,
           MigStep(d, r)
    PROVE  \E m, n : MigStepped(d, r, m, n)
<1>1. PICK m \in MigRec : m = mig[d][r] /\ Legs(m)
  BY DEF Shape, DrainTypes, Migs
<1>2. /\ UNCHANGED <<handle, picked, bridge, drainState, activeDrains>>
      /\ Fails(d) \/ UNCHANGED op
  BY DEF MigStep, Acquire, Lookup, CreateSessionOnNode, SendReINVITE, Answer,
     Rollback, DestroyOld, SetSessionID, BridgeMedia, poolVars, callVars
<1>3. \A e \in DrainOp : /\ op'[e].cancelled = op[e].cancelled
                         /\ op[e].failed => op'[e].failed
  BY <1>2, FailsFacts DEF Shape
<1>4. SUFFICES \E n : mig' = [mig EXCEPT ![d][r] = n] /\ MigEffect(d, r, m, n)
  <2>1. PICK n : mig' = [mig EXCEPT ![d][r] = n] /\ MigEffect(d, r, m, n)
    BY <1>4
  <2>2. OneMig(d, r, n)
    BY <1>2, <2>1, MigOnly
  <2>3. MigStepped(d, r, m, n)
    BY <1>1, <1>2, <1>3, <2>1, <2>2 DEF MigStepped
  <2> QED BY <2>3
<1>5. ASSUME NEW p \in MigPC, Go(d, r, p)
      PROVE  \E n : /\ mig' = [mig EXCEPT ![d][r] = n]
                    /\ n.pc = p /\ n.new = m.new /\ n.legs = m.legs
  <2>1. PICK n : n = [m EXCEPT !.pc = p]
    OBVIOUS
  <2>2. n.pc = p /\ n.new = m.new /\ n.legs = m.legs
    BY <2>1 DEF MigRec
  <2>3. mig' = [mig EXCEPT ![d][r] = n]
    BY <1>1, <1>5, <2>1 DEF Go
  <2> QED BY <2>2, <2>3
<1>6. m.pc \in Moving =>
        /\ m.legs \in Seq(Call) /\ m.new \in Seq(Sid)
        /\ Len(m.legs) \in {1, 2} /\ m.k \in 1..Len(m.legs)
        /\ m.pc = "create" => Len(m.new) = m.k - 1
        /\ m.pc # "create" => Len(m.new) = Len(m.legs)
  BY <1>1, LegFacts
<1>7. CASE Acquire(d, r)
  <2>1. /\ m.pc = "queued" /\ SessionsSame /\ UNCHANGED <<dlg, relay, stranded>>
        /\ Go(d, r, "lookup") \/ (op[d].cancelled /\ Go(d, r, "done"))
    BY <1>1, <1>7 DEF Acquire, SessionsSame, poolVars, callVars
  <2>2. CASE Go(d, r, "lookup")
    <3>1. "lookup" \in MigPC
      BY DEF MigPC
    <3>2. PICK n : mig' = [mig EXCEPT ![d][r] = n] /\ n.pc = "lookup" /\ n.new = m.new
      BY <1>5, <2>2, <3>1
    <3> QED BY <2>1, <3>2 DEF MigEffect, Waits
  <2>3. CASE op[d].cancelled /\ Go(d, r, "done")
    <3>1. "done" \in MigPC
      BY DEF MigPC
    <3>2. PICK n : mig' = [mig EXCEPT ![d][r] = n] /\ n.pc = "done" /\ n.new = m.new
      BY <1>5, <2>3, <3>1
    <3> QED BY <2>1, <2>3, <3>2 DEF MigEffect, Waits
  <2> QED BY <2>1, <2>2, <2>3
<1>8. CASE Lookup(d, r)
  <2>1. m.pc = "lookup" /\ SessionsSame /\ UNCHANGED <<dlg, relay, stranded>>
    BY <1>1, <1>8 DEF Lookup, SessionsSame, poolVars, callVars
  <2>2. CASE Go(d, r, "done") /\ Fails(d)
    <3>1. "done" \in MigPC
      BY DEF MigPC
    <3>2. PICK n : mig' = [mig EXCEPT ![d][r] = n] /\ n.pc = "done" /\ n.new = m.new
      BY <1>5, <2>2, <3>1
    <3>3. op'[d].failed
      BY <2>2, FailsSet
    <3> QED BY <2>1, <3>2, <3>3 DEF MigEffect, Waits
  <2>3. CASE Go(d, r, "skipped") /\ {c \in Call : dlg[c].sid = r} \cap BLegs # {}
    <3>1. "skipped" \in MigPC
      BY DEF MigPC
    <3>2. PICK n : mig' = [mig EXCEPT ![d][r] = n] /\ n.pc = "skipped" /\ n.new = m.new
      BY <1>5, <2>3, <3>1
    <3>3. \E p \in BLegs : dlg[p].sid = r
      BY <2>3
    <3> QED BY <2>1, <3>2, <3>3 DEF MigEffect, Waits
  <2>4. ASSUME NEW l, mig' = [mig EXCEPT ![d][r] =
                       [mig[d][r] EXCEPT !.pc = "create", !.legs = l,
                          !.old = [i \in 1..Len(l) |-> dlg[l[i]].sid]]]
        PROVE  \E n : mig' = [mig EXCEPT ![d][r] = n] /\ MigEffect(d, r, m, n)
    <3>1. PICK o : o = [i \in 1..Len(l) |-> dlg[l[i]].sid]
      OBVIOUS
    <3>2. PICK n : n = [m EXCEPT !.pc = "create", !.legs = l, !.old = o]
      OBVIOUS
    <3>3. n.pc = "create" /\ n.new = m.new
      BY <3>2 DEF MigRec
    <3>4. mig' = [mig EXCEPT ![d][r] = n]
      BY <1>1, <2>4, <3>1, <3>2
    <3> QED BY <2>1, <3>3, <3>4 DEF MigEffect, Waits
  <2> QED BY <1>8, <2>2, <2>3, <2>4 DEF Lookup
<1>9. CASE CreateSessionOnNode(d, r)
  <2>1. PICK c : c = m.legs[m.k]
    OBVIOUS
  <2>2. PICK t : t = op[d].target
    OBVIOUS
  <2>3. /\ m.pc = "create" /\ UNCHANGED <<dlg, relay, stranded>>
        /\ m.pc \in Moving
    BY <1>1, <1>9 DEF CreateSessionOnNode, callVars, Moving
  <2>4. c \in Call /\ t \in Node
    <3>1. op[d].target \in Node
      BY <1>1, <2>3 DEF Shape, Migs
    <3> QED BY <1>6, <2>1, <2>2, <2>3, <3>1
  <2>5. CASE /\ Fails(d) /\ UNCHANGED <<sessionToNode, rtp, used>>
             /\ mig' = [mig EXCEPT ![d][r] =
                  IF m.k = 1 THEN [m EXCEPT !.pc = "done"]
                  ELSE [m EXCEPT !.pc = "rollback", !.k = 1,
                                 !.legs = SubSeq(m.legs, 1, 1)]]
    <3>0. op'[d].failed /\ SessionsSame
      BY <2>5, FailsSet DEF SessionsSame
    <3>1. CASE m.k = 1
      <4>1. PICK n : n = [m EXCEPT !.pc = "done"]
        OBVIOUS
      <4>2. n.pc = "done" /\ n.new = m.new
        BY <4>1 DEF MigRec
      <4>3. mig' = [mig EXCEPT ![d][r] = n]
        BY <2>5, <3>1, <4>1
      <4> QED BY <2>3, <3>0, <4>2, <4>3 DEF MigEffect, Waits
    <3>2. CASE m.k # 1
      <4>0. m.k = 2 /\ Len(m.legs) = 2 /\ Len(m.new) = 1
        <5>1. PICK l \in {1, 2} : l = Len(m.legs)
          BY <1>6, <2>3
        <5>2. m.k \in 1..l /\ Len(m.new) = m.k - 1
          BY <1>6, <2>3, <5>1
        <5>3. l = 2 /\ m.k = 2
          BY <3>2, <5>2
        <5> QED BY <5>1, <5>2, <5>3
      <4>1. PICK l : l = SubSeq(m.legs, 1, 1)
        OBVIOUS
      <4>2. l[1] = m.legs[1]
        BY <1>6, <2>3, <4>0, <4>1, SubSeqProperties
      <4>3. PICK n : n = [m EXCEPT !.pc = "rollback", !.k = 1, !.legs = l]
        OBVIOUS
      <4>4. n.pc = "rollback" /\ n.new = m.new /\ n.legs = l
        BY <4>3 DEF MigRec
      <4>5. mig' = [mig EXCEPT ![d][r] = n]
        BY <2>5, <3>2, <4>1, <4>3
      <4> QED BY <2>3, <3>0, <4>0, <4>2, <4>4, <4>5 DEF MigEffect, Waits
    <3> QED BY <3>1, <3>2
  <2>6. ASSUME NEW x \in Sid, x \notin used \/ rtp[x] = [node |-> t, call |-> c],
               used' = used \cup {x},
               rtp' = [rtp EXCEPT ![x] = [node |-> t, call |-> c]],
               TrackSession(x, t),
               mig' = [mig EXCEPT ![d][r] =
                     IF m.k < Len(m.legs)
                     THEN [m EXCEPT !.new = Append(m.new, x), !.k = m.k + 1]
                     ELSE [m EXCEPT !.new = Append(m.new, x), !.k = 1,
                                    !.pc = "invite"]]
        PROVE  \E n : mig' = [mig EXCEPT ![d][r] = n] /\ MigEffect(d, r, m, n)
    <3>1. Made(x, t, c)
      BY <2>4, <2>6, MadeFacts
    <3>2. PICK w : w = Append(m.new, x)
      OBVIOUS
    <3>3. /\ Len(w) = m.k /\ w[m.k] = x /\ Len(m.new) = m.k - 1
          /\ \A i \in 1..Len(m.new) : w[i] = m.new[i]
      <4>1. /\ Len(w) = Len(m.new) + 1 /\ w[Len(m.new) + 1] = x
            /\ \A i \in 1..Len(m.new) : w[i] = m.new[i]
        BY <1>6, <2>3, <2>6, <3>2
      <4>2. Len(m.new) = m.k - 1 /\ Len(m.new) + 1 = m.k
        BY <1>6, <2>3
      <4> QED BY <4>1, <4>2
    <3>4. PICK n : n = IF m.k < Len(m.legs) THEN [m EXCEPT !.new = w, !.k = m.k + 1]
                       ELSE [m EXCEPT !.new = w, !.k = 1, !.pc = "invite"]
      OBVIOUS
    <3>5. mig' = [mig EXCEPT ![d][r] = n]
      BY <2>6, <3>2, <3>4
    <3>6. n.new = w /\ n.legs = m.legs /\ n.pc \in {"create", "invite"}
      <4>1. CASE m.k < Len(m.legs)
        <5>1. n = [m EXCEPT !.new = w, !.k = m.k + 1]
          BY <3>4, <4>1
        <5> QED BY <2>3, <5>1 DEF MigRec
      <4>2. CASE ~(m.k < Len(m.legs))
        <5>1. n = [m EXCEPT !.new = w, !.k = 1, !.pc = "invite"]
          BY <3>4, <4>2
        <5> QED BY <5>1 DEF MigRec
      <4> QED BY <4>1, <4>2
    <3>7. Creates(d, m, n, x)
      BY <2>1, <2>2, <2>3, <3>1, <3>3, <3>6 DEF Creates
    <3> QED BY <3>5, <3>7 DEF MigEffect
  <2>7. \/ /\ Fails(d) /\ UNCHANGED <<sessionToNode, rtp, used>>
           /\ mig' = [mig EXCEPT ![d][r] =
                  IF m.k = 1 THEN [m EXCEPT !.pc = "done"]
                  ELSE [m EXCEPT !.pc = "rollback", !.k = 1,
                                 !.legs = SubSeq(m.legs, 1, 1)]]
        \/ /\ ~(Sid \ used = {} /\ Held(t, c) = {})
           /\ \E x \in IF Held(t, c) # {} THEN Held(t, c)
                       ELSE {CHOOSE y \in Sid \ used : TRUE} :
               /\ used' = used \cup {x}
               /\ rtp' = [rtp EXCEPT ![x] = [node |-> t, call |-> c]]
               /\ TrackSession(x, t)
               /\ mig' = [mig EXCEPT ![d][r] =
                     IF m.k < Len(m.legs)
                     THEN [m EXCEPT !.new = Append(m.new, x), !.k = m.k + 1]
                     ELSE [m EXCEPT !.new = Append(m.new, x), !.k = 1,
                                    !.pc = "invite"]]
    BY <1>1, <1>9, <2>1, <2>2 DEF CreateSessionOnNode
  <2>8. \A x \in IF Held(t, c) # {} THEN Held(t, c)
                 ELSE {CHOOSE y \in Sid \ used : TRUE} :
           ~(Sid \ used = {} /\ Held(t, c) = {}) =>
               x \in Sid /\ (x \notin used \/ rtp[x] = [node |-> t, call |-> c])
    <3>1. Sid \ used # {} => (CHOOSE y \in Sid \ used : TRUE) \in Sid \ used
      OBVIOUS
    <3> QED BY <3>1 DEF Held
  <2> QED BY <2>5, <2>6, <2>7, <2>8
<1>10. CASE SendReINVITE(d, r) \/ Answer(d, r)
  <2>1. /\ m.pc \in {"invite", "answer"}
        /\ SessionsSame /\ UNCHANGED <<dlg, relay, stranded>>
        /\ Go(d, r, "answer") \/ \E b \in BOOLEAN : Answered(d, r, b)
    BY <1>1, <1>10 DEF SendReINVITE, Answer, SessionsSame, poolVars
  <2>2. CASE Go(d, r, "answer")
    <3>1. "answer" \in MigPC
      BY DEF MigPC
    <3>2. PICK n : /\ mig' = [mig EXCEPT ![d][r] = n]
                   /\ n.pc = "answer" /\ n.new = m.new /\ n.legs = m.legs
      BY <1>5, <2>2, <3>1
    <3> QED BY <2>1, <3>2 DEF MigEffect, Waits
  <2>3. ASSUME NEW b \in BOOLEAN, Answered(d, r, b)
        PROVE  \E n : mig' = [mig EXCEPT ![d][r] = n] /\ MigEffect(d, r, m, n)
    <3>1. PICK a \in BOOLEAN : a = (m.ok /\ b)
      OBVIOUS
    <3>2. PICK p \in {"destroy", "rollback"} :
             p = IF m.ok /\ b THEN "destroy" ELSE "rollback"
      OBVIOUS
    <3>3. PICK n : n = IF m.k < Len(m.legs)
                       THEN [m EXCEPT !.k = m.k + 1, !.ok = a, !.pc = "invite"]
                       ELSE [m EXCEPT !.k = 1, !.ok = a, !.pc = p]
      OBVIOUS
    <3>4. mig' = [mig EXCEPT ![d][r] = n]
      BY <1>1, <2>3, <3>1, <3>2, <3>3 DEF Answered
    <3>5. /\ n.new = m.new /\ n.legs = m.legs
          /\ n.pc = "invite" \/ (n.pc = p /\ n.k = 1)
      <4>1. CASE m.k < Len(m.legs)
        <5>1. n = [m EXCEPT !.k = m.k + 1, !.ok = a, !.pc = "invite"]
          BY <3>3, <4>1
        <5> QED BY <5>1 DEF MigRec
      <4>2. CASE ~(m.k < Len(m.legs))
        <5>1. n = [m EXCEPT !.k = 1, !.ok = a, !.pc = p]
          BY <3>3, <4>2
        <5> QED BY <5>1 DEF MigRec
      <4> QED BY <4>1, <4>2
    <3> QED BY <2>1, <3>4, <3>5 DEF MigEffect, Waits
  <2> QED BY <2>1, <2>2, <2>3
<1>11. CASE Rollback(d, r)
  <2>1. /\ m.pc = "rollback" /\ NextLeg(d, r, "done") /\ Fails(d)
        /\ DestroySession(m.new[m.k], op[d].cancelled)
        /\ UNCHANGED <<used, dlg, relay>> /\ stranded \subseteq stranded'
    BY <1>1, <1>11 DEF Rollback
  <2>2. /\ m.k \in 1..Len(m.legs) /\ Len(m.legs) \in {1, 2}
        /\ m.new[m.k] \in Sid
    <3>1. m.pc \in Moving
      BY <2>1 DEF Moving, Placed
    <3> QED BY <1>6, <2>1, <3>1
  <2>3. Forgotten(m.new[m.k]) /\ op'[d].failed
    BY <2>1, <2>2, ForgottenFacts, FailsSet
  <2>4. "done" \in MigPC
    BY DEF MigPC
  <2>5. PICK n \in MigRec :
          /\ mig' = [mig EXCEPT ![d][r] = n] /\ n.new = m.new /\ n.legs = m.legs
          /\ \/ m.k < Len(m.legs) /\ n.k = m.k + 1 /\ n.pc = "rollback"
             \/ m.k = Len(m.legs) /\ n.k = 1 /\ n.pc = "done"
    BY <1>1, <2>1, <2>2, <2>4, NextLegMig
  <2>6. Undoes(d, m, n)
    BY <2>1, <2>3, <2>5 DEF Undoes
  <2> QED BY <2>5, <2>6 DEF MigEffect
<1>12. CASE DestroyOld(d, r)
  <2>1. /\ m.pc = "destroy" /\ NextLeg(d, r, "update")
        /\ DestroySession(IF Len(m.legs) = 1 THEN dlg[m.legs[1]].sid ELSE m.old[m.k],
                          op[d].cancelled)
        /\ UNCHANGED <<used, dlg, relay, stranded>>
    BY <1>1, <1>12 DEF DestroyOld
  <2>m. m.pc \in Moving
    BY <2>1 DEF Moving, Placed
  <2>2. m.k \in 1..Len(m.legs) /\ Len(m.legs) \in {1, 2}
    BY <1>6, <2>m
  <2>3. /\ m.old[m.k] \in Sid
        /\ LegOK(m, m.k, dlg[m.legs[m.k]].sid, client[m.legs[m.k]],
                 Live(m.legs[m.k]), sessionToNode)
    BY <1>1, <2>2, <2>m, LegsKnown
  <2>4. dlg[m.legs[m.k]].sid = m.old[m.k]
    BY <2>1, <2>3 DEF LegOK, Updated
  <2>5. Len(m.legs) = 1 => m.k = 1
    BY <2>2
  <2>6. DestroySession(m.old[m.k], op[d].cancelled)
    BY <2>1, <2>4, <2>5
  <2>7. Forgotten(m.old[m.k])
    BY <2>1, <2>3, <2>6, ForgottenFacts
  <2>8. "update" \in MigPC
    BY DEF MigPC
  <2>9. PICK n \in MigRec :
          /\ mig' = [mig EXCEPT ![d][r] = n] /\ n.new = m.new /\ n.legs = m.legs
          /\ \/ m.k < Len(m.legs) /\ n.k = m.k + 1 /\ n.pc = "destroy"
             \/ m.k = Len(m.legs) /\ n.k = 1 /\ n.pc = "update"
    BY <1>1, <2>1, <2>2, <2>8, NextLegMig
  <2>10. Destroys(m, n)
    BY <2>1, <2>7, <2>9 DEF Destroys
  <2> QED BY <2>9, <2>10 DEF MigEffect
<1>13. CASE SetSessionID(d, r)
  <2>1. PICK c : c = m.legs[m.k]
    OBVIOUS
  <2>2. /\ m.pc = "update" /\ dlg' = [dlg EXCEPT ![c].sid = m.new[m.k]]
        /\ NextLeg(d, r, IF Len(m.legs) = 1 THEN "done" ELSE "bridge")
        /\ stranded \subseteq stranded'
        /\ Len(m.legs) = 1 /\ bridge[c].state = "active" => c \in stranded'
        /\ SessionsSame /\ UNCHANGED relay
    BY <1>1, <1>13, <2>1 DEF SetSessionID, SessionsSame, poolVars
  <2>m. m.pc \in Moving
    BY <2>2 DEF Moving, Placed
  <2>3. /\ m.k \in 1..Len(m.legs) /\ Len(m.legs) \in {1, 2}
        /\ c \in Call
    BY <1>6, <2>1, <2>m
  <2>4. /\ dlg'[c].sid = m.new[m.k] /\ dlg'[c].state = dlg[c].state
        /\ \A e \in Call \ {c} : dlg'[e] = dlg[e]
    BY <2>2, <2>3 DEF Shape, CallTypes, DlgRec
  <2>5. PICK p \in {"done", "bridge"} : /\ NextLeg(d, r, p)
                                        /\ p = "done" <=> Len(m.legs) = 1
    BY <2>2
  <2>6. p \in MigPC
    BY DEF MigPC
  <2>7. PICK n \in MigRec :
          /\ mig' = [mig EXCEPT ![d][r] = n] /\ n.new = m.new /\ n.legs = m.legs
          /\ \/ m.k < Len(m.legs) /\ n.k = m.k + 1 /\ n.pc = "update"
             \/ m.k = Len(m.legs) /\ n.k = 1 /\ n.pc = p
    BY <1>1, <2>2, <2>3, <2>5, <2>6, NextLegMig
  <2>8. \/ n.pc = "update" /\ Len(m.legs) = 2
        \/ n.pc = "bridge" /\ Len(m.legs) = 2
        \/ n.pc = "done" /\ Len(m.legs) = 1
    <3>1. PICK l \in {1, 2} : l = Len(m.legs)
      BY <2>3
    <3>2. m.k \in 1..l
      BY <2>3, <3>1
    <3>3. m.k < l => l = 2
      BY <3>2
    <3>4. n.pc = "update" => l = 2
      BY <2>5, <2>7, <3>1, <3>3
    <3>5. n.pc \in {"update", "done", "bridge"}
      BY <2>7
    <3> QED BY <2>5, <2>7, <3>1, <3>4, <3>5
  <2>9. /\ stranded \subseteq stranded'
        /\ Len(m.legs) = 1 /\ bridge[c].state = "active" => c \in stranded'
    BY <2>2
  <2>10. Updates(m, n, c)
    BY <2>1, <2>2, <2>4, <2>7, <2>8, <2>9 DEF Updates
  <2> QED BY <2>3, <2>7, <2>10 DEF MigEffect
<1>14. CASE BridgeMedia(d, r)
  <2>1. /\ m.pc = "bridge" /\ Go(d, r, "done") /\ SessionsSame /\ UNCHANGED dlg
        /\ stranded \subseteq stranded'
        /\ \/ /\ SameNode(m.new[1], m.new[2])
              /\ relay' = relay \cup {<<op[d].target, m.new[1], m.new[2]>>}
           \/ m.legs[1] \in stranded' /\ UNCHANGED relay
    BY <1>1, <1>14 DEF BridgeMedia, SessionsSame, poolVars
  <2>2. "done" \in MigPC
    BY DEF MigPC
  <2>3. PICK n : /\ mig' = [mig EXCEPT ![d][r] = n]
                 /\ n.pc = "done" /\ n.new = m.new /\ n.legs = m.legs
    BY <1>5, <2>1, <2>2
  <2>4. Relays(d, m, n)
    BY <2>1, <2>3 DEF Relays
  <2> QED BY <2>3, <2>4 DEF MigEffect
<1> QED BY <1>7, <1>8, <1>9, <1>10, <1>11, <1>12, <1>13, <1>14 DEF MigStep

-----------------------------------------------------------------------------
(* The steps of a call *)

Selects(c) ==
    /\ SessionsSame /\ UNCHANGED <<dlg, handle, relay, bridge, stranded>>
    /\ \/ picked'[c] = None
       \/ c \in BLegs => dlg[Caller(c)].state = "Confirmed"

CreatesFor(c, x) ==
    /\ Made(x, picked[c], c) /\ x \notin used
    /\ picked[c] # None /\ handle[c] = None
    /\ dlg[c].state = "none" /\ dlg[c].sid = None
    /\ handle'[c] = x /\ picked'[c] = None
    /\ UNCHANGED <<relay, bridge, stranded>>
    /\ \/ c \in BLegs /\ dlg'[c] = dlg[c]
       \/ c \notin BLegs /\ dlg'[c].state = "Early" /\ dlg'[c].sid = x

\* The dialog changes its state, or has one with the leg's session, or none.
Passes(c) ==
    /\ UNCHANGED <<handle, picked, relay, bridge, stranded>>
    /\ \/ /\ SessionsSame /\ dlg'[c].sid = dlg[c].sid
          /\ dlg[c].state \in {"Early", "Confirmed"}
          /\ dlg'[c].state \in {"Confirmed", "Terminated"}
       \/ /\ SessionsSame /\ Ringing(c)
          /\ dlg'[c].state = "Confirmed" /\ dlg'[c].sid = handle[c]
       \/ /\ Forgotten(handle[c]) /\ Ringing(c)
          /\ dlg'[c].state = "Terminated" /\ dlg'[c].sid = dlg[c].sid
       \/ /\ Forgotten(dlg[c].sid) /\ dlg[c].state = "Terminated"
          /\ dlg'[c] = dlg[c]

Bridges(c) ==
    /\ SessionsSame /\ UNCHANGED <<dlg, handle, picked>>
    /\ Peer[c] # None /\ bridge[c].state = "none"
    /\ dlg[c].state = "Confirmed" /\ dlg[Peer[c]].state = "Confirmed"
    /\ \/ /\ SameNode(handle[c], handle[Peer[c]])
          /\ bridge'[c].state \in {"active", "missed"}
          /\ bridge'[c].media =
                <<sessionToNode[handle[c]], handle[c], handle[Peer[c]]>>
          /\ relay' = relay \cup {bridge'[c].media}
          /\ stranded \subseteq stranded'
          /\ bridge'[c].state = "active" /\ dlg[c].sid # handle[c]
                => c \in stranded'
       \/ bridge'[c].state = "stopped" /\ UNCHANGED <<relay, stranded>>

Unbridges(c) ==
    /\ SessionsSame /\ UNCHANGED <<dlg, handle, picked, stranded>>
    /\ bridge[c].state = "active" /\ bridge'[c].media = bridge[c].media
    /\ \/ bridge'[c].state = "stopped" /\ relay' = relay \ {bridge[c].media}
       \/ bridge'[c].state = "missed" /\ UNCHANGED relay

CallStepped(c) ==
    /\ UNCHANGED <<mig, op, activeDrains, drainState>>
    /\ \A e \in Call \ {c} : /\ dlg'[e] = dlg[e] /\ handle'[e] = handle[e]
                             /\ picked'[e] = picked[e] /\ bridge'[e] = bridge[e]
    /\ \/ Selects(c) \/ (\E x \in Sid : CreatesFor(c, x)) \/ Passes(c)
       \/ Bridges(c) \/ Unbridges(c)

LEMMA CallSteps ==
    ASSUME Shape, MediaInv, CallNext
    PROVE  \E c \in Call : CallStepped(c)
<1>t. /\ dlg \in [Call -> DlgRec] /\ handle \in [Call -> Sid \cup {None}]
      /\ picked \in [Call -> Node \cup {None}] /\ bridge \in [Call -> BridgeRec]
  BY DEF Shape, CallTypes
<1>o. \A e \in Call : CallOK(e)
  BY DEF MediaInv
<1>1. PICK c \in Call :
        SelectMember(c) \/ CreateSession(c) \/ CreateSessionFails(c)
        \/ Confirm(c) \/ Handle2xx(c)
        \/ Terminate(c) \/ OnTerminated(c) \/ DialFails(c)
        \/ StartBridge(c) \/ StopBridge(c)
  BY DEF CallNext
<1>2. UNCHANGED <<mig, op, activeDrains, drainState>>
  BY <1>1 DEF SelectMember, CreateSession, CreateSessionFails, Confirm, Handle2xx,
     Terminate, OnTerminated, DialFails, StartBridge, StopBridge, poolVars, drainVars
<1>3. SUFFICES
        /\ \A e \in Call \ {c} : /\ dlg'[e] = dlg[e] /\ handle'[e] = handle[e]
                                 /\ picked'[e] = picked[e] /\ bridge'[e] = bridge[e]
        /\ \/ Selects(c) \/ (\E x \in Sid : CreatesFor(c, x)) \/ Passes(c)
           \/ Bridges(c) \/ Unbridges(c)
  BY <1>2 DEF CallStepped
<1>4. CASE SelectMember(c) \/ CreateSessionFails(c)
  <2>1. /\ SessionsSame /\ UNCHANGED <<dlg, handle, relay, bridge, stranded>>
        /\ \/ picked' = [picked EXCEPT ![c] = None]
           \/ /\ c \in BLegs => dlg[Caller(c)].state = "Confirmed"
              /\ \E n : picked' = [picked EXCEPT ![c] = n]
    BY <1>4 DEF SelectMember, CreateSessionFails, SessionsSame, poolVars, drainVars
  <2>2. \A e \in Call \ {c} : picked'[e] = picked[e]
    BY <1>t, <2>1
  <2>3. Selects(c)
    BY <1>t, <2>1 DEF Selects
  <2> QED BY <2>1, <2>2, <2>3
<1>5. CASE CreateSession(c)
  <2>1. PICK x \in Sid \ used :
          /\ used' = used \cup {x}
          /\ rtp' = [rtp EXCEPT ![x] = [node |-> picked[c], call |-> c]]
          /\ TrackSession(x, picked[c])
          /\ handle' = [handle EXCEPT ![c] = x]
          /\ IF c \in BLegs THEN UNCHANGED <<dlg, client>>
             ELSE dlg' = [dlg EXCEPT ![c] = [state |-> "Early", sid |-> x]]
    BY <1>5 DEF CreateSession
  <2>2. /\ picked[c] # None /\ picked' = [picked EXCEPT ![c] = None]
        /\ UNCHANGED <<relay, bridge, stranded>>
    BY <1>5 DEF CreateSession, drainVars
  <2>3. picked[c] \in Node
    BY <1>t, <2>2
  <2>4. Made(x, picked[c], c)
    BY <2>1, <2>3, MadeFacts
  <2>5. dlg[c].state = "none" /\ dlg[c].sid = None /\ handle[c] = None
    BY <1>o, <2>2 DEF CallOK
  <2>6. /\ handle'[c] = x /\ picked'[c] = None
        /\ \A e \in Call \ {c} : /\ dlg'[e] = dlg[e] /\ handle'[e] = handle[e]
                                 /\ picked'[e] = picked[e] /\ bridge'[e] = bridge[e]
    BY <1>t, <2>1, <2>2
  <2>7. \/ c \in BLegs /\ dlg'[c] = dlg[c]
        \/ c \notin BLegs /\ dlg'[c].state = "Early" /\ dlg'[c].sid = x
    BY <1>t, <2>1
  <2>8. CreatesFor(c, x)
    BY <2>1, <2>2, <2>4, <2>5, <2>6, <2>7 DEF CreatesFor
  <2> QED BY <2>6, <2>8
<1>6. CASE Confirm(c) \/ Terminate(c)
  <2>1. /\ SessionsSame /\ UNCHANGED <<handle, picked, relay, bridge, stranded>>
        /\ dlg[c].state \in {"Early", "Confirmed"}
        /\ \/ dlg' = [dlg EXCEPT ![c].state = "Confirmed"]
           \/ dlg' = [dlg EXCEPT ![c].state = "Terminated"]
    BY <1>6 DEF Confirm, Terminate, SessionsSame, poolVars, drainVars
  <2>2. /\ dlg'[c].sid = dlg[c].sid /\ \A e \in Call \ {c} : dlg'[e] = dlg[e]
        /\ dlg'[c].state \in {"Confirmed", "Terminated"}
    BY <1>t, <2>1 DEF DlgRec
  <2> QED BY <2>1, <2>2 DEF Passes
<1>7. CASE Handle2xx(c)
  <2>1. /\ SessionsSame /\ UNCHANGED <<handle, picked, relay, bridge, stranded>>
        /\ Ringing(c)
        /\ dlg' = [dlg EXCEPT ![c] = [state |-> "Confirmed", sid |-> handle[c]]]
    BY <1>7 DEF Handle2xx, SessionsSame, poolVars, drainVars
  <2>2. /\ dlg'[c].sid = handle[c] /\ \A e \in Call \ {c} : dlg'[e] = dlg[e]
        /\ dlg'[c].state = "Confirmed"
    BY <1>t, <2>1
  <2> QED BY <2>1, <2>2 DEF Passes
<1>8. CASE OnTerminated(c)
  <2>1. /\ UNCHANGED <<used, dlg, handle, picked, relay, bridge, stranded>>
        /\ c \in cbs /\ DestroySession(dlg[c].sid, FALSE)
    BY <1>8 DEF OnTerminated, drainVars
  <2>2. dlg[c].state = "Terminated" /\ dlg[c].sid # None
    BY <1>o, <2>1 DEF CallOK
  <2>3. dlg[c].sid \in Sid
    BY <1>t, <2>2 DEF DlgRec
  <2>4. Forgotten(dlg[c].sid)
    BY <2>1, <2>3, ForgottenFacts
  <2> QED BY <2>1, <2>2, <2>4 DEF Passes
<1>9. CASE DialFails(c)
  <2>1. /\ UNCHANGED <<used, handle, picked, relay, bridge, stranded>>
        /\ Ringing(c) /\ DestroySession(handle[c], FALSE)
        /\ dlg' = [dlg EXCEPT ![c].state = "Terminated"]
    BY <1>9 DEF DialFails, drainVars
  <2>2. handle[c] \in Sid
    BY <1>t, <2>1 DEF Ringing
  <2>3. Forgotten(handle[c])
    BY <2>1, <2>2, ForgottenFacts
  <2>4. /\ dlg'[c].sid = dlg[c].sid /\ dlg'[c].state = "Terminated"
        /\ \A e \in Call \ {c} : dlg'[e] = dlg[e]
    BY <1>t, <2>1 DEF DlgRec
  <2> QED BY <2>1, <2>3, <2>4 DEF Passes
<1>10. CASE StartBridge(c)
  <2>1. PICK v : v = <<sessionToNode[handle[c]], handle[c], handle[Peer[c]]>>
    OBVIOUS
  <2>2. /\ SessionsSame /\ UNCHANGED <<dlg, handle, picked>>
        /\ Peer[c] # None /\ bridge[c].state = "none"
        /\ dlg[c].state = "Confirmed" /\ dlg[Peer[c]].state = "Confirmed"
        /\ \/ /\ SameNode(handle[c], handle[Peer[c]])
              /\ relay' = relay \cup {v}
              /\ bridge' = [bridge EXCEPT ![c] = [state |-> "active", media |-> v]]
              /\ stranded' = IF dlg[c].sid = handle[c] THEN stranded
                             ELSE stranded \cup {c}
           \/ /\ SameNode(handle[c], handle[Peer[c]])
              /\ relay' = relay \cup {v}
              /\ bridge' = [bridge EXCEPT ![c] = [state |-> "missed", media |-> v]]
              /\ UNCHANGED stranded
           \/ /\ bridge' = [bridge EXCEPT ![c].state = "stopped"]
              /\ UNCHANGED <<relay, stranded>>
    BY <1>10, <2>1 DEF StartBridge, SessionsSame, poolVars
  <2>3. \A e \in Call \ {c} : bridge'[e] = bridge[e]
    BY <1>t, <2>2
  <2>4. CASE /\ SameNode(handle[c], handle[Peer[c]])
             /\ relay' = relay \cup {v}
             /\ bridge' = [bridge EXCEPT ![c] = [state |-> "active", media |-> v]]
             /\ stranded' = IF dlg[c].sid = handle[c] THEN stranded
                            ELSE stranded \cup {c}
    <3>1. bridge'[c].state = "active" /\ bridge'[c].media = v
      BY <1>t, <2>4
    <3>2. /\ stranded \subseteq stranded'
          /\ dlg[c].sid # handle[c] => c \in stranded'
      BY <2>4
    <3>3. Bridges(c)
      BY <2>1, <2>2, <2>4, <3>1, <3>2 DEF Bridges
    <3> QED BY <2>2, <2>3, <3>3
  <2>6. CASE /\ SameNode(handle[c], handle[Peer[c]])
             /\ relay' = relay \cup {v}
             /\ bridge' = [bridge EXCEPT ![c] = [state |-> "missed", media |-> v]]
             /\ UNCHANGED stranded
    <3>1. bridge'[c].state = "missed" /\ bridge'[c].media = v
      BY <1>t, <2>6
    <3>2. Bridges(c)
      BY <2>1, <2>2, <2>6, <3>1 DEF Bridges
    <3> QED BY <2>2, <2>3, <3>2
  <2>5. CASE /\ bridge' = [bridge EXCEPT ![c].state = "stopped"]
             /\ UNCHANGED <<relay, stranded>>
    <3>1. bridge'[c].state = "stopped"
      BY <1>t, <2>5 DEF BridgeRec
    <3>2. Bridges(c)
      BY <2>2, <2>5, <3>1 DEF Bridges
    <3> QED BY <2>2, <2>3, <3>2
  <2> QED BY <2>2, <2>4, <2>5, <2>6
<1>11. CASE StopBridge(c)
  <2>1. /\ SessionsSame /\ UNCHANGED <<dlg, handle, picked, stranded>>
        /\ bridge[c].state = "active"
        /\ \/ /\ bridge' = [bridge EXCEPT ![c].state = "stopped"]
              /\ relay' = relay \ {bridge[c].media}
           \/ /\ bridge' = [bridge EXCEPT ![c].state = "missed"]
              /\ UNCHANGED relay
    BY <1>11 DEF StopBridge, SessionsSame, poolVars, drainVars
  <2>2. /\ \A e \in Call \ {c} : bridge'[e] = bridge[e]
        /\ bridge'[c].media = bridge[c].media
    BY <1>t, <2>1 DEF BridgeRec
  <2>3. \/ bridge'[c].state = "stopped" /\ relay' = relay \ {bridge[c].media}
        \/ bridge'[c].state = "missed" /\ UNCHANGED relay
    BY <1>t, <2>1 DEF BridgeRec
  <2> QED BY <2>1, <2>2, <2>3 DEF Unbridges
<1> QED BY <1>1, <1>4, <1>5, <1>6, <1>7, <1>8, <1>9, <1>10, <1>11

-----------------------------------------------------------------------------
(* The steps of operations and nodes *)

\* Calls and sessions are left alone; only Migrate touches the migrations of d.
OpStepped ==
    /\ SessionsSame
    /\ UNCHANGED <<dlg, handle, picked, relay, bridge, stranded>>
    /\ \/ UNCHANGED mig
       \/ \E d \in DrainOp : Migrate(d)

LEMMA StepKinds ==
    ASSUME Shape, NodeInv, MediaInv, [Next]_vars
    PROVE  \/ \E c \in Call : CallStepped(c)
           \/ \E d \in DrainOp, r \in Sid : \E m, n : MigStepped(d, r, m, n)
           \/ OpStepped
<1>1. CASE CallNext
  BY <1>1, CallSteps
<1>2. ASSUME NEW d \in DrainOp, NEW r \in Sid, MigStep(d, r)
      PROVE  \E m, n : MigStepped(d, r, m, n)
  BY <1>2, MigSteps
<1>3. ASSUME NEW d \in DrainOp,
             OpStep(d) \/ Timeout(d) \/ \E n \in Node : StartDrain(d, n)
      PROVE  OpStepped
  <2>1. /\ UNCHANGED <<sessionToNode, rtp, used, dlg, handle, picked, relay,
                       bridge, stranded>>
        /\ UNCHANGED mig \/ Migrate(d)
    BY <1>3 DEF OpStep, NoSessions, Migrate, FailDrain, Wait, CompleteDrain,
       Disable, Timeout, StartDrain, poolVars, callVars
  <2> QED BY <2>1 DEF OpStepped, SessionsSame
<1>4. ASSUME NEW n \in Node, CancelDrain(n) \/ CheckHealth(n) PROVE OpStepped
  BY <1>4 DEF OpStepped, SessionsSame, CancelDrain, CheckHealth, callVars, drainVars
<1>5. CASE UNCHANGED vars
  BY <1>5 DEF vars, poolVars, callVars, drainVars, OpStepped, SessionsSame
<1> QED BY <1>1, <1>2, <1>3, <1>4, <1>5 DEF Next

\* The sessions in these steps.
LEMMA StepSessions ==
    ASSUME Shape, MediaInv,
           \/ \E c \in Call : CallStepped(c)
           \/ \E d \in DrainOp, r \in Sid : \E m, n : MigStepped(d, r, m, n)
           \/ OpStepped
    PROVE  SessionStep /\ IdsKept
<1>1. ASSUME NEW c \in Call, CallStepped(c) PROVE SessionStep
  <2>1. CASE \E x \in Sid : CreatesFor(c, x)
    BY <2>1 DEF CreatesFor, SessionStep, Made
  <2>2. CASE Passes(c)
    BY <2>2 DEF Passes, SessionStep, Forgotten
  <2>3. CASE Selects(c) \/ Bridges(c) \/ Unbridges(c)
    BY <2>3 DEF Selects, Bridges, Unbridges, SessionStep
  <2> QED BY <1>1, <2>1, <2>2, <2>3 DEF CallStepped
<1>2. ASSUME NEW d \in DrainOp, NEW r \in Sid, NEW m, NEW n, MigStepped(d, r, m, n)
      PROVE  SessionStep
  <2>1. m \in MigRec /\ Legs(m) /\ MigEffect(d, r, m, n)
    BY <1>2 DEF MigStepped
  <2>2. ASSUME NEW x \in Sid, Creates(d, m, n, x) PROVE SessionStep
    <3>1. m.legs[m.k] \in Call
      BY <2>1, <2>2, LegFacts DEF Creates, Moving
    <3> QED BY <2>2, <3>1 DEF Creates, SessionStep, Made
  <2>3. CASE Undoes(d, m, n) \/ Destroys(m, n)
    BY <2>3 DEF Undoes, Destroys, SessionStep, Forgotten
  <2>4. CASE Waits(d, r, m, n) \/ (\E c \in Call : Updates(m, n, c)) \/ Relays(d, m, n)
    BY <2>4 DEF Waits, Updates, Relays, SessionStep
  <2> QED BY <2>1, <2>2, <2>3, <2>4 DEF MigEffect
<1>3. SessionStep
  BY <1>1, <1>2 DEF OpStepped, SessionStep
<1> QED BY <1>3, SessionFacts

-----------------------------------------------------------------------------
(* Media bridges.  No two calls ever hold the same session id, so that the    *)
(* media bridge of one call is not taken for another's.                       *)

Has(c, s) ==
    \/ handle[c] = s
    \/ dlg[c].sid = s
    \/ \E d \in DrainOp, r \in Sid :
          /\ mig[d][r].pc \in Moving
          /\ \E i \in 1..Len(mig[d][r].new) :
                mig[d][r].legs[i] = c /\ mig[d][r].new[i] = s

OneOwner == \A s \in Sid : \A c, e \in Call : Has(c, s) /\ Has(e, s) => c = e

\* A Bridge is made of two answered legs; the media bridge it has recorded is
\* that of the sessions the legs keep.
BridgeOK(c) ==
    /\ bridge[c].state # "none" =>
          /\ Peer[c] # None
          /\ dlg[c].state \in {"Confirmed", "Terminated"}
          /\ dlg[Peer[c]].state \in {"Confirmed", "Terminated"}
    /\ bridge[c].state \in {"active", "missed"} =>
          bridge[c].media[2] = handle[c]

\* Every media bridge is recorded by the Bridge of a call, or a migration
\* made it.
RelayOK == \A q \in relay :
    \/ \E c \in Call : bridge[c].state \in {"active", "missed"} /\ bridge[c].media = q
    \/ \E d \in DrainOp, r \in Sid :
          mig[d][r].pc = "done" /\ mig[d][r].new = <<q[2], q[3]>>

RelayInv == OneOwner /\ (\A c \in Call : BridgeOK(c)) /\ RelayOK

LEMMA MigrateFacts ==
    ASSUME Shape, NEW d \in DrainOp, Migrate(d)
    PROVE  /\ \A e \in DrainOp \ {d} : mig'[e] = mig[e]
           /\ \A r \in Sid : /\ mig[d][r].pc = "none"
                             /\ mig'[d][r].pc \in {"none", "queued"}
                             /\ r \in op[d].snap => mig'[d][r].pc = "queued"
<1>1. /\ op[d].pc = "start"
      /\ mig' = [mig EXCEPT ![d] = [s \in Sid |->
                    IF s \in op[d].snap THEN [Idle EXCEPT !.pc = "queued"]
                                        ELSE Idle]]
  BY DEF Migrate
<1>2. \A e \in DrainOp \ {d} : mig'[e] = mig[e]
  BY <1>1 DEF Shape, DrainTypes
<1>3. \A r \in Sid : mig[d][r].pc = "none"
  BY <1>1 DEF Shape, Migs
<1>4. PICK q : q = [Idle EXCEPT !.pc = "queued"]
  OBVIOUS
<1>5. q.pc = "queued" /\ Idle.pc = "none"
  BY <1>4 DEF Idle
<1>6. \A r \in Sid : mig'[d][r] = IF r \in op[d].snap THEN q ELSE Idle
  BY <1>1, <1>4 DEF Shape, DrainTypes
<1> QED BY <1>2, <1>3, <1>5, <1>6

LEMMA HasOwns ==
    ASSUME Shape, NodeInv, MediaInv, NEW s \in Sid, NEW c \in Call, Has(c, s)
    PROVE  Owns(s, c)
<1>1. CASE handle[c] = s \/ dlg[c].sid = s
  <2>1. CallOK(c) /\ s # None
    BY NoneIsNew DEF MediaInv, NoneIsNew
  <2> QED BY <1>1, <2>1 DEF CallOK
<1>2. ASSUME NEW d \in DrainOp, NEW r \in Sid, mig[d][r].pc \in Moving,
             NEW i \in 1..Len(mig[d][r].new),
             mig[d][r].legs[i] = c, mig[d][r].new[i] = s
      PROVE  Owns(s, c)
  <2>1. PICK m \in MigRec : m = mig[d][r] /\ Legs(m)
    BY DEF Shape, DrainTypes, Migs
  <2>2. Len(m.legs) \in {1, 2} /\ Len(m.new) \in 0..Len(m.legs)
    BY <1>2, <2>1, LegFacts
  <2>3. i \in 1..Len(m.legs) /\ i <= Len(m.new)
    BY <2>1, <2>2
  <2> QED BY <1>2, <2>1, <2>3, LegsKnown
<1> QED BY <1>1, <1>2 DEF Has

\* A session is held by more than before only if it was made, or found, for
\* the call that has it now.
LEMMA OwnerMade ==
    ASSUME Shape, NodeInv, MediaInv, OneOwner, NEW x \in Sid, NEW c \in Call,
           NEW t, Made(x, t, c),
           \A e \in Call, s \in Sid : Has(e, s)' => Has(e, s) \/ (e = c /\ s = x)
    PROVE  OneOwner'
<1>1. ASSUME NEW e \in Call, Has(e, x) PROVE e = c
  <2>1. Owns(x, e)
    BY <1>1, HasOwns
  <2> QED BY <2>1 DEF Owns, Made
<1> SUFFICES ASSUME NEW s \in Sid, NEW e \in Call, NEW f \in Call,
                    Has(e, s)', Has(f, s)'
             PROVE  e = f
  BY DEF OneOwner
<1>2. Has(e, s) \/ (e = c /\ s = x)
  OBVIOUS
<1>3. Has(f, s) \/ (f = c /\ s = x)
  OBVIOUS
<1> QED BY <1>1, <1>2, <1>3 DEF OneOwner

LEMMA OwnerKept ==
    ASSUME OneOwner, \A e \in Call, s \in Sid : Has(e, s)' => Has(e, s)
    PROVE  OneOwner'
BY DEF OneOwner

LEMMA OwnerCalls ==
    ASSUME Shape, NodeInv, MediaInv, OneOwner, NEW c \in Call, CallStepped(c)
    PROVE  OneOwner'
<1>1. /\ UNCHANGED mig
      /\ \A e \in Call \ {c} : dlg'[e] = dlg[e] /\ handle'[e] = handle[e]
  BY DEF CallStepped
<1>2. ASSUME NEW e \in Call, NEW s \in Sid, Has(e, s)', ~Has(e, s)
      PROVE  handle'[e] = s \/ dlg'[e].sid = s
  BY <1>1, <1>2 DEF Has
<1>3. ASSUME NEW e \in Call, NEW s \in Sid, Has(e, s)', ~Has(e, s)
      PROVE  e = c
  BY <1>1, <1>2, <1>3 DEF Has
<1>4. ASSUME NEW x \in Sid, CreatesFor(c, x) PROVE OneOwner'
  <2>1. /\ Made(x, picked[c], c) /\ dlg[c].sid = None /\ handle'[c] = x
        /\ dlg'[c] = dlg[c] \/ dlg'[c].sid = x
    BY <1>4 DEF CreatesFor
  <2>2. None \notin Sid
    BY NoneIsNew DEF NoneIsNew
  <2>3. ASSUME NEW e \in Call, NEW s \in Sid, Has(e, s)', ~Has(e, s)
        PROVE  e = c /\ s = x
    BY <1>2, <1>3, <2>1, <2>2, <2>3
  <2> QED BY <2>1, <2>3, OwnerMade
<1>5. CASE ~\E x \in Sid : CreatesFor(c, x)
  <2>1. UNCHANGED handle /\ dlg'[c].sid \in {dlg[c].sid, handle[c]}
    BY <1>5 DEF CallStepped, Selects, Passes, Bridges, Unbridges
  <2>2. \A e \in Call, s \in Sid : Has(e, s)' => Has(e, s)
    <3> SUFFICES ASSUME NEW e \in Call, NEW s \in Sid, Has(e, s)', ~Has(e, s)
                 PROVE  FALSE
      OBVIOUS
    <3> QED BY <1>2, <1>3, <2>1 DEF Has
  <2> QED BY <2>2, OwnerKept
<1> QED BY <1>4, <1>5

LEMMA OwnerMigs ==
    ASSUME Shape, NodeInv, MediaInv, OneOwner, NEW d \in DrainOp, NEW r \in Sid,
           NEW m, NEW n, MigStepped(d, r, m, n)
    PROVE  OneOwner'
<1>1. /\ m \in MigRec /\ m = mig[d][r] /\ Legs(m) /\ OneMig(d, r, n)
      /\ UNCHANGED handle /\ MigEffect(d, r, m, n)
  BY DEF MigStepped
<1>2. m.pc \in Moving =>
        /\ Len(m.legs) \in {1, 2} /\ m.k \in 1..Len(m.legs)
        /\ m.legs \in Seq(Call)
        /\ m.pc # "create" => Len(m.new) = Len(m.legs)
  BY <1>1, LegFacts
\* A name that a call has after the step it had before, or the migration gave it.
<1>3. ASSUME NEW e \in Call, NEW s \in Sid, Has(e, s)', ~Has(e, s)
      PROVE  \/ dlg'[e].sid = s /\ dlg'[e] # dlg[e]
             \/ /\ n.pc \in Moving
                /\ \E i \in 1..Len(n.new) : n.legs[i] = e /\ n.new[i] = s
  <2>1. \/ dlg'[e].sid = s
        \/ \E f \in DrainOp, q \in Sid :
              /\ mig'[f][q].pc \in Moving
              /\ \E i \in 1..Len(mig'[f][q].new) :
                    mig'[f][q].legs[i] = e /\ mig'[f][q].new[i] = s
    BY <1>1, <1>3 DEF Has
  <2>2. ASSUME NEW f \in DrainOp, NEW q \in Sid,
               mig'[f][q].pc \in Moving,
               \E i \in 1..Len(mig'[f][q].new) :
                    mig'[f][q].legs[i] = e /\ mig'[f][q].new[i] = s
        PROVE  f = d /\ q = r
    BY <1>1, <1>3, <2>2 DEF OneMig, Has
  <2> QED BY <1>1, <1>3, <2>1, <2>2 DEF Has, OneMig
<1>4. ASSUME m.pc \in Moving, NEW e, NEW s, NEW i \in 1..Len(m.new),
             m.legs[i] = e, m.new[i] = s
      PROVE  Has(e, s)
  BY <1>1, <1>4 DEF Has
<1>5. ASSUME NEW x \in Sid, Creates(d, m, n, x) PROVE OneOwner'
  <2>1. PICK c : c = m.legs[m.k]
    OBVIOUS
  <2>2. /\ m.pc = "create" /\ Made(x, op[d].target, c) /\ UNCHANGED dlg
        /\ n.legs = m.legs /\ Len(n.new) = m.k /\ Len(m.new) = m.k - 1
        /\ n.new[m.k] = x /\ \A i \in 1..Len(m.new) : n.new[i] = m.new[i]
    BY <1>5, <2>1 DEF Creates
  <2>m. m.pc \in Moving
    BY <2>2 DEF Moving
  <2>3. m.k \in 1..Len(m.legs) /\ c \in Call /\ m.k \in Nat
    BY <1>2, <2>1, <2>m
  <2>4. ASSUME NEW e \in Call, NEW s \in Sid, Has(e, s)'
        PROVE  Has(e, s) \/ (e = c /\ s = x)
    <3> SUFFICES ASSUME ~Has(e, s) PROVE e = c /\ s = x
      OBVIOUS
    <3>1. PICK i \in 1..Len(n.new) : n.legs[i] = e /\ n.new[i] = s
      BY <1>3, <2>2, <2>4
    <3>2. i = m.k \/ i \in 1..Len(m.new)
      BY <2>2, <2>3
    <3>3. CASE i = m.k
      BY <2>1, <2>2, <3>1, <3>3
    <3>4. CASE i \in 1..Len(m.new)
      BY <1>4, <2>2, <2>m, <3>1, <3>4
    <3> QED BY <3>2, <3>3, <3>4
  <2> QED BY <2>2, <2>3, <2>4, OwnerMade
<1>6. CASE Waits(d, r, m, n)
  <2>1. UNCHANGED dlg /\ n.new = m.new
    BY <1>6 DEF Waits
  <2>2. m.pc \in Unstarted => Len(m.new) = 0
    BY <1>1 DEF Legs
  <2>3. ASSUME n.pc \in Moving, NEW i \in 1..Len(n.new)
        PROVE  m.pc \in Moving /\ n.legs[i] = m.legs[i]
    <3>1. m.pc \notin Unstarted
      BY <2>1, <2>2, <2>3
    <3>2. CASE m.pc = "create"
      <4>1. n.pc = "rollback" /\ Len(m.new) = 1 /\ n.legs[1] = m.legs[1]
        BY <1>6, <2>3, <3>2 DEF Waits, Moving, Placed
      <4>2. i = 1
        BY <2>1, <2>3, <4>1
      <4> QED BY <3>2, <4>1, <4>2 DEF Moving
    <3>3. CASE m.pc # "create"
      BY <1>6, <2>3, <3>1, <3>3 DEF Waits, Moving, Placed, Unstarted
    <3> QED BY <3>2, <3>3
  <2>4. ASSUME NEW e \in Call, NEW s \in Sid, Has(e, s)', ~Has(e, s) PROVE FALSE
    <3>1. n.pc \in Moving /\ \E i \in 1..Len(n.new) : n.legs[i] = e /\ n.new[i] = s
      BY <1>3, <2>1, <2>4
    <3>2. PICK i \in 1..Len(n.new) : n.legs[i] = e /\ n.new[i] = s
      BY <3>1
    <3>3. m.pc \in Moving /\ m.legs[i] = e
      BY <2>3, <3>1, <3>2
    <3>4. m.new[i] = s /\ i \in 1..Len(m.new)
      BY <2>1, <3>2
    <3> QED BY <1>4, <2>4, <3>3, <3>4
  <2> QED BY <2>4, OwnerKept
<1>7. ASSUME m.pc \in Moving, n.legs = m.legs, n.new = m.new,
             \A e \in Call, s \in Sid : dlg'[e].sid = s /\ dlg'[e] # dlg[e]
                => Has(e, s)
      PROVE  OneOwner'
  <2>1. ASSUME NEW e \in Call, NEW s \in Sid, Has(e, s)', ~Has(e, s) PROVE FALSE
    <3>1. PICK i \in 1..Len(n.new) : n.legs[i] = e /\ n.new[i] = s
      BY <1>3, <1>7, <2>1
    <3>2. m.legs[i] = e /\ m.new[i] = s /\ i \in 1..Len(m.new)
      BY <1>7, <3>1
    <3> QED BY <1>4, <1>7, <2>1, <3>2
  <2> QED BY <2>1, OwnerKept
<1>8. CASE Undoes(d, m, n) \/ Destroys(m, n) \/ Relays(d, m, n)
  <2>1. /\ m.pc \in Moving /\ n.legs = m.legs /\ n.new = m.new /\ UNCHANGED dlg
    BY <1>8 DEF Undoes, Destroys, Relays, Moving, Placed
  <2> QED BY <1>7, <2>1
<1>9. ASSUME NEW c \in Call, Updates(m, n, c) PROVE OneOwner'
  <2>1. /\ m.pc = "update" /\ m.pc \in Moving /\ n.legs = m.legs /\ n.new = m.new
        /\ c = m.legs[m.k] /\ dlg'[c].sid = m.new[m.k]
        /\ \A e \in Call \ {c} : dlg'[e] = dlg[e]
    BY <1>9 DEF Updates, Moving, Placed
  <2>2. m.k \in 1..Len(m.new)
    BY <1>2, <2>1
  <2>3. Has(c, m.new[m.k])
    BY <1>4, <2>1, <2>2
  <2> QED BY <1>7, <2>1, <2>3
<1> QED BY <1>1, <1>5, <1>6, <1>8, <1>9 DEF MigEffect

LEMMA OwnerOps ==
    ASSUME Shape, OneOwner, OpStepped PROVE OneOwner'
<1>1. UNCHANGED <<dlg, handle>>
  BY DEF OpStepped
<1>2. ASSUME NEW e \in DrainOp, NEW r \in Sid, mig'[e][r].pc \in Moving
      PROVE  mig'[e][r] = mig[e][r]
  <2>1. CASE UNCHANGED mig
    BY <2>1
  <2>2. ASSUME NEW d \in DrainOp, Migrate(d) PROVE mig'[e][r] = mig[e][r]
    <3>1. e # d
      BY <1>2, <2>2, MigrateFacts DEF Moving, Placed
    <3> QED BY <2>2, <3>1, MigrateFacts
  <2> QED BY <2>1, <2>2 DEF OpStepped
<1>3. \A e \in Call, s \in Sid : Has(e, s)' => Has(e, s)
  BY <1>1, <1>2 DEF Has
<1> QED BY <1>3, OwnerKept

\* The records of the migrations that are done stay.
LEMMA DoneStays ==
    ASSUME Shape,
           \/ \E c \in Call : CallStepped(c)
           \/ \E d \in DrainOp, r \in Sid : \E m, n : MigStepped(d, r, m, n)
           \/ OpStepped,
           NEW e \in DrainOp, NEW q \in Sid, mig[e][q].pc = "done"
    PROVE  mig'[e][q] = mig[e][q]
<1>1. CASE \E c \in Call : CallStepped(c)
  BY <1>1 DEF CallStepped
<1>2. ASSUME NEW d \in DrainOp, NEW r \in Sid, NEW m, NEW n, MigStepped(d, r, m, n)
      PROVE  mig'[e][q] = mig[e][q]
  <2>1. m = mig[d][r] /\ OneMig(d, r, n) /\ m.pc # "done"
    BY <1>2 DEF MigStepped, MigEffect, Waits, Creates, Undoes, Destroys, Updates,
       Relays
  <2> QED BY <2>1 DEF OneMig
<1>3. CASE UNCHANGED mig
  BY <1>3
<1>4. ASSUME NEW d \in DrainOp, Migrate(d) PROVE mig'[e][q] = mig[e][q]
  <2>1. e # d
    BY <1>4, MigrateFacts
  <2> QED BY <1>4, <2>1, MigrateFacts
<1> QED BY <1>1, <1>2, <1>3, <1>4 DEF OpStepped

LEMMA BridgesStep ==
    ASSUME Shape, MediaInv, \A c \in Call : BridgeOK(c),
           \/ \E c \in Call : CallStepped(c)
           \/ \E d \in DrainOp, r \in Sid : \E m, n : MigStepped(d, r, m, n)
           \/ OpStepped
    PROVE  \A c \in Call : BridgeOK(c)'
<1>t. \A e \in Call : Peer[e] # None => Peer[e] \in Call
  BY PeerType DEF PeerType
<1>1. ASSUME UNCHANGED <<handle, bridge>>,
             \A e \in Call : /\ dlg[e].state \in {"Confirmed", "Terminated"} =>
                                   dlg'[e].state \in {"Confirmed", "Terminated"}
      PROVE  \A e \in Call : BridgeOK(e)'
  BY <1>t, <1>1 DEF BridgeOK
<1>2. ASSUME NEW c \in Call, CallStepped(c) PROVE \A e \in Call : BridgeOK(e)'
  <2>1. \A e \in Call \ {c} : /\ dlg'[e] = dlg[e] /\ handle'[e] = handle[e]
                              /\ bridge'[e] = bridge[e]
    BY <1>2 DEF CallStepped
  <2>2. CASE Selects(c)
    BY <1>1, <2>2 DEF Selects
  <2>3. CASE Passes(c)
    <3>1. /\ UNCHANGED <<handle, bridge>>
          /\ dlg[c].state \in {"Confirmed", "Terminated"} =>
                dlg'[c].state \in {"Confirmed", "Terminated"}
      BY <2>3 DEF Passes
    <3> QED BY <1>1, <2>1, <3>1
  <2>4. ASSUME NEW x \in Sid, CreatesFor(c, x) PROVE \A e \in Call : BridgeOK(e)'
    <3>1. dlg[c].state = "none" /\ handle[c] = None /\ UNCHANGED bridge
      BY <2>4 DEF CreatesFor
    <3>2. bridge[c].state = "none"
      BY <3>1 DEF BridgeOK
    <3>3. \A e \in Call : Peer[e] # None /\ bridge[e].state # "none" => Peer[e] # c
      BY <3>1 DEF BridgeOK
    <3> QED BY <1>t, <2>1, <3>1, <3>2, <3>3 DEF BridgeOK
  <2>5. CASE Bridges(c)
    <3>1. /\ UNCHANGED <<dlg, handle>> /\ Peer[c] # None
          /\ dlg[c].state = "Confirmed" /\ dlg[Peer[c]].state = "Confirmed"
          /\ \/ bridge'[c].state = "stopped"
             \/ bridge'[c].media =
                    <<sessionToNode[handle[c]], handle[c], handle[Peer[c]]>>
      BY <2>5 DEF Bridges
    <3>2. bridge'[c].state = "stopped" \/ bridge'[c].media[2] = handle[c]
      BY <3>1
    <3> QED BY <1>t, <2>1, <3>1, <3>2 DEF BridgeOK
  <2>6. CASE Unbridges(c)
    <3>1. /\ UNCHANGED <<dlg, handle>> /\ bridge[c].state = "active"
          /\ bridge'[c].media = bridge[c].media
      BY <2>6 DEF Unbridges
    <3> QED BY <1>t, <2>1, <3>1 DEF BridgeOK
  <2> QED BY <1>2, <2>2, <2>3, <2>4, <2>5, <2>6 DEF CallStepped
<1>3. ASSUME NEW d \in DrainOp, NEW r \in Sid, NEW m, NEW n, MigStepped(d, r, m, n)
      PROVE  \A e \in Call : BridgeOK(e)'
  <2>1. UNCHANGED <<handle, bridge>> /\ \A e \in Call : dlg'[e].state = dlg[e].state
    BY <1>3 DEF MigStepped, MigEffect, Waits, Creates, Undoes, Destroys, Updates,
       Relays
  <2> QED BY <1>1, <2>1
<1>4. CASE OpStepped
  BY <1>1, <1>4 DEF OpStepped
<1> QED BY <1>2, <1>3, <1>4

LEMMA RelaysStep ==
    ASSUME Shape, MediaInv, RelayOK, \A c \in Call : BridgeOK(c),
           \/ \E c \in Call : CallStepped(c)
           \/ \E d \in DrainOp, r \in Sid : \E m, n : MigStepped(d, r, m, n)
           \/ OpStepped
    PROVE  RelayOK'
<1>1. ASSUME NEW q, NEW d \in DrainOp, NEW r \in Sid,
             mig[d][r].pc = "done", mig[d][r].new = <<q[2], q[3]>>
      PROVE  \E e \in DrainOp, s \in Sid :
                mig'[e][s].pc = "done" /\ mig'[e][s].new = <<q[2], q[3]>>
  BY <1>1, DoneStays
<1>2. ASSUME NEW q \in relay',
             q \in relay => \A c \in Call :
                bridge[c].state \in {"active", "missed"} /\ bridge[c].media = q
                  => bridge'[c].state \in {"active", "missed"} /\ bridge'[c].media = q,
             q \notin relay =>
                \/ \E c \in Call :
                      bridge'[c].state \in {"active", "missed"} /\ bridge'[c].media = q
                \/ \E d \in DrainOp, r \in Sid :
                      mig'[d][r].pc = "done" /\ mig'[d][r].new = <<q[2], q[3]>>
      PROVE  \/ \E c \in Call :
                   bridge'[c].state \in {"active", "missed"} /\ bridge'[c].media = q
             \/ \E d \in DrainOp, r \in Sid :
                   mig'[d][r].pc = "done" /\ mig'[d][r].new = <<q[2], q[3]>>
  <2>1. CASE q \in relay
    <3>1. CASE \E c \in Call :
                 bridge[c].state \in {"active", "missed"} /\ bridge[c].media = q
      BY <1>2, <2>1, <3>1
    <3>2. CASE \E d \in DrainOp, r \in Sid :
                 mig[d][r].pc = "done" /\ mig[d][r].new = <<q[2], q[3]>>
      BY <1>1, <3>2
    <3> QED BY <2>1, <3>1, <3>2 DEF RelayOK
  <2> QED BY <1>2, <2>1
<1>3. SUFFICES ASSUME NEW q \in relay'
      PROVE  /\ q \in relay => \A c \in Call :
                bridge[c].state \in {"active", "missed"} /\ bridge[c].media = q
                  => bridge'[c].state \in {"active", "missed"} /\ bridge'[c].media = q
             /\ q \notin relay =>
                \/ \E c \in Call :
                      bridge'[c].state \in {"active", "missed"} /\ bridge'[c].media = q
                \/ \E d \in DrainOp, r \in Sid :
                      mig'[d][r].pc = "done" /\ mig'[d][r].new = <<q[2], q[3]>>
  BY <1>2 DEF RelayOK
<1>4. CASE UNCHANGED <<relay, bridge>>
  BY <1>4
<1>5. ASSUME NEW c \in Call, CallStepped(c), ~UNCHANGED <<relay, bridge>>
      PROVE  /\ q \in relay => \A e \in Call :
                bridge[e].state \in {"active", "missed"} /\ bridge[e].media = q
                  => bridge'[e].state \in {"active", "missed"} /\ bridge'[e].media = q
             /\ q \notin relay => \E e \in Call :
                      bridge'[e].state \in {"active", "missed"} /\ bridge'[e].media = q
  <2>1. \A e \in Call \ {c} : bridge'[e] = bridge[e]
    BY <1>5 DEF CallStepped
  <2>2. Bridges(c) \/ Unbridges(c)
    BY <1>5 DEF CallStepped, Selects, CreatesFor, Passes
  <2>3. CASE Bridges(c)
    <3>1. /\ bridge[c].state = "none"
          /\ \/ /\ bridge'[c].state \in {"active", "missed"}
                /\ relay' = relay \cup {bridge'[c].media}
             \/ relay' = relay
      BY <2>3 DEF Bridges
    <3> QED BY <1>3, <2>1, <3>1
  <2>4. CASE Unbridges(c)
    <3>1. /\ bridge[c].state = "active" /\ bridge'[c].media = bridge[c].media
          /\ \/ relay' = relay \ {bridge[c].media}
             \/ bridge'[c].state = "missed" /\ relay' = relay
      BY <2>4 DEF Unbridges
    <3> QED BY <1>3, <2>1, <3>1
  <2> QED BY <2>2, <2>3, <2>4
<1>6. ASSUME NEW d \in DrainOp, NEW r \in Sid, NEW m, NEW n, MigStepped(d, r, m, n)
      PROVE  /\ UNCHANGED bridge
             /\ q \notin relay => \E e \in DrainOp, s \in Sid :
                      mig'[e][s].pc = "done" /\ mig'[e][s].new = <<q[2], q[3]>>
  <2>1. /\ m \in MigRec /\ Legs(m) /\ mig'[d][r] = n
        /\ UNCHANGED bridge /\ MigEffect(d, r, m, n)
    BY <1>6 DEF MigStepped, OneMig
  <2>2. CASE UNCHANGED relay
    BY <1>3, <2>1, <2>2
  <2>3. CASE ~UNCHANGED relay
    <3>1. /\ m.pc = "bridge" /\ n.pc = "done" /\ n.new = m.new
          /\ relay' = relay \cup {<<op[d].target, m.new[1], m.new[2]>>}
      BY <2>1, <2>3 DEF MigEffect, Waits, Creates, Undoes, Destroys, Updates, Relays
    <3>2. Len(m.new) = 2 /\ m.new \in Seq(Sid)
      BY <2>1, <3>1 DEF Legs, MigRec, Placed
    <3>3. m.new = <<m.new[1], m.new[2]>>
      BY <3>2
    <3>4. q \notin relay => q[2] = m.new[1] /\ q[3] = m.new[2]
      BY <1>3, <3>1
    <3>5. q \notin relay => n.new = <<q[2], q[3]>>
      BY <3>1, <3>3, <3>4
    <3> QED BY <2>1, <3>1, <3>5
  <2> QED BY <2>2, <2>3
<1>7. CASE OpStepped
  BY <1>4, <1>7 DEF OpStepped
<1> QED BY <1>4, <1>5, <1>6, <1>7

LEMMA RelayNext ==
    Shape /\ NodeInv /\ MediaInv /\ RelayInv /\ [Next]_vars => RelayInv'
<1> SUFFICES ASSUME Shape, NodeInv, MediaInv, RelayInv, [Next]_vars
             PROVE  RelayInv'
  OBVIOUS
<1>1. \/ \E c \in Call : CallStepped(c)
      \/ \E d \in DrainOp, r \in Sid : \E m, n : MigStepped(d, r, m, n)
      \/ OpStepped
  BY StepKinds
<1>2. OneOwner'
  BY <1>1, OwnerCalls, OwnerMigs, OwnerOps DEF RelayInv
<1>3. \A c \in Call : BridgeOK(c)'
  BY <1>1, BridgesStep DEF RelayInv
<1>4. RelayOK'
  BY <1>1, RelaysStep DEF RelayInv
<1> QED BY <1>2, <1>3, <1>4 DEF RelayInv

\* The calls that are up at the start have a session each.
AtStart(at, sid) ==
    /\ \A c \in Call \ Early :
          /\ sid[c] \in Sid /\ at[c] \in Node
          /\ sessionToNode[sid[c]] = at[c]
          /\ dlg[c].state = "Confirmed" /\ dlg[c].sid = sid[c]
          /\ handle[c] = sid[c]
    /\ \A c, e \in Call \ Early : sid[c] = sid[e] => c = e
    /\ \A c \in Call \cap Early :
          dlg[c].state = "none" /\ dlg[c].sid = None /\ handle[c] = None
    /\ \A c \in Call :
          \/ /\ c \notin Early /\ Peer[c] \in Call \ Early
             /\ at[c] = at[Peer[c]]
             /\ bridge[c].state = "active"
             /\ bridge[c].media = <<at[c], sid[c], sid[Peer[c]]>>
          \/ /\ ~(c \notin Early /\ Peer[c] \in Call \ Early)
             /\ bridge[c].state = "none" /\ bridge[c].media = None
    /\ relay = {bridge[c].media : c \in Call} \ {None}
    /\ \A c \in Call : picked[c] = None
    /\ \A d \in DrainOp : /\ op[d].pc = "new"
                          /\ \A r \in Sid : mig[d][r].pc = "none"

LEMMA InitFacts == ASSUME Init PROVE \E a, g : AtStart(a, g)
<1> DEFINE up == Call \ Early
           Fit == {f \in [up -> Sid] : \A c, e \in up : f[c] = f[e] => c = e}
           sid == CHOOSE f \in [up -> Sid] :
                     \A c, e \in up : f[c] = f[e] => c = e
           Of(s) == {c \in up : sid[c] = s}
           Mine(s) == CHOOSE c \in up : sid[c] = s
<1>1. sid \in [up -> Sid] /\ \A c, e \in up : sid[c] = sid[e] => c = e
  <2>1. PICK f \in [Call -> Sid] : \A c, e \in Call : f[c] = f[e] => c = e
    BY EnoughIds DEF EnoughIds
  <2>2. [c \in up |-> f[c]] \in Fit
    BY <2>1
  <2> QED BY <2>2
<1>2. \A s \in Sid : Of(s) # {} => Mine(s) \in up /\ sid[Mine(s)] = s
  OBVIOUS
<1>3. PICK at \in [Call -> Node] :
         /\ \A c \in Call : Peer[c] # None => at[c] = at[Peer[c]]
         /\ sessionToNode = [s \in Sid |-> IF Of(s) = {} THEN None
                                           ELSE at[Mine(s)]]
         /\ dlg = [c \in Call |->
                     IF c \in up THEN [state |-> "Confirmed", sid |-> sid[c]]
                                 ELSE [state |-> "none", sid |-> None]]
         /\ handle = [c \in Call |-> dlg[c].sid]
         /\ bridge = [c \in Call |->
                        IF c \in up /\ Peer[c] \in up
                        THEN [state |-> "active",
                              media |-> <<at[c], sid[c], sid[Peer[c]]>>]
                        ELSE [state |-> "none", media |-> None]]
         /\ relay = {bridge[c].media : c \in Call} \ {None}
  BY DEF Init
<1>4. \A c \in up : sid[c] \in Sid /\ Of(sid[c]) # {} /\ Mine(sid[c]) = c
  BY <1>1, <1>2
<1>5. up = Call \ Early
  OBVIOUS
<1> HIDE DEF sid, Of, Mine, up
<1>6. \A c \in up : /\ sid[c] \in Sid /\ at[c] \in Node
                    /\ sessionToNode[sid[c]] = at[c]
                    /\ dlg[c].state = "Confirmed" /\ dlg[c].sid = sid[c]
                    /\ handle[c] = sid[c]
  BY <1>3, <1>4, <1>5
<1>7. \A c \in Call \cap Early :
         dlg[c].state = "none" /\ dlg[c].sid = None /\ handle[c] = None
  BY <1>3, <1>5
<1>8. ASSUME NEW c \in Call
      PROVE  \/ /\ c \notin Early /\ Peer[c] \in up
                /\ at[c] = at[Peer[c]]
                /\ bridge[c].state = "active"
                /\ bridge[c].media = <<at[c], sid[c], sid[Peer[c]]>>
             \/ /\ ~(c \notin Early /\ Peer[c] \in up)
                /\ bridge[c].state = "none" /\ bridge[c].media = None
  <2>1. PICK v : v = <<at[c], sid[c], sid[Peer[c]]>>
    OBVIOUS
  <2>2. bridge[c] = IF c \in up /\ Peer[c] \in up
                    THEN [state |-> "active", media |-> v]
                    ELSE [state |-> "none", media |-> None]
    BY <1>3, <2>1
  <2>3. Peer[c] \in up => Peer[c] # None
    BY <1>5, NoneIsNew DEF NoneIsNew
  <2> QED BY <1>3, <1>5, <2>1, <2>2, <2>3
<1>9. /\ \A c \in Call : picked[c] = None
      /\ \A d \in DrainOp : op[d].pc = "new" /\ \A r \in Sid : mig[d][r].pc = "none"
  <2>1. /\ picked = [c \in Call |-> None] /\ op = [d \in DrainOp |-> NoOp]
        /\ mig = [d \in DrainOp |-> [s \in Sid |-> Idle]]
    BY DEF Init
  <2> QED BY <2>1 DEF NoOp, Idle
<1>10. AtStart(at, sid)
  BY <1>1, <1>3, <1>5, <1>6, <1>7, <1>8, <1>9, ZenonT(30) DEF AtStart
<1> QED BY <1>10

LEMMA RelayInit == Init => RelayInv
<1> SUFFICES ASSUME Init PROVE RelayInv
  OBVIOUS
<1>0. PICK at, sid : AtStart(at, sid)
  BY InitFacts
<1>1. /\ \A c \in Call \ Early :
            /\ dlg[c].state = "Confirmed" /\ dlg[c].sid = sid[c]
            /\ handle[c] = sid[c]
      /\ \A c, e \in Call \ Early : sid[c] = sid[e] => c = e
      /\ \A c \in Call \cap Early : dlg[c].sid = None /\ handle[c] = None
      /\ \A c \in Call :
            \/ /\ c \notin Early /\ Peer[c] \in Call \ Early
               /\ bridge[c].state = "active"
               /\ bridge[c].media = <<at[c], sid[c], sid[Peer[c]]>>
            \/ bridge[c].state = "none" /\ bridge[c].media = None
      /\ relay = {bridge[c].media : c \in Call} \ {None}
      /\ \A d \in DrainOp, r \in Sid : mig[d][r].pc = "none"
  BY <1>0 DEF AtStart
<1>n. None \notin Sid /\ None \notin Call
  BY NoneIsNew DEF NoneIsNew
<1>2. OneOwner
  <2>1. \A c \in Call, s \in Sid : Has(c, s) => c \notin Early /\ sid[c] = s
    BY <1>1, <1>n DEF Has, Moving, Placed
  <2> QED BY <1>1, <2>1 DEF OneOwner
<1>3. ASSUME NEW c \in Call PROVE BridgeOK(c)
  <2>1. CASE bridge[c].state = "none"
    BY <2>1 DEF BridgeOK
  <2>2. CASE /\ c \notin Early /\ Peer[c] \in Call \ Early
             /\ bridge[c].media = <<at[c], sid[c], sid[Peer[c]]>>
    <3>1. bridge[c].media[2] = sid[c]
      BY <2>2
    <3> QED BY <1>1, <1>n, <2>2, <3>1 DEF BridgeOK
  <2> QED BY <1>1, <2>1, <2>2
<1>4. RelayOK
  BY <1>1 DEF RelayOK
<1> QED BY <1>2, <1>3, <1>4 DEF RelayInv

LEMMA RelayEndsHolds == Shape /\ MediaInv /\ RelayInv => RelayEnds
<1> SUFFICES ASSUME Shape, MediaInv, RelayInv, NEW c \in Call,
                    bridge[c].state = "stopped",
                    NEW q \in relay, q[2] \in {handle[c], dlg[c].sid},
                    ~\E d \in DrainOp, s \in Sid : mig[d][s].new = <<q[2], q[3]>>
             PROVE  FALSE
  BY DEF RelayEnds
<1>1. PICK e \in Call : bridge[e].state \in {"active", "missed"} /\ bridge[e].media = q
  BY DEF RelayInv, RelayOK
<1>2. handle[e] = q[2]
  BY <1>1 DEF RelayInv, BridgeOK
<1>3. q[2] \in Sid
  <2>1. relay \subseteq Node \X Sid \X Sid
    BY DEF Shape, CallTypes
  <2> QED BY <2>1
<1>4. Has(e, q[2]) /\ Has(c, q[2])
  BY <1>2 DEF Has
<1>5. c = e
  BY <1>3, <1>4 DEF RelayInv, OneOwner
<1> QED BY <1>1, <1>5

\* Bridge.Stop takes down the media bridge it recorded, whatever drains did
\* meanwhile: a relay that names a session of an ended bridge is one that a
\* migration made.  No other call's bridge can be mistaken for it, since no two
\* calls ever hold the same session (bridge.go, migrator.go, pool.go).
THEOREM MediaBridgesEnd == ASSUME ~Overlap PROVE Spec => []RelayEnds
<1>1. Shape /\ NodeInv /\ MediaInv /\ RelayInv /\ [Next]_vars => RelayInv'
  BY RelayNext
<1>2. Init => RelayInv
  BY RelayInit
<1>3. Shape /\ MediaInv /\ RelayInv => RelayEnds
  BY RelayEndsHolds
<1> QED BY <1>1, <1>2, <1>3, MediaInvariant, PTL DEF Spec

-----------------------------------------------------------------------------
(* Bridged calls stay together *)

\* An operation keeps its node and its sessions, and its target once it has one.
OpKept == \A d \in DrainOp : op[d].pc # "new" =>
    /\ op'[d].pc # "new"
    /\ op'[d].node = op[d].node /\ op'[d].snap = op[d].snap
    /\ op[d].failed => op'[d].failed
    /\ op[d].cancelled => op'[d].cancelled
    /\ op[d].pc # "start" =>
          op'[d].pc # "start" /\ op'[d].target = op[d].target

LEMMA OpsKept == ASSUME Shape, [Next]_vars PROVE OpKept
<1>t. op \in [DrainOp -> OpRec] /\ activeDrains \in [Node -> DrainOp \cup {None}]
  BY DEF Shape, DrainTypes
<1>1. CASE UNCHANGED op
  BY <1>1 DEF OpKept
<1>2. CASE CallNext
  <2>1. UNCHANGED op
    BY <1>2 DEF CallNext, SelectMember, CreateSession, CreateSessionFails,
       Confirm, Handle2xx, Terminate, OnTerminated, DialFails, StartBridge,
       StopBridge, drainVars
  <2> QED BY <1>1, <2>1
<1>3. ASSUME NEW n \in Node, CheckHealth(n) PROVE OpKept
  BY <1>1, <1>3 DEF CheckHealth, drainVars
<1>4. ASSUME NEW d \in DrainOp, NEW s \in Sid, MigStep(d, s) PROVE OpKept
  <2>1. Fails(d) \/ UNCHANGED op
    BY <1>4 DEF MigStep, Acquire, Lookup, CreateSessionOnNode, SendReINVITE,
       Answer, Rollback, DestroyOld, SetSessionID, BridgeMedia
  <2> QED BY <2>1, FailsFacts DEF Shape, OpKept
<1>5. ASSUME NEW d \in DrainOp, NEW p \in {"complete", "disable", "done"},
             op' = [op EXCEPT ![d].pc = p]
      PROVE  OpKept
  BY <1>t, <1>5 DEF OpKept, OpRec
<1>6. ASSUME NEW d \in DrainOp,
             NoSessions(d) \/ Wait(d) \/ CompleteDrain(d) \/ Disable(d)
      PROVE  OpKept
  <2>1. PICK p \in {"complete", "disable", "done"} : op' = [op EXCEPT ![d].pc = p]
    BY <1>6 DEF NoSessions, Wait, CompleteDrain, Disable
  <2> QED BY <1>5, <2>1
<1>7. ASSUME NEW d \in DrainOp, Migrate(d) PROVE OpKept
  <2>1. PICK t : op' = [op EXCEPT ![d].pc = "migrating", ![d].target = t]
    BY <1>7 DEF Migrate
  <2>2. op[d].pc = "start"
    BY <1>7 DEF Migrate
  <2> QED BY <1>t, <2>1, <2>2 DEF OpKept, OpRec
<1>8. ASSUME NEW d \in DrainOp, FailDrain(d) PROVE OpKept
  BY <1>t, <1>8 DEF OpKept, FailDrain, OpRec
<1>9. ASSUME NEW d \in DrainOp, op' = [op EXCEPT ![d].cancelled = TRUE] PROVE OpKept
  BY <1>t, <1>9 DEF OpKept, OpRec
<1>10. ASSUME NEW d \in DrainOp, Timeout(d) PROVE OpKept
  BY <1>9, <1>10 DEF Timeout
<1>11. ASSUME NEW n \in Node, CancelDrain(n) PROVE OpKept
  <2>1. activeDrains[n] \in DrainOp
    BY <1>t, <1>11 DEF CancelDrain
  <2> QED BY <1>9, <1>11, <2>1 DEF CancelDrain
<1>12. ASSUME NEW d \in DrainOp, NEW n \in Node, StartDrain(d, n) PROVE OpKept
  <2>1. op[d].pc = "new" /\ \A e \in DrainOp \ {d} : op'[e] = op[e]
    BY <1>t, <1>12 DEF StartDrain
  <2> QED BY <2>1 DEF OpKept
<1>13. CASE UNCHANGED vars
  BY <1>1, <1>13 DEF vars, drainVars
<1> QED BY <1>2, <1>3, <1>4, <1>6, <1>7, <1>8, <1>10, <1>11, <1>12, <1>13
        DEF Next, OpStep

\* The steps of calls, operations and nodes leave the migrations alone that move
\* sessions.
LEMMA OthersStay ==
    ASSUME Shape, OpStepped \/ (\E c \in Call : CallStepped(c)),
           NEW e \in DrainOp, NEW q \in Sid,
           mig[e][q].pc \in Moving \/ mig'[e][q].pc \in Moving
    PROVE  mig'[e][q] = mig[e][q]
<1>1. CASE UNCHANGED mig
  BY <1>1
<1>2. ASSUME NEW d \in DrainOp, Migrate(d) PROVE mig'[e][q] = mig[e][q]
  <2>1. e # d
    BY <1>2, MigrateFacts DEF Moving, Placed
  <2> QED BY <1>2, <2>1, MigrateFacts
<1> QED BY <1>1, <1>2 DEF OpStepped, CallStepped

\* The new sessions of a migration are on the target of its drain.
NewAt(d, r) == mig[d][r].pc \in Moving =>
    \A i \in 1..Len(mig[d][r].new) :
       rtp[mig[d][r].new[i]] # None => rtp[mig[d][r].new[i]].node = op[d].target

LEMMA NewsStep ==
    ASSUME Shape, NodeInv, MediaInv, \A d \in DrainOp, r \in Sid : NewAt(d, r),
           \/ \E c \in Call : CallStepped(c)
           \/ \E d \in DrainOp, r \in Sid : \E m, n : MigStepped(d, r, m, n)
           \/ OpStepped,
           IdsKept, OpKept,
           NEW e \in DrainOp, NEW q \in Sid
    PROVE  NewAt(e, q)'
<1>1. ASSUME NEW m, NEW n, m = mig[e][q], n = mig'[e][q], m.pc \in Moving,
             \A i \in 1..Len(n.new) :
                \/ i \in 1..Len(m.new) /\ n.new[i] = m.new[i]
                \/ rtp'[n.new[i]] # None => rtp'[n.new[i]].node = op[e].target
      PROVE  NewAt(e, q)'
  <2>1. op[e].pc \notin {"new", "start"}
    BY <1>1 DEF Shape, Migs, Moving, Placed
  <2>2. op'[e].target = op[e].target
    BY <2>1 DEF OpKept
  <2>3. ASSUME NEW i \in 1..Len(m.new), rtp'[m.new[i]] # None
        PROVE  rtp'[m.new[i]].node = op[e].target
    <3>1. m \in MigRec /\ Legs(m)
      BY <1>1 DEF Shape, DrainTypes, Migs
    <3>2. Len(m.legs) \in {1, 2} /\ Len(m.new) \in 0..Len(m.legs)
      BY <1>1, <3>1, LegFacts
    <3>3. i \in 1..Len(m.legs) /\ i <= Len(m.new)
      BY <3>2
    <3>4. m.new[i] \in used
      BY <1>1, <3>1, <3>3, LegsKnown DEF Owns
    <3>5. rtp'[m.new[i]] = rtp[m.new[i]]
      BY <2>3, <3>4 DEF IdsKept
    <3> QED BY <1>1, <2>3, <3>5 DEF NewAt
  <2> QED BY <1>1, <2>2, <2>3 DEF NewAt
<1>2. ASSUME mig'[e][q] = mig[e][q] PROVE NewAt(e, q)'
  <2>1. CASE mig[e][q].pc \in Moving
    BY <1>1, <1>2, <2>1
  <2>2. CASE mig[e][q].pc \notin Moving
    BY <1>2, <2>2 DEF NewAt
  <2> QED BY <2>1, <2>2
<1>3. CASE OpStepped \/ \E c \in Call : CallStepped(c)
  <2>1. CASE mig'[e][q].pc \in Moving
    BY <1>2, <1>3, <2>1, OthersStay
  <2>2. CASE mig'[e][q].pc \notin Moving
    BY <2>2 DEF NewAt
  <2> QED BY <2>1, <2>2
<1>4. ASSUME NEW d \in DrainOp, NEW r \in Sid, NEW m, NEW n, MigStepped(d, r, m, n)
      PROVE  NewAt(e, q)'
  <2>1. /\ m \in MigRec /\ m = mig[d][r] /\ Legs(m) /\ OneMig(d, r, n)
        /\ MigEffect(d, r, m, n)
    BY <1>4 DEF MigStepped
  <2>2. CASE e # d \/ q # r
    BY <1>2, <2>1, <2>2 DEF OneMig
  <2>3. CASE e = d /\ q = r
    <3>0. mig'[e][q] = n /\ mig[e][q] = m
      BY <2>1, <2>3 DEF OneMig
    <3>1. CASE n.new = m.new /\ m.pc \in Moving
      BY <1>1, <3>0, <3>1
    <3>2. CASE m.pc \notin Moving /\ n.new = m.new
      <4>1. m.pc \in Unstarted
        BY <2>1, <3>2 DEF MigEffect, Waits, Creates, Undoes, Destroys, Updates,
           Relays, Moving, Placed, Unstarted
      <4>2. Len(n.new) = 0
        BY <2>1, <3>2, <4>1 DEF Legs
      <4> QED BY <3>0, <4>2 DEF NewAt
    <3>3. ASSUME NEW x \in Sid, Creates(d, m, n, x) PROVE NewAt(e, q)'
      <4>1. /\ m.pc = "create" /\ Made(x, op[d].target, m.legs[m.k])
            /\ Len(n.new) = m.k /\ Len(m.new) = m.k - 1 /\ n.new[m.k] = x
            /\ \A i \in 1..Len(m.new) : n.new[i] = m.new[i]
        BY <3>3 DEF Creates
      <4>2. m.pc \in Moving
        BY <4>1 DEF Moving
      <4>3. m.k \in Nat
        BY <2>1 DEF MigRec
      <4>4. \A i \in 1..Len(n.new) : i = m.k \/ i \in 1..Len(m.new)
        BY <4>1, <4>3
      <4>5. rtp'[x].node = op[e].target
        BY <2>3, <4>1 DEF Made
      <4> QED BY <1>1, <3>0, <4>1, <4>2, <4>4, <4>5
    <3>4. \/ n.new = m.new \/ \E x \in Sid : Creates(d, m, n, x)
      BY <2>1 DEF MigEffect, Waits, Undoes, Destroys, Updates, Relays
    <3> QED BY <3>1, <3>2, <3>3, <3>4
  <2> QED BY <2>2, <2>3
<1> QED BY <1>3, <1>4

\* A migration has made, for the callee p, the session that p's leg keeps.
Back(p) == \E d \in DrainOp, r \in Sid :
    /\ mig[d][r].pc \in Moving /\ Len(mig[d][r].new) = 2
    /\ mig[d][r].legs[2] = p /\ mig[d][r].new[2] = handle[p]

\* A callee that has moved is not where its leg says, unless it is on its way
\* back there.
CalleeAt(p) ==
    p \in BLegs /\ handle[p] # None /\ dlg[p].sid \notin {None, handle[p]}
       => sessionToNode[handle[p]] = None \/ Back(p)

\* The second leg of a migration, and the first one's peer.
LEMMA SecondLeg ==
    ASSUME Shape, NodeInv, MediaInv, NEW d \in DrainOp, NEW r \in Sid,
           NEW m \in MigRec, m = mig[d][r], m.pc \in Moving
    PROVE  /\ m.legs[1] \in Call /\ m.legs[1] \notin BLegs
           /\ Len(m.legs) = 2 => /\ m.legs[2] \in Call /\ m.legs[2] \in BLegs
                                 /\ m.legs[2] = Peer[m.legs[1]]
           /\ m.old[1] = r /\ r \in op[d].snap /\ op[d].pc = "migrating"
           /\ \A i \in 1..Len(m.new) : m.new[i] \notin op[d].snap
<1>1. Legs(m) /\ MovingOK(m, r, op[d].snap)
  BY MigNow DEF Shape, Migs, MediaInv
<1>2. Len(m.legs) \in {1, 2} /\ m.legs \in Seq(Call)
  BY <1>1, LegFacts
<1>3. m.legs[1] \in Call /\ (Len(m.legs) = 2 => m.legs[2] \in Call)
  BY <1>2
<1>4. op[d].pc = "migrating" /\ r \in op[d].snap
  BY DEF MediaInv, OpOK, Moving, Placed
<1>5. None \notin Call
  BY NoneIsNew DEF NoneIsNew
<1> QED BY <1>1, <1>3, <1>4, <1>5 DEF MovingOK, BLegs

LEMMA LegCounts ==
    ASSUME NEW m \in MigRec, Legs(m), m.pc \in Moving
    PROVE  /\ m.k \in {1, 2} /\ (m.k = 2 => Len(m.legs) = 2)
           /\ Len(m.legs) \in {1, 2}
           /\ m.pc = "create" => Len(m.new) # 2
           /\ m.pc # "create" => Len(m.new) = Len(m.legs)
<1>1. /\ Len(m.legs) \in {1, 2} /\ m.k \in 1..Len(m.legs)
      /\ m.pc = "create" => Len(m.new) = m.k - 1
      /\ m.pc # "create" => Len(m.new) = Len(m.legs)
  BY LegFacts
<1>2. CASE Len(m.legs) = 1
  <2>1. m.k = 1
    BY <1>1, <1>2
  <2> QED BY <1>1, <1>2, <2>1
<1>3. CASE Len(m.legs) = 2
  <2>1. m.k \in {1, 2}
    BY <1>1, <1>3
  <2>2. m.k - 1 # 2
    BY <2>1
  <2> QED BY <1>1, <1>3, <2>1, <2>2
<1> QED BY <1>1, <1>2, <1>3

LEMMA CalleeCalls ==
    ASSUME Shape, NodeInv, MediaInv, OpStepped \/ (\E c \in Call : CallStepped(c)),
           NEW p \in Call, CalleeAt(p)
    PROVE  CalleeAt(p)'
<1> SUFFICES ASSUME p \in BLegs, handle'[p] # None,
                    dlg'[p].sid \notin {None, handle'[p]},
                    sessionToNode'[handle'[p]] # None
             PROVE  Back(p)'
  BY DEF CalleeAt
<1>1. ASSUME handle'[p] = handle[p], dlg'[p].sid = dlg[p].sid,
             sessionToNode[handle[p]] # None
      PROVE  Back(p)'
  <2>1. Back(p)
    BY <1>1 DEF CalleeAt
  <2>2. PICK d \in DrainOp, r \in Sid :
          /\ mig[d][r].pc \in Moving /\ Len(mig[d][r].new) = 2
          /\ mig[d][r].legs[2] = p /\ mig[d][r].new[2] = handle[p]
    BY <2>1 DEF Back
  <2>3. mig'[d][r] = mig[d][r]
    BY <2>2, OthersStay
  <2> QED BY <1>1, <2>2, <2>3 DEF Back
<1>2. CASE OpStepped
  BY <1>1, <1>2 DEF OpStepped, SessionsSame
<1>3. ASSUME NEW c \in Call, CallStepped(c) PROVE Back(p)'
  <2>1. \A e \in Call \ {c} : dlg'[e] = dlg[e] /\ handle'[e] = handle[e]
    BY <1>3 DEF CallStepped
  <2>o. /\ handle[p] # None => handle[p] \in used
        /\ handle \in [Call -> Sid \cup {None}]
        /\ dlg[p].state = "none" => dlg[p].sid = None
    BY DEF MediaInv, CallOK, Owns, Shape, CallTypes
  <2>2. ASSUME NEW x \in Sid, CreatesFor(c, x) PROVE Back(p)'
    <3>1. CASE c = p
      <4>1. dlg'[p] = dlg[p] /\ dlg[p].sid = None
        BY <2>2, <3>1 DEF CreatesFor
      <4> QED BY <4>1
    <3>2. CASE c # p
      <4>1. /\ x \notin used /\ handle'[p] = handle[p] /\ dlg'[p] = dlg[p]
            /\ \A s \in Sid \ {x} : sessionToNode'[s] = sessionToNode[s]
        BY <2>1, <2>2, <3>2 DEF CreatesFor, Made
      <4> QED BY <1>1, <2>o, <4>1
    <3> QED BY <3>1, <3>2
  <2>3. CASE Passes(c)
    <3>1. handle'[p] = handle[p]
      BY <2>3 DEF Passes
    <3>2. sessionToNode[handle[p]] # None
      BY <2>3, <2>o, <3>1 DEF Passes, SessionsSame, Forgotten
    <3>3. dlg'[p].sid = dlg[p].sid
      BY <2>1, <2>3, <3>1 DEF Passes
    <3> QED BY <1>1, <3>1, <3>2, <3>3
  <2>4. CASE Selects(c) \/ Bridges(c) \/ Unbridges(c)
    BY <1>1, <2>4 DEF Selects, Bridges, Unbridges, SessionsSame
  <2> QED BY <1>3, <2>2, <2>3, <2>4 DEF CallStepped
<1> QED BY <1>2, <1>3

LEMMA CalleeMigs ==
    ASSUME Shape, NodeInv, MediaInv, NEW d \in DrainOp, NEW r \in Sid,
           NEW m, NEW n, MigStepped(d, r, m, n),
           NEW p \in Call, CalleeAt(p)
    PROVE  CalleeAt(p)'
<1>1. /\ m \in MigRec /\ m = mig[d][r] /\ Legs(m) /\ OneMig(d, r, n)
      /\ UNCHANGED handle /\ MigEffect(d, r, m, n)
  BY DEF MigStepped
<1>2. PICK h : h = handle[p]
  OBVIOUS
<1>o. p \in BLegs /\ h # None => h \in Sid /\ Owns(h, p)
  BY <1>2 DEF MediaInv, CallOK, Shape, CallTypes
<1> SUFFICES ASSUME p \in BLegs, h # None, dlg'[p].sid \notin {None, h},
                    sessionToNode'[h] # None
             PROVE  Back(p)'
  BY <1>1, <1>2 DEF CalleeAt
<1>l. m.pc \in Moving =>
        /\ m.k \in {1, 2} /\ (m.k = 2 => Len(m.legs) = 2)
        /\ Len(m.legs) \in {1, 2}
        /\ m.pc = "create" => Len(m.new) # 2
        /\ m.pc # "create" => Len(m.new) = Len(m.legs)
  BY <1>1, LegCounts
<1>b. m.pc \in Moving =>
        /\ m.legs[1] # p
        /\ Len(m.legs) = 2 => m.legs[2] \in Call
  BY <1>1, SecondLeg
\* The migration of p, if there is one, and not this one, goes on.
<1>3. ASSUME Back(p), ~(m.pc \in Moving /\ Len(m.new) = 2 /\ m.legs[2] = p
                        /\ m.new[2] = h)
      PROVE  Back(p)'
  <2>1. PICK e \in DrainOp, q \in Sid :
          /\ mig[e][q].pc \in Moving /\ Len(mig[e][q].new) = 2
          /\ mig[e][q].legs[2] = p /\ mig[e][q].new[2] = handle[p]
    BY <1>3 DEF Back
  <2>2. e # d \/ q # r
    BY <1>1, <1>2, <1>3, <2>1
  <2>3. mig'[e][q] = mig[e][q]
    BY <1>1, <2>2 DEF OneMig
  <2> QED BY <1>1, <2>1, <2>3 DEF Back
<1>4. ASSUME n.pc \in Moving, Len(n.new) = 2, n.legs[2] = p, n.new[2] = h
      PROVE  Back(p)'
  BY <1>1, <1>2, <1>4 DEF Back, OneMig
\* So does this one, unless it ends.
<1>5. ASSUME Back(p),
             m.pc \in Moving /\ Len(m.new) = 2 /\ m.legs[2] = p /\ m.new[2] = h
               => n.pc \in Moving /\ n.legs = m.legs /\ n.new = m.new
      PROVE  Back(p)'
  BY <1>3, <1>4, <1>5
<1>6. ASSUME dlg'[p].sid = dlg[p].sid, sessionToNode[h] # None PROVE Back(p)
  BY <1>2, <1>6 DEF CalleeAt
<1>7. CASE Waits(d, r, m, n)
  <2>1. UNCHANGED <<sessionToNode, dlg>> /\ n.new = m.new
    BY <1>7 DEF Waits, SessionsSame
  <2>2. Back(p)
    BY <1>6, <2>1
  <2>3. ASSUME m.pc \in Moving, Len(m.new) = 2
        PROVE  n.pc \in Moving /\ n.legs = m.legs
    <3>1. m.pc # "create"
      BY <1>l, <2>3
    <3> QED BY <1>7, <2>3, <3>1 DEF Waits, Moving, Placed
  <2> QED BY <1>5, <2>1, <2>2, <2>3
<1>8. ASSUME NEW x \in Sid, Creates(d, m, n, x) PROVE Back(p)'
  <2>1. /\ m.pc = "create" /\ n.pc \in {"create", "invite"} /\ n.legs = m.legs
        /\ Made(x, op[d].target, m.legs[m.k]) /\ UNCHANGED dlg
        /\ Len(n.new) = m.k /\ n.new[m.k] = x
    BY <1>8 DEF Creates
  <2>m. m.pc \in Moving /\ n.pc \in Moving
    BY <2>1 DEF Moving, Placed
  <2>2. CASE x = h
    <3>1. p = m.legs[m.k]
      BY <1>o, <2>1, <2>2 DEF Made, Owns
    <3>2. m.k = 2
      BY <1>l, <1>b, <2>m, <3>1
    <3> QED BY <1>4, <2>1, <2>2, <2>m, <3>1, <3>2
  <2>3. CASE x # h
    <3>1. Back(p)
      BY <1>6, <1>o, <2>1, <2>3 DEF Made
    <3>2. Len(m.new) # 2
      BY <1>l, <2>1, <2>m
    <3> QED BY <1>3, <3>1, <3>2
  <2> QED BY <2>2, <2>3
<1>9. CASE Undoes(d, m, n)
  <2>1. /\ m.pc = "rollback" /\ n.legs = m.legs /\ n.new = m.new
        /\ Forgotten(m.new[m.k]) /\ UNCHANGED dlg
        /\ \/ n.pc = "rollback" /\ m.k < Len(m.legs)
           \/ n.pc = "done" /\ m.k = Len(m.legs)
    BY <1>9 DEF Undoes
  <2>m. m.pc \in Moving
    BY <2>1 DEF Moving, Placed
  <2>2. m.new[m.k] # h
    BY <2>1 DEF Forgotten
  <2>3. Back(p)
    BY <1>6, <1>o, <2>1, <2>2 DEF Forgotten
  <2>4. ASSUME Len(m.new) = 2, m.new[2] = h PROVE n.pc = "rollback"
    <3>1. Len(m.legs) = 2 /\ m.k # 2
      BY <1>l, <2>1, <2>2, <2>4, <2>m
    <3> QED BY <2>1, <3>1
  <2>5. "rollback" \in Moving
    BY DEF Moving, Placed
  <2> QED BY <1>5, <2>1, <2>3, <2>4, <2>5
<1>10. CASE Destroys(m, n)
  <2>1. /\ n.legs = m.legs /\ n.new = m.new
        /\ Forgotten(m.old[m.k]) /\ UNCHANGED dlg /\ n.pc \in {"destroy", "update"}
    BY <1>10 DEF Destroys
  <2>2. Back(p)
    BY <1>6, <1>o, <2>1 DEF Forgotten
  <2>3. n.pc \in Moving
    BY <2>1 DEF Moving, Placed
  <2> QED BY <1>5, <2>1, <2>2, <2>3
<1>11. ASSUME NEW c \in Call, Updates(m, n, c) PROVE Back(p)'
  <2>1. /\ m.pc = "update" /\ n.legs = m.legs /\ n.new = m.new /\ c = m.legs[m.k]
        /\ UNCHANGED sessionToNode /\ dlg'[c].sid = m.new[m.k]
        /\ \A e \in Call \ {c} : dlg'[e] = dlg[e]
        /\ \/ n.pc \in {"update", "bridge"}
           \/ n.pc = "done" /\ Len(m.legs) = 1
    BY <1>11 DEF Updates, SessionsSame
  <2>m. m.pc \in Moving
    BY <2>1 DEF Moving, Placed
  <2>2. Len(m.new) = 2 => n.pc \in Moving
    <3>1. Len(m.new) = 2 => Len(m.legs) = 2
      BY <1>l, <2>1, <2>m
    <3>2. "update" \in Moving /\ "bridge" \in Moving
      BY DEF Moving, Placed
    <3> QED BY <2>1, <3>1, <3>2
  <2>3. CASE c # p
    <3>1. Back(p)
      BY <1>6, <2>1, <2>3
    <3> QED BY <1>5, <2>1, <2>2, <3>1
  <2>4. CASE c = p
    <3>1. m.k = 2 /\ Len(m.legs) = 2 /\ Len(m.new) = 2
      BY <1>l, <1>b, <2>1, <2>4, <2>m
    <3>2. m.new[2] # h /\ m.legs[2] = p
      BY <2>1, <2>4, <3>1
    <3>3. LegOK(m, 2, dlg[p].sid, client[p], Live(p), sessionToNode) /\ dlg[p].sid \in Sid
      <4>1. 2 \in 1..Len(m.legs)
        BY <3>1
      <4> QED BY <1>1, <2>m, <3>2, <4>1, LegsKnown
    <3>4. ~Updated(m, 2) /\ Destroyed(m, 2)
      BY <2>1, <3>1 DEF Updated, Destroyed
    <3>5. sessionToNode[dlg[p].sid] = None
      BY <3>3, <3>4 DEF LegOK
    <3>6. dlg[p].sid \notin {None, h}
      BY <2>1, <3>3, <3>5, NoneIsNew DEF NoneIsNew
    <3>7. Back(p)
      BY <1>2, <2>1, <3>6 DEF CalleeAt
    <3> QED BY <1>3, <3>2, <3>7
  <2> QED BY <2>3, <2>4
<1>12. CASE Relays(d, m, n)
  <2>1. m.pc = "bridge" /\ UNCHANGED <<sessionToNode, dlg>>
    BY <1>12 DEF Relays, SessionsSame
  <2>m. m.pc \in Moving
    BY <2>1 DEF Moving, Placed
  <2>2. Back(p)
    BY <1>6, <2>1
  <2>3. ~(Len(m.new) = 2 /\ m.legs[2] = p /\ m.new[2] = h)
    <3> SUFFICES ASSUME Len(m.new) = 2, m.legs[2] = p, m.new[2] = h PROVE FALSE
      OBVIOUS
    <3>1. 2 \in 1..Len(m.legs)
      BY <1>l, <2>1, <2>m
    <3>2. LegOK(m, 2, dlg[p].sid, client[p], Live(p), sessionToNode)
      BY <1>1, <2>m, <3>1, LegsKnown
    <3>3. dlg[p].sid = m.new[2]
      BY <2>1, <3>2 DEF LegOK, Updated
    <3> QED BY <2>1, <3>3
  <2> QED BY <1>3, <2>2, <2>3
<1> QED BY <1>1, <1>7, <1>8, <1>9, <1>10, <1>11, <1>12 DEF MigEffect

\* The call's migration has been accepted, and its media bridge is being moved.
Leaving(c) == \E d \in DrainOp, r \in Sid :
    mig[d][r].pc \in {"destroy", "update", "bridge"} /\ mig[d][r].legs[1] = c

Relayed(c) ==
    bridge[c].state = "active" /\ Live(c) /\ Live(Peer[c]) /\ ~Leaving(c)
       => <<sessionToNode[dlg[c].sid], dlg[c].sid, dlg[Peer[c]].sid>> \in relay

TogetherInv == /\ \A d \in DrainOp, r \in Sid : NewAt(d, r)
               /\ \A p \in Call : CalleeAt(p)
               /\ \A c \in Call : Relayed(c)

\* A bridged call: both of its dialogs have sessions.
LEMMA BridgedFacts ==
    ASSUME Shape, MediaInv, RelayInv, NEW c \in Call, bridge[c].state # "none"
    PROVE  /\ Peer[c] \in Call /\ Peer[c] \in BLegs /\ c \notin BLegs
           /\ \A e \in {c, Peer[c]} :
                 /\ dlg[e].state \in {"Confirmed", "Terminated"}
                 /\ Live(e) => dlg[e].sid \in Sid
<1>1. /\ Peer[c] # None
      /\ \A e \in {c, Peer[c]} : dlg[e].state \in {"Confirmed", "Terminated"}
  BY DEF RelayInv, BridgeOK
<1>2. Peer[c] \in Call
  BY <1>1, PeerType DEF PeerType
<1>3. c \notin BLegs
  <2> SUFFICES ASSUME NEW a \in Call, c = Peer[a] PROVE FALSE
    BY DEF BLegs
  <2>1. c # None
    BY NoneIsNew DEF NoneIsNew
  <2> QED BY <1>1, <2>1, NoChains DEF NoChains
<1>4. ASSUME NEW e \in Call, Live(e) PROVE dlg[e].sid \in Sid
  BY <1>4 DEF Live, MediaInv, CallOK, Shape, CallTypes, DlgRec
<1> QED BY <1>1, <1>2, <1>3, <1>4 DEF BLegs

\* The media bridge of a call stays with it.
LEMMA RelayedKept ==
    ASSUME NEW c \in Call, Relayed(c), NEW p, p = Peer[c],
           bridge'[c].state = "active" => bridge[c].state = "active",
           Live(c)' => Live(c), Live(p)' => Live(p), Leaving(c) => Leaving(c)',
           dlg'[c].sid = dlg[c].sid, dlg'[p].sid = dlg[p].sid,
           sessionToNode'[dlg[c].sid] = sessionToNode[dlg[c].sid],
           relay \subseteq relay' \cup {q \in relay : q[2] # dlg[c].sid}
    PROVE  Relayed(c)'
<1> SUFFICES ASSUME bridge'[c].state = "active", Live(c)', Live(p)', ~Leaving(c)'
             PROVE  <<sessionToNode'[dlg'[c].sid], dlg'[c].sid, dlg'[p].sid>> \in relay'
  BY DEF Relayed
<1>1. PICK v : v = <<sessionToNode[dlg[c].sid], dlg[c].sid, dlg[p].sid>>
  OBVIOUS
<1>2. v \in relay
  BY <1>1 DEF Relayed
<1>3. v[2] = dlg[c].sid
  BY <1>1
<1> QED BY <1>1, <1>2, <1>3

LEMMA LeavingStays ==
    ASSUME Shape, OpStepped \/ (\E c \in Call : CallStepped(c)), NEW c \in Call
    PROVE  Leaving(c)' <=> Leaving(c)
<1>1. {"destroy", "update", "bridge"} \subseteq Moving
  BY DEF Moving, Placed
<1>2. \A e \in DrainOp, q \in Sid :
         mig[e][q].pc \in Moving \/ mig'[e][q].pc \in Moving
            => mig'[e][q] = mig[e][q]
  BY OthersStay
<1> QED BY <1>1, <1>2 DEF Leaving

LEMMA RelayedCalls ==
    ASSUME Shape, NodeInv, MediaInv, RelayInv, TogetherInv,
           NEW e \in Call, CallStepped(e), NEW c \in Call
    PROVE  Relayed(c)'
<1>0. /\ Leaving(c)' <=> Leaving(c)
      /\ \A f \in Call \ {e} : /\ dlg'[f] = dlg[f] /\ handle'[f] = handle[f]
                               /\ bridge'[f] = bridge[f]
      /\ Relayed(c)
  BY LeavingStays DEF CallStepped, TogetherInv
<1>p. PICK p : p = Peer[c]
  OBVIOUS
<1>1. CASE Bridges(e) /\ e = c
  <2>1. /\ UNCHANGED <<sessionToNode, rtp, dlg, handle>> /\ p # None
        /\ bridge[c].state = "none"
        /\ dlg[c].state = "Confirmed" /\ dlg[p].state = "Confirmed"
    BY <1>1, <1>p DEF Bridges, SessionsSame
  <2> SUFFICES ASSUME bridge'[c].state = "active", Live(c)', Live(p)', ~Leaving(c)'
               PROVE  <<sessionToNode[dlg[c].sid], dlg[c].sid, dlg[p].sid>> \in relay'
    BY <1>p, <2>1 DEF Relayed
  <2>2. /\ SameNode(handle[c], handle[p]) /\ dlg[c].sid = handle[c]
        /\ <<sessionToNode[handle[c]], handle[c], handle[p]>> \in relay'
    BY <1>1, <1>p DEF Bridges, Live
  <2>3. p \in Call /\ p \in BLegs
    BY <1>p, <2>1, PeerType DEF PeerType, BLegs
  <2>4. dlg[p].sid # None /\ handle[p] \in Sid /\ handle[c] \in Sid
    BY <2>1, <2>3 DEF MediaInv, CallOK, Shape, Handles
  <2>5. CASE dlg[p].sid = handle[p]
    BY <2>2, <2>5
  <2>6. CASE dlg[p].sid # handle[p]
    <3>1. sessionToNode[handle[p]] # None
      BY <2>2 DEF SameNode
    <3>2. handle[p] # None
      BY <2>4, NoneIsNew DEF NoneIsNew
    <3>3. Back(p)
      BY <2>3, <2>4, <2>6, <3>1, <3>2 DEF TogetherInv, CalleeAt
    <3>4. PICK d \in DrainOp, r \in Sid :
            /\ mig[d][r].pc \in Moving /\ Len(mig[d][r].new) = 2
            /\ mig[d][r].legs[2] = p /\ mig[d][r].new[2] = handle[p]
      BY <3>3 DEF Back
    <3>5. PICK m \in MigRec : m = mig[d][r] /\ Legs(m)
      BY DEF Shape, DrainTypes, Migs
    <3>6. Len(m.legs) = 2
      BY <3>4, <3>5, LegCounts
    <3>7. /\ m.legs[1] \in Call /\ m.legs[2] = Peer[m.legs[1]] /\ m.old[1] = r
          /\ r \in op[d].snap /\ op[d].pc = "migrating"
      BY <3>4, <3>5, <3>6, SecondLeg
    <3>8. m.legs[1] = c
      BY <1>p, <2>1, <3>4, <3>5, <3>7, OneCaller DEF OneCaller
    <3>9. m.pc \in {"create", "invite", "answer", "rollback"}
      BY <1>0, <3>4, <3>5, <3>8 DEF Leaving, Moving, Placed
    <3>10. 1 \in 1..Len(m.legs) /\ 2 \in 1..Len(m.new)
      BY <3>4, <3>5, <3>6
    <3>11. LegOK(m, 1, dlg[c].sid, client[c], Live(c), sessionToNode)
      BY <3>4, <3>5, <3>8, <3>10, LegsKnown
    <3>12. dlg[c].sid = r
      BY <3>7, <3>9, <3>11 DEF LegOK, Updated
    <3>13. rtp[r] # None /\ rtp[r].node = op[d].node /\ sessionToNode[r] = op[d].node
      <4>1. sessionToNode[r] # None
        BY <2>2, <3>12 DEF SameNode
      <4>2. rtp[r] # None /\ rtp[r].node = sessionToNode[r]
        BY <4>1 DEF MediaInv, Ids
      <4>3. rtp[r].node = op[d].node
        BY <3>7, <4>2 DEF MediaInv, OpOK
      <4> QED BY <4>2, <4>3
    <3>14. sessionToNode[handle[p]] = op[d].target
      <4>1. rtp[handle[p]] # None /\ rtp[handle[p]].node = sessionToNode[handle[p]]
        BY <2>4, <3>1 DEF MediaInv, Ids
      <4>2. m.new[2] = handle[p]
        BY <3>4, <3>5
      <4>3. rtp[handle[p]].node = op[d].target
        BY <3>4, <3>5, <3>10, <4>1, <4>2 DEF TogetherInv, NewAt
      <4> QED BY <4>1, <4>3
    <3>15. op[d].target # op[d].node
      BY <3>7 DEF MediaInv, OpOK
    <3> QED BY <2>2, <3>12, <3>13, <3>14, <3>15 DEF SameNode
  <2> QED BY <2>5, <2>6
<1>2. ASSUME bridge[c].state = "active",
             p \in Call /\ dlg[c].state \in {"Confirmed", "Terminated"}
               /\ dlg[p].state \in {"Confirmed", "Terminated"} =>
                  /\ \A f \in {c, p} : dlg'[f].sid = dlg[f].sid /\ (Live(f)' => Live(f))
                  /\ Live(c) /\ dlg[c].sid \in Sid =>
                       sessionToNode'[dlg[c].sid] = sessionToNode[dlg[c].sid],
             dlg[c].sid \in Sid =>
                relay \subseteq relay' \cup {q \in relay : q[2] # dlg[c].sid}
      PROVE  Relayed(c)'
  <2>1. /\ p \in Call /\ dlg[c].state \in {"Confirmed", "Terminated"}
        /\ dlg[p].state \in {"Confirmed", "Terminated"}
        /\ Live(c) => dlg[c].sid \in Sid
    BY <1>p, <1>2, BridgedFacts
  <2>2. \A f \in {c, p} : dlg'[f].sid = dlg[f].sid /\ (Live(f)' => Live(f))
    BY <1>2, <2>1
  <2>3. CASE ~Live(c)
    BY <2>2, <2>3 DEF Relayed
  <2>4. CASE Live(c)
    <3>1. /\ sessionToNode'[dlg[c].sid] = sessionToNode[dlg[c].sid]
          /\ relay \subseteq relay' \cup {q \in relay : q[2] # dlg[c].sid}
      BY <1>2, <2>1, <2>4
    <3> QED BY <1>0, <1>p, <1>2, <2>2, <3>1, RelayedKept
  <2> QED BY <2>3, <2>4
<1>3. CASE bridge[c].state = "active"
  <2>1. CASE Selects(e)
    BY <1>2, <1>3, <2>1 DEF Selects, SessionsSame, Live
  <2>2. ASSUME NEW x \in Sid, CreatesFor(e, x) PROVE Relayed(c)'
    <3>1. /\ x \notin used /\ dlg[e].state = "none" /\ UNCHANGED <<relay, stranded>>
          /\ \A s \in Sid \ {x} : sessionToNode'[s] = sessionToNode[s]
      BY <2>2 DEF CreatesFor, Made
    <3>2. dlg[c].sid \in Sid => dlg[c].sid \in used
      BY NoneIsNew DEF NoneIsNew, MediaInv, CallOK, Owns
    <3> QED BY <1>0, <1>2, <1>3, <3>1, <3>2 DEF Live
  <2>3. CASE Passes(e)
    <3>1. UNCHANGED <<relay, stranded, handle>>
      BY <2>3 DEF Passes
    <3>2. ASSUME NEW f \in Call, dlg[f].state \in {"Confirmed", "Terminated"}
          PROVE  dlg'[f].sid = dlg[f].sid /\ (Live(f)' => Live(f))
      <4>1. CASE f # e
        BY <1>0, <3>1, <4>1 DEF Live
      <4>2. CASE f = e
        BY <2>3, <3>1, <3>2, <4>2 DEF Passes, Ringing, Live
      <4> QED BY <4>1, <4>2
    <3>3. ASSUME Live(c), dlg[c].state \in {"Confirmed", "Terminated"}, dlg[c].sid \in Sid
          PROVE  sessionToNode'[dlg[c].sid] = sessionToNode[dlg[c].sid]
      <4>1. CASE SessionsSame
        BY <4>1 DEF SessionsSame
      <4>2. ASSUME NEW x \in Sid, Forgotten(x), Has(e, x), e # c
            PROVE  sessionToNode'[dlg[c].sid] = sessionToNode[dlg[c].sid]
        <5>1. Has(c, dlg[c].sid)
          BY DEF Has
        <5>2. x # dlg[c].sid
          BY <3>3, <4>2, <5>1 DEF RelayInv, OneOwner
        <5> QED BY <3>3, <4>2, <5>2 DEF Forgotten
      <4>3. CASE Forgotten(handle[e]) /\ Ringing(e)
        BY <3>3, <4>2, <4>3 DEF Has, Ringing, Forgotten
      <4>4. CASE Forgotten(dlg[e].sid) /\ dlg[e].state = "Terminated"
        BY <3>3, <4>2, <4>4 DEF Has, Live, Forgotten
      <4> QED BY <2>3, <4>1, <4>3, <4>4 DEF Passes
    <3> QED BY <1>2, <1>3, <3>1, <3>2, <3>3
  <2>4. CASE Bridges(e)
    <3>1. UNCHANGED <<dlg, sessionToNode>> /\ relay \subseteq relay'
          /\ stranded \subseteq stranded'
      BY <2>4 DEF Bridges, SessionsSame
    <3> QED BY <1>2, <1>3, <3>1 DEF Live
  <2>5. CASE Unbridges(e)
    <3>1. /\ UNCHANGED <<dlg, sessionToNode, stranded>>
          /\ bridge[e].state = "active"
          /\ \/ relay' = relay \/ relay' = relay \ {bridge[e].media}
      BY <2>5 DEF Unbridges, SessionsSame
    <3>2. CASE e = c
      BY <2>5, <3>2 DEF Unbridges, Relayed
    <3>3. CASE e # c
      <4>1. ASSUME dlg[c].sid \in Sid PROVE bridge[e].media[2] # dlg[c].sid
        <5>1. bridge[e].media[2] = handle[e]
          BY <3>1 DEF RelayInv, BridgeOK
        <5>2. Has(c, dlg[c].sid) /\ Has(e, handle[e])
          BY DEF Has
        <5> QED BY <3>3, <4>1, <5>1, <5>2 DEF RelayInv, OneOwner
      <4> QED BY <1>2, <1>3, <3>1, <4>1 DEF Live
    <3> QED BY <3>2, <3>3
  <2> QED BY <2>1, <2>2, <2>3, <2>4, <2>5 DEF CallStepped
<1>4. CASE bridge[c].state # "active" /\ ~(Bridges(e) /\ e = c)
  <2>1. bridge'[c].state # "active"
    <3>1. CASE e # c
      BY <1>0, <1>4, <3>1
    <3>2. CASE e = c
      BY <1>4, <3>2 DEF CallStepped, Selects, CreatesFor, Passes, Unbridges
    <3> QED BY <3>1, <3>2
  <2> QED BY <2>1 DEF Relayed
<1> QED BY <1>1, <1>3, <1>4

LEMMA RelayedMigs ==
    ASSUME Shape, NodeInv, MediaInv, RelayInv, TogetherInv,
           NEW d \in DrainOp, NEW r \in Sid, NEW m, NEW n, MigStepped(d, r, m, n),
           NEW c \in Call
    PROVE  Relayed(c)'
<1>1. /\ m \in MigRec /\ m = mig[d][r] /\ Legs(m) /\ OneMig(d, r, n)
      /\ UNCHANGED <<handle, bridge>> /\ MigEffect(d, r, m, n) /\ Relayed(c)
  BY DEF MigStepped, TogetherInv
<1>p. PICK p : p = Peer[c]
  OBVIOUS
<1>s. /\ stranded \subseteq stranded'
      /\ \A e \in Call : dlg'[e].state = dlg[e].state
  BY <1>1 DEF MigEffect, Waits, Creates, Undoes, Destroys, Updates, Relays
<1> SUFFICES ASSUME bridge[c].state = "active", Live(c)', Live(p)', ~Leaving(c)'
             PROVE  Relayed(c)'
  BY <1>1, <1>p DEF Relayed
<1>2. /\ p \in Call /\ p \in BLegs /\ c \notin BLegs /\ Live(c) /\ Live(p)
      /\ dlg[c].sid \in Sid /\ dlg[p].sid \in Sid /\ c # p
  BY <1>p, <1>s, BridgedFacts DEF Live
<1>l. m.pc \in Moving =>
        /\ m.k \in {1, 2} /\ (m.k = 2 => Len(m.legs) = 2)
        /\ Len(m.legs) \in {1, 2}
        /\ m.pc # "create" => Len(m.new) = Len(m.legs)
  BY <1>1, LegCounts
<1>b. m.pc \in Moving =>
        /\ m.legs[1] \in Call /\ m.legs[1] \notin BLegs
        /\ Len(m.legs) = 2 => /\ m.legs[2] \in Call /\ m.legs[2] \in BLegs
                              /\ m.legs[2] = Peer[m.legs[1]]
        /\ m.old[1] = r /\ r \in op[d].snap /\ op[d].pc = "migrating"
        /\ \A i \in 1..Len(m.new) : m.new[i] \notin op[d].snap
  BY <1>1, SecondLeg
<1>3. ASSUME dlg'[c].sid = dlg[c].sid, dlg'[p].sid = dlg[p].sid,
             sessionToNode'[dlg[c].sid] = sessionToNode[dlg[c].sid],
             relay \subseteq relay', Leaving(c) => Leaving(c)'
      PROVE  Relayed(c)'
  BY <1>1, <1>p, <1>2, <1>3, RelayedKept
<1>4. CASE Leaving(c)
  <2>1. PICK e \in DrainOp, q \in Sid :
          mig[e][q].pc \in {"destroy", "update", "bridge"} /\ mig[e][q].legs[1] = c
    BY <1>4 DEF Leaving
  <2>2. e = d /\ q = r
    BY <1>1, <2>1 DEF OneMig, Leaving
  <2>3. /\ m.pc \in {"destroy", "update", "bridge"} /\ m.legs[1] = c
        /\ n.pc \in {"destroy", "update", "bridge"} => n.legs[1] # c
    BY <1>1, <2>1, <2>2 DEF OneMig, Leaving
  <2>m. m.pc \in Moving
    BY <2>3 DEF Moving, Placed
  <2>4. n.pc = "done" /\ n.legs = m.legs
    BY <1>1, <2>3 DEF MigEffect, Waits, Creates, Undoes, Destroys, Updates, Relays
  <2>5. CASE \E f \in Call : Updates(m, n, f)
    <3>1. PICK f \in Call : Updates(m, n, f)
      BY <2>5
    <3>2. f = m.legs[m.k] /\ Len(m.legs) = 1 /\ (bridge[f].state = "active" => f \in stranded')
      BY <2>4, <3>1 DEF Updates
    <3>3. m.k = 1
      BY <1>l, <2>m, <3>2
    <3> QED BY <2>3, <3>2, <3>3 DEF Live
  <2>6. CASE Relays(d, m, n)
    <3>1. /\ m.pc = "bridge" /\ UNCHANGED <<dlg, sessionToNode>>
          /\ SameNode(m.new[1], m.new[2])
          /\ <<op[d].target, m.new[1], m.new[2]>> \in relay'
      BY <2>3, <2>6 DEF Relays, SessionsSame, Live
    <3>2. Len(m.legs) = 2 /\ Len(m.new) = 2
      BY <1>1, <1>l, <2>m, <3>1 DEF Legs
    <3>3. 1 \in 1..Len(m.legs) /\ 2 \in 1..Len(m.legs) /\ 1 \in 1..Len(m.new)
      BY <3>2
    <3>4. m.legs[2] = p
      BY <1>b, <1>p, <2>3, <2>m, <3>2
    <3>5. /\ LegOK(m, 1, dlg[c].sid, client[c], Live(c), sessionToNode)
          /\ LegOK(m, 2, dlg[p].sid, client[p], Live(p), sessionToNode)
      BY <1>1, <2>3, <2>m, <3>3, <3>4, LegsKnown
    <3>6. dlg[c].sid = m.new[1] /\ dlg[p].sid = m.new[2]
      BY <3>1, <3>5 DEF LegOK, Updated
    <3>7. sessionToNode[m.new[1]] = op[d].target
      <4>1. sessionToNode[m.new[1]] # None
        BY <3>1 DEF SameNode
      <4>2. rtp[m.new[1]] # None /\ rtp[m.new[1]].node = sessionToNode[m.new[1]]
        BY <1>2, <3>6, <4>1 DEF MediaInv, Ids
      <4>3. rtp[m.new[1]].node = op[d].target
        BY <1>1, <2>m, <3>3, <4>2 DEF TogetherInv, NewAt
      <4> QED BY <4>2, <4>3
    <3> QED BY <1>p, <3>1, <3>6, <3>7 DEF Relayed
  <2> QED BY <1>1, <2>3, <2>4, <2>5, <2>6
          DEF MigEffect, Waits, Creates, Undoes, Destroys
<1>5. CASE ~Leaving(c)
  <2>v. sessionToNode[dlg[c].sid] \in Node
    <3>1. <<sessionToNode[dlg[c].sid], dlg[c].sid, dlg[p].sid>> \in relay
      BY <1>1, <1>p, <1>2, <1>5 DEF Relayed
    <3>2. relay \subseteq Node \X Sid \X Sid
      BY DEF Shape, CallTypes
    <3> QED BY <3>1, <3>2
  <2>k. ASSUME m.pc \in Moving PROVE m.k \in 1..Len(m.legs)
    BY <1>1, <2>k, LegFacts
  \* A session of the call that this migration handles is its first leg's.
  <2>o. ASSUME m.pc \in Moving, NEW i \in 1..Len(m.legs), m.legs[i] = c PROVE i = 1
    BY <1>2, <1>b, <1>l, <2>o
  <2>1. CASE Waits(d, r, m, n) \/ Relays(d, m, n)
    BY <1>3, <1>5, <2>1 DEF Waits, Relays, SessionsSame
  <2>2. ASSUME NEW x \in Sid, Creates(d, m, n, x) PROVE Relayed(c)'
    <3>1. Made(x, op[d].target, m.legs[m.k]) /\ UNCHANGED <<dlg, relay>>
      BY <2>2 DEF Creates
    <3>2. dlg[c].sid \in used /\ rtp[dlg[c].sid] # None
          /\ rtp[dlg[c].sid].node = sessionToNode[dlg[c].sid]
      BY <1>2, <2>v, NoneIsNew DEF NoneIsNew, MediaInv, Ids
    <3>3. sessionToNode'[dlg[c].sid] = sessionToNode[dlg[c].sid]
      BY <1>2, <3>1, <3>2 DEF Made
    <3> QED BY <1>3, <1>5, <3>1, <3>3
  <2>3. CASE Undoes(d, m, n)
    <3>1. /\ m.pc = "rollback" /\ Forgotten(m.new[m.k]) /\ UNCHANGED <<dlg, relay>>
      BY <2>3 DEF Undoes
    <3>m. m.pc \in Moving
      BY <3>1 DEF Moving, Placed
    <3>2. m.k \in 1..Len(m.legs) /\ m.k \in 1..Len(m.new)
      BY <1>l, <2>k, <3>1, <3>m
    <3>3. m.new[m.k] # dlg[c].sid
      <4> SUFFICES ASSUME m.new[m.k] = dlg[c].sid PROVE FALSE
        OBVIOUS
      <4>0. m.legs[m.k] \in Call
        BY <1>l, <1>b, <3>m
      <4>1. Has(m.legs[m.k], m.new[m.k]) /\ Has(c, dlg[c].sid)
        BY <1>1, <3>2, <3>m DEF Has
      <4>2. m.legs[m.k] = c
        BY <1>2, <4>0, <4>1 DEF RelayInv, OneOwner
      <4>3. m.k = 1
        BY <2>o, <3>2, <3>m, <4>2
      <4>4. LegOK(m, 1, dlg[c].sid, client[c], Live(c), sessionToNode)
        BY <1>1, <3>2, <3>m, <4>2, <4>3, LegsKnown
      <4>5. dlg[c].sid = r /\ r \in op[d].snap
        BY <1>b, <3>1, <3>m, <4>4 DEF LegOK, Updated
      <4> QED BY <1>b, <3>2, <3>m, <4>3, <4>5
    <3>4. sessionToNode'[dlg[c].sid] = sessionToNode[dlg[c].sid]
      BY <1>2, <3>1, <3>3 DEF Forgotten
    <3> QED BY <1>3, <1>5, <3>1, <3>4
  <2>4. CASE Destroys(m, n)
    <3>1. m.pc = "destroy" /\ Forgotten(m.old[m.k]) /\ UNCHANGED <<dlg, relay>>
      BY <2>4 DEF Destroys
    <3>m. m.pc \in Moving
      BY <3>1 DEF Moving, Placed
    <3>2. m.k \in 1..Len(m.legs)
      BY <2>k, <3>m
    <3>3. m.old[m.k] # dlg[c].sid
      <4> SUFFICES ASSUME m.old[m.k] = dlg[c].sid PROVE FALSE
        OBVIOUS
      <4>0. PICK e : e = m.legs[m.k]
        OBVIOUS
      <4>1. e \in Call /\ LegOK(m, m.k, dlg[e].sid, client[e], Live(e), sessionToNode)
        BY <1>1, <3>2, <3>m, <4>0, LegsKnown
      <4>2. dlg[e].sid = m.old[m.k]
        BY <3>1, <4>1 DEF LegOK, Updated
      <4>3. Has(e, dlg[c].sid) /\ Has(c, dlg[c].sid)
        BY <4>2 DEF Has
      <4>4. e = c
        BY <1>2, <4>1, <4>3 DEF RelayInv, OneOwner
      <4>5. m.k = 1
        BY <2>o, <3>2, <3>m, <4>0, <4>4
      <4> QED BY <1>1, <1>5, <3>1, <4>0, <4>4, <4>5 DEF Leaving
    <3>4. sessionToNode'[dlg[c].sid] = sessionToNode[dlg[c].sid]
      BY <1>2, <3>1, <3>3 DEF Forgotten
    <3> QED BY <1>3, <1>5, <3>1, <3>4
  <2>5. ASSUME NEW e \in Call, Updates(m, n, e) PROVE Relayed(c)'
    <3>1. /\ m.pc = "update" /\ e = m.legs[m.k]
          /\ UNCHANGED <<sessionToNode, relay>>
          /\ \A f \in Call \ {e} : dlg'[f] = dlg[f]
      BY <2>5 DEF Updates, SessionsSame
    <3>m. m.pc \in Moving
      BY <3>1 DEF Moving, Placed
    <3>2. m.legs[1] # c
      BY <1>1, <1>5, <3>1 DEF Leaving
    <3>3. e # c
      BY <2>k, <2>o, <3>1, <3>2, <3>m
    <3>4. e # p
      <4> SUFFICES ASSUME e = p PROVE FALSE
        OBVIOUS
      <4>1. m.k = 2 /\ Len(m.legs) = 2
        BY <1>2, <1>b, <1>l, <3>1, <3>m
      <4>2. Peer[m.legs[1]] = Peer[c] /\ m.legs[1] \in Call
        BY <1>b, <1>p, <3>1, <3>m, <4>1
      <4>3. Peer[c] # None
        BY <1>2, <1>p, NoneIsNew DEF NoneIsNew
      <4> QED BY <3>2, <4>2, <4>3, OneCaller DEF OneCaller
    <3> QED BY <1>2, <1>3, <1>5, <3>1, <3>3, <3>4
  <2> QED BY <1>1, <2>1, <2>2, <2>3, <2>4, <2>5 DEF MigEffect
<1> QED BY <1>4, <1>5

LEMMA TogetherNext ==
    Shape /\ NodeInv /\ MediaInv /\ RelayInv /\ TogetherInv /\ [Next]_vars
      => TogetherInv'
<1> SUFFICES ASSUME Shape, NodeInv, MediaInv, RelayInv, TogetherInv, [Next]_vars
             PROVE  TogetherInv'
  OBVIOUS
<1>1. \/ \E c \in Call : CallStepped(c)
      \/ \E d \in DrainOp, r \in Sid : \E m, n : MigStepped(d, r, m, n)
      \/ OpStepped
  BY StepKinds
<1>2. IdsKept /\ OpKept
  BY <1>1, StepSessions, OpsKept
<1>3. \A d \in DrainOp, r \in Sid : NewAt(d, r)'
  BY <1>1, <1>2, NewsStep DEF TogetherInv
<1>4. \A p \in Call : CalleeAt(p)'
  BY <1>1, CalleeCalls, CalleeMigs DEF TogetherInv
<1>5. ASSUME NEW c \in Call, OpStepped PROVE Relayed(c)'
  <2>1. Leaving(c)' <=> Leaving(c)
    BY <1>5, LeavingStays
  <2>2. UNCHANGED <<dlg, sessionToNode, relay, bridge, stranded>>
    BY <1>5 DEF OpStepped, SessionsSame
  <2> QED BY <2>1, <2>2 DEF TogetherInv, Relayed, Live
<1>6. \A c \in Call : Relayed(c)'
  BY <1>1, <1>5, RelayedCalls, RelayedMigs
<1> QED BY <1>3, <1>4, <1>6 DEF TogetherInv

LEMMA TogetherInit == Init => TogetherInv
<1> SUFFICES ASSUME Init PROVE TogetherInv
  OBVIOUS
<1>1. PICK at, sid : AtStart(at, sid)
  BY InitFacts
<1>2. \A d \in DrainOp, r \in Sid : NewAt(d, r)
  BY <1>1 DEF AtStart, NewAt, Moving, Placed
<1>3. \A p \in Call : CalleeAt(p)
  BY <1>1 DEF AtStart, CalleeAt
<1>4. ASSUME NEW c \in Call PROVE Relayed(c)
  <2> SUFFICES ASSUME bridge[c].state = "active"
               PROVE  <<sessionToNode[dlg[c].sid], dlg[c].sid, dlg[Peer[c]].sid>> \in relay
    BY DEF Relayed
  <2>1. PICK v : v = <<at[c], sid[c], sid[Peer[c]]>>
    OBVIOUS
  <2>2. /\ c \notin Early /\ Peer[c] \in Call \ Early /\ bridge[c].media = v
    BY <1>1, <2>1 DEF AtStart
  <2>3. at[c] \in Node /\ sid[c] \in Sid /\ sid[Peer[c]] \in Sid
    BY <1>1, <2>2 DEF AtStart
  <2>4. v # None
    BY <2>1, <2>3, NoneIsNoBridge DEF NoneIsNoBridge
  <2>5. v \in relay
    BY <1>1, <2>2, <2>4 DEF AtStart
  <2>6. /\ dlg[c].sid = sid[c] /\ dlg[Peer[c]].sid = sid[Peer[c]]
        /\ sessionToNode[sid[c]] = at[c]
    BY <1>1, <2>2 DEF AtStart
  <2> QED BY <2>1, <2>5, <2>6
<1> QED BY <1>2, <1>3, <1>4 DEF TogetherInv

\* A drain never splits a bridged call: while both legs are up and neither is
\* being moved, or was stranded by a migration that failed, one RTP manager
\* relays the sessions their dialogs name to each other.  It holds for calls
\* that are bridged while the migration of the caller runs, for callees that a
\* migration takes back to a node they were on, and whatever other bridges are
\* stopped meanwhile (migrator.go, bridge.go, pool.go).
THEOREM BridgedCallsStayTogether == ASSUME ~Overlap PROVE Spec => []BridgedTogether
<1>1. Init => RelayInv /\ TogetherInv
  BY RelayInit, TogetherInit
<1>2. Shape /\ NodeInv /\ MediaInv /\ RelayInv /\ TogetherInv /\ [Next]_vars
        => RelayInv' /\ TogetherInv'
  BY RelayNext, TogetherNext
<1>3. Shape /\ TogetherInv => BridgedTogether
  <2> SUFFICES ASSUME Shape, TogetherInv, NEW c \in Call, bridge[c].state = "active",
                      Settled(c), Settled(Peer[c])
               PROVE  <<sessionToNode[dlg[c].sid], dlg[c].sid, dlg[Peer[c]].sid>> \in relay
    BY DEF BridgedTogether
  <2>1. Live(c) /\ Live(Peer[c])
    BY DEF Settled, Live
  <2>2. ~Leaving(c)
    <3> SUFFICES ASSUME NEW d \in DrainOp, NEW r \in Sid,
                        mig[d][r].pc \in {"destroy", "update", "bridge"},
                        mig[d][r].legs[1] = c
                 PROVE  Migrating(c)
      BY DEF Leaving, Settled
    <3>1. PICK m \in MigRec : m = mig[d][r] /\ Legs(m)
      BY DEF Shape, DrainTypes, Migs
    <3>2. m.pc \in Moving /\ r \in Running(d)
      BY <3>1 DEF Moving, Placed, Running
    <3>3. Len(m.legs) \in {1, 2}
      BY <3>1, <3>2, LegCounts
    <3>4. 1 \in 1..Len(m.legs)
      <4>1. CASE Len(m.legs) = 1
        BY <4>1
      <4>2. CASE Len(m.legs) = 2
        BY <4>2
      <4> QED BY <3>3, <4>1, <4>2
    <3> QED BY <3>1, <3>2, <3>4 DEF Migrating
  <2> QED BY <2>1, <2>2 DEF TogetherInv, Relayed
<1> QED BY <1>1, <1>2, <1>3, MediaInvariant, PTL DEF Spec

-----------------------------------------------------------------------------
(* What a drain leaves behind *)

\* A callee is dialled by a call that was answered, and that had a session.
Dialled(c) ==
    LET p == Peer[c] IN
    p # None /\ (dlg[p].state # "none" \/ handle[p] # None \/ picked[p] # None)
      => dlg[c].state \in {"Confirmed", "Terminated"} /\ dlg[c].sid # None

\* A call and its callee.
LEMMA PeerFacts ==
    ASSUME NEW c \in Call, Peer[c] # None
    PROVE  /\ Peer[c] \in Call /\ Peer[c] \in BLegs /\ c \notin BLegs
           /\ Peer[c] # c /\ Caller(Peer[c]) = c
<1>1. Peer[c] \in Call
  BY PeerType DEF PeerType
<1>2. c \notin BLegs
  <2> SUFFICES ASSUME NEW a \in Call, c = Peer[a] PROVE FALSE
    BY DEF BLegs
  <2>1. c # None
    BY NoneIsNew DEF NoneIsNew
  <2> QED BY <2>1, NoChains DEF NoChains
<1>3. Peer[c] # c
  BY NoChains DEF NoChains
<1>4. Caller(Peer[c]) = c
  <2>1. \E a \in Call : Peer[a] = Peer[c]
    OBVIOUS
  <2>2. Caller(Peer[c]) \in Call /\ Peer[Caller(Peer[c])] = Peer[c]
    BY <2>1 DEF Caller
  <2> QED BY <2>2, OneCaller DEF OneCaller
<1> QED BY <1>1, <1>2, <1>3, <1>4 DEF BLegs

LEMMA DialledStep ==
    ASSUME Shape, NodeInv, MediaInv,
           \/ \E c \in Call : CallStepped(c)
           \/ \E d \in DrainOp, r \in Sid : \E m, n : MigStepped(d, r, m, n)
           \/ OpStepped,
           NEW c \in Call, Dialled(c)
    PROVE  Dialled(c)'
<1>p. PICK p : p = Peer[c]
  OBVIOUS
<1> SUFFICES ASSUME p # None,
                    dlg'[p].state # "none" \/ handle'[p] # None \/ picked'[p] # None
             PROVE  dlg'[c].state \in {"Confirmed", "Terminated"} /\ dlg'[c].sid # None
  BY <1>p DEF Dialled
<1>1. p \in Call /\ p \in BLegs /\ c \notin BLegs /\ p # c /\ Caller(p) = c
  BY <1>p, PeerFacts
<1>2. dlg[p].state # "none" \/ handle[p] # None \/ picked[p] # None
        => dlg[c].state \in {"Confirmed", "Terminated"} /\ dlg[c].sid # None
  BY <1>p DEF Dialled
<1>3. ASSUME NEW e \in Call, CallStepped(e)
      PROVE  dlg'[c].state \in {"Confirmed", "Terminated"} /\ dlg'[c].sid # None
  <2>1. \A f \in Call \ {e} : /\ dlg'[f] = dlg[f] /\ handle'[f] = handle[f]
                              /\ picked'[f] = picked[f]
    BY <1>3 DEF CallStepped
  <2>2. CASE Selects(e)
    <3>1. CASE e # p
      BY <1>1, <1>2, <2>1, <2>2, <3>1 DEF Selects
    <3>2. CASE e = p /\ picked'[p] = None
      BY <1>2, <2>2, <3>2 DEF Selects
    <3>3. CASE e = p /\ picked'[p] # None
      <4>1. dlg[c].state = "Confirmed" /\ UNCHANGED dlg
        BY <1>1, <2>2, <3>3 DEF Selects
      <4> QED BY <4>1 DEF MediaInv, CallOK
    <3> QED BY <3>1, <3>2, <3>3
  <2>3. ASSUME NEW x \in Sid, CreatesFor(e, x)
        PROVE  dlg'[c].state \in {"Confirmed", "Terminated"} /\ dlg'[c].sid # None
    <3>1. dlg[e].state = "none" /\ picked[e] # None
      BY <2>3 DEF CreatesFor
    <3>2. dlg[c].state \in {"Confirmed", "Terminated"} /\ dlg[c].sid # None
      BY <1>1, <1>2, <2>1, <3>1
    <3> QED BY <2>1, <3>1, <3>2
  <2>4. CASE Passes(e)
    <3>1. UNCHANGED <<handle, picked>>
      BY <2>4 DEF Passes
    <3>2. dlg'[p].state # "none" => dlg[p].state # "none" \/ handle[p] # None
      BY <1>1, <2>1, <2>4 DEF Passes, Ringing
    <3>3. dlg[c].state \in {"Confirmed", "Terminated"} /\ dlg[c].sid # None
      BY <1>2, <3>1, <3>2
    <3> QED BY <2>1, <2>4, <3>3 DEF Passes, Ringing
  <2>5. CASE Bridges(e) \/ Unbridges(e)
    BY <1>2, <2>5 DEF Bridges, Unbridges
  <2> QED BY <1>3, <2>2, <2>3, <2>4, <2>5 DEF CallStepped
<1>4. ASSUME NEW d \in DrainOp, NEW r \in Sid, NEW m, NEW n, MigStepped(d, r, m, n)
      PROVE  dlg'[c].state \in {"Confirmed", "Terminated"} /\ dlg'[c].sid # None
  <2>1. UNCHANGED <<handle, picked>> /\ \A e \in Call : dlg'[e].state = dlg[e].state
    BY <1>4 DEF MigStepped, MigEffect, Waits, Creates, Undoes, Destroys, Updates,
       Relays
  <2>2. dlg[c].state \in {"Confirmed", "Terminated"} /\ dlg[c].sid # None
    BY <1>1, <1>2, <2>1
  <2>3. ASSUME NEW e \in Call, Updates(m, n, e) PROVE dlg'[c].sid # None
    <3>1. /\ m \in MigRec /\ Legs(m) /\ m.pc = "update"
          /\ dlg'[e].sid = m.new[m.k] /\ \A f \in Call \ {e} : dlg'[f] = dlg[f]
      BY <1>4, <2>3 DEF MigStepped, Updates
    <3>2. m.new \in Seq(Sid) /\ m.k \in 1..Len(m.legs) /\ Len(m.new) = Len(m.legs)
      BY <3>1, LegFacts DEF Moving, Placed
    <3>3. m.new[m.k] \in Sid
      BY <3>2
    <3> QED BY <2>2, <3>1, <3>3, NoneIsNew DEF NoneIsNew
  <2>4. CASE UNCHANGED dlg
    BY <2>2, <2>4
  <2>5. UNCHANGED dlg \/ \E e \in Call : Updates(m, n, e)
    BY <1>4 DEF MigStepped, MigEffect, Waits, Creates, Undoes, Destroys, Relays
  <2> QED BY <2>1, <2>2, <2>3, <2>4, <2>5
<1>5. CASE OpStepped
  BY <1>2, <1>5 DEF OpStepped
<1> QED BY <1>3, <1>4, <1>5

LEMMA DialledInit == ASSUME Init, NEW c \in Call PROVE Dialled(c)
<1>1. PICK at, sid : AtStart(at, sid)
  BY InitFacts
<1> SUFFICES ASSUME Peer[c] # None,
                    \/ dlg[Peer[c]].state # "none" \/ handle[Peer[c]] # None
                    \/ picked[Peer[c]] # None
             PROVE  dlg[c].state \in {"Confirmed", "Terminated"} /\ dlg[c].sid # None
  BY DEF Dialled
<1>2. Peer[c] \in Call
  BY PeerFacts
<1>3. Peer[c] \notin Early
  BY <1>1, <1>2 DEF AtStart
<1>4. c \notin Early
  BY <1>3, CalleesLater DEF CalleesLater
<1>5. dlg[c].state = "Confirmed" /\ dlg[c].sid \in Sid
  BY <1>1, <1>4 DEF AtStart
<1> QED BY <1>5, NoneIsNew DEF NoneIsNew

\* The steps that take an operation on.
LEMMA OpTurns ==
    ASSUME Shape, [Next]_vars, NEW e \in DrainOp, op'[e].pc # op[e].pc
    PROVE  \/ op[e].pc = "new" /\ \E n \in Node : StartDrain(e, n)
           \/ /\ op[e].pc = "start"
              /\ NoSessions(e) \/ Migrate(e) \/ FailDrain(e)
           \/ op[e].pc = "migrating" /\ Wait(e) /\ op'[e].pc \in {"complete", "done"}
           \/ op[e].pc \in {"complete", "disable"} /\ op'[e].pc \in {"disable", "done"}
<1>t. op \in [DrainOp -> OpRec] /\ activeDrains \in [Node -> DrainOp \cup {None}]
  BY DEF Shape, DrainTypes
<1>1. ASSUME NEW d \in DrainOp, OpStep(d) \/ \E n \in Node : StartDrain(d, n)
      PROVE  d = e
  <2>1. ASSUME NEW v, op' = [op EXCEPT ![d] = v] PROVE d = e
    BY <1>t, <2>1
  <2>2. \E v : op' = [op EXCEPT ![d] = v]
    BY <1>t, <1>1 DEF OpStep, NoSessions, Migrate, FailDrain, Wait, CompleteDrain,
       Disable, StartDrain
  <2> QED BY <2>1, <2>2
<1>2. CASE UNCHANGED op
  BY <1>2
<1>3. CASE CallNext
  <2>1. UNCHANGED op
    BY <1>3 DEF CallNext, SelectMember, CreateSession, CreateSessionFails,
       Confirm, Handle2xx, Terminate, OnTerminated, DialFails, StartBridge,
       StopBridge, drainVars
  <2> QED BY <1>2, <2>1
<1>4. ASSUME NEW n \in Node, CheckHealth(n) PROVE FALSE
  BY <1>2, <1>4 DEF CheckHealth, drainVars
<1>5. ASSUME NEW d \in DrainOp, NEW s \in Sid, MigStep(d, s) PROVE FALSE
  <2>1. Fails(d) \/ UNCHANGED op
    BY <1>5 DEF MigStep, Acquire, Lookup, CreateSessionOnNode, SendReINVITE,
       Answer, Rollback, DestroyOld, SetSessionID, BridgeMedia
  <2> QED BY <2>1, FailsFacts DEF Shape
<1>6. ASSUME NEW d \in DrainOp, op' = [op EXCEPT ![d].cancelled = TRUE] PROVE FALSE
  BY <1>t, <1>6 DEF OpRec
<1>7. ASSUME NEW d \in DrainOp, Timeout(d) PROVE FALSE
  BY <1>6, <1>7 DEF Timeout
<1>8. ASSUME NEW n \in Node, CancelDrain(n) PROVE FALSE
  <2>1. activeDrains[n] \in DrainOp
    BY <1>t, <1>8 DEF CancelDrain
  <2> QED BY <1>6, <1>8, <2>1 DEF CancelDrain
<1>9. ASSUME NEW p, op' = [op EXCEPT ![e].pc = p] PROVE op'[e].pc = p
  BY <1>t, <1>9 DEF OpRec
<1>10. CASE NoSessions(e) \/ Migrate(e) \/ FailDrain(e)
  BY <1>10 DEF NoSessions, Migrate, FailDrain
<1>11. CASE Wait(e)
  BY <1>9, <1>11 DEF Wait
<1>12. CASE CompleteDrain(e) \/ Disable(e)
  BY <1>9, <1>12 DEF CompleteDrain, Disable
<1>13. ASSUME NEW n \in Node, StartDrain(e, n) PROVE op[e].pc = "new"
  BY <1>13 DEF StartDrain
<1>14. CASE UNCHANGED vars
  BY <1>2, <1>14 DEF vars, drainVars
<1> QED BY <1>1, <1>3, <1>4, <1>5, <1>7, <1>8, <1>10, <1>11, <1>12, <1>13, <1>14
        DEF Next, OpStep

\* The operation has begun and nothing of it was counted as a failure.
Open(d) == op[d].pc # "new" /\ ~op[d].failed /\ ~op[d].cancelled

Emptied(m) == m.pc \in {"update", "bridge", "done"} \/ (m.pc = "destroy" /\ m.k > 1)

\* A session that an operation found: it stays on the node as long as it exists,
\* it has a migration, and the pool has forgotten it once that has succeeded.
SnapOK(d, s) ==
    /\ s \in used /\ (rtp[s] # None => rtp[s].node = op[d].node)
    /\ op[d].pc # "start" => mig[d][s].pc # "none"
    /\ op[d].pc \notin {"start", "migrating"} => mig[d][s].pc \in {"skipped", "done"}
    /\ Emptied(mig[d][s]) => sessionToNode[s] = None
    /\ mig[d][s].pc = "skipped" /\ sessionToNode[s] # None =>
          \E p \in BLegs : dlg[p].sid = s

\* The node is out of rotation, and nobody migrates to it.
Closed(d) == /\ activeDrains[op[d].node] = d /\ drainState[op[d].node] # "Active"
             /\ \A e \in DrainOp : op[e].pc = "migrating" => op[e].target # op[d].node

\* A dialog, live or not, or the handle of a leg that rings holds the session.
Carries(c, s) == dlg[c].sid = s \/ (Ringing(c) /\ handle[c] = s)

\* The operation found the caller, where it found the callee, if it is there.
CallerFound(d, c, s) ==
    Peer[c] # None /\ Carries(Peer[c], s) /\ sessionToNode[s] # None
      /\ sessionToNode[dlg[c].sid] = op[d].node
    => dlg[c].sid \in op[d].snap

Account(d) == Open(d) =>
    /\ Closed(d)
    /\ \A s \in op[d].snap : SnapOK(d, s)
    /\ \A c \in Call : \A s \in op[d].snap : CallerFound(d, c, s)

AccountInv == /\ \A c \in Call : Dialled(c)
              /\ \A d \in DrainOp : Account(d)

LEMMA ClosedStays ==
    ASSUME Shape, NodeInv, [Next]_vars, NEW d \in DrainOp,
           Open(d), Open(d)', Closed(d)
    PROVE  Closed(d)'
<1>t. /\ op \in [DrainOp -> OpRec] /\ drainState \in [Node -> DrainState]
      /\ activeDrains \in [Node -> DrainOp \cup {None}]
  BY DEF Shape, DrainTypes, PoolTypes
<1>n. op[d].node \in Node /\ op'[d].node = op[d].node
  BY OpsKept DEF OpKept, Open, Shape, Ops
<1>f. d # None
  BY NoneIsNew DEF NoneIsNew
<1>1. activeDrains'[op[d].node] = d /\ drainState'[op[d].node] # "Active"
  <2>1. CASE UNCHANGED <<drainState, activeDrains>>
    BY <2>1 DEF Closed
  <2>2. ASSUME NEW e \in DrainOp, Disable(e)
        PROVE  activeDrains'[op[d].node] = d /\ drainState'[op[d].node] # "Active"
    BY <1>t, <1>n, <2>2 DEF Disable, Closed
  <2>3. ASSUME NEW e \in DrainOp, FailDrain(e)
        PROVE  activeDrains'[op[d].node] = d /\ drainState'[op[d].node] # "Active"
    <3>1. /\ op' = [op EXCEPT ![e].pc = "done", ![e].failed = TRUE]
          /\ UNCHANGED activeDrains
          /\ drainState' = [drainState EXCEPT ![op[e].node] = "Active"]
          /\ Busy(e)
      BY <2>3 DEF FailDrain, MarkActive, Busy
    <3>2. e # d
      BY <1>t, <3>1 DEF Open, OpRec
    <3>3. op[e].node # op[d].node
      BY <1>f, <3>1, <3>2 DEF NodeInv, Entries, Closed
    <3> QED BY <1>t, <1>n, <3>1, <3>3 DEF Closed
  <2>4. ASSUME NEW e \in DrainOp, NEW n \in Node, StartDrain(e, n)
        PROVE  activeDrains'[op[d].node] = d /\ drainState'[op[d].node] # "Active"
    <3>1. n # op[d].node
      BY <1>f, <2>4 DEF StartDrain, Closed
    <3> QED BY <1>t, <1>n, <2>4, <3>1 DEF StartDrain, MarkDraining, Closed
  <2>5. ASSUME NEW n \in Node, CancelDrain(n)
        PROVE  activeDrains'[op[d].node] = d /\ drainState'[op[d].node] # "Active"
    <3>1. n # op[d].node
      <4> SUFFICES ASSUME n = op[d].node PROVE FALSE
        OBVIOUS
      <4>1. op' = [op EXCEPT ![d].cancelled = TRUE]
        BY <2>5 DEF CancelDrain, Closed
      <4> QED BY <1>t, <4>1 DEF Open, OpRec
    <3> QED BY <1>t, <1>n, <2>5, <3>1 DEF CancelDrain, MarkActive, Closed
  <2> QED BY <2>1, <2>2, <2>3, <2>4, <2>5, NodeSteps DEF OpsSame, OpMoves
<1>2. ASSUME NEW e \in DrainOp, op'[e].pc = "migrating"
      PROVE  op'[e].target # op[d].node
  <2>1. CASE op[e].pc = "migrating"
    BY <2>1, OpsKept DEF OpKept, Closed
  <2>2. CASE op[e].pc # "migrating"
    <3>1. Migrate(e) \/ NoSessions(e) \/ FailDrain(e) \/ \E n \in Node : StartDrain(e, n)
      BY <1>2, <2>2, OpTurns
    <3>2. Migrate(e)
      BY <1>t, <1>2, <3>1, ZenonT(30) DEF NoSessions, FailDrain, StartDrain, NoOp, OpRec
    <3>3. PICK t \in Node : /\ drainState[t] = "Active"
                            /\ op' = [op EXCEPT ![e].pc = "migrating", ![e].target = t]
      BY <3>2 DEF Migrate
    <3>4. op'[e].target = t
      BY <1>t, <3>3 DEF OpRec
    <3> QED BY <3>3, <3>4 DEF Closed
  <2> QED BY <2>1, <2>2
<1> QED BY <1>1, <1>2, <1>n DEF Closed

\* The pool learns of a session that an operation found only once.
LEMMA NotRetracked ==
    ASSUME Shape, NodeInv, MediaInv,
           \/ \E c \in Call : CallStepped(c)
           \/ \E d \in DrainOp, r \in Sid : \E m, n : MigStepped(d, r, m, n)
           \/ OpStepped,
           NEW d \in DrainOp, Closed(d), NEW s \in Sid, SnapOK(d, s)
    PROVE  sessionToNode'[s] \in {sessionToNode[s], None}
<1>0. s \in used /\ (rtp[s] # None => rtp[s].node = op[d].node)
  BY DEF SnapOK
<1>1. ASSUME NEW c \in Call, CallStepped(c)
      PROVE  sessionToNode'[s] \in {sessionToNode[s], None}
  <2>1. CASE \E x \in Sid : CreatesFor(c, x)
    BY <1>0, <2>1 DEF CreatesFor, Made
  <2>2. CASE ~\E x \in Sid : CreatesFor(c, x)
    BY <1>1, <2>2 DEF CallStepped, Selects, Passes, Bridges, Unbridges, SessionsSame,
       Forgotten
  <2> QED BY <2>1, <2>2
<1>2. ASSUME NEW e \in DrainOp, NEW r \in Sid, NEW m, NEW n, MigStepped(e, r, m, n)
      PROVE  sessionToNode'[s] \in {sessionToNode[s], None}
  <2>1. m = mig[e][r] /\ MigEffect(e, r, m, n)
    BY <1>2 DEF MigStepped
  <2>2. ASSUME NEW x \in Sid, Creates(e, m, n, x)
        PROVE  sessionToNode'[s] \in {sessionToNode[s], None}
    <3>1. m.pc = "create" /\ Made(x, op[e].target, m.legs[m.k])
      BY <2>2 DEF Creates
    <3>2. op[e].pc = "migrating"
      BY <2>1, <3>1 DEF MediaInv, OpOK
    <3>3. op[e].target # op[d].node
      BY <3>2 DEF Closed
    <3>4. x # s
      BY <1>0, <3>1, <3>3 DEF Made
    <3> QED BY <3>1, <3>4 DEF Made
  <2>3. CASE ~\E x \in Sid : Creates(e, m, n, x)
    BY <2>1, <2>3 DEF MigEffect, Waits, Undoes, Destroys, Updates, Relays,
       SessionsSame, Forgotten
  <2> QED BY <2>2, <2>3
<1>3. CASE OpStepped
  BY <1>3 DEF OpStepped, SessionsSame
<1> QED BY <1>1, <1>2, <1>3

\* What becomes of a migration.
LEMMA MigTurns ==
    ASSUME Shape,
           \/ \E c \in Call : CallStepped(c)
           \/ \E d \in DrainOp, r \in Sid : \E m, n : MigStepped(d, r, m, n)
           \/ OpStepped,
           NEW d \in DrainOp, NEW s \in Sid
    PROVE  \/ mig'[d][s] = mig[d][s]
           \/ Migrate(d)
           \/ \E m, n : /\ MigStepped(d, s, m, n)
                        /\ mig[d][s] = m /\ mig'[d][s] = n
<1>1. CASE UNCHANGED mig
  BY <1>1
<1>2. ASSUME NEW e \in DrainOp, Migrate(e)
      PROVE  mig'[d][s] = mig[d][s] \/ Migrate(d)
  BY <1>2, MigrateFacts
<1>3. ASSUME NEW e \in DrainOp, NEW r \in Sid, NEW m, NEW n, MigStepped(e, r, m, n)
      PROVE  \/ mig'[d][s] = mig[d][s]
             \/ /\ MigStepped(d, s, m, n)
                /\ mig[d][s] = m /\ mig'[d][s] = n
  <2>1. m = mig[e][r] /\ OneMig(e, r, n)
    BY <1>3 DEF MigStepped
  <2>2. CASE e = d /\ r = s
    BY <1>3, <2>1, <2>2 DEF OneMig
  <2>3. CASE e # d \/ r # s
    BY <2>1, <2>3 DEF OneMig
  <2> QED BY <2>2, <2>3
<1> QED BY <1>1, <1>2, <1>3 DEF OpStepped, CallStepped

LEMMA SnapStays ==
    ASSUME Shape, NodeInv, MediaInv, [Next]_vars, NEW d \in DrainOp,
           Open(d), Open(d)', Closed(d), NEW s \in op[d].snap, SnapOK(d, s)
    PROVE  SnapOK(d, s)'
<1>k. \/ \E c \in Call : CallStepped(c)
      \/ \E e \in DrainOp, r \in Sid : \E m, n : MigStepped(e, r, m, n)
      \/ OpStepped
  BY StepKinds
<1>s. s \in Sid /\ mig[d][s] \in MigRec
  BY DEF Shape, DrainTypes, OpRec
<1>n. op'[d].node = op[d].node /\ op'[d].snap = op[d].snap
  BY OpsKept DEF OpKept, Open
<1>r. sessionToNode'[s] # None => sessionToNode[s] = sessionToNode'[s]
  BY <1>k, <1>s, NotRetracked
<1>m. \/ mig'[d][s] = mig[d][s] \/ Migrate(d)
      \/ \E m, n : MigStepped(d, s, m, n) /\ mig[d][s] = m /\ mig'[d][s] = n
  BY <1>k, <1>s, MigTurns
<1>q. Migrate(d) => mig'[d][s].pc = "queued" /\ op[d].pc = "start"
  BY <1>s, MigrateFacts DEF Migrate
<1>1. s \in used' /\ (rtp'[s] # None => rtp'[s].node = op'[d].node)
  BY <1>k, <1>n, StepSessions DEF SnapOK, IdsKept
<1>t. ASSUME op'[d].pc # op[d].pc
      PROVE  \/ op[d].pc = "start" /\ Migrate(d)
             \/ op[d].pc = "migrating" /\ Wait(d)
             \/ op[d].pc \in {"complete", "disable"} /\ op'[d].pc \in {"disable", "done"}
  <2>1. ~NoSessions(d)
    BY DEF NoSessions
  <2>2. ~FailDrain(d)
    BY DEF FailDrain, Open, Shape, DrainTypes, OpRec
  <2> QED BY <1>t, <2>1, <2>2, OpTurns DEF Open
<1>e. ASSUME NEW m, NEW n, MigStepped(d, s, m, n)
      PROVE  n.pc # "none" /\ m.pc \notin {"skipped", "done"}
  BY <1>e DEF MigStepped, MigEffect, Waits, Creates, Undoes, Destroys, Updates, Relays
<1>2. ASSUME op'[d].pc # "start" PROVE mig'[d][s].pc # "none"
  <2>1. CASE op[d].pc = "start"
    BY <1>2, <1>q, <1>t, <2>1
  <2>2. CASE op[d].pc # "start"
    <3>1. mig[d][s].pc # "none"
      BY <2>2 DEF SnapOK
    <3> QED BY <1>e, <1>m, <1>q, <3>1
  <2> QED BY <2>1, <2>2
<1>3. ASSUME op'[d].pc \notin {"start", "migrating"}
      PROVE  mig'[d][s].pc \in {"skipped", "done"}
  <2>1. CASE op[d].pc \notin {"start", "migrating"}
    <3>1. mig[d][s].pc \in {"skipped", "done"}
      BY <2>1 DEF SnapOK
    <3> QED BY <1>e, <1>m, <1>q, <2>1, <3>1
  <2>2. CASE op[d].pc = "migrating"
    <3>1. Wait(d)
      BY <1>3, <1>t, <2>2
    <3>2. mig[d][s].pc \in {"none", "skipped", "done"} /\ UNCHANGED mig
      BY <1>s, <3>1 DEF Wait
    <3>3. mig[d][s].pc # "none"
      BY <2>2 DEF SnapOK
    <3> QED BY <3>2, <3>3
  <2>3. CASE op[d].pc = "start"
    <3>1. Migrate(d)
      BY <1>3, <1>t, <2>3
    <3>2. PICK t : op' = [op EXCEPT ![d].pc = "migrating", ![d].target = t]
      BY <3>1 DEF Migrate
    <3>3. op'[d].pc = "migrating"
      BY <3>2 DEF Shape, DrainTypes, OpRec
    <3> QED BY <1>3, <3>3
  <2> QED BY <2>1, <2>2, <2>3
<1>4. ASSUME Emptied(mig'[d][s]) PROVE sessionToNode'[s] = None
  <2>1. CASE Emptied(mig[d][s])
    BY <1>r, <2>1 DEF SnapOK
  <2>2. ASSUME NEW m, NEW n, MigStepped(d, s, m, n), mig[d][s] = m, mig'[d][s] = n,
               ~Emptied(m)
        PROVE  sessionToNode'[s] = None
    <3>1. /\ m \in MigRec /\ Legs(m) /\ MigEffect(d, s, m, n) /\ Emptied(n)
          /\ ~op[d].cancelled /\ ~op'[d].failed
      BY <1>4, <2>2 DEF MigStepped, Open
    <3>2. ~Waits(d, s, m, n)
      BY <2>2, <3>1 DEF Waits, Emptied
    <3>3. Destroys(m, n)
      BY <2>2, <3>1, <3>2 DEF MigEffect, Creates, Undoes, Updates, Relays, Emptied
    <3>4. m.pc = "destroy" /\ ~(m.k > 1) /\ Forgotten(m.old[m.k])
      BY <2>2, <3>3 DEF Destroys, Emptied
    <3>5. m.pc \in Moving
      BY <3>4 DEF Moving, Placed
    <3>6. m.k \in {1, 2}
      BY <3>1, <3>5, LegCounts
    <3>7. m.k = 1
      BY <3>4, <3>6
    <3>8. m.old[1] = s
      BY <1>s, <2>2, <3>1, <3>5, SecondLeg
    <3> QED BY <3>4, <3>7, <3>8 DEF Forgotten
  <2>3. ~(Migrate(d) /\ Emptied(mig'[d][s]))
    BY <1>q DEF Emptied
  <2> QED BY <1>4, <1>m, <2>1, <2>2, <2>3
<1>5. ASSUME mig'[d][s].pc = "skipped", sessionToNode'[s] # None
      PROVE  \E p \in BLegs : dlg'[p].sid = s
  <2>1. CASE mig[d][s].pc = "skipped"
    <3>1. PICK p \in BLegs : dlg[p].sid = s
      BY <1>r, <1>5, <2>1 DEF SnapOK
    <3>2. p \in Call /\ s # None
      BY <1>s, PeerType, NoneIsNew DEF PeerType, NoneIsNew, BLegs
    <3>3. ASSUME NEW c \in Call, CallStepped(c) PROVE dlg'[p].sid = s
      <4>1. CASE c # p
        BY <3>1, <3>2, <3>3, <4>1 DEF CallStepped
      <4>2. CASE c = p
        <5>1. dlg[p].state # "none"
          BY <3>1, <3>2 DEF MediaInv, CallOK
        <5> QED BY <3>1, <3>3, <4>2, <5>1 DEF CallStepped, Selects, CreatesFor,
                   Passes, Ringing, Bridges, Unbridges
      <4> QED BY <4>1, <4>2
    <3>4. ASSUME NEW e \in DrainOp, NEW r \in Sid, NEW m, NEW n, MigStepped(e, r, m, n)
          PROVE  dlg'[p].sid = s
      <4>1. /\ m \in MigRec /\ m = mig[e][r] /\ Legs(m) /\ MigEffect(e, r, m, n)
        BY <3>4 DEF MigStepped
      <4>2. CASE UNCHANGED dlg
        BY <3>1, <4>2
      <4>3. ASSUME NEW c \in Call, Updates(m, n, c) PROVE dlg'[p].sid = s
        <5>1. /\ m.pc = "update" /\ c = m.legs[m.k] /\ UNCHANGED sessionToNode
              /\ \A f \in Call \ {c} : dlg'[f] = dlg[f]
          BY <4>3 DEF Updates, SessionsSame
        <5>2. m.pc \in Moving
          BY <5>1 DEF Moving, Placed
        <5>3. m.k \in 1..Len(m.legs) /\ m.k \in Nat
          BY <4>1, <5>2, LegFacts DEF MigRec
        <5>4. LegOK(m, m.k, dlg[c].sid, client[c], Live(c), sessionToNode)
          BY <4>1, <5>1, <5>2, <5>3, LegsKnown
        <5>5. sessionToNode[dlg[c].sid] = None
          BY <5>1, <5>3, <5>4 DEF LegOK, Updated, Destroyed
        <5>6. c # p
          BY <1>5, <3>1, <5>1, <5>5
        <5> QED BY <3>1, <3>2, <5>1, <5>6
      <4> QED BY <4>1, <4>2, <4>3
              DEF MigEffect, Waits, Creates, Undoes, Destroys, Relays
    <3>5. CASE OpStepped
      BY <3>1, <3>5 DEF OpStepped
    <3> QED BY <1>k, <3>3, <3>4, <3>5
  <2>2. ASSUME NEW m, NEW n, MigStepped(d, s, m, n), n.pc = "skipped"
        PROVE  \E p \in BLegs : dlg'[p].sid = s
    BY <2>2 DEF MigStepped, MigEffect, Waits, Creates, Undoes, Destroys, Updates, Relays
  <2> QED BY <1>5, <1>m, <1>q, <2>1, <2>2
<1> QED BY <1>1, <1>2, <1>3, <1>4, <1>5 DEF SnapOK

\* No migration brings a session to a node that is being drained.
LEMMA NewElsewhere ==
    ASSUME Shape, NodeInv, MediaInv, TogetherInv, NEW d \in DrainOp, Closed(d),
           NEW e \in DrainOp, NEW r \in Sid, NEW m \in MigRec, m = mig[e][r],
           m.pc \in Moving, NEW i \in 1..Len(m.new), m.new[i] \in Sid,
           rtp[m.new[i]] # None
    PROVE  rtp[m.new[i]].node # op[d].node
<1>1. op[e].pc = "migrating"
  BY SecondLeg
<1>2. op[e].target # op[d].node
  BY <1>1 DEF Closed
<1>3. rtp[m.new[i]].node = op[e].target
  BY DEF TogetherInv, NewAt
<1> QED BY <1>2, <1>3

LEMMA CallerStays ==
    ASSUME Shape, NodeInv, MediaInv, TogetherInv,
           \A c \in Call : Dialled(c), [Next]_vars, NEW d \in DrainOp,
           Open(d), Open(d)', Closed(d), \A s \in op[d].snap : SnapOK(d, s),
           NEW c \in Call, NEW s \in op[d].snap, CallerFound(d, c, s)
    PROVE  CallerFound(d, c, s)'
<1>k. \/ \E e \in Call : CallStepped(e)
      \/ \E e \in DrainOp, r \in Sid : \E m, n : MigStepped(e, r, m, n)
      \/ OpStepped
  BY StepKinds
<1>s. s \in Sid
  BY DEF Shape, DrainTypes, OpRec
<1>n. op'[d].node = op[d].node /\ op'[d].snap = op[d].snap
  BY OpsKept DEF OpKept, Open
<1>o. SnapOK(d, s) /\ s \in used /\ (rtp[s] # None => rtp[s].node = op[d].node)
  BY DEF SnapOK
<1>p. PICK p : p = Peer[c]
  OBVIOUS
<1>a. PICK t : t = dlg'[c].sid
  OBVIOUS
<1> SUFFICES ASSUME p # None, Carries(p, s)', sessionToNode'[s] # None,
                    sessionToNode'[t] = op[d].node
             PROVE  t \in op[d].snap
  BY <1>n, <1>p, <1>a DEF CallerFound
<1>1. p \in Call /\ p \in BLegs /\ c \notin BLegs /\ p # c
  BY <1>p, PeerFacts
<1>2. sessionToNode[s] # None
  BY <1>k, <1>o, <1>s, NotRetracked
<1>3. ASSUME dlg[c].sid = t, sessionToNode[t] = op[d].node, Carries(p, s)
      PROVE  t \in op[d].snap
  BY <1>2, <1>3, <1>p DEF CallerFound
<1>f. ASSUME Carries(p, s)
      PROVE  /\ dlg[c].state \in {"Confirmed", "Terminated"}
             /\ dlg[c].sid \in Sid /\ dlg[c].sid \in used
  <2>1. s # None
    BY <1>s, NoneIsNew DEF NoneIsNew
  <2>2. dlg[p].state # "none" \/ handle[p] # None
    BY <1>f, <1>1, <2>1 DEF Carries, MediaInv, CallOK
  <2>3. dlg[c].state \in {"Confirmed", "Terminated"} /\ dlg[c].sid # None
    BY <1>p, <2>2 DEF Dialled
  <2> QED BY <2>3 DEF MediaInv, CallOK, Owns, Shape, CallTypes, DlgRec
<1>4. ASSUME NEW e \in Call, CallStepped(e) PROVE t \in op[d].snap
  <2>1. \A f \in Call \ {e} : dlg'[f] = dlg[f] /\ handle'[f] = handle[f]
    BY <1>4 DEF CallStepped
  <2>2. ASSUME NEW x \in Sid, CreatesFor(e, x) PROVE t \in op[d].snap
    <3>1. /\ x \notin used /\ handle'[e] = x /\ dlg[e].state = "none"
          /\ e \in BLegs => dlg'[e] = dlg[e]
          /\ dlg[e].sid = None
          /\ \A y \in Sid \ {x} : sessionToNode'[y] = sessionToNode[y]
      BY <2>2 DEF CreatesFor, Made
    <3>2. e # p
      <4> SUFFICES ASSUME e = p PROVE FALSE
        OBVIOUS
      <4>1. dlg'[p].sid # s
        BY <1>1, <1>s, <3>1, NoneIsNew DEF NoneIsNew
      <4>2. handle'[p] = s
        BY <4>1 DEF Carries
      <4> QED BY <1>o, <3>1, <4>2
    <3>3. Carries(p, s)
      BY <1>1, <2>1, <3>2 DEF Carries, Ringing
    <3>4. e # c
      BY <1>f, <3>1, <3>3
    <3>5. dlg[c].sid = t /\ t \in used /\ t \in Sid
      BY <1>a, <1>f, <2>1, <3>3, <3>4
    <3> QED BY <1>3, <3>1, <3>3, <3>5
  <2>3. CASE Passes(e)
    <3>1. UNCHANGED handle
      BY <2>3 DEF Passes
    <3>2. Carries(p, s)
      <4>1. CASE e # p
        BY <1>1, <2>1, <4>1 DEF Carries, Ringing
      <4>2. CASE e = p
        <5>1. dlg'[p].sid \in {dlg[p].sid, handle[p]} /\ dlg'[p].state # "none"
              /\ (dlg'[p].sid # dlg[p].sid => Ringing(p))
          BY <2>3, <4>2 DEF Passes
        <5> QED BY <5>1 DEF Carries, Ringing
      <4> QED BY <4>1, <4>2
    <3>3. dlg[c].sid = t
      BY <1>a, <1>f, <2>1, <2>3, <3>2 DEF Passes, Ringing
    <3>4. t \in Sid
      BY <1>f, <3>2, <3>3
    <3>5. sessionToNode[t] = op[d].node
      <4>1. op[d].node # None
        BY NoneIsNew DEF NoneIsNew, Open, Shape, Ops
      <4> QED BY <2>3, <3>4, <4>1 DEF Passes, SessionsSame, Forgotten
    <3> QED BY <1>3, <3>2, <3>3, <3>5
  <2>4. CASE Selects(e) \/ Bridges(e) \/ Unbridges(e)
    <3>1. UNCHANGED <<dlg, handle, sessionToNode>>
      BY <2>4 DEF Selects, Bridges, Unbridges, SessionsSame
    <3> QED BY <1>3, <1>a, <3>1 DEF Carries, Ringing
  <2> QED BY <1>4, <2>2, <2>3, <2>4 DEF CallStepped
<1>5. ASSUME NEW e \in DrainOp, NEW r \in Sid, NEW m, NEW n, MigStepped(e, r, m, n)
      PROVE  t \in op[d].snap
  <2>1. /\ m \in MigRec /\ m = mig[e][r] /\ Legs(m) /\ MigEffect(e, r, m, n)
        /\ UNCHANGED handle /\ \A f \in Call : dlg'[f].state = dlg[f].state
    BY <1>5 DEF MigStepped, MigEffect, Waits, Creates, Undoes, Destroys, Updates,
       Relays
  <2>i. ASSUME NEW y \in Sid, sessionToNode[y] # None
        PROVE  rtp[y] # None /\ rtp[y].node = sessionToNode[y]
    BY <2>i DEF MediaInv, Ids
  <2>d. op[d].node \in Node /\ op[d].node # None
    BY NoneIsNew DEF NoneIsNew, Open, Shape, Ops
  <2>2. CASE UNCHANGED dlg
    <3>1. Carries(p, s) /\ dlg[c].sid = t
      BY <1>a, <2>1, <2>2 DEF Carries, Ringing
    <3>2. t \in Sid /\ t \in used
      BY <1>f, <3>1
    <3>3. sessionToNode[t] = op[d].node
      <4>1. ASSUME NEW x \in Sid, Creates(e, m, n, x)
            PROVE  sessionToNode[t] = op[d].node
        <5>1. m.pc = "create" /\ Made(x, op[e].target, m.legs[m.k])
          BY <4>1 DEF Creates
        <5>2. op[e].pc = "migrating"
          BY <2>1, <5>1 DEF MediaInv, OpOK
        <5>3. op[e].target # op[d].node
          BY <5>2 DEF Closed
        <5> QED BY <3>2, <5>1, <5>3 DEF Made
      <4>2. CASE ~\E x \in Sid : Creates(e, m, n, x)
        BY <2>1, <2>d, <3>2, <4>2 DEF MigEffect, Waits, Undoes, Destroys, Updates,
           Relays, SessionsSame, Forgotten
      <4> QED BY <4>1, <4>2
    <3> QED BY <1>3, <3>1, <3>3
  <2>3. ASSUME NEW f \in Call, Updates(m, n, f) PROVE t \in op[d].snap
    <3>1. /\ m.pc = "update" /\ f = m.legs[m.k] /\ UNCHANGED sessionToNode
          /\ dlg'[f].sid = m.new[m.k] /\ \A g \in Call \ {f} : dlg'[g] = dlg[g]
      BY <2>3 DEF Updates, SessionsSame
    <3>2. m.pc \in Moving
      BY <3>1 DEF Moving, Placed
    <3>3. /\ m.new \in Seq(Sid) /\ m.k \in 1..Len(m.legs) /\ Len(m.new) = Len(m.legs)
      BY <2>1, <3>1, <3>2, LegFacts
    <3>4. m.k \in 1..Len(m.new) /\ m.new[m.k] \in Sid
      BY <3>3
    <3>5. sessionToNode[m.new[m.k]] = op[d].node => FALSE
      <4> SUFFICES ASSUME sessionToNode[m.new[m.k]] = op[d].node PROVE FALSE
        OBVIOUS
      <4>1. rtp[m.new[m.k]] # None /\ rtp[m.new[m.k]].node = op[d].node
        BY <2>d, <2>i, <3>4
      <4> QED BY <2>1, <3>2, <3>4, <4>1, NewElsewhere
    <3>6. m.new[m.k] # s
      <4>1. sessionToNode[s] = op[d].node
        BY <1>2, <1>o, <1>s, <2>i
      <4> QED BY <3>5, <4>1
    <3>7. f # c
      BY <1>a, <3>1, <3>5
    <3>8. Carries(p, s)
      BY <1>1, <2>1, <3>1, <3>6 DEF Carries, Ringing
    <3>9. dlg[c].sid = t
      BY <1>a, <3>1, <3>7
    <3> QED BY <1>3, <3>1, <3>8, <3>9
  <2>4. UNCHANGED dlg \/ \E f \in Call : Updates(m, n, f)
    BY <2>1 DEF MigEffect, Waits, Creates, Undoes, Destroys, Relays
  <2> QED BY <2>2, <2>3, <2>4
<1>6. CASE OpStepped
  <2>1. UNCHANGED <<dlg, handle, sessionToNode>>
    BY <1>6 DEF OpStepped, SessionsSame
  <2> QED BY <1>3, <1>a, <2>1 DEF Carries, Ringing
<1> QED BY <1>k, <1>4, <1>5, <1>6

LEMMA AccountStart ==
    ASSUME ~Overlap, Shape, MediaInv, \A c \in Call : Dialled(c),
           NEW d \in DrainOp, NEW n \in Node, StartDrain(d, n)
    PROVE  Account(d)'
<1>t. /\ op \in [DrainOp -> OpRec] /\ drainState \in [Node -> DrainState]
      /\ activeDrains \in [Node -> DrainOp \cup {None}]
  BY DEF Shape, DrainTypes, PoolTypes
<1>1. /\ op[d].pc = "new" /\ \A e \in DrainOp : op[e].pc \in {"new", "done"}
      /\ drainState' = [drainState EXCEPT ![n] = "Draining"]
      /\ activeDrains' = [activeDrains EXCEPT ![n] = d]
      /\ UNCHANGED <<sessionToNode, rtp, used, dlg, handle, mig>>
      /\ op' = [op EXCEPT ![d] = [NoOp EXCEPT !.pc = "start", !.node = n,
                                              !.snap = SessionsOnNode(n)]]
  BY DEF StartDrain, MarkDraining, callVars
<1>2. /\ op'[d].pc = "start" /\ op'[d].node = n
      /\ op'[d].snap = SessionsOnNode(n)
      /\ \A e \in DrainOp \ {d} : op'[e] = op[e]
  BY <1>t, <1>1 DEF NoOp
<1>3. Closed(d)'
  BY <1>t, <1>1, <1>2 DEF Closed
<1>4. ASSUME NEW s \in SessionsOnNode(n) PROVE SnapOK(d, s)'
  <2>1. s \in Sid /\ sessionToNode[s] = n /\ n # None
    BY NoneIsNew DEF NoneIsNew, SessionsOnNode
  <2>2. s \in used /\ rtp[s].node = n
    BY <2>1 DEF MediaInv, Ids
  <2>3. mig[d][s].pc = "none"
    BY <1>1, <2>1 DEF Shape, Migs
  <2> QED BY <1>1, <1>2, <2>2, <2>3 DEF SnapOK, Emptied
<1>5. ASSUME NEW c \in Call, NEW s \in SessionsOnNode(n) PROVE CallerFound(d, c, s)'
  <2> SUFFICES ASSUME Peer[c] # None, Carries(Peer[c], s), sessionToNode[dlg[c].sid] = n
               PROVE  dlg[c].sid \in SessionsOnNode(n)
    BY <1>1, <1>2 DEF CallerFound, Carries, Ringing
  <2>1. s # None /\ Peer[c] \in Call
    BY NoneIsNew, PeerFacts DEF NoneIsNew, SessionsOnNode
  <2>2. dlg[Peer[c]].state # "none" \/ handle[Peer[c]] # None
    BY <2>1 DEF Carries, MediaInv, CallOK
  <2>3. dlg[c].sid # None
    BY <2>2 DEF Dialled
  <2>4. dlg[c].sid \in Sid
    BY <2>3 DEF Shape, CallTypes, DlgRec
  <2> QED BY <2>4 DEF SessionsOnNode
<1> QED BY <1>2, <1>3, <1>4, <1>5 DEF Account

LEMMA AccountNext ==
    ASSUME ~Overlap
    PROVE  Shape /\ NodeInv /\ MediaInv /\ TogetherInv /\ AccountInv /\ [Next]_vars
             => AccountInv'
<1> SUFFICES ASSUME Shape, NodeInv, MediaInv, TogetherInv, AccountInv, [Next]_vars
             PROVE  AccountInv'
  OBVIOUS
<1>1. \/ \E c \in Call : CallStepped(c)
      \/ \E d \in DrainOp, r \in Sid : \E m, n : MigStepped(d, r, m, n)
      \/ OpStepped
  BY StepKinds
<1>2. \A c \in Call : Dialled(c)'
  BY <1>1, DialledStep DEF AccountInv
<1>3. ASSUME NEW d \in DrainOp PROVE Account(d)'
  <2>1. CASE op[d].pc = "new"
    <3>1. CASE op'[d].pc = "new"
      BY <3>1 DEF Account, Open
    <3>2. CASE op'[d].pc # "new"
      <4>1. \E n \in Node : StartDrain(d, n)
        BY <2>1, <3>2, OpTurns
      <4> QED BY <4>1, AccountStart DEF AccountInv
    <3> QED BY <3>1, <3>2
  <2>2. CASE op[d].pc # "new"
    <3> SUFFICES ASSUME Open(d)'
                 PROVE  /\ Closed(d)'
                        /\ \A s \in op'[d].snap : SnapOK(d, s)'
                        /\ \A c \in Call : \A s \in op'[d].snap : CallerFound(d, c, s)'
      BY DEF Account
    <3>1. Open(d) /\ op'[d].snap = op[d].snap
      BY <2>2, OpsKept DEF OpKept, Open
    <3>2. /\ Closed(d)
          /\ \A s \in op[d].snap : SnapOK(d, s)
          /\ \A c \in Call : \A s \in op[d].snap : CallerFound(d, c, s)
      BY <3>1 DEF AccountInv, Account
    <3>3. Closed(d)'
      BY <3>1, <3>2, ClosedStays
    <3>4. \A s \in op[d].snap : SnapOK(d, s)'
      BY <3>1, <3>2, SnapStays
    <3>5. \A c \in Call : \A s \in op[d].snap : CallerFound(d, c, s)'
      BY <3>1, <3>2, CallerStays DEF AccountInv
    <3> QED BY <3>1, <3>3, <3>4, <3>5
  <2> QED BY <2>1, <2>2
<1> QED BY <1>2, <1>3 DEF AccountInv

LEMMA AccountInit == Init => AccountInv
<1> SUFFICES ASSUME Init PROVE AccountInv
  OBVIOUS
<1>1. PICK at, sid : AtStart(at, sid)
  BY InitFacts
<1>2. \A d \in DrainOp : Account(d)
  BY <1>1 DEF AtStart, Account, Open
<1> QED BY <1>2, DialledInit DEF AccountInv

LEMMA AccountsHold ==
    ASSUME Shape, MediaInv, RelayInv, AccountInv PROVE DrainAccounts
<1> SUFFICES ASSUME NEW d \in DrainOp, op[d].pc = "done", ~op[d].failed,
                    ~op[d].cancelled, NEW s \in op[d].snap,
                    s \in Sid, sessionToNode[s] = op[d].node
             PROVE  \E c \in Call : /\ Peer[c] # None
                                    /\ dlg[Peer[c]].sid = s
                                    /\ sessionToNode[dlg[c].sid] # op[d].node
  BY DEF DrainAccounts, SessionsOnNode
<1>1. /\ \A x \in op[d].snap : SnapOK(d, x)
      /\ \A c \in Call : \A x \in op[d].snap : CallerFound(d, c, x)
  BY DEF AccountInv, Account, Open
<1>2. op[d].node # None /\ op[d].snap \subseteq Sid
  BY NoneIsNew DEF NoneIsNew, Shape, Ops, DrainTypes, OpRec
<1>3. ASSUME NEW x \in op[d].snap, sessionToNode[x] = op[d].node
      PROVE  \E p \in BLegs : dlg[p].sid = x
  <2>1. SnapOK(d, x) /\ mig[d][x].pc \in {"skipped", "done"}
    BY <1>1 DEF SnapOK
  <2>2. mig[d][x].pc # "done"
    BY <1>2, <1>3, <2>1 DEF SnapOK, Emptied
  <2> QED BY <1>2, <1>3, <2>1, <2>2 DEF SnapOK
<1>4. PICK p \in BLegs : dlg[p].sid = s
  BY <1>3
<1>5. PICK c \in Call : p = Peer[c] /\ Peer[c] # None
  BY <1>4 DEF BLegs
<1>6. c \notin BLegs /\ p \in Call
  BY <1>5, PeerFacts
<1>7. sessionToNode[dlg[c].sid] # op[d].node
  <2> SUFFICES ASSUME sessionToNode[dlg[c].sid] = op[d].node PROVE FALSE
    OBVIOUS
  <2>1. Carries(p, s)
    BY <1>4 DEF Carries
  <2>2. dlg[c].sid \in op[d].snap
    BY <1>1, <1>2, <1>5, <2>1 DEF CallerFound
  <2>3. PICK q \in BLegs : dlg[q].sid = dlg[c].sid
    BY <1>3, <2>2
  <2>4. q \in Call /\ dlg[c].sid \in Sid
    BY <1>2, <2>2, PeerType DEF PeerType, BLegs
  <2>5. Has(q, dlg[c].sid) /\ Has(c, dlg[c].sid)
    BY <2>3 DEF Has
  <2>6. q = c
    BY <2>4, <2>5 DEF RelayInv, OneOwner
  <2> QED BY <1>6, <2>3, <2>6
<1> QED BY <1>4, <1>5, <1>7

\* A drain accounts for every session it found.  If it is done, was not cancelled
\* and counted no failure, the only sessions of its snapshot that are still on
\* the node are those of callees whose caller is not there any more - whatever
\* calls were set up, answered, ended or bridged and whatever sessions were
\* made while it ran (coordinator.go, migrator.go, pool.go).
THEOREM DrainsAccount == ASSUME ~Overlap PROVE Spec => []DrainAccounts
<1>1. Init => RelayInv /\ TogetherInv /\ AccountInv
  BY RelayInit, TogetherInit, AccountInit
<1>2. Shape /\ NodeInv /\ MediaInv /\ RelayInv /\ TogetherInv /\ AccountInv
        /\ [Next]_vars => RelayInv' /\ TogetherInv' /\ AccountInv'
  BY RelayNext, TogetherNext, AccountNext
<1>3. Shape /\ MediaInv /\ RelayInv /\ AccountInv => DrainAccounts
  BY AccountsHold
<1> QED BY <1>1, <1>2, <1>3, MediaInvariant, PTL DEF Spec
=============================================================================
