--------------------------- MODULE LocationProofs ---------------------------
(***************************************************************************)
(* Proofs about Location, for any number of addresses, bindings, handlers  *)
(* and contacts: its type invariant, that an entry covers its bindings,    *)
(* and that it implements Registrar.                                       *)
(***************************************************************************)
EXTENDS Location, SequenceTheorems, WellFoundedInduction, TLAPS

-----------------------------------------------------------------------------
(* The latest of a set of expiry times.  No finiteness is needed: the times *)
(* of an entry are at most MaxExpires ahead.                                *)

LEMMA GreatestExists ==
    ASSUME NEW S \in SUBSET Nat, S # {}, NEW u \in Nat, \A x \in S : x <= u
    PROVE  \E m \in S : \A x \in S : m >= x
<1> DEFINE Below == {p \in Nat \X Nat : p[1] < p[2]}
           T == {u - x : x \in S}
<1>1. IsWellFoundedOn(Below, Nat)
  <2>1. Below \cap (Nat \X Nat) \subseteq OpToRel(<, Nat)
    BY DEF OpToRel
  <2> QED BY <2>1, NatLessThanWellFounded, IsWellFoundedOnSubrelation
<1>2. T \subseteq Nat /\ T # {}
  <2>1. \A x \in S : u - x \in Nat
    OBVIOUS
  <2>2. PICK x \in S : TRUE
    OBVIOUS
  <2>3. u - x \in T
    OBVIOUS
  <2> QED BY <2>1, <2>3
<1>3. PICK z \in T : \A y \in T : ~(<<y, z>> \in Below)
  <2> HIDE DEF Below, T
  <2> QED BY <1>1, <1>2, WFMin
<1>4. PICK m \in S : z = u - m
  OBVIOUS
<1>5. ASSUME NEW x \in S PROVE m >= x
  <2>1. u - x \in T /\ u - x \in Nat /\ z \in Nat
    BY <1>2
  <2>2. ~(u - x < z)
    BY <1>3, <2>1
  <2> QED BY <1>4, <2>2
<1> QED BY <1>5

LEMMA LatestCovers ==
    ASSUME NEW D, NEW map, DOMAIN map = D, NEW from \in Nat, NEW u \in Nat,
           from <= u, \A b \in D : map[b].until \in Nat /\ map[b].until <= u
    PROVE  /\ Latest(map, from) \in Nat
           /\ Latest(map, from) >= from
           /\ \A b \in D : map[b].until <= Latest(map, from)
<1> DEFINE S == {from} \cup {map[b].until : b \in DOMAIN map}
<1>1. S \in SUBSET Nat /\ S # {} /\ \A x \in S : x <= u
  OBVIOUS
<1>2. \E m \in S : \A x \in S : m >= x
  <2> HIDE DEF S
  <2> QED BY <1>1, GreatestExists
<1>3. Max(S) \in S /\ \A x \in S : Max(S) >= x
  <2> HIDE DEF S
  <2> QED BY <1>2 DEF Max
<1> QED BY <1>1, <1>3 DEF Latest

-----------------------------------------------------------------------------
(* The inductive invariant: the variables are functions of the right kind,  *)
(* no binding outlives the configured maximum, and entries cover theirs.    *)

Shape ==
    /\ now \in 0..MaxTime
    /\ items \in [Aor -> Item \cup {None}]
    /\ h \in [Handler -> Request \cup {None}]
    /\ \A a \in Aor : items[a] # None =>
          \A b \in DOMAIN items[a].map :
             items[a].map[b].until <= now + MaxExpires

LocInv == Shape /\ EntryCovers

\* What the fields of an entry are.
LEMMA ItemFields ==
    ASSUME NEW e \in Item
    PROVE  /\ e.until \in Nat /\ DOMAIN e.map \subseteq Bid
           /\ \A b \in DOMAIN e.map :
                 e.map[b] \in Binding /\ e.map[b].until \in Nat
<1>1. PICK D \in SUBSET Bid : e.map \in [D -> Binding]
  BY DEF Item
<1> QED BY <1>1 DEF Item, Binding

LEMMA GetFields ==
    ASSUME Shape, NEW a \in Aor
    PROVE  /\ DOMAIN Get(a) \subseteq Bid
           /\ \A b \in DOMAIN Get(a) :
                 /\ Get(a)[b] \in Binding /\ Get(a)[b].until \in Nat
                 /\ Get(a)[b].until <= now + MaxExpires
           /\ DOMAIN Get(a) # {} => items[a] # None /\ Get(a) = items[a].map
<1>1. CASE items[a] = None \/ IsExpired(items[a].until)
  BY <1>1 DEF Get
<1>2. CASE ~(items[a] = None \/ IsExpired(items[a].until))
  <2>1. Get(a) = items[a].map /\ items[a] \in Item
    BY <1>2 DEF Get, Shape
  <2> QED BY <1>2, <2>1, ItemFields DEF Shape
<1> QED BY <1>1, <1>2

\* The lifetime the store gives to an accepted registration.
LEMMA NormalizeRange ==
    ASSUME NEW e \in Int, e # 0, ~TooBrief(e)
    PROVE  Normalize(e) \in MinExpires..MaxExpires
BY Config DEF Config, Normalize, TooBrief

\* A request's next contact, and what is left of it.
LEMMA RequestFields ==
    ASSUME NEW r \in Request
    PROVE  /\ r.aor \in Aor /\ r.call \in CallId /\ r.cseq \in CSeq
           /\ Head(r.contacts) \in Contact
           /\ Len(r.contacts) # 1 =>
                 [r EXCEPT !.contacts = Tail(r.contacts)] \in Request
<1>1. PICK k \in 1..MaxContacts : r.contacts \in [1..k -> Contact]
  BY DEF Request
<1>2. /\ r.contacts \in Seq(Contact) /\ Len(r.contacts) = k
      /\ r.contacts # << >> /\ k \in Nat /\ k >= 1
  BY <1>1, Config DEF Config
<1>3. Head(r.contacts) \in Contact
  BY <1>2, HeadTailProperties
<1>4. ASSUME Len(r.contacts) # 1
      PROVE  [r EXCEPT !.contacts = Tail(r.contacts)] \in Request
  <2>1. Tail(r.contacts) \in Seq(Contact) /\ Len(Tail(r.contacts)) = k - 1
    BY <1>2, HeadTailProperties
  <2>2. Tail(r.contacts) \in [1..(k - 1) -> Contact]
    BY <2>1, LenProperties
  <2>3. k - 1 \in 1..MaxContacts
    BY <1>1, <1>2, <1>4, Config DEF Config
  <2> QED BY <2>2, <2>3 DEF Request
<1> QED BY <1>3, <1>4 DEF Request

LEMMA AdvanceType ==
    ASSUME Shape, NEW i \in Handler, h[i] # None, Advance(i)
    PROVE  h' \in [Handler -> Request \cup {None}]
<1>1. h[i] \in Request
  BY DEF Shape
<1>2. Len(h[i].contacts) # 1 =>
         [h[i] EXCEPT !.contacts = Tail(h[i].contacts)] \in Request
  BY <1>1, RequestFields
<1>3. CASE Len(h[i].contacts) = 1
  <2>1. h' = [h EXCEPT ![i] = None]
    BY <1>3 DEF Advance
  <2> QED BY <2>1 DEF Shape
<1>4. CASE Len(h[i].contacts) # 1
  <2>1. h' = [h EXCEPT ![i] = [h[i] EXCEPT !.contacts = Tail(h[i].contacts)]]
    BY <1>4 DEF Advance
  <2> QED BY <1>2, <1>4, <2>1 DEF Shape
<1> QED BY <1>3, <1>4

\* An address gets a new entry whose expiry covers its bindings.
LEMMA SetKeeps ==
    ASSUME LocInv, now' = now, NEW a \in Aor, NEW D \in SUBSET Bid,
           NEW map \in [D -> Binding], NEW until \in Nat, Set(a, map, until),
           \A b \in D : map[b].until <= now + MaxExpires /\ map[b].until <= until
    PROVE  /\ items' \in [Aor -> Item \cup {None}]
           /\ \A x \in Aor : items'[x] # None =>
                 \A b \in DOMAIN items'[x].map :
                    items'[x].map[b].until <= now' + MaxExpires
           /\ EntryCovers'
<1> DEFINE e == [map |-> map, until |-> until]
<1>1. e \in Item
  BY DEF Item
<1>2. items' = [items EXCEPT ![a] = e]
  BY DEF Set
<1>3. items'[a] = e /\ \A x \in Aor \ {a} : items'[x] = items[x]
  BY <1>2 DEF LocInv, Shape
<1>4. items' \in [Aor -> Item \cup {None}]
  BY <1>1, <1>2 DEF LocInv, Shape
<1>5. DOMAIN e.map = D /\ e.until = until /\ \A b \in D : e.map[b] = map[b]
  OBVIOUS
<1> HIDE DEF e
<1> QED BY <1>3, <1>4, <1>5 DEF LocInv, Shape, EntryCovers, IsExpired

LEMMA RegisterKeeps ==
    ASSUME LocInv, now' = now, NEW r \in Request, NEW c \in Contact,
           c.expires # 0, Acceptable(r, c), Register(r, c)
    PROVE  /\ items' \in [Aor -> Item \cup {None}]
           /\ \A x \in Aor : items'[x] # None =>
                 \A b \in DOMAIN items'[x].map :
                    items'[x].map[b].until <= now' + MaxExpires
           /\ EntryCovers'
<1> DEFINE x == [until |-> now + Normalize(c.expires), call |-> r.call,
                 cseq |-> r.cseq]
           old == Get(r.aor)
           D == DOMAIN old \cup {c.bid}
           map == [b \in D |-> IF b = c.bid THEN x ELSE old[b]]
<1>1. /\ r.aor \in Aor /\ r.call \in CallId /\ r.cseq \in CSeq
      /\ c.bid \in Bid /\ c.expires \in Int
  BY RequestFields, Config DEF Config, Contact
<1>2. Normalize(c.expires) \in MinExpires..MaxExpires
  BY <1>1, NormalizeRange DEF Acceptable
<1>3. now \in Nat /\ MaxExpires \in Nat
  BY Config DEF Config, LocInv, Shape
<1>4. x.until \in Nat /\ x.until <= now + MaxExpires /\ x \in Binding
  BY <1>1, <1>2, <1>3, Config DEF Config, Binding
<1>5. /\ DOMAIN old \subseteq Bid
      /\ \A b \in DOMAIN old : /\ old[b] \in Binding /\ old[b].until \in Nat
                               /\ old[b].until <= now + MaxExpires
  BY <1>1, GetFields DEF LocInv
<1>6. Set(r.aor, map, Latest(map, x.until))
  BY DEF Register
<1> HIDE DEF x, old
<1>7. /\ D \in SUBSET Bid /\ map \in [D -> Binding] /\ DOMAIN map = D
      /\ \A b \in D : map[b].until \in Nat /\ map[b].until <= now + MaxExpires
  BY <1>1, <1>4, <1>5
<1> HIDE DEF D, map
<1>8. now + MaxExpires \in Nat
  BY <1>3
<1>9. /\ Latest(map, x.until) \in Nat
      /\ \A b \in D : map[b].until <= Latest(map, x.until)
  BY <1>4, <1>7, <1>8, LatestCovers
<1> QED BY <1>1, <1>6, <1>7, <1>9, SetKeeps

LEMMA UnregisterKeeps ==
    ASSUME LocInv, now' = now, NEW r \in Request, NEW c \in Contact,
           Unregister(r, c)
    PROVE  /\ items' \in [Aor -> Item \cup {None}]
           /\ \A x \in Aor : items'[x] # None =>
                 \A b \in DOMAIN items'[x].map :
                    items'[x].map[b].until <= now' + MaxExpires
           /\ EntryCovers'
<1> DEFINE old == Get(r.aor)
           D == DOMAIN old \ {c.bid}
           map == [b \in D |-> old[b]]
<1>1. r.aor \in Aor
  BY RequestFields
<1>2. CASE c.bid \notin DOMAIN old
  <2>1. UNCHANGED items
    BY <1>2 DEF Unregister
  <2> QED BY <2>1 DEF LocInv, Shape, EntryCovers, IsExpired
<1>3. CASE c.bid \in DOMAIN old /\ DOMAIN map = {}
  <2>1. items' = [items EXCEPT ![r.aor] = None]
    BY <1>3 DEF Unregister, Delete
  <2> QED BY <1>1, <2>1 DEF LocInv, Shape, EntryCovers, IsExpired
<1>4. CASE c.bid \in DOMAIN old /\ DOMAIN map # {}
  <2>1. Set(r.aor, map, Latest(map, now))
    BY <1>4 DEF Unregister
  <2>2. /\ DOMAIN old \subseteq Bid
        /\ \A b \in DOMAIN old : /\ old[b] \in Binding /\ old[b].until \in Nat
                                 /\ old[b].until <= now + MaxExpires
    BY <1>1, GetFields DEF LocInv
  <2> HIDE DEF old
  <2>3. /\ D \in SUBSET Bid /\ map \in [D -> Binding] /\ DOMAIN map = D
        /\ \A b \in D : map[b].until \in Nat /\ map[b].until <= now + MaxExpires
    BY <2>2
  <2> HIDE DEF D, map
  <2>4. now \in Nat /\ now + MaxExpires \in Nat /\ now <= now + MaxExpires
    BY Config DEF Config, LocInv, Shape
  <2>5. /\ Latest(map, now) \in Nat
        /\ \A b \in D : map[b].until <= Latest(map, now)
    BY <2>3, <2>4, LatestCovers
  <2> QED BY <1>1, <2>1, <2>3, <2>5, SetKeeps
<1> QED BY <1>2, <1>3, <1>4

LEMMA LocInit == Init => LocInv
BY Config DEF Config, Init, LocInv, Shape, EntryCovers

LEMMA LocNext == LocInv /\ [Next]_vars => LocInv'
<1> SUFFICES ASSUME LocInv, [Next]_vars PROVE LocInv'
  OBVIOUS
<1>0. now \in Nat /\ MaxTime \in Nat /\ MaxExpires \in Nat
  BY Config DEF Config, LocInv, Shape
<1>1. CASE Cleanup
  <2>1. \A a \in Aor : items'[a] = None \/ items'[a] = items[a]
    BY <1>1 DEF Cleanup
  <2>2. items' \in [Aor -> Item \cup {None}]
    BY <1>1 DEF Cleanup, LocInv, Shape
  <2> QED BY <1>1, <2>1, <2>2 DEF Cleanup, LocInv, Shape, EntryCovers, IsExpired
<1>2. CASE Tick
  <2>1. now' = now + 1 /\ now' \in 0..MaxTime /\ UNCHANGED <<items, h>>
    BY <1>0, <1>2 DEF Tick
  <2>2. \A a \in Aor : items[a] # None =>
           \A b \in DOMAIN items[a].map : items[a].map[b].until \in Nat
    BY ItemFields DEF LocInv, Shape
  <2>3. Shape'
    BY <1>0, <2>1, <2>2 DEF LocInv, Shape
  <2>4. EntryCovers'
    BY <1>0, <2>1, <2>2 DEF LocInv, EntryCovers, IsExpired
  <2> QED BY <2>3, <2>4 DEF LocInv
<1>3. ASSUME NEW i \in Handler, Receive(i) PROVE LocInv'
  BY <1>3 DEF Receive, LocInv, Shape, EntryCovers, IsExpired
<1>4. ASSUME NEW i \in Handler, HandleContact(i) PROVE LocInv'
  <2> DEFINE r == h[i]
             c == Head(h[i].contacts)
  <2>1. /\ r # None /\ r \in Request /\ c \in Contact /\ now' = now
    BY <1>4, RequestFields DEF HandleContact, LocInv, Shape
  <2>2. CASE c.expires = 0 /\ Unregister(r, c) /\ Advance(i)
    <3>1. h' \in [Handler -> Request \cup {None}]
      BY <2>1, <2>2, AdvanceType DEF LocInv
    <3> QED BY <2>1, <2>2, <3>1, UnregisterKeeps DEF LocInv, Shape
  <2>3. CASE c.expires # 0 /\ Acceptable(r, c) /\ Register(r, c) /\ Advance(i)
    <3>1. h' \in [Handler -> Request \cup {None}]
      BY <2>1, <2>3, AdvanceType DEF LocInv
    <3> QED BY <2>1, <2>3, <3>1, RegisterKeeps DEF LocInv, Shape
  <2>4. CASE h' = [h EXCEPT ![i] = None] /\ UNCHANGED items
    BY <2>1, <2>4 DEF LocInv, Shape, EntryCovers, IsExpired
  <2> QED BY <1>4, <2>2, <2>3, <2>4 DEF HandleContact
<1>5. ASSUME NEW a \in Aor, ReceiveWildcard(a) PROVE LocInv'
  BY <1>5 DEF ReceiveWildcard, Delete, LocInv, Shape, EntryCovers, IsExpired
<1>6. CASE UNCHANGED vars
  BY <1>6 DEF vars, LocInv, Shape, EntryCovers, IsExpired
<1> QED BY <1>1, <1>2, <1>3, <1>4, <1>5, <1>6 DEF Next

LEMMA LocInvariant == Spec => []LocInv
BY LocInit, LocNext, PTL DEF Spec

\* The bindings and the requests keep their type, and no binding outlives
\* the configured maximum, for any number of handlers and contacts.
THEOREM LocationTypes == Spec => []TypeOK
<1>1. LocInv => TypeOK
  BY ItemFields DEF LocInv, Shape, TypeOK
<1> QED BY <1>1, LocInvariant, PTL

\* An entry of the store never expires before one of its bindings.
THEOREM EntriesCover == Spec => []EntryCovers
<1>1. LocInv => EntryCovers
  BY DEF LocInv
<1> QED BY <1>1, LocInvariant, PTL

-----------------------------------------------------------------------------
(* Refinement: every step of the store and the handler is a step of the     *)
(* registrar on what Lookup returns, or changes nothing there.              *)

reg == [a \in Aor |-> Lookup(a)]

\* What Lookup finds.
LEMMA LookupAt ==
    ASSUME NEW a \in Aor, NEW b \in Bid
    PROVE  reg[a][b] = IF b \in DOMAIN Get(a) /\ ~IsExpired(Get(a)[b].until)
                       THEN Get(a)[b] ELSE None
BY DEF reg, Lookup

\* Two registries with the same bindings are the same.
LEMMA RegEqual ==
    ASSUME NEW f, NEW g, \A a \in Aor : \A b \in Bid : f[a][b] = g[a][b],
           f = [a \in Aor |-> [b \in Bid |-> f[a][b]]],
           g = [a \in Aor |-> [b \in Bid |-> g[a][b]]]
    PROVE  f = g
<1>1. [a \in Aor |-> [b \in Bid |-> f[a][b]]] = [a \in Aor |-> [b \in Bid |-> g[a][b]]]
  OBVIOUS
<1> QED BY <1>1

LEMMA RegIsMap == /\ reg = [a \in Aor |-> [b \in Bid |-> reg[a][b]]]
                  /\ reg' = [a \in Aor |-> [b \in Bid |-> reg'[a][b]]]
BY DEF reg, Lookup

\* Time passes.  EntryCovers is what makes an entry's expiry invisible.
LEMMA TickRefines ==
    ASSUME LocInv, Tick PROVE R!Tick
<1>1. now' = now + 1 /\ items' = items /\ now \in Nat
  BY DEF Tick, LocInv, Shape
<1> DEFINE g == [a \in Aor |-> [b \in Bid |->
                   IF reg[a][b] # None /\ now' > reg[a][b].until
                   THEN None ELSE reg[a][b]]]
<1>2. ASSUME NEW a \in Aor, NEW b \in Bid PROVE reg'[a][b] = g[a][b]
  <2>1. reg'[a][b] = IF b \in DOMAIN Get(a)' /\ ~(now' > Get(a)'[b].until)
                     THEN Get(a)'[b] ELSE None
    BY DEF reg, Lookup, IsExpired
  <2>2. reg[a][b] = IF b \in DOMAIN Get(a) /\ ~(now > Get(a)[b].until)
                    THEN Get(a)[b] ELSE None
    BY DEF reg, Lookup, IsExpired
  <2>3. CASE items[a] = None
    BY <1>1, <2>1, <2>2, <2>3 DEF Get
  <2>4. CASE items[a] # None
    <3>1. items[a] \in Item
      BY <2>4 DEF LocInv, Shape
    <3> DEFINE e == items[a]
    <3>2. /\ e.until \in Nat
          /\ \A x \in DOMAIN e.map : e.map[x] \in Binding /\ e.map[x].until \in Nat
      BY <3>1, ItemFields
    <3>3. \A x \in DOMAIN e.map : e.map[x] # None
      BY <3>2, NoneIsFresh
    <3>4. CASE now > e.until
      <4>1. Get(a) = [x \in {} |-> None] /\ Get(a)' = [x \in {} |-> None]
        BY <1>1, <2>4, <3>2, <3>4 DEF Get, IsExpired
      <4> QED BY <2>1, <2>2, <4>1
    <3>5. CASE ~(now > e.until) /\ now' > e.until
      <4>1. Get(a) = e.map /\ Get(a)' = [x \in {} |-> None]
        BY <1>1, <2>4, <3>5 DEF Get, IsExpired
      <4>2. \A x \in DOMAIN e.map : ~(now > e.map[x].until) =>
                                       e.map[x].until <= e.until
        BY <2>4 DEF LocInv, EntryCovers, IsExpired
      <4>3. \A x \in DOMAIN e.map : now' > e.map[x].until
        BY <1>1, <3>2, <3>5, <4>2
      <4> HIDE DEF e
      <4>4. reg'[a][b] = None
        BY <2>1, <4>1
      <4> QED BY <2>2, <4>1, <4>3, <4>4
    <3>6. CASE ~(now' > e.until)
      <4>1. Get(a) = e.map /\ Get(a)' = e.map
        BY <1>1, <2>4, <3>2, <3>6 DEF Get, IsExpired
      <4>2. \A x \in DOMAIN e.map : now > e.map[x].until => now' > e.map[x].until
        BY <1>1, <3>2
      <4> HIDE DEF e
      <4> QED BY <2>1, <2>2, <3>3, <4>1, <4>2
    <3> QED BY <1>1, <3>2, <3>4, <3>5, <3>6
  <2> QED BY <2>3, <2>4
<1>3. g = [a \in Aor |-> [b \in Bid |-> g[a][b]]]
  OBVIOUS
<1> HIDE DEF g
<1>4. reg' = g
  BY <1>2, <1>3, RegIsMap, RegEqual
<1> QED BY <1>1, <1>4 DEF R!Tick, reg, g

\* An address whose entry a step leaves alone, at the same time.
LEMMA OthersKept ==
    ASSUME now' = now, NEW a \in Aor, items'[a] = items[a]
    PROVE  \A b \in Bid : reg'[a][b] = reg[a][b]
BY DEF reg, Lookup, Get, IsExpired

\* An entry that Set has just stored is found.
LEMMA SetFound ==
    ASSUME LocInv, now' = now, NEW a \in Aor, NEW D \in SUBSET Bid,
           NEW map \in [D -> Binding], NEW until \in Nat, until >= now,
           Set(a, map, until)
    PROVE  /\ \A b \in Bid : reg'[a][b] =
                 IF b \in D /\ ~(now > map[b].until) THEN map[b] ELSE None
           /\ \A x \in Aor \ {a} : \A b \in Bid : reg'[x][b] = reg[x][b]
<1> DEFINE e == [map |-> map, until |-> until]
<1>1. items'[a] = e /\ \A x \in Aor \ {a} : items'[x] = items[x]
  BY DEF Set, LocInv, Shape
<1>2. e # None /\ e.map = map /\ e.until = until
  <2>1. e \in Item
    BY DEF Item
  <2> QED BY <2>1, NoneIsFresh
<1>3. Get(a)' = map
  BY <1>1, <1>2 DEF Get, IsExpired, LocInv, Shape
<1>4. \A x \in Aor \ {a} : \A b \in Bid : reg'[x][b] = reg[x][b]
  BY <1>1, OthersKept
<1>5. reg'[a] = [b \in Bid |-> IF b \in DOMAIN Get(a)'
                                   /\ ~(now' > Get(a)'[b].until)
                                THEN Get(a)'[b] ELSE None]
  BY DEF reg, Lookup, IsExpired
<1> QED BY <1>3, <1>4, <1>5

LEMMA RegisterRefines ==
    ASSUME LocInv, now' = now, NEW r \in Request, NEW c \in Contact,
           c.expires # 0, Acceptable(r, c), Register(r, c)
    PROVE  R!Next
<1> DEFINE until == now + Normalize(c.expires)
           x == [until |-> until, call |-> r.call, cseq |-> r.cseq]
           old == Get(r.aor)
           D == DOMAIN old \cup {c.bid}
           map == [b \in D |-> IF b = c.bid THEN x ELSE old[b]]
<1>1. /\ r.aor \in Aor /\ r.call \in CallId /\ r.cseq \in CSeq
      /\ c.bid \in Bid /\ c.expires \in Int
  BY RequestFields, Config DEF Config, Contact
<1>2. Normalize(c.expires) \in MinExpires..MaxExpires
  BY <1>1, NormalizeRange DEF Acceptable
<1>3. now \in Nat /\ MinExpires \in Nat /\ MaxExpires \in Nat
  BY Config DEF Config, LocInv, Shape
<1>4. /\ until \in (now + MinExpires)..(now + MaxExpires) /\ until \in Nat
      /\ until >= now /\ until <= now + MaxExpires
  BY <1>2, <1>3
<1>5. x.until = until /\ x.call = r.call /\ x.cseq = r.cseq
      /\ x \in Binding /\ x \in R!Binding
  BY <1>1, <1>4 DEF Binding, R!Binding
<1>6. /\ DOMAIN old \subseteq Bid
      /\ \A b \in DOMAIN old : /\ old[b] \in Binding /\ old[b].until \in Nat
                               /\ old[b].until <= now + MaxExpires
  BY <1>1, GetFields DEF LocInv
<1>7. Set(r.aor, map, Latest(map, x.until))
  BY DEF Register
<1>8. c.bid \in DOMAIN old => (old[c.bid].call = r.call => r.cseq > old[c.bid].cseq)
  BY DEF Acceptable, ValidateCSeq
<1>9. \A b \in Bid : reg[r.aor][b] =
         IF b \in DOMAIN old /\ ~(now > old[b].until) THEN old[b] ELSE None
  BY <1>1, LookupAt DEF IsExpired
<1> HIDE DEF x, old
<1>10. /\ D \in SUBSET Bid /\ map \in [D -> Binding] /\ DOMAIN map = D
       /\ map[c.bid] = x /\ c.bid \in D
       /\ \A b \in D \ {c.bid} : map[b] = old[b]
       /\ \A b \in Bid \ {c.bid} : b \in D <=> b \in DOMAIN old
       /\ \A b \in D : map[b].until \in Nat /\ map[b].until <= now + MaxExpires
  BY <1>1, <1>4, <1>5, <1>6
<1> HIDE DEF D, map, until
<1>11. now + MaxExpires \in Nat
  BY <1>3
<1>12. Latest(map, x.until) \in Nat /\ Latest(map, x.until) >= x.until
  BY <1>4, <1>5, <1>10, <1>11, LatestCovers
<1>13. Latest(map, x.until) >= now
  BY <1>3, <1>4, <1>5, <1>12
<1>14. /\ \A b \in Bid : reg'[r.aor][b] =
             IF b \in D /\ ~(now > map[b].until) THEN map[b] ELSE None
       /\ \A a \in Aor \ {r.aor} : \A b \in Bid : reg'[a][b] = reg[a][b]
  BY <1>1, <1>7, <1>10, <1>12, <1>13, SetFound
<1>15. reg'[r.aor][c.bid] = x
  BY <1>1, <1>3, <1>4, <1>5, <1>10, <1>14
<1>16. \A b \in Bid \ {c.bid} : reg'[r.aor][b] = reg[r.aor][b]
  BY <1>9, <1>10, <1>14
<1> DEFINE g == [reg EXCEPT ![r.aor][c.bid] = x]
<1>17. /\ g = [a \in Aor |-> [b \in Bid |-> g[a][b]]]
       /\ \A a \in Aor : \A b \in Bid : g[a][b] =
             IF a = r.aor /\ b = c.bid THEN x ELSE reg[a][b]
  BY <1>1, RegIsMap DEF reg, Lookup
<1> HIDE DEF g
<1>18. \A a \in Aor : \A b \in Bid : reg'[a][b] = g[a][b]
  BY <1>14, <1>15, <1>16, <1>17
<1>19. reg' = g
  BY <1>17, <1>18, RegIsMap, RegEqual
<1>20. reg[r.aor][c.bid] # None /\ reg[r.aor][c.bid].call = x.call
          => x.cseq > reg[r.aor][c.bid].cseq
  BY <1>1, <1>5, <1>8, <1>9
<1>21. R!Bind(r.aor, c.bid, x)
  BY <1>4, <1>5, <1>19, <1>20 DEF R!Bind, g, reg
<1> QED BY <1>1, <1>4, <1>21 DEF R!Next, x

LEMMA UnregisterRefines ==
    ASSUME LocInv, now' = now, NEW r \in Request, NEW c \in Contact,
           Unregister(r, c)
    PROVE  R!Next \/ reg' = reg
<1> DEFINE old == Get(r.aor)
           D == DOMAIN old \ {c.bid}
           map == [b \in D |-> old[b]]
<1>1. r.aor \in Aor /\ c.bid \in Bid
  BY RequestFields DEF Contact
<1>2. CASE c.bid \notin DOMAIN old
  <2>1. items' = items
    BY <1>2 DEF Unregister
  <2>2. \A a \in Aor : \A b \in Bid : reg'[a][b] = reg[a][b]
    BY <2>1, OthersKept
  <2> QED BY <2>2, RegIsMap, RegEqual
<1>3. CASE c.bid \in DOMAIN old
  <2>0. \A b \in Bid : reg[r.aor][b] =
           IF b \in DOMAIN old /\ ~(now > old[b].until) THEN old[b] ELSE None
    BY <1>1, LookupAt DEF IsExpired
  <2>1. /\ \A b \in Bid : reg'[r.aor][b] =
              IF b = c.bid THEN None ELSE reg[r.aor][b]
        /\ \A a \in Aor \ {r.aor} : \A b \in Bid : reg'[a][b] = reg[a][b]
    <3>1. CASE DOMAIN map = {}
      <4>1. items' = [items EXCEPT ![r.aor] = None]
        BY <1>3, <3>1 DEF Unregister, Delete
      <4>2. items'[r.aor] = None /\ \A a \in Aor \ {r.aor} : items'[a] = items[a]
        BY <1>1, <4>1 DEF LocInv, Shape
      <4>3. \A b \in Bid : reg'[r.aor][b] = None
        BY <1>1, <4>2 DEF reg, Lookup, Get
      <4>4. \A b \in Bid : b # c.bid => b \notin DOMAIN old
        BY <3>1
      <4> HIDE DEF old
      <4> QED BY <2>0, <4>2, <4>3, <4>4, OthersKept
    <3>2. CASE DOMAIN map # {}
      <4>1. Set(r.aor, map, Latest(map, now))
        BY <1>3, <3>2 DEF Unregister
      <4>2. /\ DOMAIN old \subseteq Bid
            /\ \A b \in DOMAIN old : /\ old[b] \in Binding /\ old[b].until \in Nat
                                     /\ old[b].until <= now + MaxExpires
        BY <1>1, GetFields DEF LocInv
      <4> HIDE DEF old
      <4>3. /\ D \in SUBSET Bid /\ map \in [D -> Binding] /\ DOMAIN map = D
            /\ c.bid \notin D
            /\ \A b \in Bid \ {c.bid} : b \in D <=> b \in DOMAIN old
            /\ \A b \in D : /\ map[b].until \in Nat /\ map[b] = old[b]
                            /\ map[b].until <= now + MaxExpires
        BY <4>2
      <4> HIDE DEF D, map
      <4>4. now \in Nat /\ now + MaxExpires \in Nat /\ now <= now + MaxExpires
        BY Config DEF Config, LocInv, Shape
      <4>5. Latest(map, now) \in Nat /\ Latest(map, now) >= now
        BY <4>3, <4>4, LatestCovers
      <4>6. /\ \A b \in Bid : reg'[r.aor][b] =
                  IF b \in D /\ ~(now > map[b].until) THEN map[b] ELSE None
            /\ \A a \in Aor \ {r.aor} : \A b \in Bid : reg'[a][b] = reg[a][b]
        BY <1>1, <4>1, <4>3, <4>5, SetFound
      <4> QED BY <2>0, <4>3, <4>6
    <3> QED BY <3>1, <3>2
  <2> DEFINE g == [reg EXCEPT ![r.aor][c.bid] = None]
  <2>2. /\ g = [a \in Aor |-> [b \in Bid |-> g[a][b]]]
        /\ \A a \in Aor : \A b \in Bid : g[a][b] =
              IF a = r.aor /\ b = c.bid THEN None ELSE reg[a][b]
    BY <1>1, RegIsMap DEF reg, Lookup
  <2> HIDE DEF g
  <2>3. \A a \in Aor : \A b \in Bid : reg'[a][b] = g[a][b]
    BY <2>1, <2>2
  <2>4. reg' = g
    BY <2>2, <2>3, RegIsMap, RegEqual
  <2>5. R!Unbind(r.aor, c.bid)
    BY <2>4 DEF R!Unbind, g, reg
  <2> QED BY <1>1, <2>5 DEF R!Next
<1> QED BY <1>2, <1>3

\* The wildcard removes every binding of its address.
LEMMA WildcardRefines ==
    ASSUME LocInv, NEW a \in Aor, ReceiveWildcard(a) PROVE R!UnbindAll(a)
<1>1. now' = now /\ items' = [items EXCEPT ![a] = None]
  BY DEF ReceiveWildcard, Delete
<1>2. items'[a] = None /\ \A x \in Aor \ {a} : items'[x] = items[x]
  BY <1>1 DEF LocInv, Shape
<1>3. /\ \A b \in Bid : reg'[a][b] = None
      /\ \A x \in Aor \ {a} : \A b \in Bid : reg'[x][b] = reg[x][b]
  <2>1. \A b \in Bid : reg'[a][b] = None
    BY <1>2 DEF reg, Lookup, Get
  <2> QED BY <1>1, <1>2, <2>1, OthersKept
<1> DEFINE g == [reg EXCEPT ![a] = [b \in Bid |-> None]]
<1>4. /\ g = [x \in Aor |-> [b \in Bid |-> g[x][b]]]
      /\ \A x \in Aor : \A b \in Bid : g[x][b] = IF x = a THEN None ELSE reg[x][b]
  BY RegIsMap DEF reg, Lookup
<1> HIDE DEF g
<1>5. \A x \in Aor : \A b \in Bid : reg'[x][b] = g[x][b]
  BY <1>3, <1>4
<1>6. reg' = g
  BY <1>4, <1>5, RegIsMap, RegEqual
<1> QED BY <1>1, <1>6 DEF R!UnbindAll, g, reg

\* The cleanup goroutine removes only what Get no longer returns.
LEMMA CleanupRefines ==
    ASSUME LocInv, Cleanup PROVE reg' = reg
<1>1. \A a \in Aor : \A b \in Bid : reg'[a][b] = reg[a][b]
  <2> SUFFICES ASSUME NEW a \in Aor PROVE \A b \in Bid : reg'[a][b] = reg[a][b]
    OBVIOUS
  <2>1. now' = now
        /\ items'[a] = IF items[a] # None /\ IsExpired(items[a].until)
                       THEN None ELSE items[a]
    BY DEF Cleanup
  <2>2. CASE items[a] # None /\ IsExpired(items[a].until)
    BY <2>1, <2>2 DEF reg, Lookup, Get
  <2>3. CASE ~(items[a] # None /\ IsExpired(items[a].until))
    BY <2>1, <2>3, OthersKept
  <2> QED BY <2>2, <2>3
<1> QED BY <1>1, RegIsMap, RegEqual

LEMMA StepRefines ==
    LocInv /\ [Next]_vars => [R!Next]_<<now, reg>>
<1> SUFFICES ASSUME LocInv, [Next]_vars PROVE R!Next \/ UNCHANGED <<now, reg>>
  OBVIOUS
<1>0. ASSUME now' = now, items' = items PROVE UNCHANGED <<now, reg>>
  <2>1. \A a \in Aor : \A b \in Bid : reg'[a][b] = reg[a][b]
    BY <1>0, OthersKept
  <2> QED BY <1>0, <2>1, RegIsMap, RegEqual
<1>1. CASE Cleanup
  BY <1>1, CleanupRefines DEF Cleanup
<1>2. CASE Tick
  BY <1>2, TickRefines DEF R!Next
<1>3. ASSUME NEW i \in Handler, Receive(i) PROVE UNCHANGED <<now, reg>>
  BY <1>0, <1>3 DEF Receive
<1>4. ASSUME NEW i \in Handler, HandleContact(i)
      PROVE  R!Next \/ UNCHANGED <<now, reg>>
  <2> DEFINE r == h[i]
             c == Head(h[i].contacts)
  <2>1. r \in Request /\ c \in Contact /\ now' = now
    BY <1>4, RequestFields DEF HandleContact, LocInv, Shape
  <2>2. \/ Unregister(r, c)
        \/ c.expires # 0 /\ Acceptable(r, c) /\ Register(r, c)
        \/ items' = items
    BY <1>4 DEF HandleContact
  <2> HIDE DEF r, c
  <2> QED BY <1>0, <2>1, <2>2, RegisterRefines, UnregisterRefines
<1>5. ASSUME NEW a \in Aor, ReceiveWildcard(a) PROVE R!Next
  BY <1>5, WildcardRefines DEF R!Next
<1>6. CASE UNCHANGED vars
  BY <1>0, <1>6 DEF vars
<1> QED BY <1>1, <1>2, <1>3, <1>4, <1>5, <1>6 DEF Next

\* The location service implements the registrar, for any number of
\* addresses, bindings, handlers and contacts per request.
THEOREM LocationRefines == Spec => ImplementsRegistrar
<1>1. Init => R!Init
  BY DEF Init, R!Init, Lookup, Get
<1>2. LocInv /\ [Next]_vars => [R!Next]_<<now, [a \in Aor |-> Lookup(a)]>>
  BY StepRefines DEF reg
<1> QED BY <1>1, <1>2, LocInvariant, PTL DEF Spec, R!Spec, ImplementsRegistrar

=============================================================================
