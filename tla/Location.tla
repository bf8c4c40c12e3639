------------------------------- MODULE Location -------------------------------
(***************************************************************************)
(* The location service: the store of bindings (location/store.go) on top  *)
(* of a map with expiry (store/ttlstore.go), and the REGISTER handler      *)
(* (routing/register.go).  An address of record has one entry in the map,  *)
(* whose value is the map of its bindings and whose own expiry must cover  *)
(* all of them.  The handler takes the contacts of a request one by one,   *)
(* each under the store's lock; requests are handled concurrently and may  *)
(* arrive in any order.                                                    *)
(***************************************************************************)
EXTENDS Integers, Sequences, FiniteSetsExt

CONSTANTS
    Aor, Bid, CallId,
    CSeq,         \* sequence numbers that occur
    Expires,      \* values of the expires parameter that occur
    DefaultExpires, MinExpires, MaxExpires,
    Handler,      \* goroutines handling requests
    MaxContacts,  \* contacts of a request (bound)
    MaxTime,      \* bound of the clock
    None

ASSUME Config ==
    /\ MinExpires \in Nat /\ DefaultExpires \in Nat /\ MaxExpires \in Nat
    /\ 0 < MinExpires /\ MinExpires <= DefaultExpires
    /\ DefaultExpires <= MaxExpires
    /\ CSeq \subseteq Nat /\ Expires \subseteq Int
    /\ MaxContacts \in Nat /\ MaxTime \in Nat

VARIABLES
    now,    \* the clock
    items,  \* TTLStore.items: entry of an address of record, or None
    h       \* the request a handler is at, with the contacts left, or None

vars == <<now, items, h>>

Binding == [until : Nat, call : CallId, cseq : CSeq]

\* An entry of the map: the bindings of its address and its own expiry.
Item == [map : UNION {[D -> Binding] : D \in SUBSET Bid}, until : Nat]

\* A contact names a binding; expires is what getExpires makes of its
\* parameter, of the Expires header or of neither.
Contact == [bid : Bid, expires : Expires]

Request == [aor : Aor, call : CallId, cseq : CSeq,
            contacts : UNION {[1..k -> Contact] : k \in 1..MaxContacts}]

ASSUME NoneIsFresh == None \notin Binding \cup Item \cup Request

Init ==
    /\ now = 0
    /\ items = [a \in Aor |-> None]
    /\ h = [i \in Handler |-> None]

-----------------------------------------------------------------------------
(* TTLStore *)

IsExpired(until) == now > until

\* Get: the map of an entry that is there and has not expired; no map is the
\* empty one.
Get(a) == IF items[a] = None \/ IsExpired(items[a].until)
          THEN [b \in {} |-> None] ELSE items[a].map

Set(a, map, until) ==
    items' = [items EXCEPT ![a] = [map |-> map, until |-> until]]

Delete(a) == items' = [items EXCEPT ![a] = None]

\* The cleanup goroutine.
Cleanup ==
    /\ \E a \in Aor : items[a] # None /\ IsExpired(items[a].until)
    /\ items' = [a \in Aor |-> IF items[a] # None /\ IsExpired(items[a].until)
                               THEN None ELSE items[a]]
    /\ UNCHANGED <<now, h>>

-----------------------------------------------------------------------------
(* Store *)

\* The expiry of an entry: the latest of its bindings'.
Latest(map, from) == Max({from} \cup {map[b].until : b \in DOMAIN map})

\* Mutant: a request that is seen again is accepted again.
ValidateCSeqRepeat(x, call, cseq) == x.call = call => cseq >= x.cseq

ValidateCSeq(x, call, cseq) == x.call = call => cseq > x.cseq

\* Mutant: no upper limit.
NormalizeUncapped(e) == IF e <= 0 THEN DefaultExpires ELSE e

Normalize(e) == IF e <= 0 THEN DefaultExpires
                ELSE IF e > MaxExpires THEN MaxExpires ELSE e

TooBrief(e) == e > 0 /\ e < MinExpires

\* An expired binding still in the map has its say on the CSeq, too.
Acceptable(r, c) ==
    LET map == Get(r.aor) IN
    /\ ~TooBrief(c.expires)
    /\ c.bid \in DOMAIN map => ValidateCSeq(map[c.bid], r.call, r.cseq)

\* Mutant: the entry lives as long as the binding just stored.
RegisterOwnTTL(r, c) ==
    LET x == [until |-> now + Normalize(c.expires), call |-> r.call,
              cseq |-> r.cseq]
        old == Get(r.aor)
        map == [b \in DOMAIN old \cup {c.bid} |->
                  IF b = c.bid THEN x ELSE old[b]]
    IN
    Set(r.aor, map, x.until)

Register(r, c) ==
    LET x == [until |-> now + Normalize(c.expires), call |-> r.call,
              cseq |-> r.cseq]
        old == Get(r.aor)
        map == [b \in DOMAIN old \cup {c.bid} |->
                  IF b = c.bid THEN x ELSE old[b]]
    IN
    Set(r.aor, map, Latest(map, x.until))

\* Unregister asks for no CSeq.
Unregister(r, c) ==
    LET old == Get(r.aor)
        map == [b \in DOMAIN old \ {c.bid} |-> old[b]]
    IN
    IF c.bid \notin DOMAIN old THEN UNCHANGED items
    ELSE IF DOMAIN map = {} THEN Delete(r.aor)
    ELSE Set(r.aor, map, Latest(map, now))

\* Lookup: the bindings of an address that have not expired.
Lookup(a) == [b \in Bid |-> IF b \in DOMAIN Get(a)
                               /\ ~IsExpired(Get(a)[b].until)
                            THEN Get(a)[b] ELSE None]

-----------------------------------------------------------------------------
(* HandleRegister *)

\* A request with contacts arrives.  (Queries and bad wildcards change
\* nothing.)
Receive(i) ==
    /\ h[i] = None
    /\ \E r \in Request : h' = [h EXCEPT ![i] = r]
    /\ UNCHANGED <<now, items>>

\* Contact: * on its own, with Expires: 0.
ReceiveWildcard(a) ==
    /\ Delete(a)
    /\ UNCHANGED <<now, h>>

\* The handler is done with a contact.
Advance(i) ==
    LET rest == Tail(h[i].contacts) IN
    h' = [h EXCEPT ![i] = IF Len(@.contacts) = 1 THEN None
                          ELSE [@ EXCEPT !.contacts = rest]]

\* The next contact.  A refused one ends the request; those before it stay.
HandleContact(i) ==
    LET r == h[i]
        c == Head(r.contacts)
    IN
    /\ r # None
    /\ \/ /\ c.expires = 0
          /\ Unregister(r, c)
          /\ Advance(i)
       \/ /\ c.expires # 0
          /\ Acceptable(r, c)
          /\ Register(r, c)
          /\ Advance(i)
       \/ /\ c.expires # 0
          /\ ~Acceptable(r, c)
          /\ h' = [h EXCEPT ![i] = None]
          /\ UNCHANGED items
    /\ UNCHANGED now

Tick ==
    /\ now < MaxTime
    /\ now' = now + 1
    /\ UNCHANGED <<items, h>>

Next == \/ Cleanup \/ Tick
        \/ \E i \in Handler : Receive(i) \/ HandleContact(i)
        \/ \E a \in Aor : ReceiveWildcard(a)

Spec == Init /\ [][Next]_vars

-----------------------------------------------------------------------------
\* Bindings and handlers are what they should be, and no binding outlives the
\* configured maximum.
TypeOK ==
    /\ now \in 0..MaxTime
    /\ \A i \in Handler : h[i] # None => h[i] \in Request
    /\ \A a \in Aor : items[a] # None =>
         \A b \in DOMAIN items[a].map :
            /\ b \in Bid
            /\ items[a].map[b] \in Binding
            /\ items[a].map[b].until <= now + MaxExpires

\* The entry of an address never expires, and is never cleaned up, before a
\* binding in it: whatever order registrations with different lifetimes,
\* removals and cleanups come in.
EntryCovers == \A a \in Aor : items[a] # None =>
    \A b \in DOMAIN items[a].map :
       ~IsExpired(items[a].map[b].until)
         => items[a].map[b].until <= items[a].until

R == INSTANCE Registrar WITH reg <- [a \in Aor |-> Lookup(a)]

\* The store and the handler implement the registrar: at every moment Lookup
\* returns exactly the accepted bindings that are neither expired, removed
\* nor replaced, and none is replaced by an earlier one of its Call-ID.
ImplementsRegistrar == R!Spec
=============================================================================
