------------------------------ MODULE Registrar ------------------------------
(***************************************************************************)
(* What the location service promises (location/interface.go): a binding   *)
(* that was accepted is found until it expires or is removed, and a later  *)
(* registration of the same Call-ID never gives way to an earlier one.     *)
(***************************************************************************)
EXTENDS Naturals

CONSTANTS Aor, Bid, CallId, CSeq, MinExpires, MaxExpires, None

VARIABLES
    now,
    reg   \* reg[a][b]: the binding b of address of record a, or None

Binding == [until : Nat, call : CallId, cseq : CSeq]

Init == now = 0 /\ reg = [a \in Aor |-> [b \in Bid |-> None]]

\* A binding is replaced by one of another Call-ID or with a higher CSeq.
Bind(a, b, x) ==
    /\ x \in Binding
    /\ x.until \in (now + MinExpires)..(now + MaxExpires)
    /\ reg[a][b] # None /\ reg[a][b].call = x.call => x.cseq > reg[a][b].cseq
    /\ reg' = [reg EXCEPT ![a][b] = x]
    /\ UNCHANGED now

Unbind(a, b) == reg' = [reg EXCEPT ![a][b] = None] /\ UNCHANGED now

UnbindAll(a) == reg' = [reg EXCEPT ![a] = [b \in Bid |-> None]]
                /\ UNCHANGED now

\* Time passes; the bindings it goes by are gone, and only those.
Tick ==
    /\ now' = now + 1
    /\ reg' = [a \in Aor |-> [b \in Bid |->
                 IF reg[a][b] # None /\ now' > reg[a][b].until
                 THEN None ELSE reg[a][b]]]

Next ==
    \/ \E a \in Aor : UnbindAll(a) \/ \E b \in Bid : Unbind(a, b)
    \/ \E a \in Aor, b \in Bid, call \in CallId, cseq \in CSeq,
          until \in (now + MinExpires)..(now + MaxExpires) :
          Bind(a, b, [until |-> until, call |-> call, cseq |-> cseq])
    \/ Tick

Spec == Init /\ [][Next]_<<now, reg>>
=============================================================================
