------------------------------ MODULE Resolver ------------------------------
(***************************************************************************)
(* How the target of a dial becomes the contact that is rung: the chain of *)
(* resolvers (b2bua/chain_resolver.go, direct_resolver.go,                 *)
(* user_resolver.go, lookup.go) over the lookups of the location store     *)
(* (location/store.go).  Every lookup takes the store's lock for itself,   *)
(* so registrations come and go between two of them.                       *)
(*                                                                         *)
(* A target is a kind (its prefix) and an extension, a user and a host, ""  *)
(* if it names none.  A registered address of record, the URI of a To      *)
(* header, always has its scheme: "sip:user@host", or "sip:user" for the   *)
(* host "".                                                                *)
(***************************************************************************)
EXTENDS Naturals

CONSTANTS
    Target,  \* dial targets that occur
    Reg,     \* bindings that occur: address of record, device and q-value in
             \* tenths, 0 if the device gave none
    Domain   \* UserResolver.domain

Address == [user : STRING, host : STRING]

ASSUME Targets == Target \subseteq [kind : STRING, ext : Address]
ASSUME Bindings == Reg \subseteq [aor : Address, dev : Nat, q : Nat]
ASSUME DomainIsHost == Domain \in STRING

\* DirectResolver.CanResolve; the URI itself is the only contact.
IsDirect(t) == t.kind = "sip"

\* UserResolver.CanResolve, for a target that is not empty; "gateway/" and
\* "trunk/" are for a resolver that does not exist.
IsUser(t) == t.kind \in {"user", "plain"}

\* buildAOR
BuildAOR(ext) == IF ext.host = "" THEN [ext EXCEPT !.host = Domain] ELSE ext

\* Store.LookupByUser: extractUserFromAOR against the whole extension.
LookupByUser(reg, ext) == {b \in reg : ext.host = "" /\ b.aor.user = ext.user}

Lookups == 4

\* Mutant: the fallback looks for the address once more.
LookupBindingsExact(reg, ext, k) ==
    CASE k = 1 -> {b \in reg : b.aor = BuildAOR(ext)}
      [] k = 2 -> {}
      [] k \in {3, 4} -> {b \in reg : b.aor = ext}

\* lookupBindings: the k-th lookup.  The second one asks for the extension
\* without a scheme, which no registered address is.
LookupBindings(reg, ext, k) ==
    CASE k = 1 -> {b \in reg : b.aor = BuildAOR(ext)}
      [] k = 2 -> {}
      [] k = 3 -> {b \in reg : b.aor = ext}
      [] k = 4 -> LookupByUser(reg, ext)

\* The contacts sorted by q-value, of which PrimaryContact is the first: any
\* of the highest, since neither the map nor sort.Slice has an order of its
\* own.  A binding without a q-value has the q-value 0 and comes last.
Primary(found) == {b \in found : \A x \in found : x.q <= b.q}

\* The documented priority, in tenths: a binding without a q-value counts as
\* 1.0 (location/interface.go:23, lookup.go:69, LookupOne of store.go).
Rank(b) == IF b.q = 0 THEN 10 ELSE b.q

\* A registration for the extension: that of its user, at its host if it
\* names one.
RegisteredFor(ext, b) == /\ b.aor.user = ext.user
                         /\ ext.host # "" => b.aor.host = ext.host
=============================================================================
