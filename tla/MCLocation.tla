------------------------------ MODULE MCLocation ------------------------------
(* TLC instances of Location. *)
EXTENDS Location, TLC

\* A negative value, removal, too brief, allowed, too long.
MCExpires == {-1, 0, 1, 2, 5}

Symmetry == Permutations(Bid) \cup Permutations(CallId)
            \cup Permutations(Handler)
=============================================================================
