------------------------------ MODULE MCDialog ------------------------------
(* TLC instances of Dialog. *)
EXTENDS Dialog, TLC

CONSTANT c1

\* All INVITEs have the same Call-ID.
OneCall == [i \in Inv |-> c1]

\* Media sessions are interchangeable (safety runs only).
Symmetry == Permutations(Sid)

=============================================================================
