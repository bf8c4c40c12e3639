------------------------------ MODULE MCB2BUA ------------------------------
(* TLC instances of B2BUA. *)
EXTENDS B2BUA

=============================================================================
