------------------------------- MODULE MCDrain -------------------------------
(* TLC instances of Drain: a and b are the legs of a bridged call. *)
EXTENDS Drain, TLC

CONSTANTS a, b

MCPeer == [x \in Call |-> IF x = a THEN b ELSE None]

\* RTP managers and drains are interchangeable (safety runs only).
Symmetry == Permutations(Node) \cup Permutations(DrainOp)
=============================================================================
