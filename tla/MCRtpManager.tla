---------------------------- MODULE MCRtpManager ----------------------------
(* TLC instances of RtpManager. *)
EXTENDS RtpManager, TLC

\* Ids are interchangeable (safety runs only).
Symmetry ==
    Permutations(Call) \cup Permutations(Sid) \cup Permutations(Bid)
        \cup Permutations(Pid)

=============================================================================
