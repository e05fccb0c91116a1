----------------------------- MODULE MCApproval -----------------------------
(* The instance of Approval for TLC: two requests at a time, two threads,   *)
(* which are interchangeable among themselves.                              *)
EXTENDS Approval, TLC

CONSTANTS r1, r2, t1, t2

MCRequests == {r1, r2}
MCThreads == {t1, t2}
Symmetry == Permutations(MCRequests) \cup Permutations(MCThreads)

=============================================================================
