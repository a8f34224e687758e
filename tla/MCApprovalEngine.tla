-------------------------- MODULE MCApprovalEngine --------------------------
(* ApprovalEngine on few users and callers. *)
EXTENDS ApprovalEngine, TLC

Symmetry == Permutations(Users) \cup Permutations(Threads)
=============================================================================
