--------------------------- MODULE MCApprovalOutbox ---------------------------
(* ApprovalOutbox with two decisions and small caps. *)
EXTENDS ApprovalOutbox
=============================================================================
