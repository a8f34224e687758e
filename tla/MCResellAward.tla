---------------------------- MODULE MCResellAward ----------------------------
(* ResellAward with two lines, three bids and one bidder on bid sheets. *)
EXTENDS ResellAward
=============================================================================
