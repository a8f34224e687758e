-------------------------------- MODULE LotSale --------------------------------
(***************************************************************************)
(* What the resale desk promises about one posted list: every line has at  *)
(* most one buyer, a buyer is given or loses all it bid for at once, and   *)
(* when the list is dead what was sold stays sold and nothing more is.     *)
(***************************************************************************)

CONSTANTS
    Lines,      \* the lines a list may hold
    Offers,     \* the bids
    NoBuyer     \* the buyer of an unsold line

VARIABLES
    buyer,      \* line -> the bid it is sold to
    dead        \* the list has ended for good

vars == <<buyer, dead>>

SoldTo(o) == {l \in Lines : buyer[l] = o}

Init ==
    /\ buyer = [l \in Lines |-> NoBuyer]
    /\ dead = FALSE

\* Lot S, all of it unsold, goes to a bid that holds nothing yet.
Sell(o, S) ==
    /\ ~dead
    /\ SoldTo(o) = {}
    /\ \A l \in S : buyer[l] = NoBuyer
    /\ buyer' = [l \in Lines |-> IF l \in S THEN o ELSE buyer[l]]
    /\ UNCHANGED dead

\* The sale to o is reversed, whole.
Release(o) ==
    /\ ~dead
    /\ SoldTo(o) # {}
    /\ buyer' = [l \in Lines |-> IF buyer[l] = o THEN NoBuyer ELSE buyer[l]]
    /\ UNCHANGED dead

End ==
    /\ ~dead
    /\ dead' = TRUE
    /\ UNCHANGED buyer

Next ==
    \/ \E o \in Offers : Release(o) \/ \E S \in (SUBSET Lines) \ {{}} : Sell(o, S)
    \/ End

Spec == Init /\ [][Next]_vars
=============================================================================
