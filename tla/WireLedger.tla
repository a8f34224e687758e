------------------------------ MODULE WireLedger ------------------------------
(***************************************************************************)
(* What the buy-plan workflow promises to the accountant who wires money   *)
(* to vendors and sees neither plans nor approval requests: a line has one *)
(* wire on its way at most; nothing is asked for or authorised once the    *)
(* plan is dead, and the plan dies together with every wire still to be    *)
(* sent; what went out comes back only by a correction.                    *)
(***************************************************************************)
CONSTANTS Wires, Lines,
          NoLine    \* the line of a wire whose line was deleted

VARIABLES
    wire,   \* wire -> "none", "asked", "authorised", "out" or "off"
    payee,  \* wire -> the line it pays for
    dead    \* the plan is halted, cancelled or completed

ledgerVars == <<wire, payee, dead>>

Init ==
    /\ wire = [w \in Wires |-> "none"]
    /\ payee = [w \in Wires |-> NoLine]
    /\ dead = FALSE

Live(w) == wire[w] \in {"asked", "authorised", "out"}

Ask(w, l) ==
    /\ ~dead
    /\ wire[w] = "none"
    /\ \A v \in Wires : payee[v] = l => ~Live(v)
    /\ wire' = [wire EXCEPT ![w] = "asked"]
    /\ payee' = [payee EXCEPT ![w] = l]
    /\ UNCHANGED dead

Become(w, state) ==
    /\ wire' = [wire EXCEPT ![w] = state]
    /\ UNCHANGED <<payee, dead>>

Authorise(w) == ~dead /\ wire[w] = "asked" /\ Become(w, "authorised")
Refuse(w)    == ~dead /\ wire[w] = "asked" /\ Become(w, "off")
Send(w)      == wire[w] = "authorised" /\ Become(w, "out")

\* The wire was recorded as sent by mistake.
Correct(w)   == wire[w] = "out" /\ Become(w, "authorised")

StandDown(S) ==
    wire' = [w \in Wires |-> IF w \in S /\ wire[w] \in {"asked", "authorised"}
                             THEN "off" ELSE wire[w]]

Forget(D) == payee' = [w \in Wires |-> IF payee[w] \in D THEN NoLine ELSE payee[w]]

\* The plan dies, perhaps with the deletion of its last open lines.
Die(D) ==
    /\ StandDown(Wires)
    /\ Forget(D)
    /\ dead' = TRUE

\* The vendor is dropped for the lines of T, or for none of them; a dead plan
\* comes back to life.
Recall(T) ==
    /\ StandDown({w \in Wires : payee[w] \in T})
    /\ dead' = FALSE
    /\ UNCHANGED payee

\* The lines of D are deleted; a halted plan may be edited too.
Drop(D) ==
    /\ Forget(D)
    /\ UNCHANGED <<wire, dead>>

Next ==
    \/ \E L \in SUBSET Lines : Drop(L) \/ Recall(L) \/ Die(L)
    \/ \E w \in Wires : \/ \E l \in Lines : Ask(w, l)
                        \/ Authorise(w) \/ Refuse(w) \/ Send(w) \/ Correct(w)

Spec == Init /\ [][Next]_ledgerVars

\* A line has one wire asked for, authorised or out at most.
OneLiveWire ==
    \A v, w \in Wires :
        payee[v] = payee[w] /\ payee[v] # NoLine /\ Live(v) /\ Live(w) => v = w
=============================================================================
