------------------------------ MODULE NoticeBoard ------------------------------
(***************************************************************************)
(* What the outbox promises to the owner of a decided request, who knows   *)
(* nothing of drains, retries and deaths of the process: every decision    *)
(* puts up an in-app notice and a mail, at once; the notice is seen        *)
(* once, when it is ticked off; the mail may come more than once, but      *)
(* only until it is ticked off; after Cap failures an item is given up.    *)
(***************************************************************************)
EXTENDS Naturals

CONSTANTS
    Shown,      \* items for the bell of the application
    Mailed,     \* items for the mailbox
    Cap         \* failures after which an item is given up

VARIABLES
    box,        \* item -> "none", "open" or "sent"
    strikes,    \* item -> failures counted against it
    got         \* item -> times the owner got it

boardVars == <<box, strikes, got>>

Items == Shown \cup Mailed

Init ==
    /\ box = [i \in Items |-> "none"]
    /\ strikes = [i \in Items |-> 0]
    /\ got = [i \in Items |-> 0]

Open(i) == box[i] = "open" /\ strikes[i] < Cap

Get(i) == got' = [got EXCEPT ![i] = @ + 1]

Announce(n, m) ==
    /\ box[n] = "none" /\ box[m] = "none"
    /\ box' = [box EXCEPT ![n] = "open", ![m] = "open"]
    /\ UNCHANGED <<strikes, got>>

Show(n) ==
    /\ Open(n)
    /\ box' = [box EXCEPT ![n] = "sent"]
    /\ Get(n)
    /\ UNCHANGED strikes

Mail(m) ==
    /\ Open(m)
    /\ Get(m)
    /\ UNCHANGED <<box, strikes>>

\* Ticked off, whether or not a mail went out.
TickOff(m) ==
    /\ Open(m)
    /\ box' = [box EXCEPT ![m] = "sent"]
    /\ UNCHANGED <<strikes, got>>

Strike(i) ==
    /\ Open(i)
    /\ strikes' = [strikes EXCEPT ![i] = @ + 1]
    /\ UNCHANGED box
    /\ \/ UNCHANGED got
       \/ i \in Mailed /\ Get(i)   \* a try that broke after the mail was out

Next ==
    \/ \E n \in Shown, m \in Mailed : Announce(n, m)
    \/ \E n \in Shown : Show(n)
    \/ \E m \in Mailed : Mail(m) \/ TickOff(m)
    \/ \E i \in Items : Strike(i)

Spec == Init /\ [][Next]_boardVars
=============================================================================
