--------------------------- MODULE MCSearchQueue ---------------------------
\* Two requirements for one part.  A vendor lists the part plainly and on tape
\* ("-TR"), and one listing names no vendor.
EXTENDS SearchQueue

CONSTANTS q1, q2, m, w1, w2, plain, tape, anonymous

OnePart == {m}
ThreeListings == {plain, tape, anonymous}
Stripped == [x \in ThreeListings |-> IF x = tape THEN plain ELSE x]
\* the key is that of the stripped part number, so tape and plain share it
UnderTheKey == [p \in OnePart |-> {plain, tape}]

\* One process, as deployed, sees everything; two see the plain listing at most,
\* nothing is cloned, and what they saved stays.
TwoSeeLess ==
  \/ Alone
  \/ /\ \A w \in Workers : found'[w] \subseteq {plain}
     /\ \A q \in Requirements : sightings'[q][plain] >= sightings[q][plain]
     /\ cloned' = cloned

MCSpec ==
  /\ Init /\ deployed \in {{w1}, {w1, w2}} /\ [][Next /\ TwoSeeLess]_vars
  /\ Fairness
=============================================================================
