--------------------------- MODULE ResellAwardProofs ---------------------------
(***************************************************************************)
(* Proofs about ResellAward for every set of lines and bidders and every   *)
(* number of bids.                                                         *)
(***************************************************************************)
EXTENDS ResellAward, TLAPS

\* A draft has no bids, no sales and no bid later than its deadline.
DraftInv ==
    listStatus \in {"draft", "deleted"} =>
        /\ awarded = {}
        /\ mirrored = {}
        /\ \A o \in Offers : offerStatus[o] = "none" /\ matched[o] = {}

\* Bids are matched to lines the list has.
MatchedInv == \A o \in Offers : matched[o] \subseteq lines

\* Only bids that exist are later than a deadline, and that has passed.
AfterInv ==
    \A o \in after : closeAt = "past" /\ offerStatus[o] # "none" /\ offerStatus[o] # "open"

BaseInv == TypeOK /\ DraftInv /\ MatchedInv

\* The row of a new bid is written: what the four ways in have in common.
Landing(o, sc, mt, b, superseded) ==
    /\ listStatus \notin {"draft", "deleted"}
    /\ offerStatus[o] = "none"
    /\ \A p \in superseded : offerStatus[p] \in InPlay
    /\ Land(o, sc, mt, b, superseded)

\* The steps of the list, with the four ways in as one.
Step ==
    \/ \E S \in SUBSET Lines : AddLines(S)
    \/ \E l \in Lines : DeleteLine(l)
    \/ SetDeadline
    \/ DeleteList
    \/ PublishList
    \/ DeadlinePasses
    \/ \E o \in Offers, sc \in {"per_line", "take_all"}, mt \in SUBSET lines,
          b \in Bidders \cup {NoBidder}, superseded \in SUBSET Offers :
          Landing(o, sc, mt, b, superseded)
    \/ \E o \in Offers : WithdrawOffer(o)
    \/ \E o \in Offers, l \in Lines : AssignOfferLine(o, l)
    \/ \E o \in Offers : AwardOffer(o)
    \/ \E o \in Offers : UnawardOffer(o)
    \/ \E target \in {"bid_out", "closed"} : EndPostingWindow(target)
    \/ Expire

-----------------------------------------------------------------------------
\* Every step of the specification is one of these.
LEMMA StepOfNext ==
    ASSUME Next
    PROVE  Step
<1>1. ASSUME NEW o \in Offers, BidStep(o)
      PROVE  Step
  <2>1. CASE SubmitTakeAll(o)
    <3>1. Landing(o, "take_all", {}, NoBidder, {})
      BY <2>1 DEF SubmitTakeAll, Landing, Fresh, Posted
    <3> QED
      BY <3>1 DEF Step
  <2>2. ASSUME NEW mt \in SUBSET lines, SubmitPerLine(o, mt) \/ LinkReply(o, mt)
        PROVE  Step
    <3>1. Landing(o, "per_line", mt, NoBidder, {})
      BY <2>2 DEF SubmitPerLine, LinkReply, Landing, Fresh, Posted
    <3> QED
      BY <3>1 DEF Step
  <2>3. ASSUME NEW mt \in SUBSET lines, NEW b \in Bidders, UploadBid(o, mt, b)
        PROVE  Step
    <3>1. CASE Land(o, "per_line", mt, b, {})
      <4>1. Landing(o, "per_line", mt, b, {})
        BY <2>3, <3>1 DEF UploadBid, Landing, Fresh, Posted
      <4> QED
        BY <4>1 DEF Step
    <3>2. ASSUME NEW p \in Supersedable(b), Land(o, "per_line", mt, b, {p})
          PROVE  Step
      <4>1. Landing(o, "per_line", mt, b, {p})
        BY <2>3, <3>2 DEF UploadBid, Landing, Fresh, Posted, Supersedable
      <4>2. {p} \in SUBSET Offers
        BY DEF Supersedable
      <4> QED
        BY <4>1, <4>2 DEF Step
    <3> QED
      BY <2>3, <3>1, <3>2 DEF UploadBid
  <2>4. CASE WithdrawOffer(o)
    BY <2>4 DEF Step
  <2>5. ASSUME NEW l \in Lines, AssignOfferLine(o, l)
        PROVE  Step
    BY <2>5 DEF Step
  <2> QED
    BY <1>1, <2>1, <2>2, <2>3, <2>4, <2>5 DEF BidStep
<1>2. CASE DraftStep
  BY <1>2 DEF DraftStep, Step
<1>3. CASE CloseList \/ CloseListWithoutBid
  BY <1>3 DEF CloseList, CloseListWithoutBid, Step
<1> QED
  BY <1>1, <1>2, <1>3 DEF Next, Step

\* A revived bid is open or late.
LEMMA RevivedType ==
    ASSUME NEW o, NEW aw, NEW competitor
    PROVE  RevivedStatus(o, aw, competitor) \in InPlay
  BY DEF RevivedStatus, InPlay

\* The types are kept.
LEMMA TypeStep ==
    ASSUME BaseInv, Step
    PROVE  TypeOK'
<1> USE DEF BaseInv, TypeOK, listVars, lineVars, offerVars, Unresolved, Closed, RollsUp
<1>1. ASSUME NEW S \in SUBSET Lines, AddLines(S)
      PROVE  TypeOK'
  BY <1>1 DEF AddLines
<1>2. ASSUME NEW l \in Lines, DeleteLine(l)
      PROVE  TypeOK'
  BY <1>2 DEF DeleteLine, DraftInv
<1>3. CASE SetDeadline
  BY <1>3 DEF SetDeadline
<1>4. CASE DeleteList
  BY <1>4 DEF DeleteList
<1>5. CASE PublishList
  BY <1>5 DEF PublishList, Synced
<1>6. CASE DeadlinePasses
  BY <1>6 DEF DeadlinePasses
<1>7. ASSUME NEW o \in Offers, NEW sc \in {"per_line", "take_all"},
             NEW mt \in SUBSET lines, NEW b \in Bidders \cup {NoBidder},
             NEW superseded \in SUBSET Offers, Landing(o, sc, mt, b, superseded)
      PROVE  TypeOK'
  <2>1. offerStatus' \in [Offers -> {"none", "lost", "withdrawn"} \cup RollsUp]
    BY <1>7 DEF Landing, Land, StatusForList
  <2>2. counted' \in [Lines -> SUBSET Offers]
    BY <1>7 DEF Landing, Land, Recompute
  <2>3. /\ scope' \in [Offers -> {"per_line", "take_all"}]
        /\ matched' \in [Offers -> SUBSET Lines]
        /\ bidder' \in [Offers -> Bidders \cup {NoBidder}]
    BY <1>7 DEF Landing, Land
  <2> QED
    BY <1>7, <2>1, <2>2, <2>3 DEF Landing, Land
<1>8. ASSUME NEW o \in Offers, WithdrawOffer(o)
      PROVE  TypeOK'
  BY <1>8 DEF WithdrawOffer, Recompute
<1>9. ASSUME NEW o \in Offers, NEW l \in Lines, AssignOfferLine(o, l)
      PROVE  TypeOK'
  <2>1. matched' \in [Offers -> SUBSET Lines]
    BY <1>9 DEF AssignOfferLine
  <2>2. counted' \in [Lines -> SUBSET Offers]
    BY <1>9 DEF AssignOfferLine, Recompute
  <2> QED
    BY <1>9, <2>1, <2>2 DEF AssignOfferLine
<1>10. ASSUME NEW o \in Offers, AwardOffer(o)
       PROVE  TypeOK'
  <2>1. offerStatus' \in [Offers -> {"none", "lost", "withdrawn"} \cup RollsUp]
    BY <1>10 DEF AwardOffer
  <2>2. counted' \in [Lines -> SUBSET Offers]
    BY <1>10 DEF AwardOffer, Recompute
  <2>3. awarded' \in SUBSET lines
    BY <1>10 DEF AwardOffer, ScopeOf, MatchedInv
  <2>4. mirrored' \in SUBSET Lines
    BY <1>10 DEF AwardOffer, Synced
  <2> QED
    BY <1>10, <2>1, <2>2, <2>3, <2>4 DEF AwardOffer, StatusAfterAward
<1>11. ASSUME NEW o \in Offers, UnawardOffer(o)
       PROVE  TypeOK'
  <2>1. offerStatus' \in [Offers -> {"none", "lost", "withdrawn"} \cup RollsUp]
    BY <1>11, RevivedType DEF UnawardOffer, InPlay
  <2>2. counted' \in [Lines -> SUBSET Offers]
    BY <1>11 DEF UnawardOffer, Recompute
  <2>3. mirrored' \in SUBSET Lines
    BY <1>11 DEF UnawardOffer, MirrorAfterUnaward, Synced
  <2> QED
    BY <1>11, <2>1, <2>2, <2>3 DEF UnawardOffer, StatusAfterUnaward
<1>12. ASSUME NEW target \in {"bid_out", "closed"}, EndPostingWindow(target)
       PROVE  TypeOK'
  BY <1>12 DEF EndPostingWindow, Synced
<1>13. CASE Expire
  BY <1>13 DEF Expire, StatusAfterExpiry, Synced
<1> QED
  BY <1>1, <1>2, <1>3, <1>4, <1>5, <1>6, <1>7, <1>8, <1>9, <1>10, <1>11,
     <1>12, <1>13 DEF Step

\* The draft stays empty of bids and the bids matched to lines of the list.
LEMMA BaseStep ==
    ASSUME BaseInv, Step
    PROVE  BaseInv'
<1>1. TypeOK'
  BY TypeStep
<1> USE DEF BaseInv, TypeOK, DraftInv, MatchedInv, listVars, lineVars, offerVars
<1>2. DraftInv' /\ MatchedInv'
  <2>1. ASSUME NEW S \in SUBSET Lines, AddLines(S)
        PROVE  DraftInv' /\ MatchedInv'
    BY <2>1 DEF AddLines
  <2>2. ASSUME NEW l \in Lines, DeleteLine(l)
        PROVE  DraftInv' /\ MatchedInv'
    BY <2>2 DEF DeleteLine
  <2>3. CASE SetDeadline \/ DeleteList \/ PublishList \/ DeadlinePasses
    BY <2>3 DEF SetDeadline, DeleteList, PublishList, DeadlinePasses
  <2>4. ASSUME NEW o \in Offers, NEW sc, NEW mt \in SUBSET lines, NEW b,
               NEW superseded \in SUBSET Offers, Landing(o, sc, mt, b, superseded)
        PROVE  DraftInv' /\ MatchedInv'
    BY <2>4 DEF Landing, Land
  <2>5. ASSUME NEW o \in Offers, WithdrawOffer(o)
        PROVE  DraftInv' /\ MatchedInv'
    BY <2>5 DEF WithdrawOffer, InPlay
  <2>6. ASSUME NEW o \in Offers, NEW l \in Lines, AssignOfferLine(o, l)
        PROVE  DraftInv' /\ MatchedInv'
    BY <2>6 DEF AssignOfferLine, InPlay
  <2>7. ASSUME NEW o \in Offers, AwardOffer(o)
        PROVE  DraftInv' /\ MatchedInv'
    BY <2>7 DEF AwardOffer, Awardable, InPlay, StatusAfterAward
  <2>8. ASSUME NEW o \in Offers, UnawardOffer(o)
        PROVE  DraftInv' /\ MatchedInv'
    BY <2>8 DEF UnawardOffer, StatusAfterUnaward
  <2>9. ASSUME NEW target \in {"bid_out", "closed"}, EndPostingWindow(target)
        PROVE  DraftInv' /\ MatchedInv'
    BY <2>9 DEF EndPostingWindow, Unresolved
  <2>10. CASE Expire
    BY <2>10 DEF Expire, StatusAfterExpiry, Overdue, Unresolved
  <2> QED
    BY <2>1, <2>2, <2>3, <2>4, <2>5, <2>6, <2>7, <2>8, <2>9, <2>10 DEF Step
<1> QED
  BY <1>1, <1>2

-----------------------------------------------------------------------------
(* Who has won what. *)

\* The sales on record are the same after the step.
SalesKept ==
    /\ awarded' = awarded
    /\ Won' = Won
    /\ \A o \in Won : ScopeOf(o)' = ScopeOf(o)

\* Only an award and its reversal touch the sales.
LEMMA StepKeepsSales ==
    ASSUME BaseInv, Step
    PROVE  \/ SalesKept
           \/ \E o \in Offers : AwardOffer(o)
           \/ \E o \in Offers : UnawardOffer(o)
<1> USE DEF BaseInv, TypeOK, SalesKept, Won, ScopeOf, listVars, lineVars, offerVars
<1>1. CASE (\E S \in SUBSET Lines : AddLines(S)) \/ (\E l \in Lines : DeleteLine(l))
  <2>1. Won = {}
    BY <1>1 DEF AddLines, DeleteLine, DraftInv
  <2> QED
    BY <1>1, <2>1 DEF AddLines, DeleteLine, DraftInv
<1>2. CASE SetDeadline \/ DeleteList \/ PublishList \/ DeadlinePasses \/ Expire
  BY <1>2 DEF SetDeadline, DeleteList, PublishList, DeadlinePasses, Expire
<1>3. ASSUME NEW o \in Offers, NEW sc, NEW mt \in SUBSET lines, NEW b,
             NEW superseded \in SUBSET Offers, Landing(o, sc, mt, b, superseded)
      PROVE  SalesKept
  BY <1>3 DEF Landing, Land, StatusForList, InPlay
<1>4. ASSUME NEW o \in Offers, WithdrawOffer(o)
      PROVE  SalesKept
  BY <1>4 DEF WithdrawOffer, InPlay
<1>5. ASSUME NEW o \in Offers, NEW l \in Lines, AssignOfferLine(o, l)
      PROVE  SalesKept
  BY <1>5 DEF AssignOfferLine, InPlay
<1>6. ASSUME NEW target \in {"bid_out", "closed"}, EndPostingWindow(target)
      PROVE  SalesKept
  BY <1>6 DEF EndPostingWindow
<1> QED
  BY <1>1, <1>2, <1>3, <1>4, <1>5, <1>6 DEF Step

\* An award adds one winner with lines nobody had.
LEMMA AwardSales ==
    ASSUME BaseInv, NEW o \in Offers, AwardOffer(o)
    PROVE  /\ o \notin Won
           /\ Won' = Won \cup {o}
           /\ awarded' = awarded \cup ScopeOf(o)
           /\ ScopeOf(o) # {}
           /\ ScopeOf(o) \cap awarded = {}
           /\ \A p \in Offers : ScopeOf(p)' = ScopeOf(p)
  BY DEF BaseInv, TypeOK, AwardOffer, Awardable, Losers, InPlay, Won, ScopeOf

\* A reversal takes one winner away with all its lines.
LEMMA UnawardSales ==
    ASSUME BaseInv, NEW o \in Offers, UnawardOffer(o)
    PROVE  /\ o \in Won
           /\ Won' = Won \ {o}
           /\ awarded' = awarded \ ScopeOf(o)
           /\ \A p \in Offers : ScopeOf(p)' = ScopeOf(p)
<1>1. \A p, aw, c : RevivedStatus(p, aw, c) \in InPlay
  BY RevivedType
<1> QED
  BY <1>1 DEF BaseInv, TypeOK, UnawardOffer, Revivable, InPlay, Won, ScopeOf

\* Every line keeps exactly one winner.
LEMMA WinnerStep ==
    ASSUME BaseInv, OneWinnerPerLine, Step
    PROVE  OneWinnerPerLine'
<1>1. CASE SalesKept
  BY <1>1 DEF SalesKept, OneWinnerPerLine
<1>2. ASSUME NEW o \in Offers, AwardOffer(o)
      PROVE  OneWinnerPerLine'
  <2> Won \subseteq Offers
    BY DEF Won
  <2> QED
    BY <1>2, AwardSales DEF OneWinnerPerLine
<1>3. ASSUME NEW o \in Offers, UnawardOffer(o)
      PROVE  OneWinnerPerLine'
  <2> Won \subseteq Offers
    BY DEF Won
  <2> QED
    BY <1>3, UnawardSales DEF OneWinnerPerLine
<1> QED
  BY <1>1, <1>2, <1>3, StepKeepsSales

\* The sweep leaves a list that sold something awardable.
LEMMA ExpiredStep ==
    ASSUME BaseInv, ExpiredIsUnsold, Step
    PROVE  ExpiredIsUnsold'
<1>1. CASE SalesKept
  <2>1. CASE listStatus = "expired"
    BY <1>1, <2>1 DEF SalesKept, ExpiredIsUnsold
  <2>2. CASE Expire
    BY <1>1, <2>2 DEF SalesKept, ExpiredIsUnsold, Expire, StatusAfterExpiry, Won
  <2>3. CASE listStatus # "expired" /\ ~Expire
    <3>1. listStatus' # "expired"
      BY <1>1, <2>3 DEF Step, AddLines, DeleteLine, SetDeadline, DeleteList, PublishList,
         DeadlinePasses, Landing, Land, WithdrawOffer, AssignOfferLine, AwardOffer,
         StatusAfterAward, UnawardOffer, StatusAfterUnaward, EndPostingWindow, listVars
    <3> QED
      BY <3>1 DEF ExpiredIsUnsold
  <2> QED
    BY <2>1, <2>2, <2>3
<1>2. ASSUME NEW o \in Offers, AwardOffer(o) \/ UnawardOffer(o)
      PROVE  ExpiredIsUnsold'
  BY <1>2 DEF AwardOffer, Awardable, StatusAfterAward, UnawardOffer, StatusAfterUnaward,
     Terminal, ExpiredIsUnsold
<1> QED
  BY <1>1, <1>2, StepKeepsSales

-----------------------------------------------------------------------------
(* Lost and late bids. *)

\* No step leaves a bid lost that could win a line.
LEMMA LostStep ==
    ASSUME BaseInv, OneWinnerPerLine, LostIsUnwinnable, Step
    PROVE  LostIsUnwinnable'
<1> USE DEF BaseInv, TypeOK, LostIsUnwinnable, listVars, lineVars, offerVars
<1>1. CASE \/ \E S \in SUBSET Lines : AddLines(S)
           \/ \E l \in Lines : DeleteLine(l)
           \/ SetDeadline \/ DeleteList \/ PublishList \/ DeadlinePasses \/ Expire
  BY <1>1 DEF AddLines, DeleteLine, SetDeadline, DeleteList, PublishList, DeadlinePasses, Expire
<1>2. ASSUME NEW o \in Offers, NEW sc, NEW mt \in SUBSET lines, NEW b,
             NEW superseded \in SUBSET Offers, Landing(o, sc, mt, b, superseded)
      PROVE  LostIsUnwinnable'
  <2>1. \A p \in Offers : offerStatus'[p] = "lost" => p # o /\ offerStatus[p] = "lost"
    BY <1>2 DEF Landing, Land, StatusForList
  <2>2. \A p \in Offers : p # o => scope'[p] = scope[p] /\ matched'[p] = matched[p]
    BY <1>2 DEF Landing, Land
  <2>3. awarded' = awarded
    BY <1>2 DEF Landing, Land
  <2> QED
    BY <2>1, <2>2, <2>3
<1>3. ASSUME NEW o \in Offers, WithdrawOffer(o)
      PROVE  LostIsUnwinnable'
  BY <1>3 DEF WithdrawOffer
<1>4. ASSUME NEW o \in Offers, NEW l \in Lines, AssignOfferLine(o, l)
      PROVE  LostIsUnwinnable'
  BY <1>4 DEF AssignOfferLine, InPlay
<1>5. ASSUME NEW o \in Offers, AwardOffer(o)
      PROVE  LostIsUnwinnable'
  BY <1>5 DEF AwardOffer, Awardable, Losers
<1>6. ASSUME NEW o \in Offers, UnawardOffer(o)
      PROVE  LostIsUnwinnable'
  <2>1. \A p \in Offers : offerStatus'[p] = "lost" =>
            offerStatus[p] = "lost" /\ p \notin Revivable(o, awarded \ ScopeOf(o)) /\ p # o
    BY <1>6, RevivedType DEF UnawardOffer, InPlay
  <2> QED
    BY <1>6, <2>1 DEF UnawardOffer, Revivable
<1>7. ASSUME NEW target \in {"bid_out", "closed"}, EndPostingWindow(target)
      PROVE  LostIsUnwinnable'
  BY <1>7 DEF EndPostingWindow
<1> QED
  BY <1>1, <1>2, <1>3, <1>4, <1>5, <1>6, <1>7 DEF Step

\* No step makes a bid on time that landed after the deadline on record.
LEMMA AfterStep ==
    ASSUME BaseInv, AfterInv, Step
    PROVE  AfterInv'
<1> USE DEF BaseInv, TypeOK, AfterInv, listVars, lineVars, offerVars
<1>1. CASE \/ \E S \in SUBSET Lines : AddLines(S)
           \/ \E l \in Lines : DeleteLine(l)
           \/ SetDeadline \/ DeleteList \/ PublishList
  BY <1>1 DEF AddLines, DeleteLine, SetDeadline, DeleteList, PublishList, DraftInv
<1>2. CASE DeadlinePasses \/ Expire
  BY <1>2 DEF DeadlinePasses, Expire
<1>3. ASSUME NEW o \in Offers, NEW sc, NEW mt \in SUBSET lines, NEW b,
             NEW superseded \in SUBSET Offers, Landing(o, sc, mt, b, superseded)
      PROVE  AfterInv'
  BY <1>3 DEF Landing, Land, StatusForList, WindowClosed
<1>4. ASSUME NEW o \in Offers, WithdrawOffer(o)
      PROVE  AfterInv'
  BY <1>4 DEF WithdrawOffer
<1>5. ASSUME NEW o \in Offers, NEW l \in Lines, AssignOfferLine(o, l)
      PROVE  AfterInv'
  BY <1>5 DEF AssignOfferLine
<1>6. ASSUME NEW o \in Offers, AwardOffer(o)
      PROVE  AfterInv'
  BY <1>6 DEF AwardOffer
<1>7. ASSUME NEW o \in Offers, UnawardOffer(o)
      PROVE  AfterInv'
  BY <1>7 DEF UnawardOffer, RevivedStatus
<1>8. ASSUME NEW target \in {"bid_out", "closed"}, EndPostingWindow(target)
      PROVE  AfterInv'
  BY <1>8 DEF EndPostingWindow
<1> QED
  BY <1>1, <1>2, <1>3, <1>4, <1>5, <1>6, <1>7, <1>8 DEF Step

\* A withdrawn bid stays withdrawn over a step.
LEMMA WithdrawnStep ==
    ASSUME BaseInv, Step, NEW o \in Offers, offerStatus[o] = "withdrawn"
    PROVE  offerStatus'[o] = "withdrawn"
<1> USE DEF BaseInv, TypeOK, listVars, lineVars, offerVars
<1>1. ASSUME NEW p \in Offers, NEW sc, NEW mt, NEW b, NEW superseded, Landing(p, sc, mt, b, superseded)
      PROVE  offerStatus'[o] = "withdrawn"
  BY <1>1 DEF Landing, Land
<1>2. ASSUME NEW p \in Offers, AwardOffer(p) \/ UnawardOffer(p) \/ WithdrawOffer(p)
      PROVE  offerStatus'[o] = "withdrawn"
  BY <1>2 DEF AwardOffer, Awardable, Losers, InPlay, UnawardOffer, Revivable, WithdrawOffer
<1> QED
  BY <1>1, <1>2 DEF Step, AddLines, DeleteLine, SetDeadline, DeleteList, PublishList,
     DeadlinePasses, AssignOfferLine, EndPostingWindow, Expire

-----------------------------------------------------------------------------
(* Rollups and mirror. *)

\* The bids a fresh rollup of line l counts.
LiveOn(l) == {o \in Offers : offerStatus[o] \in RollsUp /\ l \in matched[o]}

\* If the lines where the live bids change are rolled up, all are fresh.
LEMMA RecomputeFresh ==
    ASSUME RollupFresh, NEW S,
           counted' = [l \in Lines |-> IF l \in S THEN LiveOn(l)' ELSE counted[l]],
           \A l \in Lines \ S : LiveOn(l)' = LiveOn(l)
    PROVE  RollupFresh'
  BY DEF RollupFresh, LiveOn

\* Every step rolls up the lines it must.
LEMMA RollupStep ==
    ASSUME BaseInv, RollupFresh, Step
    PROVE  RollupFresh'
<1> USE DEF BaseInv, TypeOK, listVars, lineVars, offerVars
<1>1. CASE \/ \E S \in SUBSET Lines : AddLines(S)
           \/ \E l \in Lines : DeleteLine(l)
           \/ SetDeadline \/ DeleteList \/ PublishList \/ DeadlinePasses \/ Expire
           \/ \E target \in {"bid_out", "closed"} : EndPostingWindow(target)
  BY <1>1 DEF AddLines, DeleteLine, SetDeadline, DeleteList, PublishList, DeadlinePasses,
     Expire, EndPostingWindow, RollupFresh
<1>2. ASSUME NEW o \in Offers, NEW sc, NEW mt \in SUBSET lines, NEW b,
             NEW superseded \in SUBSET Offers, Landing(o, sc, mt, b, superseded)
      PROVE  RollupFresh'
  <2> DEFINE S == mt \cup UNION {matched[p] : p \in superseded}
  <2>1. counted' = [l \in Lines |-> IF l \in S THEN LiveOn(l)' ELSE counted[l]]
    BY <1>2 DEF Landing, Land, Recompute, LiveOn
  <2>2. ASSUME NEW l \in Lines \ S, NEW p \in Offers
        PROVE  (offerStatus'[p] \in RollsUp /\ l \in matched'[p])
                 <=> (offerStatus[p] \in RollsUp /\ l \in matched[p])
    <3>1. CASE p = o
      BY <1>2, <2>2, <3>1 DEF Landing, Land, RollsUp
    <3>2. CASE p # o /\ p \in superseded
      BY <1>2, <2>2, <3>2 DEF Landing, Land, RollsUp
    <3>3. CASE p # o /\ p \notin superseded
      BY <1>2, <2>2, <3>3 DEF Landing, Land
    <3> QED
      BY <3>1, <3>2, <3>3
  <2>3. \A l \in Lines \ S : LiveOn(l)' = LiveOn(l)
    BY <2>2 DEF LiveOn
  <2> QED
    BY <2>1, <2>3, RecomputeFresh
<1>3. ASSUME NEW o \in Offers, WithdrawOffer(o)
      PROVE  RollupFresh'
  <2>1. counted' = [l \in Lines |-> IF l \in matched[o] THEN LiveOn(l)' ELSE counted[l]]
    BY <1>3 DEF WithdrawOffer, Recompute, LiveOn
  <2>2. \A l \in Lines \ matched[o] : LiveOn(l)' = LiveOn(l)
    BY <1>3 DEF WithdrawOffer, LiveOn
  <2> QED
    BY <2>1, <2>2, RecomputeFresh
<1>4. ASSUME NEW o \in Offers, NEW l \in Lines, AssignOfferLine(o, l)
      PROVE  RollupFresh'
  <2>1. PICK from \in matched[o] \cup {l}, kept \in BOOLEAN :
            /\ matched' = [matched EXCEPT ![o] =
                              IF kept THEN @ \cup {l} ELSE (@ \ {from}) \cup {l}]
            /\ counted' = Recompute({from, l}, offerStatus, matched')
    BY <1>4 DEF AssignOfferLine
  <2>2. offerStatus' = offerStatus
    BY <1>4 DEF AssignOfferLine
  <2>3. counted' = [k \in Lines |-> IF k \in {from, l} THEN LiveOn(k)' ELSE counted[k]]
    BY <2>1, <2>2 DEF Recompute, LiveOn
  <2>4. \A k \in Lines \ {from, l} : LiveOn(k)' = LiveOn(k)
    BY <2>1, <2>2 DEF LiveOn
  <2> QED
    BY <2>3, <2>4, RecomputeFresh
<1>5. ASSUME NEW o \in Offers, AwardOffer(o)
      PROVE  RollupFresh'
  <2> DEFINE losers == Losers(o, awarded \cup ScopeOf(o))
             S == TouchedBy(o, losers)
  <2>1. counted' = [l \in Lines |-> IF l \in S THEN LiveOn(l)' ELSE counted[l]]
    BY <1>5 DEF AwardOffer, Recompute, LiveOn
  <2>2. ASSUME NEW l \in Lines \ S, NEW p \in Offers
        PROVE  (offerStatus'[p] \in RollsUp /\ l \in matched'[p])
                 <=> (offerStatus[p] \in RollsUp /\ l \in matched[p])
    <3>1. CASE p = o
      BY <1>5, <3>1 DEF AwardOffer, Awardable, InPlay, RollsUp
    <3>2. CASE p # o /\ p \in losers
      BY <1>5, <2>2, <3>2 DEF AwardOffer, TouchedBy, RollsUp
    <3>3. CASE p # o /\ p \notin losers
      BY <1>5, <3>3 DEF AwardOffer
    <3> QED
      BY <3>1, <3>2, <3>3
  <2>3. \A l \in Lines \ S : LiveOn(l)' = LiveOn(l)
    BY <2>2 DEF LiveOn
  <2> QED
    BY <2>1, <2>3, RecomputeFresh
<1>6. ASSUME NEW o \in Offers, UnawardOffer(o)
      PROVE  RollupFresh'
  <2> DEFINE revived == Revivable(o, awarded \ ScopeOf(o))
             S == TouchedBy(o, revived)
  <2>1. counted' = [l \in Lines |-> IF l \in S THEN LiveOn(l)' ELSE counted[l]]
    BY <1>6 DEF UnawardOffer, Recompute, LiveOn
  <2>2. ASSUME NEW l \in Lines \ S, NEW p \in Offers
        PROVE  (offerStatus'[p] \in RollsUp /\ l \in matched'[p])
                 <=> (offerStatus[p] \in RollsUp /\ l \in matched[p])
    <3>1. CASE p = o
      BY <1>6, <3>1, RevivedType DEF UnawardOffer, InPlay, RollsUp
    <3>2. CASE p # o /\ p \in revived
      BY <1>6, <2>2, <3>2 DEF UnawardOffer, TouchedBy, RollsUp, Revivable
    <3>3. CASE p # o /\ p \notin revived
      BY <1>6, <3>3 DEF UnawardOffer
    <3> QED
      BY <3>1, <3>2, <3>3
  <2>3. \A l \in Lines \ S : LiveOn(l)' = LiveOn(l)
    BY <2>2 DEF LiveOn
  <2> QED
    BY <2>1, <2>3, RecomputeFresh
<1> QED
  BY <1>1, <1>2, <1>3, <1>4, <1>5, <1>6 DEF Step

\* Every step that changes the lines for sale syncs the mirror.
LEMMA MirrorStep ==
    ASSUME BaseInv, MirrorTruth, Step
    PROVE  MirrorTruth'
<1> USE DEF BaseInv, TypeOK, MirrorTruth, Unresolved, listVars, lineVars, offerVars
<1>1. CASE \/ \E S \in SUBSET Lines : AddLines(S)
           \/ \E l \in Lines : DeleteLine(l)
           \/ SetDeadline \/ DeleteList \/ PublishList \/ DeadlinePasses
  <2>1. CASE (\E S \in SUBSET Lines : AddLines(S)) \/ (\E l \in Lines : DeleteLine(l))
    BY <1>1, <2>1 DEF AddLines, DeleteLine
  <2>2. CASE PublishList
    BY <2>2 DEF PublishList, Synced, Closed
  <2>3. CASE SetDeadline \/ DeleteList \/ DeadlinePasses
    BY <2>3 DEF SetDeadline, DeleteList, DeadlinePasses
  <2> QED
    BY <1>1, <2>1, <2>2, <2>3
<1>2. ASSUME NEW o \in Offers, NEW sc, NEW mt \in SUBSET lines, NEW b,
             NEW superseded \in SUBSET Offers, Landing(o, sc, mt, b, superseded)
      PROVE  MirrorTruth'
  BY <1>2 DEF Landing, Land
<1>3. ASSUME NEW o \in Offers, WithdrawOffer(o) \/ (\E l \in Lines : AssignOfferLine(o, l))
      PROVE  MirrorTruth'
  BY <1>3 DEF WithdrawOffer, AssignOfferLine
<1>4. ASSUME NEW o \in Offers, AwardOffer(o)
      PROVE  MirrorTruth'
  <2>1. listStatus \notin {"draft", "deleted"}
    BY <1>4 DEF AwardOffer, Awardable, InPlay, DraftInv
  <2> QED
    BY <1>4, <2>1 DEF AwardOffer, StatusAfterAward, Synced, Closed
<1>5. ASSUME NEW o \in Offers, UnawardOffer(o)
      PROVE  MirrorTruth'
  <2>1. listStatus \notin {"draft", "deleted"}
    BY <1>5 DEF UnawardOffer, DraftInv
  <2> QED
    BY <1>5, <2>1 DEF UnawardOffer, MirrorAfterUnaward, StatusAfterUnaward, Synced, Closed
<1>6. ASSUME NEW target \in {"bid_out", "closed"}, EndPostingWindow(target)
      PROVE  MirrorTruth'
  BY <1>6 DEF EndPostingWindow, Synced, Closed
<1>7. CASE Expire
  BY <1>7 DEF Expire, StatusAfterExpiry, Synced, Closed
<1> QED
  BY <1>1, <1>2, <1>3, <1>4, <1>5, <1>6, <1>7 DEF Step

-----------------------------------------------------------------------------
(* The sale. *)

\* The buyer of a line is its winner.
LEMMA BuyerIsWinner ==
    ASSUME OneWinnerPerLine, NEW o \in Won, NEW l \in ScopeOf(o)
    PROVE  BuyerOf(l) = o
<1>1. l \in awarded /\ \A p \in Won : l \in ScopeOf(p) => p = o
  BY DEF OneWinnerPerLine
<1>2. (CHOOSE p \in Won : l \in ScopeOf(p)) = o
  BY <1>1
<1> QED
  BY <1>1, <1>2 DEF BuyerOf

\* The same after a step.
LEMMA BuyerWillBeWinner ==
    ASSUME OneWinnerPerLine', NEW o \in Won', NEW l \in ScopeOf(o)'
    PROVE  BuyerOf(l)' = o
<1>1. l \in awarded' /\ \A p \in Won' : l \in ScopeOf(p)' => p = o
  BY DEF OneWinnerPerLine
<1>2. (CHOOSE p \in Won' : l \in ScopeOf(p)') = o
  BY <1>1
<1> QED
  BY <1>1, <1>2 DEF BuyerOf

\* A line is unsold, or has a winner who is its buyer and no bid besides.
LEMMA BuyerCases ==
    ASSUME OneWinnerPerLine, NEW l
    PROVE  \/ l \notin awarded /\ BuyerOf(l) = NoBuyer
           \/ \E o \in Won : l \in ScopeOf(o) /\ BuyerOf(l) = o
  BY BuyerIsWinner DEF OneWinnerPerLine, BuyerOf

\* A step that keeps the sales keeps every buyer.
LEMMA BuyersKept ==
    ASSUME OneWinnerPerLine, OneWinnerPerLine', SalesKept, NEW l
    PROVE  BuyerOf(l)' = BuyerOf(l)
<1>1. CASE l \notin awarded
  BY <1>1 DEF SalesKept, BuyerOf
<1>2. CASE l \in awarded
  <2>1. PICK o \in Won : l \in ScopeOf(o)
    BY <1>2 DEF OneWinnerPerLine
  <2>2. BuyerOf(l) = o
    BY <2>1, BuyerIsWinner
  <2>3. o \in Won' /\ l \in ScopeOf(o)'
    BY <2>1 DEF SalesKept
  <2> QED
    BY <2>2, <2>3, BuyerWillBeWinner
<1> QED
  BY <1>1, <1>2

\* An award sells the lot of one bid that held nothing.
LEMMA AwardSells ==
    ASSUME BaseInv, OneWinnerPerLine, OneWinnerPerLine', NEW o \in Offers, AwardOffer(o)
    PROVE  Sale!Sell(o, ScopeOf(o)) /\ ScopeOf(o) \in (SUBSET Lines) \ {{}}
<1>1. /\ o \notin Won
      /\ Won' = Won \cup {o}
      /\ awarded' = awarded \cup ScopeOf(o)
      /\ ScopeOf(o) # {}
      /\ ScopeOf(o) \cap awarded = {}
      /\ \A p \in Offers : ScopeOf(p)' = ScopeOf(p)
  BY AwardSales
<1>2. o # NoBuyer /\ Won \subseteq Offers
  BY ResellAssumption DEF Offers, Won
<1>3. \A l \in Lines : BuyerOf(l) # o
  BY <1>1, <1>2, BuyerCases
<1>4. \A l \in ScopeOf(o) : BuyerOf(l) = NoBuyer
  BY <1>1 DEF BuyerOf
<1>5. ASSUME NEW l \in ScopeOf(o)
      PROVE  BuyerOf(l)' = o
  BY <1>1, BuyerWillBeWinner
<1>6. ASSUME NEW l \in Lines \ ScopeOf(o)
      PROVE  BuyerOf(l)' = BuyerOf(l)
  <2>1. CASE l \in awarded
    <3>1. PICK p \in Won : l \in ScopeOf(p)
      BY <2>1 DEF OneWinnerPerLine
    <3>2. p \in Won' /\ l \in ScopeOf(p)'
      BY <1>1, <1>2, <3>1
    <3> QED
      BY <3>1, <3>2, BuyerIsWinner, BuyerWillBeWinner
  <2>2. CASE l \notin awarded
    BY <1>1, <1>6, <2>2 DEF BuyerOf
  <2> QED
    BY <2>1, <2>2
<1>7. listStatus \notin Terminal /\ listStatus' \notin Terminal
  BY DEF AwardOffer, Awardable, StatusAfterAward, Terminal
<1>8. ScopeOf(o) \in SUBSET Lines
  BY DEF BaseInv, TypeOK, MatchedInv, ScopeOf
<1>9. [l \in Lines |-> BuyerOf(l)'] =
        [l \in Lines |-> IF l \in ScopeOf(o) THEN o ELSE BuyerOf(l)]
  BY <1>5, <1>6
<1> QED
  BY <1>1, <1>3, <1>4, <1>7, <1>8, <1>9 DEF Sale!Sell, Sale!SoldTo

\* A reversal releases the lot of one winner.
LEMMA UnawardReleases ==
    ASSUME BaseInv, OneWinnerPerLine, OneWinnerPerLine', NEW o \in Offers, UnawardOffer(o)
    PROVE  Sale!Release(o)
<1>1. /\ o \in Won
      /\ Won' = Won \ {o}
      /\ awarded' = awarded \ ScopeOf(o)
      /\ \A p \in Offers : ScopeOf(p)' = ScopeOf(p)
  BY UnawardSales
<1>2. o # NoBuyer /\ Won \subseteq Offers
  BY ResellAssumption DEF Offers, Won
<1>3. ScopeOf(o) # {} /\ ScopeOf(o) \subseteq Lines
  BY <1>1 DEF OneWinnerPerLine, BaseInv, TypeOK, MatchedInv, ScopeOf
<1>4. \A l \in ScopeOf(o) : BuyerOf(l) = o
  BY <1>1, BuyerIsWinner
<1>5. \A l \in ScopeOf(o) : BuyerOf(l)' = NoBuyer
  BY <1>1 DEF BuyerOf
<1>6. ASSUME NEW l \in Lines \ ScopeOf(o)
      PROVE  BuyerOf(l)' = BuyerOf(l) /\ BuyerOf(l) # o
  <2>1. CASE l \in awarded
    <3>1. PICK p \in Won : l \in ScopeOf(p)
      BY <2>1 DEF OneWinnerPerLine
    <3>2. p # o /\ p \in Won' /\ l \in ScopeOf(p)'
      BY <1>1, <1>2, <1>6, <3>1
    <3> QED
      BY <3>1, <3>2, BuyerIsWinner, BuyerWillBeWinner
  <2>2. CASE l \notin awarded
    BY <1>1, <1>2, <2>2 DEF BuyerOf
  <2> QED
    BY <2>1, <2>2
<1>7. listStatus \notin Terminal /\ listStatus' \notin Terminal
  BY DEF UnawardOffer, StatusAfterUnaward, Terminal
<1>8. [l \in Lines |-> BuyerOf(l)'] =
        [l \in Lines |-> IF BuyerOf(l) = o THEN NoBuyer ELSE BuyerOf(l)]
  BY <1>4, <1>5, <1>6
<1>9. \E l \in Lines : BuyerOf(l) = o
  BY <1>3, <1>4
<1> QED
  BY <1>7, <1>8, <1>9 DEF Sale!Release, Sale!SoldTo

\* Every step of the list is a step of the sale or leaves it alone.
LEMMA SaleStep ==
    ASSUME BaseInv, OneWinnerPerLine, Step
    PROVE  [Sale!Next]_(Sale!vars)
<1>1. OneWinnerPerLine'
  BY WinnerStep
<1>2. ASSUME NEW o \in Offers, AwardOffer(o)
      PROVE  Sale!Next
  BY <1>1, <1>2, AwardSells DEF Sale!Next
<1>3. ASSUME NEW o \in Offers, UnawardOffer(o)
      PROVE  Sale!Next
  BY <1>1, <1>3, UnawardReleases DEF Sale!Next
<1>4. CASE SalesKept
  <2>1. [l \in Lines |-> BuyerOf(l)]' = [l \in Lines |-> BuyerOf(l)]
    BY <1>1, <1>4, BuyersKept
  <2>2. listStatus \in Terminal => listStatus' \in Terminal
    <3>1. ASSUME NEW o, NEW sc, NEW mt, NEW b, NEW superseded, Landing(o, sc, mt, b, superseded)
          PROVE  listStatus \in Terminal => listStatus' \in Terminal
      BY <3>1 DEF Landing, Land, Terminal
    <3> QED
      BY <3>1 DEF Step, AddLines, DeleteLine, SetDeadline, DeleteList, PublishList,
         DeadlinePasses, WithdrawOffer, AssignOfferLine, AwardOffer, Awardable,
         UnawardOffer, EndPostingWindow, Expire, Overdue, listVars, Terminal, Unresolved
  <2>3. CASE listStatus \notin Terminal /\ listStatus' \in Terminal
    <3>1. Sale!End
      BY <2>1, <2>3 DEF Sale!End, Terminal
    <3> QED
      BY <3>1 DEF Sale!Next
  <2>4. CASE ~(listStatus \notin Terminal /\ listStatus' \in Terminal)
    <3>1. (listStatus \in Terminal)' = (listStatus \in Terminal)
      BY <2>2, <2>4 DEF Terminal
    <3> QED
      BY <2>1, <3>1 DEF Sale!vars
  <2> QED
    BY <2>3, <2>4
<1> QED
  BY <1>2, <1>3, <1>4, StepKeepsSales

-----------------------------------------------------------------------------
(* The theorems. *)

ResellInv ==
    /\ BaseInv
    /\ OneWinnerPerLine
    /\ LostIsUnwinnable
    /\ RollupFresh
    /\ MirrorTruth
    /\ ExpiredIsUnsold
    /\ AfterInv

\* The invariant holds in the first state and every step keeps it.
LEMMA InvHolds == Spec => []ResellInv
<1>1. Init => ResellInv
  BY DEF Init, ResellInv, BaseInv, TypeOK, DraftInv, MatchedInv, OneWinnerPerLine, Won,
     LostIsUnwinnable, RollupFresh, MirrorTruth, ExpiredIsUnsold, AfterInv, Unresolved, RollsUp
<1>2. ResellInv /\ [Next]_vars => ResellInv'
  <2>1. ASSUME ResellInv, Next
        PROVE  ResellInv'
    <3>1. Step
      BY <2>1, StepOfNext
    <3> QED
      BY <2>1, <3>1, BaseStep, WinnerStep, LostStep, RollupStep, MirrorStep, ExpiredStep,
         AfterStep DEF ResellInv
  <2>2. ASSUME ResellInv, UNCHANGED vars
        PROVE  ResellInv'
    BY <2>2 DEF ResellInv, BaseInv, TypeOK, DraftInv, MatchedInv, OneWinnerPerLine, Won,
       ScopeOf, LostIsUnwinnable, RollupFresh, MirrorTruth, ExpiredIsUnsold, AfterInv, vars,
       listVars, lineVars, offerVars
  <2> QED
    BY <2>1, <2>2
<1> QED
  BY <1>1, <1>2, PTL DEF Spec

\* The variables of the model keep their types.
THEOREM TypeCorrect == Spec => []TypeOK
<1>1. ResellInv => TypeOK
  BY DEF ResellInv, BaseInv
<1> QED
  BY <1>1, InvHolds, PTL

\* Every sold line has exactly one winner, and every winner all its lines.
THEOREM EveryLineOneWinner == Spec => []OneWinnerPerLine
<1>1. ResellInv => OneWinnerPerLine
  BY DEF ResellInv
<1> QED
  BY <1>1, InvHolds, PTL

\* No bid that could still win a line stands lost.
THEOREM NoWinnableBidIsLost == Spec => []LostIsUnwinnable
<1>1. ResellInv => LostIsUnwinnable
  BY DEF ResellInv
<1> QED
  BY <1>1, InvHolds, PTL

\* The rollups are exact after every call.
THEOREM RollupsAreFresh == Spec => []RollupFresh
<1>1. ResellInv => RollupFresh
  BY DEF ResellInv
<1> QED
  BY <1>1, InvHolds, PTL

\* The mirror advertises what is for sale and nothing else.
THEOREM MirrorIsTrue == Spec => []MirrorTruth
<1>1. ResellInv => MirrorTruth
  BY DEF ResellInv
<1> QED
  BY <1>1, InvHolds, PTL

\* A list that sold something is never expired.
THEOREM NoSaleExpires == Spec => []ExpiredIsUnsold
<1>1. ResellInv => ExpiredIsUnsold
  BY DEF ResellInv
<1> QED
  BY <1>1, InvHolds, PTL

\* A late arrival is never shown as on time.
THEOREM LateIsKept == Spec => []LateStaysLate
<1>1. ResellInv => LateStaysLate
  BY DEF ResellInv, AfterInv, LateStaysLate
<1> QED
  BY <1>1, InvHolds, PTL

\* A withdrawn bid stays withdrawn.
THEOREM WithdrawnIsFinal == Spec => WithdrawnStaysWithdrawn
<1>1. ResellInv /\ [Next]_vars =>
        [\A o \in Offers : offerStatus[o] = "withdrawn" => offerStatus'[o] = "withdrawn"]_vars
  BY StepOfNext, WithdrawnStep DEF ResellInv
<1> QED
  BY <1>1, InvHolds, PTL DEF Spec, WithdrawnStaysWithdrawn

\* The list with its bids, deadline and sweep implements the sale.
THEOREM ResellImplementsSale == Spec => ImplementsLotSale
<1>1. Init => Sale!Init
  BY DEF Init, Sale!Init, BuyerOf, Terminal
<1>2. ResellInv /\ [Next]_vars => [Sale!Next]_(Sale!vars)
  <2>1. ASSUME ResellInv, Next
        PROVE  [Sale!Next]_(Sale!vars)
    BY <2>1, StepOfNext, SaleStep DEF ResellInv
  <2>2. ASSUME ResellInv, UNCHANGED vars
        PROVE  UNCHANGED Sale!vars
    <3>1. SalesKept
      BY <2>2 DEF SalesKept, Won, ScopeOf, vars, lineVars, offerVars
    <3>2. OneWinnerPerLine /\ OneWinnerPerLine'
      BY <2>2 DEF ResellInv, OneWinnerPerLine, Won, ScopeOf, vars, lineVars, offerVars
    <3>3. [l \in Lines |-> BuyerOf(l)]' = [l \in Lines |-> BuyerOf(l)]
      BY <3>1, <3>2, BuyersKept
    <3>4. listStatus' = listStatus
      BY <2>2 DEF vars, listVars
    <3> QED
      BY <3>3, <3>4 DEF Sale!vars
  <2> QED
    BY <2>1, <2>2
<1> QED
  BY <1>1, <1>2, InvHolds, PTL DEF Spec, ImplementsLotSale, Sale!Spec

-----------------------------------------------------------------------------
(* What a reversal gives back. *)

\* A bid that could win some line as things stand.
CouldWin(p) ==
    IF scope[p] = "take_all" THEN awarded = {} ELSE ~(matched[p] \subseteq awarded)

\* After an award the sales without it are the sales before it.
LEMMA AwardThenBack ==
    ASSUME ResellInv, NEW o \in Offers, AwardOffer(o)
    PROVE  (awarded \ ScopeOf(o))' = awarded
<1>1. awarded' = awarded \cup ScopeOf(o) /\ ScopeOf(o) \cap awarded = {}
  BY DEF AwardOffer, Awardable
<1>2. ScopeOf(o)' = ScopeOf(o)
  BY DEF AwardOffer, ScopeOf
<1> QED
  BY <1>1, <1>2

\* An award closes the bids it leaves without a line, and its reversal would
\* bring back exactly those of them that could win something before: the two
\* functions that decide it, one at award and one at reversal, agree.  A bid
\* all of whose lines had been sold when it came, is closed by the next award
\* and stays so.
THEOREM ReversalRevivesWhatAwardClosed ==
    Spec => [][\A o \in Offers :
                  AwardOffer(o) =>
                      Revivable(o, awarded \ ScopeOf(o))'
                        = {p \in Losers(o, awarded \cup ScopeOf(o)) : CouldWin(p)}]_vars
<1>1. ASSUME ResellInv, NEW o \in Offers, AwardOffer(o)
      PROVE  Revivable(o, awarded \ ScopeOf(o))'
               = {p \in Losers(o, awarded \cup ScopeOf(o)) : CouldWin(p)}
  <2> DEFINE losers == Losers(o, awarded \cup ScopeOf(o))
  <2>1. /\ offerStatus' = [p \in Offers |-> IF p = o THEN "won"
                                            ELSE IF p \in losers THEN "lost"
                                            ELSE offerStatus[p]]
        /\ UNCHANGED <<lines, scope, matched>>
    BY <1>1 DEF AwardOffer
  <2>2. Revivable(o, awarded \ ScopeOf(o))'
          = {p \in Offers \ {o} :
                /\ offerStatus'[p] = "lost"
                /\ IF scope'[p] = "take_all" THEN awarded = {}
                   ELSE ~(matched'[p] \subseteq awarded)}
    BY <1>1, AwardThenBack DEF Revivable
  <2>3. \A p \in Offers : offerStatus[p] = "lost" => ~CouldWin(p)
    BY <1>1 DEF ResellInv, BaseInv, TypeOK, LostIsUnwinnable, CouldWin
  <2>4. losers \subseteq Offers \ {o}
    BY DEF Losers
  <2> HIDE DEF losers
  <2>5. Revivable(o, awarded \ ScopeOf(o))' = {p \in losers : CouldWin(p)}
    BY <2>1, <2>2, <2>3, <2>4 DEF CouldWin
  <2> QED
    BY <2>5 DEF losers
<1>2. ResellInv /\ [Next]_vars =>
        [\A o \in Offers :
            AwardOffer(o) =>
                Revivable(o, awarded \ ScopeOf(o))'
                  = {p \in Losers(o, awarded \cup ScopeOf(o)) : CouldWin(p)}]_vars
  BY <1>1
<1> QED
  BY <1>2, InvHolds, PTL DEF Spec

\* A reversed sale can be made again at once: the bid is back in play, its
\* lines are for sale and the list is alive.
THEOREM ReversedBidIsAwardable ==
    Spec => [][\A o \in Offers : UnawardOffer(o) => Awardable(o)']_vars
<1>1. ASSUME ResellInv, NEW o \in Offers, UnawardOffer(o)
      PROVE  Awardable(o)'
  <2>1. o \in Won /\ ScopeOf(o) # {}
    BY <1>1 DEF ResellInv, OneWinnerPerLine, UnawardOffer, Won
  <2>2. ScopeOf(o)' = ScopeOf(o) /\ awarded' = awarded \ ScopeOf(o)
    BY <1>1 DEF UnawardOffer, ScopeOf
  <2>3. listStatus' \notin Terminal
    BY <1>1 DEF UnawardOffer, StatusAfterUnaward, Terminal
  <2>4. offerStatus'[o] \in InPlay
    BY <1>1 DEF UnawardOffer, RevivedStatus, InPlay
  <2> QED
    BY <2>1, <2>2, <2>3, <2>4 DEF Awardable
<1>2. ResellInv /\ [Next]_vars =>
        [\A o \in Offers : UnawardOffer(o) => Awardable(o)']_vars
  BY <1>1
<1> QED
  BY <1>2, InvHolds, PTL DEF Spec
=============================================================================
