------------------------------ MODULE ResellAward ------------------------------
(***************************************************************************)
(* One excess list of the resale desk: its draft, its posting window, the  *)
(* bids that arrive on it, their award and the reversal of an award, the   *)
(* nightly expiry, the best-bid rollup of each line and the mirror that    *)
(* advertises the unsold lines as supply.  Every writer of a posted list   *)
(* locks the row of the list before it reads (M9) and the others are       *)
(* coroutines of one process that do not await, so a call is one action.   *)
(***************************************************************************)
EXTENDS Naturals, FiniteSets

CONSTANTS
    Lines,      \* lines the list may hold
    MaxOffers,  \* bids that arrive while we look, a bound
    Bidders,    \* bidders named on uploaded bid sheets
    NoBidder,   \* the bidder of a bid that did not come on a sheet
    NoBuyer     \* the buyer of an unsold line

ASSUME ResellAssumption ==
    /\ MaxOffers \in Nat
    /\ NoBidder \notin Bidders
    /\ NoBuyer \notin 1 .. MaxOffers

VARIABLES
    listStatus,     \* ExcessList.status, "deleted" when the row is gone
    closeAt,        \* ExcessList.close_at, against the clock
    after,          \* bids created later than the close_at on record
    lines,          \* rows of the list
    awarded,        \* those of status awarded; the others are available
    offerStatus,    \* ExcessOffer.status, "none" when there is no such row
    scope,          \* ExcessOffer.scope
    matched,        \* lines its rows are matched to; its unmatched and
                    \* ambiguous rows are not counted, it may have more
    bidder,         \* bidder of an uploaded sheet, else NoBidder
    counted,        \* line -> the bids its rollup counts
    mirrored        \* lines with a live Sighting

listVars == <<listStatus, closeAt, after>>
lineVars == <<lines, awarded>>
offerVars == <<offerStatus, scope, matched, bidder>>
vars == <<listVars, lineVars, offerVars, counted, mirrored>>

Offers == 1 .. MaxOffers

Unresolved == {"open", "collecting"}
Terminal == {"closed", "expired", "deleted"}
Closed == {"bid_out", "awarded", "closed", "expired"}
Posted == {"open", "collecting", "bid_out", "awarded"}
InPlay == {"open", "late"}
RollsUp == {"open", "won", "late"}

TypeOK ==
    /\ listStatus \in {"draft"} \cup Unresolved \cup Closed \cup {"deleted"}
    /\ closeAt \in {"none", "future", "past"}
    /\ after \in SUBSET Offers
    /\ lines \in SUBSET Lines
    /\ awarded \in SUBSET lines
    /\ offerStatus \in [Offers -> {"none", "lost", "withdrawn"} \cup RollsUp]
    /\ scope \in [Offers -> {"per_line", "take_all"}]
    /\ matched \in [Offers -> SUBSET Lines]
    /\ bidder \in [Offers -> Bidders \cup {NoBidder}]
    /\ counted \in [Lines -> SUBSET Offers]
    /\ mirrored \in SUBSET Lines

\* create_excess_list: a draft without lines, with a future deadline or none.
Init ==
    /\ listStatus = "draft"
    /\ closeAt \in {"none", "future"}
    /\ after = {}
    /\ lines = {}
    /\ awarded = {}
    /\ offerStatus = [o \in Offers |-> "none"]
    /\ scope = [o \in Offers |-> "per_line"]
    /\ matched = [o \in Offers |-> {}]
    /\ bidder = [o \in Offers |-> NoBidder]
    /\ counted = [l \in Lines |-> {}]
    /\ mirrored = {}

-----------------------------------------------------------------------------
(* What the calls share. *)

WindowClosed == closeAt = "past"

\* The status a new bid takes.
StatusForList == IF listStatus \in Closed \/ WindowClosed THEN "late" ELSE "open"

\* The lines an award of o acts on.
ScopeOf(o) == IF scope[o] = "take_all" THEN lines ELSE matched[o]

\* The rollups of the lines in S are recomputed from statuses st and rows mt.
Recompute(S, st, mt) ==
    [l \in Lines |-> IF l \in S THEN {o \in Offers : st[o] \in RollsUp /\ l \in mt[o]}
                                ELSE counted[l]]

\* What a sync leaves mirrored for a list of status ls with sold lines aw.
Synced(ls, aw) == IF ls \in Closed THEN {} ELSE lines \ aw

-----------------------------------------------------------------------------
(* The draft. *)

\* add_line and confirm_import.
AddLines(S) ==
    /\ listStatus = "draft"
    /\ S # {} /\ S \cap lines = {}
    /\ lines' = lines \cup S
    /\ UNCHANGED <<listVars, awarded, offerVars, counted, mirrored>>

DeleteLine(l) ==
    /\ listStatus = "draft"
    /\ l \in lines
    /\ lines' = lines \ {l}
    /\ UNCHANGED <<listVars, awarded, offerVars, counted, mirrored>>

\* update_excess_list with a deadline: cleared, or in the future.
SetDeadline ==
    /\ listStatus = "draft"
    /\ closeAt' \in {"none", "future"}
    /\ UNCHANGED <<listStatus, after, lineVars, offerVars, counted, mirrored>>

DeleteList ==
    /\ listStatus = "draft"
    /\ listStatus' = "deleted"
    /\ UNCHANGED <<closeAt, after, lineVars, offerVars, counted, mirrored>>

\* A future deadline is kept, one that passed in the draft is dropped.
PublishList ==
    /\ listStatus = "draft"
    /\ listStatus' = "open"
    /\ closeAt' = IF WindowClosed THEN "none" ELSE closeAt
    /\ mirrored' = Synced("open", awarded)
    /\ UNCHANGED <<after, lineVars, offerVars, counted>>

\* The clock reaches close_at.
DeadlinePasses ==
    /\ closeAt = "future"
    /\ closeAt' = "past"
    /\ UNCHANGED <<listStatus, after, lineVars, offerVars, counted, mirrored>>

-----------------------------------------------------------------------------
(* Bids. *)

\* Ids are given in order.
Fresh(o) ==
    /\ offerStatus[o] = "none"
    /\ \A p \in Offers : p < o => offerStatus[p] # "none"

\* The row of bid o is written, after `superseded` were withdrawn; the lines
\* of both are rolled up and the first bid starts the collection.
Land(o, sc, mt, b, superseded) ==
    /\ offerStatus' = [p \in Offers |-> IF p = o THEN StatusForList
                                        ELSE IF p \in superseded THEN "withdrawn"
                                        ELSE offerStatus[p]]
    /\ scope' = [scope EXCEPT ![o] = sc]
    /\ matched' = [matched EXCEPT ![o] = mt]
    /\ bidder' = [bidder EXCEPT ![o] = b]
    /\ after' = IF WindowClosed THEN after \cup {o} ELSE after
    /\ counted' = Recompute(mt \cup UNION {matched[p] : p \in superseded},
                            offerStatus', matched')
    /\ listStatus' = IF listStatus = "open" THEN "collecting" ELSE listStatus
    /\ UNCHANGED <<closeAt, lineVars, mirrored>>

SubmitTakeAll(o) ==
    /\ listStatus \in Posted
    /\ Fresh(o)
    /\ Land(o, "take_all", {}, NoBidder, {})

\* Each row matches the one line with its part number, or is queued.
SubmitPerLine(o, mt) ==
    /\ listStatus \in Posted
    /\ Fresh(o)
    /\ Land(o, "per_line", mt, NoBidder, {})

\* _link_inbound_offer: a reply to the outreach is taken on a dead list too.
LinkReply(o, mt) ==
    /\ listStatus \notin {"draft", "deleted"}
    /\ Fresh(o)
    /\ Land(o, "per_line", mt, NoBidder, {})

\* Mutant: the status of the earlier upload is not looked at.
SupersedableWhateverStatus(b) == {p \in Offers : bidder[p] = b /\ offerStatus[p] # "none"}

\* The bids on an earlier sheet a new sheet of bidder b replaces.
Supersedable(b) == {p \in Offers : bidder[p] = b /\ offerStatus[p] \in InPlay}

\* upload_bids, one bidder of the sheet: one earlier upload is withdrawn.
UploadBid(o, mt, b) ==
    /\ listStatus \in Posted
    /\ Fresh(o)
    /\ \/ Supersedable(b) = {} /\ Land(o, "per_line", mt, b, {})
       \/ \E p \in Supersedable(b) : Land(o, "per_line", mt, b, {p})

WithdrawOffer(o) ==
    /\ offerStatus[o] \in InPlay
    /\ offerStatus' = [offerStatus EXCEPT ![o] = "withdrawn"]
    /\ counted' = Recompute(matched[o], offerStatus', matched)
    /\ UNCHANGED <<listVars, lineVars, scope, matched, bidder, mirrored>>

\* One row of o is pointed at line l: a queued row, or a row that stood at
\* `from`, alone there or not.
AssignOfferLine(o, l) ==
    /\ listStatus \notin {"closed", "expired", "awarded"}
    /\ offerStatus[o] \in InPlay
    /\ l \in lines \ awarded
    /\ scope[o] = "per_line"
    /\ \E from \in matched[o] \cup {l}, kept \in BOOLEAN :
          /\ matched' = [matched EXCEPT ![o] =
                            IF kept THEN @ \cup {l} ELSE (@ \ {from}) \cup {l}]
          /\ counted' = Recompute({from, l}, offerStatus, matched')
    /\ UNCHANGED <<listVars, lineVars, offerStatus, scope, bidder, mirrored>>

-----------------------------------------------------------------------------
(* Award and reversal. *)

\* The bids in play that can win no line once o has its lines and aw is sold.
Losers(o, aw) ==
    {p \in Offers \ {o} :
        /\ offerStatus[p] \in InPlay
        /\ IF scope[p] = "take_all" THEN scope[o] = "take_all"
                                    ELSE matched[p] # {} /\ matched[p] \subseteq aw}

\* Mutant: the status of the bid is written to its list.
BidStatusAfterAward(aw) == IF lines # {} /\ aw = lines THEN "won" ELSE listStatus

\* The list is awarded when every line is.
StatusAfterAward(aw) == IF lines # {} /\ aw = lines THEN "awarded" ELSE listStatus

\* Mutant: the list status is not looked at.
AwardableOnDeadList(o) ==
    /\ offerStatus[o] \in InPlay
    /\ ScopeOf(o) # {}
    /\ ScopeOf(o) \cap awarded = {}

Awardable(o) ==
    /\ listStatus \notin Terminal
    /\ offerStatus[o] \in InPlay
    /\ ScopeOf(o) # {}
    /\ ScopeOf(o) \cap awarded = {}

\* Mutant: only the lines of the winner.
TouchedByWinner(o, others) == ScopeOf(o)

\* The lines whose rollup an award of o, or its reversal, recomputes.
TouchedBy(o, others) == ScopeOf(o) \cup UNION {matched[p] : p \in others}

AwardOffer(o) ==
    LET aw == awarded \cup ScopeOf(o)
        losers == Losers(o, aw)
    IN  /\ Awardable(o)
        /\ awarded' = aw
        /\ offerStatus' = [p \in Offers |-> IF p = o THEN "won"
                                            ELSE IF p \in losers THEN "lost"
                                            ELSE offerStatus[p]]
        /\ counted' = Recompute(TouchedBy(o, losers), offerStatus', matched)
        /\ mirrored' = Synced(listStatus, aw)
        /\ listStatus' = StatusAfterAward(aw)
        /\ UNCHANGED <<closeAt, after, lines, scope, matched, bidder>>

\* Mutant: as it was before findings 37 and 46.
RevivedOpen(o, aw, competitor) == "open"

\* The status of a bid an award had closed: told from the deadline on record,
\* and for a competitor of a list without one from what is still sold.
RevivedStatus(o, aw, competitor) ==
    IF closeAt # "none" THEN IF o \in after THEN "late" ELSE "open"
    ELSE IF competitor /\ listStatus \in Closed /\ aw # {} THEN "late" ELSE "open"

\* Mutant: a bid is revived when all its lines are back.
RevivableWhole(o, aw) ==
    {p \in Offers \ {o} :
        /\ offerStatus[p] = "lost"
        /\ IF scope[p] = "take_all" THEN aw = {} ELSE matched[p] \cap aw = {}}

\* Mutant: bids that are merely out of play are revived.
RevivableWithdrawn(o, aw) ==
    {p \in Offers \ {o} :
        /\ offerStatus[p] \in {"lost", "withdrawn"}
        /\ IF scope[p] = "take_all" THEN aw = {} ELSE ~(matched[p] \subseteq aw)}

\* The lost bids that could win a line again, with o reversed and aw sold.
Revivable(o, aw) ==
    {p \in Offers \ {o} :
        /\ offerStatus[p] = "lost"
        /\ IF scope[p] = "take_all" THEN aw = {} ELSE ~(matched[p] \subseteq aw)}

\* The list steps back off "awarded".
StatusAfterUnaward ==
    IF listStatus # "awarded" THEN listStatus
    ELSE IF WindowClosed THEN "bid_out" ELSE "collecting"

\* Mutant: the sync runs before the list steps back.
MirrorBeforeStep(aw) == Synced(listStatus, aw)

\* What the reversal leaves mirrored: the sync reads the stepped-back status.
MirrorAfterUnaward(aw) == Synced(StatusAfterUnaward, aw)

UnawardOffer(o) ==
    LET aw == awarded \ ScopeOf(o)
        revived == Revivable(o, aw)
    IN  /\ offerStatus[o] = "won"
        /\ listStatus \notin Terminal
        /\ awarded' = aw
        /\ offerStatus' =
              [p \in Offers |-> IF p = o THEN RevivedStatus(p, aw, FALSE)
                                ELSE IF p \in revived THEN RevivedStatus(p, aw, TRUE)
                                ELSE offerStatus[p]]
        /\ counted' = Recompute(TouchedBy(o, revived), offerStatus', matched)
        /\ listStatus' = StatusAfterUnaward
        /\ mirrored' = MirrorAfterUnaward(aw)
        /\ UNCHANGED <<closeAt, after, lines, scope, matched, bidder>>

-----------------------------------------------------------------------------
(* The end of the posting window. *)

\* _end_posting_window: the deadline on record becomes this moment, so no bid
\* is later than it.
EndPostingWindow(target) ==
    /\ listStatus \in Unresolved
    /\ listStatus' = target
    /\ closeAt' = "past"
    /\ after' = {}
    /\ mirrored' = Synced(target, awarded)
    /\ UNCHANGED <<lineVars, offerVars, counted>>

CloseList == EndPostingWindow("bid_out")

CloseListWithoutBid == EndPostingWindow("closed")

\* Mutant: a partial award does not count.
ExpiresAlways == "expired"

\* A list that sold something is not expired.
StatusAfterExpiry ==
    IF awarded # {} \/ (\E o \in Offers : offerStatus[o] = "won") THEN "bid_out" ELSE "expired"

\* Mutant: the sweep looks for lists that drew no bid.
OverdueUnbid == listStatus = "open" /\ closeAt = "past"

Overdue == listStatus \in Unresolved /\ closeAt = "past"

\* The nightly sweep, for this list.
Expire ==
    /\ Overdue
    /\ listStatus' = StatusAfterExpiry
    /\ mirrored' = Synced(StatusAfterExpiry, awarded)
    /\ UNCHANGED <<closeAt, after, lineVars, offerVars, counted>>

-----------------------------------------------------------------------------
DraftStep ==
    \/ \E S \in SUBSET Lines : AddLines(S)
    \/ \E l \in Lines : DeleteLine(l)
    \/ SetDeadline \/ DeleteList \/ PublishList

BidStep(o) ==
    \/ SubmitTakeAll(o)
    \/ \E mt \in SUBSET lines :
          \/ SubmitPerLine(o, mt)
          \/ LinkReply(o, mt)
          \/ \E b \in Bidders : UploadBid(o, mt, b)
    \/ WithdrawOffer(o)
    \/ \E l \in Lines : AssignOfferLine(o, l)

Next ==
    \/ DraftStep
    \/ DeadlinePasses
    \/ \E o \in Offers : BidStep(o) \/ AwardOffer(o) \/ UnawardOffer(o)
    \/ CloseList \/ CloseListWithoutBid \/ Expire

Spec == Init /\ [][Next]_vars

\* The sweep is a nightly job of the scheduler.
FairSpec == Spec /\ WF_vars(Expire)

-----------------------------------------------------------------------------
(* Properties. *)

Won == {o \in Offers : offerStatus[o] = "won"}

\* Every sold line belongs to exactly one winning bid and every winning bid
\* has all its lines: no withdrawal, re-upload, re-assignment or reversal
\* sells a line twice or leaves it sold to nobody.
OneWinnerPerLine ==
    /\ \A l \in awarded : \E o \in Won : l \in ScopeOf(o)
    /\ \A o \in Won : ScopeOf(o) # {} /\ ScopeOf(o) \subseteq awarded
    /\ \A o, p \in Won : o # p => ScopeOf(o) \cap ScopeOf(p) = {}

\* A bid stands lost only while it can win nothing: however awards were made
\* and reversed, no bid that could be awarded is hidden as lost.
LostIsUnwinnable ==
    \A o \in Offers : offerStatus[o] = "lost" =>
        /\ scope[o] = "per_line" => matched[o] # {} /\ matched[o] \subseteq awarded
        /\ scope[o] = "take_all" => awarded # {}

\* The rollup of a line counts the live bids that touch it, no more, no less.
RollupFresh ==
    \A l \in Lines :
        counted[l] = {o \in Offers : offerStatus[o] \in RollsUp /\ l \in matched[o]}

\* Exactly the unsold lines of a list in its posting window are advertised.
MirrorTruth ==
    mirrored = IF listStatus \in Unresolved THEN lines \ awarded ELSE {}

\* The sweep never expires a list that sold something, where no bid on the
\* lines left could be awarded any more.
ExpiredIsUnsold == listStatus = "expired" => awarded = {} /\ Won = {}

\* A bid that landed after the deadline on record never shows as on time,
\* however often it was lost, awarded and revived.
LateStaysLate == \A o \in after : offerStatus[o] # "open"

\* A withdrawn bid, superseded ones included, never returns to play.
WithdrawnStaysWithdrawn ==
    [][\A o \in Offers : offerStatus[o] = "withdrawn" => offerStatus'[o] = "withdrawn"]_vars

\* An overdue list is resolved at last, awarded in part or not.
OverdueIsResolved ==
    listStatus \in Unresolved /\ closeAt = "past" ~> listStatus \notin Unresolved

\* The bid a line is sold to.
BuyerOf(l) ==
    IF l \in awarded THEN CHOOSE o \in Won : l \in ScopeOf(o) ELSE NoBuyer

Sale == INSTANCE LotSale
          WITH Lines <- Lines, Offers <- Offers, NoBuyer <- NoBuyer,
               buyer <- [l \in Lines |-> BuyerOf(l)],
               dead <- (listStatus \in Terminal)

\* The desk keeps what it promises of a sale: whole lots, one buyer a line,
\* and nothing sold or taken back once the list is dead.
ImplementsLotSale == Sale!Spec
=============================================================================
