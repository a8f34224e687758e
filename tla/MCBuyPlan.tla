------------------------------ MODULE MCBuyPlan ------------------------------
(* BuyPlan on finitely many ids; ids of a kind are interchangeable. *)
EXTENDS BuyPlan, TLC

Symmetry == Permutations(Lines) \cup Permutations(Requests) \cup Permutations(Prepays)

Used(f) == Cardinality({x \in DOMAIN f : f[x] # "none"})

\* A stock sale sends its second request with one line only.
SecondOfStockSale ==
    is_stock_sale' /\ Used(line_status') > 1 /\ Used(gate') > 1

\* Two lines and two requests share one prepayment, and two prepayments share
\* one line and one request; behaviours with two of all are left out.
OnePairAtATime ==
    \/ Used(pp_status') <= 1 /\ ~SecondOfStockSale
    \/ Used(line_status') <= 1 /\ Used(gate') <= 1

MCSpec == Init /\ [][Next /\ OnePairAtATime]_vars
=============================================================================
