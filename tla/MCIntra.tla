------------------------------- MODULE MCIntra -------------------------------
(***************************************************************************)
(* The two intra components for TLC: the synthesis of combinations and     *)
(* their analysis.  Only the tables lie between them, and the analysis     *)
(* takes any table, so part says which of the two moves in a behaviour.    *)
(***************************************************************************)
EXTENDS IntraOrders

CONSTANTS
    Coins, OrderRows, FeeRows, FundingRows, InterestRows, ReferenceFee, Scale,
    MaxOrders, MaxCharges, LastEvent, None

VARIABLES part, event, combos, fees, funding, interest

A == INSTANCE IntraAnalysis WITH
        now <- event, orders <- combos, Symbols <- Coins, MaxTime <- LastEvent

analysisVars == <<event, combos, fees, funding, interest>>

MCInit == part \in {"orders", "analysis"} /\ Init /\ A!Init

MCNext ==
    \/ part = "orders" /\ UNCHANGED <<part, analysisVars>> /\ Next
    \/ part = "analysis" /\ UNCHANGED <<part, vars>> /\ A!Next

MCSpec == MCInit /\ [][MCNext]_<<part, vars, analysisVars>>

(* The properties of the analysis, as IntraAnalysis states them; without   *)
(* rows there is nothing to pair.                                          *)
RealizedBySettledUnits == part = "analysis" => A!RealizedBySettledUnits
ChargesFollowUnits == part = "analysis" => A!ChargesFollowUnits
ViewsAgree == part = "analysis" => A!ViewsAgree
-----------------------------------------------------------------------------
Symmetry == Permutations(Procs)

(* A buy, a sell, and a hedge of the buy. *)
SomeKinds ==
    LET Kind(fill, filled, terminal) ==
            [fill |-> fill, filled |-> filled, terminal |-> terminal]
        New == Kind(0, FALSE, FALSE)
        Partial == Kind(1, FALSE, FALSE)
        Filled == Kind(1, TRUE, TRUE)
        Done == Kind(0, TRUE, TRUE)
        Canceled == Kind(0, FALSE, TRUE)
    IN  <<{New, Partial, Filled, Done}, {Filled},
          {Partial, Filled, Canceled}>>

HedgeOfFirst == [h \in Futures |-> 1]

Order(symbol, dir, spot, fut, qty, premium) ==
    [symbol |-> symbol, dir |-> dir, spot |-> spot, fut |-> fut, qty |-> qty,
     premium |-> premium]

(* Both directions with two prices and quantities, one without premium. *)
SomeOrders ==
    {Order(1, dir, 1, 2, 2, 2) : dir \in {"positive", "reverse"}}
    \cup {Order(1, dir, 2, 1, 1, 1) : dir \in {"positive", "reverse"}}
    \cup {Order(2, "positive", 1, 1, 1, 1), Order(2, "reverse", 1, 2, 1, None)}

SomeFees == {[symbol |-> 1, notional |-> 2, fee |-> 1]}
SomeFunding == {[symbol |-> 1, amount |-> 1]}
SomeInterest == {[symbol |-> None, cost |-> 1], [symbol |-> 1, cost |-> 1]}
=============================================================================
