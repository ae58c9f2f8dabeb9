--------------------------- MODULE IntraAnalysis ---------------------------
(***************************************************************************)
(* The analysis of synthesized maker/taker combinations                    *)
(* (src/src/intra_analysis.rs): combinations of opposite direction are     *)
(* paired first in first out by base quantity; funding and interest are    *)
(* spread over the lots open at their time and released with the closed    *)
(* quantity.  The result is a function of four tables, so it is an         *)
(* operator and the steps are the rows that are stored.                    *)
(*                                                                         *)
(* Money is counted in 1/Scale; Scale is chosen by the instance such that  *)
(* the shares of its charges are exact.                                    *)
(***************************************************************************)
EXTENDS Integers, Sequences, FiniteSets, SequencesExt, FiniteSetsExt

CONSTANTS
    Symbols,       \* numbers
    OrderRows,     \* [symbol, dir, spot, fut, qty, premium]
    FeeRows,       \* [symbol, notional, fee]
    FundingRows,   \* [symbol, amount]
    InterestRows,  \* [symbol, cost]; symbol None for the quote asset
    ReferenceFee,  \* reference_fee_bps, as money per notional
    Scale,
    MaxOrders, MaxCharges,  \* bounds: rows
    MaxTime,                \* bound: event time
    None

VARIABLES
    now,                               \* event time
    orders, fees, funding, interest    \* the tables, in event order

vars == <<now, orders, fees, funding, interest>>

Init == now = 0 /\ orders = <<>> /\ fees = <<>> /\ funding = <<>>
                /\ interest = <<>>

Charges == Len(fees) + Len(funding) + Len(interest)

StoreOrder ==
    /\ Len(orders) < MaxOrders
    /\ \E row \in OrderRows :
          orders' = Append(orders, row @@ [ts |-> now, fkey |-> Len(orders)])
    /\ UNCHANGED <<now, fees, funding, interest>>

StoreFee ==
    /\ Charges < MaxCharges
    /\ \E row \in FeeRows : fees' = Append(fees, row @@ [ts |-> now])
    /\ UNCHANGED <<now, orders, funding, interest>>

StoreFunding ==
    /\ Charges < MaxCharges
    /\ \E row \in FundingRows : funding' = Append(funding, row @@ [ts |-> now])
    /\ UNCHANGED <<now, orders, fees, interest>>

StoreInterest ==
    /\ Charges < MaxCharges
    /\ \E row \in InterestRows :
          interest' = Append(interest, row @@ [ts |-> now])
    /\ UNCHANGED <<now, orders, fees, funding>>

Tick ==
    /\ now < MaxTime
    /\ now' = now + 1
    /\ UNCHANGED <<orders, fees, funding, interest>>

Next == StoreOrder \/ StoreFee \/ StoreFunding \/ StoreInterest \/ Tick

Spec == Init /\ [][Next]_vars
-----------------------------------------------------------------------------
(* Combinations and lots. *)

Opposite(dir) == IF dir = "positive" THEN "reverse" ELSE "positive"
Sign(dir) == IF dir = "positive" THEN 1 ELSE -1

(* basis, market_basis, execution_capture_usdt: of an order or a lot *)
Basis(x) == x.fut - x.spot
MarketBasis(x) == x.spot * x.premium

Capture(x, qty) == Scale * qty * Sign(x.dir) * (Basis(x) - MarketBasis(x))

SumSeq(seq, Value(_)) == FoldLeft(LAMBDA acc, x : acc + Value(x), 0, seq)

FuturesNotional(lot) == lot.qty * lot.fut
SpotNotional(lot) == lot.qty * lot.spot

NewSymbol == [positive |-> <<>>, reverse |-> <<>>]

(* Every lot of the queue gets its share of the amount. *)
ShareFunding(queue, amount, total) ==
    [k \in DOMAIN queue |->
        [queue[k] EXCEPT !.funding =
            @ + (Scale * amount * FuturesNotional(queue[k])) \div total]]

ShareInterest(queue, cost, total) ==
    [k \in DOMAIN queue |->
        [queue[k] EXCEPT !.interest =
            @ + (Scale * cost * SpotNotional(queue[k])) \div total]]

(* allocate_funding: by futures notional, over both directions. *)
AllocateFunding(book, event) ==
    LET state == book[event.symbol]
        total == SumSeq(state.positive \o state.reverse, FuturesNotional)
    IN  IF total = 0 THEN book
        ELSE [book EXCEPT ![event.symbol] =
                [positive |-> ShareFunding(state.positive, event.amount, total),
                 reverse |-> ShareFunding(state.reverse, event.amount, total)]]

(* allocate_interest: base interest is borne by the reverse lots of its     *)
(* symbol, quote interest by the positive lots of all symbols.             *)
AllocateInterest(book, event) ==
    IF event.cost = None THEN book
    ELSE IF event.symbol # None THEN
        LET queue == book[event.symbol].reverse
            total == SumSeq(queue, SpotNotional)
        IN  IF total = 0 THEN book
            ELSE [book EXCEPT ![event.symbol].reverse =
                     ShareInterest(queue, event.cost, total)]
    ELSE
        LET total == MapThenSumSet(LAMBDA s :
                        SumSeq(book[s].positive, SpotNotional), Symbols)
        IN  IF total = 0 THEN book
            ELSE [s \in Symbols |-> [book[s] EXCEPT !.positive =
                     ShareInterest(@, event.cost, total)]]
-----------------------------------------------------------------------------
(* Pairing. *)

Least(a, b) == IF a =< b THEN a ELSE b

(* The FeeAccumulator of a symbol: [fee, notional] of its window rows. *)
FeeOf(rows, symbol) ==
    LET own == SelectSeq(rows, LAMBDA row : row.symbol = symbol)
    IN  [notional |-> SumSeq(own, LAMBDA row : row.notional),
         fee |-> SumSeq(own, LAMBDA row : IF row.fee = None THEN 0
                                          ELSE row.fee)]

(* allocated_actual_fee: the window's effective rate on the closed legs. *)
ActualFee(rate, notional) ==
    IF rate.notional = 0 THEN 0
    ELSE (Scale * notional * rate.fee) \div rate.notional

(* Mutant of Released: a partial close takes the whole charge. *)
ReleasedInFull(charge, matched, remaining) == charge

(* The part of a lot's charge that leaves with the matched quantity. *)
Released(charge, matched, remaining) ==
    IF matched = remaining THEN charge ELSE (charge * matched) \div remaining

(* The IntraClosedMatch of a lot and the order that closes it. *)
Closed(open, order, qty, rate) ==
    LET realized == Scale * qty * Sign(open.dir) * (Basis(open) - Basis(order))
        fundingPnl == Released(open.funding, qty, open.qty)
        interestCost == Released(open.interest, qty, open.qty)
        known == open.premium # None /\ order.premium # None
        notional == qty * (open.spot + open.fut + order.spot + order.fut)
    IN  [symbol |-> order.symbol, dir |-> open.dir, qty |-> qty,
         ts |-> order.ts, holding |-> order.ts - open.ts,
         realized |-> realized, funding |-> fundingPnl,
         interest |-> interestCost,
         gross |-> realized + fundingPnl - interestCost,
         decomposed |-> known,
         market |-> IF known
                    THEN Scale * qty * Sign(open.dir)
                             * (MarketBasis(open) - MarketBasis(order))
                    ELSE 0,
         execution |-> IF known THEN Capture(open, qty) + Capture(order, qty)
                       ELSE 0,
         fee |-> ActualFee(rate, notional),
         reference |-> Scale * notional * ReferenceFee]

(* A lot whose quantity qty is closed by match; a rest of it stays open. *)
Matched(acc, lot, qty, match) ==
    [rest |-> acc.rest - qty,
     matches |-> Append(acc.matches, match),
     open |-> IF qty = lot.qty THEN acc.open
              ELSE Append(acc.open, [lot EXCEPT !.qty = @ - qty,
                                                !.funding = @ - match.funding,
                                                !.interest = @ - match.interest])]

(* One turn of the loop over the opposite queue. *)
MatchLot(acc, lot, order, rate) ==
    LET qty == Least(acc.rest, lot.qty)
    IN  IF qty = 0 THEN [acc EXCEPT !.open = Append(@, lot)]
        ELSE Matched(acc, lot, qty, Closed(lot, order, qty, rate))

LotOf(order, rest) ==
    [dir |-> order.dir, ts |-> order.ts, spot |-> order.spot,
     fut |-> order.fut, premium |-> order.premium, qty |-> rest,
     funding |-> 0, interest |-> 0]

PairedWith(book, order, state, closed) ==
    LET queue == IF closed.rest = 0 THEN state[order.dir]
                 ELSE Append(state[order.dir], LotOf(order, closed.rest))
    IN  [matches |-> closed.matches,
         book |-> [book EXCEPT ![order.symbol] =
                     [state EXCEPT ![order.dir] = queue,
                                   ![Opposite(order.dir)] = closed.open]]]

(* An order closes the oldest opposite lots; the rest opens a lot. *)
Paired(book, order, rate) ==
    PairedWith(book, order, book[order.symbol],
               FoldLeft(LAMBDA acc, lot : MatchLot(acc, lot, order, rate),
                        [rest |-> order.qty, matches |-> <<>>, open |-> <<>>],
                        book[order.symbol][Opposite(order.dir)]))
-----------------------------------------------------------------------------
(* calculate_with_fees_funding_and_interest *)

ZeroPoint ==
    [realized |-> 0, funding |-> 0, interest |-> 0, fee |-> 0, reference |-> 0,
     market |-> 0, execution |-> 0, positive |-> 0, reverse |-> 0,
     matches |-> 0, decomposed |-> 0]

(* Mutant of Gross: the direction of the closing order counts. *)
GrossByClose(match, dir) == IF match.dir = dir THEN 0 ELSE match.gross

(* The part of a match that counts for the direction of its opening. *)
Gross(match, dir) == IF match.dir = dir THEN match.gross ELSE 0

(* The totals of a point, with the gross PnL of each direction. *)
AddMatch(point, match) ==
    [realized |-> point.realized + match.realized,
     funding |-> point.funding + match.funding,
     interest |-> point.interest + match.interest,
     fee |-> point.fee + match.fee,
     reference |-> point.reference + match.reference,
     market |-> point.market + match.market,
     execution |-> point.execution + match.execution,
     positive |-> point.positive + Gross(match, "positive"),
     reverse |-> point.reverse + Gross(match, "reverse"),
     matches |-> point.matches + 1,
     decomposed |-> point.decomposed + (IF match.decomposed THEN 1 ELSE 0)]

(* push_or_replace_point, ensure_final_point *)
Push(points, ts, point) ==
    IF Last(points).ts = ts
    THEN [points EXCEPT ![Len(points)] = [ts |-> ts, at |-> point]]
    ELSE Append(points, [ts |-> ts, at |-> point])

(* Mutant of Recorded: the portfolio includes symbols not selected. *)
RecordedAll(acc, match, selected) ==
    LET total == AddMatch(acc.total, match)
        own == AddMatch(acc.own[match.symbol], match)
    IN  [acc EXCEPT
            !.stats[match.symbol] = AddMatch(@, match),
            !.total = total, !.own[match.symbol] = own,
            !.points = Push(@, match.ts, total),
            !.series[match.symbol] = Push(@, match.ts, own)]

(* A match goes into the statistics and both series of a selected symbol. *)
Recorded(acc, match, selected) ==
    LET total == AddMatch(acc.total, match)
        own == AddMatch(acc.own[match.symbol], match)
        recorded == [acc EXCEPT !.stats[match.symbol] = AddMatch(@, match)]
    IN  IF match.symbol \notin selected THEN recorded
        ELSE [recorded EXCEPT
                !.total = total, !.own[match.symbol] = own,
                !.points = Push(@, match.ts, total),
                !.series[match.symbol] = Push(@, match.ts, own)]

DueFunding(acc, ts) == SelectSeq(acc.funding, LAMBDA e : e.ts =< ts)
DueInterest(acc, ts) == SelectSeq(acc.interest, LAMBDA e : e.ts =< ts)

(* The charges up to ts are spread over the lots open before the order. *)
Charged(acc, ts) ==
    [acc EXCEPT
        !.book = FoldLeft(AllocateInterest,
                          FoldLeft(AllocateFunding, @, DueFunding(acc, ts)),
                          DueInterest(acc, ts)),
        !.funding = SelectSeq(@, LAMBDA e : e.ts > ts),
        !.interest = SelectSeq(@, LAMBDA e : e.ts > ts)]

RecordedMatches(acc, paired, selected) ==
    FoldLeft(LAMBDA a, match : Recorded(a, match, selected),
             [acc EXCEPT !.book = paired.book], paired.matches)

PairedAndRecorded(charged, order, rates, selected) ==
    RecordedMatches(charged,
                    Paired(charged.book, order, rates[order.symbol]), selected)

Processed(acc, order, rates, selected) ==
    PairedAndRecorded(Charged(acc, order.ts), order, rates, selected)

(* Rows outside the window are ignored; charges are due by time and symbol. *)
Within(rows, start) == SelectSeq(rows, LAMBDA row : start =< row.ts)

Beginning(start) ==
    [book |-> [s \in Symbols |-> NewSymbol],
     funding |-> Within(funding, start), interest |-> Within(interest, start),
     total |-> ZeroPoint,
     own |-> [s \in Symbols |-> ZeroPoint],
     stats |-> [s \in Symbols |-> ZeroPoint],
     points |-> <<[ts |-> start, at |-> ZeroPoint]>>,
     series |-> [s \in Symbols |-> <<[ts |-> start, at |-> ZeroPoint]>>]]

(* ensure_final_point, of the portfolio and of each symbol *)
Ended(acc) ==
    [acc EXCEPT !.points = Push(@, now, Last(@).at),
                !.series = [s \in Symbols |->
                               Push(acc.series[s], now, Last(acc.series[s]).at)]]

CalculateWith(rates, start, selected) ==
    Ended(Charged(FoldLeft(LAMBDA acc, order :
                               Processed(acc, order, rates, selected),
                           Beginning(start), Within(orders, start)), now))

Calculate(start, selected) ==
    CalculateWith([s \in Symbols |-> FeeOf(Within(fees, start), s)],
                  start, selected)

(* OpenSummary::from_state: what is open, by direction *)
OpenSummary(state) ==
    [positive |-> SumSeq(state.positive, LAMBDA lot : lot.qty),
     reverse |-> SumSeq(state.reverse, LAMBDA lot : lot.qty)]

(* The lots that are listed as pending. *)
PendingLots(result, selected) ==
    FoldSet(LAMBDA s, acc : acc \o result.book[s].positive
                                \o result.book[s].reverse, <<>>, selected)

(* aggregate_stats: SummaryAccumulator::add over the selected symbols. *)
Added(a, b) ==
    [f \in DOMAIN a |-> a[f] + b[f]]

Summary(result, selected) ==
    FoldSet(LAMBDA s, acc : Added(acc, result.stats[s]), ZeroPoint, selected)
-----------------------------------------------------------------------------
(* Properties. *)

Requests == [start : 0..Least(now, 1), selected : {Symbols, {1}}]

(* The units of a symbol in one direction, in the order of the orders.     *)
UnitsOf(symbol, dir, start) ==
    FoldLeft(LAMBDA acc, o :
                 acc \o [u \in 1..(IF o.symbol = symbol /\ o.dir = dir
                                      /\ o.ts >= start
                                   THEN o.qty ELSE 0) |-> o],
             <<>>, orders)

(* The k-th positive unit is settled against the k-th reverse unit; the    *)
(* earlier one is the opening.                                             *)
SettledUnits(positive, reverse) ==
    [k \in 1..Least(Len(positive), Len(reverse)) |->
        IF positive[k].fkey < reverse[k].fkey
        THEN [open |-> positive[k], close |-> reverse[k]]
        ELSE [open |-> reverse[k], close |-> positive[k]]]

Settled(symbol, start) ==
    SettledUnits(UnitsOf(symbol, "positive", start),
                 UnitsOf(symbol, "reverse", start))

SettledPnl(p) == Scale * Sign(p.open.dir) * (Basis(p.open) - Basis(p.close))

IsSettled(stats, settled) ==
    /\ stats.realized = SumSeq(settled, SettledPnl)
    /\ Charges = 0 =>
          stats.positive =
            SumSeq(SelectSeq(settled, LAMBDA p : p.open.dir = "positive"),
                   SettledPnl)

AllSettled(stats, start) ==
    \A s \in Symbols : IsSettled(stats[s], Settled(s, start))

(***************************************************************************)
(* Pairing is first in, first out by unit, whatever the quantities and the *)
(* sign changes ("closes_opposite_combinations_fifo_by_base_quantity"),    *)
(* and the PnL counts for the direction that was opened.                   *)
(***************************************************************************)
RealizedBySettledUnits ==
    \A r \in Requests :
       AllSettled(Calculate(r.start, r.selected).stats, r.start)

(***************************************************************************)
(* The units that are open when a charge falls due: opened before it, and  *)
(* not closed before it.                                                   *)
(***************************************************************************)
OpenUnits(units, other, ts) ==
    {k \in DOMAIN units :
        /\ units[k].ts < ts
        /\ k > Len(other) \/ units[k].fkey < other[k].fkey
        /\ k =< Len(other) => other[k].ts >= ts}

OpenAt(symbol, dir, ts, start) ==
    OpenUnits(UnitsOf(symbol, dir, start),
              UnitsOf(symbol, Opposite(dir), start), ts)

NotionalOf(units, ks) == MapThenSumSet(LAMBDA k : units[k].fut, ks)

(* What the units of one direction that were closed had received of e.     *)
ClosedShare(units, other, e, total) ==
    MapThenSumSet(LAMBDA k : (Scale * e.amount * units[k].fut) \div total,
                  {k \in OpenUnits(units, other, e.ts) : k =< Len(other)})

ShareOf(positive, reverse, e, total) ==
    IF total = 0 THEN 0
    ELSE ClosedShare(positive, reverse, e, total)
         + ClosedShare(reverse, positive, e, total)

(* What the units of a symbol that were closed had received in funding.    *)
FundingOfUnits(positive, reverse, events) ==
    SumSeq(events, LAMBDA e :
        ShareOf(positive, reverse, e,
                NotionalOf(positive, OpenUnits(positive, reverse, e.ts))
                + NotionalOf(reverse, OpenUnits(reverse, positive, e.ts))))

FundingOfClosed(symbol, start) ==
    FundingOfUnits(UnitsOf(symbol, "positive", start),
                   UnitsOf(symbol, "reverse", start),
                   SelectSeq(funding, LAMBDA e :
                                 e.symbol = symbol /\ e.ts >= start))

(* What the matches of a symbol release is what their units earned while   *)
(* they were open, however lots are split and extended between the event   *)
(* and the close.                                                          *)
FundingFollowsUnits(result, start) ==
    \A s \in Symbols : result.stats[s].funding = FundingOfClosed(s, start)

(* Somebody bears the charge: a lot was open when it fell due. *)
Borne(e, start) ==
    IF e.symbol # None
    THEN OpenAt(e.symbol, "reverse", e.ts, start) # {}
    ELSE \E s \in Symbols : OpenAt(s, "positive", e.ts, start) # {}

(* Interest is neither lost nor charged twice: released or still carried   *)
(* by open lots, unless nobody could bear it.                              *)
InterestConserved(result, start) ==
    MapThenSumSet(LAMBDA s : result.stats[s].interest, Symbols)
      + SumSeq(PendingLots(result, Symbols), LAMBDA lot : lot.interest)
    = SumSeq(SelectSeq(interest, LAMBDA e :
                 e.ts >= start /\ e.cost # None /\ Borne(e, start)),
             LAMBDA e : Scale * e.cost)

ChargesFollow(result, start) ==
    FundingFollowsUnits(result, start) /\ InterestConserved(result, start)

(***************************************************************************)
(* Charges follow the quantity                                             *)
(* ("event_time_open_futures_notional_then_fifo_closed_quantity").         *)
(***************************************************************************)
ChargesFollowUnits ==
    \A r \in Requests : ChargesFollow(Calculate(r.start, r.selected), r.start)

(* What is open in one direction is what the other does not offset. *)
OpenIsNet(open, symbol, start) ==
    /\ open.positive = 0 \/ open.reverse = 0
    /\ open.positive - open.reverse = Len(UnitsOf(symbol, "positive", start))
                                      - Len(UnitsOf(symbol, "reverse", start))

SummaryAgrees(result, summary, selected) ==
    /\ Last(result.points).at = summary
    /\ summary = FoldSet(LAMBDA s, acc : Added(acc, Last(result.series[s]).at),
                         ZeroPoint, selected)
    /\ summary.positive + summary.reverse =
          summary.realized + summary.funding - summary.interest
    /\ summary.decomposed = summary.matches =>
          summary.market + summary.execution = summary.realized

OpenAgrees(result, r) ==
    /\ \A s \in r.selected : OpenIsNet(OpenSummary(result.book[s]), s, r.start)
    /\ SumSeq(PendingLots(result, r.selected), LAMBDA lot : lot.qty) =
          MapThenSumSet(LAMBDA s : OpenSummary(result.book[s]).positive
                                   + OpenSummary(result.book[s]).reverse,
                        r.selected)

ResultAgrees(result, r) ==
    /\ SummaryAgrees(result, Summary(result, r.selected), r.selected)
    /\ OpenAgrees(result, r)

(***************************************************************************)
(* The views of one result agree: the summary of the selected symbols, the *)
(* last point of the portfolio and the last points of the symbols; and the *)
(* directions, and market and execution, add up to the whole PnL; what is  *)
(* open is what the combinations do not offset, lot by lot and in sum      *)
(* ("symbol_series_sum_to_the_portfolio_series",                           *)
(* "decomposes_realized_pnl_into_market_and_execution_components").        *)
(***************************************************************************)
ViewsAgree ==
    \A r \in Requests : ResultAgrees(Calculate(r.start, r.selected), r)
=============================================================================
