---------------------------- MODULE PortfolioPnl ----------------------------
(***************************************************************************)
(* The PnL of a strategy (src/src/pnl.rs, src/src/pnl/overview.rs): stored *)
(* trades, funding and interest are normalized by exchange, merged in time *)
(* order with the selected initial snapshot and replayed through one FIFO  *)
(* engine per symbol and leg.  calculate serves the PnL page, replay the   *)
(* account overview.  Both are functions of the stored rows, so they are   *)
(* operators and the steps are the rows that are stored.                   *)
(***************************************************************************)
EXTENDS FifoPnl, FiniteSets, FiniteSetsExt

CONSTANTS
    Setups,      \* strategies: [kind, exchange, cached, rows, lastTime, trades,
                 \*              funding, interest, snapshots]; rows and
                 \*              lastTime bound the run
    Symbols,     \* numbers; Stable is the symbol of stablecoin interest
    Stable,
    Multiplier,  \* contract multiplier of the Gate and OKX contracts
    RebateRate,  \* BINANCE_INTRA_SPOT_MAKER_REBATE_RATE
    Interval,    \* PNL_TICK_INTERVAL_MS
    Windows,     \* ROLLING_WINDOWS_MS
    None         \* a missing value

ASSUME PortfolioAssumption ==
    /\ Symbols \subseteq Nat /\ Stable \in Symbols
    /\ Multiplier \in Nat \ {0} /\ RebateRate \in Nat
    /\ Interval \in Nat \ {0} /\ Windows \subseteq Nat \ {0}

VARIABLES
    setup,       \* the strategy
    snapshot,    \* rows of the initial snapshot
    now,         \* event time
    trades, funding, interest    \* the tables, in event order

vars == <<setup, snapshot, now, trades, funding, interest>>

Init ==
    /\ setup \in Setups
    /\ snapshot \in setup.snapshots
    /\ now = 0
    /\ trades = <<>> /\ funding = <<>> /\ interest = <<>>

Stored == Len(trades) + Len(funding) + Len(interest)

(* A row of the moment is stored. *)
StoreTrade ==
    /\ Stored < setup.rows
    /\ \E row \in setup.trades : trades' = Append(trades, row @@ [ts |-> now])
    /\ UNCHANGED <<setup, snapshot, now, funding, interest>>

StoreFunding ==
    /\ Stored < setup.rows
    /\ \E row \in setup.funding : funding' = Append(funding, row @@ [ts |-> now])
    /\ UNCHANGED <<setup, snapshot, now, trades, interest>>

StoreInterest ==
    /\ Stored < setup.rows
    /\ \E row \in setup.interest :
          interest' = Append(interest, row @@ [ts |-> now])
    /\ UNCHANGED <<setup, snapshot, now, trades, funding>>

Tick ==
    /\ now < setup.lastTime
    /\ now' = now + 1
    /\ UNCHANGED <<setup, snapshot, trades, funding, interest>>

Next == StoreTrade \/ StoreFunding \/ StoreInterest \/ Tick

Spec == Init /\ [][Next]_vars
-----------------------------------------------------------------------------
(* Normalization. *)

OrElse(a, b) == IF a # None THEN a ELSE b

Abs(n) == IF n < 0 THEN -n ELSE n

(* binance_fee_cost_usdt *)
BinanceFee(row) ==
    CASE row.asset = "stable" -> row.fee
      [] row.asset = "base" -> row.fee * row.price
      [] OTHER -> IF setup.cached = None THEN None ELSE row.fee * setup.cached

Amount(row) ==
    IF setup.kind = "market_making" /\ setup.exchange \in {"gate", "okx"}
    THEN row.price * Abs(row.qty) * Multiplier
    ELSE OrElse(row.quote, row.price * row.qty)

(* The fee of a trade in USDT, None when it cannot be converted. *)
FeeUsdt(row) ==
    CASE setup.kind = "market_making" -> row.feeUsdt
      [] setup.kind = "intra" /\ setup.exchange = "binance" ->
            IF row.market = "spot" /\ row.role = "maker"
            THEN -(Amount(row) * RebateRate) ELSE BinanceFee(row)
      [] OTHER ->
            OrElse(row.feeUsdt,
                   IF row.asset = "other" /\ setup.exchange # "binance"
                   THEN None ELSE BinanceFee(row))

Leg(row) == IF row.market \in {"spot", "margin"} THEN "spot" ELSE "futures"

(* market_making_quantity, spot_swap_position_quantity *)
Quantity(row) ==
    CASE setup.kind = "market_making" ->
            Abs(row.qty) * (IF setup.exchange \in {"gate", "okx"}
                            THEN Multiplier ELSE 1)
      [] setup.exchange \in {"gate", "bitget", "bybit"} /\ Leg(row) = "spot"
            /\ row.asset = "base" ->
            Abs(row.qty) + (IF row.side = "buy" THEN Abs(row.fee)
                            ELSE -Abs(row.fee))
      [] OTHER -> Abs(row.qty)

TradeEvent(row) ==
    [type |-> "trade", ts |-> row.ts, symbol |-> row.symbol, side |-> row.side,
     leg |-> Leg(row), price |-> row.price, amount |-> Amount(row),
     qty |-> Quantity(row), fee |-> FeeUsdt(row)]

FundingEvent(row) ==
    [type |-> "funding", ts |-> row.ts, symbol |-> row.symbol,
     amount |-> row.amount]

(* nearest_trade_price: binary search, then the closer neighbour. *)
NearestPrice(prices, ts) ==
    LET before == {k \in DOMAIN prices : prices[k].ts < ts}
        after == DOMAIN prices \ before
        prev == prices[Max(before)]
        next == prices[Min(after)]
    IN  CASE prices = <<>> -> None
          [] before = {} -> next.price
          [] after = {} -> prev.price
          [] OTHER -> IF ts - prev.ts =< next.ts - ts THEN prev.price
                      ELSE next.price

PriceHistory(symbol, markets) ==
    SelectSeq(trades,
              LAMBDA row : row.symbol = symbol /\ row.market \in markets)

ConversionPrice(row) ==
    LET nearest == OrElse(
            NearestPrice(PriceHistory(row.symbol, {"spot"}), row.ts),
            NearestPrice(PriceHistory(row.symbol, {"spot", "margin", "swap"}),
                         row.ts))
    IN  CASE row.symbol = Stable -> 1
          [] setup.exchange = "binance" -> setup.cached
          [] setup.exchange = "bybit" -> OrElse(nearest, setup.cached)
          [] OTHER -> nearest

(* interest_cost_usdt: a charge is positive at Binance, negative elsewhere. *)
InterestCost(amount) ==
    IF setup.exchange = "binance" THEN Max({amount, 0}) ELSE Max({-amount, 0})

InterestAt(row, price) ==
    LET amount == OrElse(row.usdt,
                         IF price = None THEN None ELSE row.interest * price)
    IN  [type |-> "interest", ts |-> row.ts, symbol |-> row.symbol,
         cost |-> IF amount = None THEN None ELSE InterestCost(amount),
         price |-> price,
         delta |-> IF setup.exchange = "bybit" /\ row.symbol # Stable
                   THEN row.interest ELSE 0]

InterestEvent(row) == InterestAt(row, ConversionPrice(row))

(* parse_initial_positions: the legs that carry a value give the price. *)
Priced(row) ==
    {leg \in {<<row.spot, row.spotUsdt>>, <<row.futures, row.futuresUsdt>>} :
        leg[1] # 0 /\ leg[2] # 0}

InitialPositions ==
    LET priced == SelectSeq(snapshot, LAMBDA row : Priced(row) # {})
        total(row, k) == MapThenSumSet(LAMBDA leg : Abs(leg[k]),
                                      Priced(row))
    IN  [k \in DOMAIN priced |->
            [symbol |-> priced[k].symbol, spot |-> priced[k].spot,
             futures |-> priced[k].futures,
             mark |-> total(priced[k], 2) \div total(priced[k], 1)]]
-----------------------------------------------------------------------------
(* The state of a symbol. *)

ZeroSnapshot ==
    [gross |-> 0, fees |-> 0, realized |-> 0, floating |-> 0, total |-> 0]

(* VenueFifo::for_source *)
Unit == IF setup.kind = "market_making" THEN "amount" ELSE "quantity"

NewState ==
    [fifo |-> [leg \in {"spot", "futures"} |-> NewFifo(Unit)],
     snap |-> [leg \in {"spot", "futures"} |-> ZeroSnapshot],
     qty |-> [leg \in {"spot", "futures"} |-> 0],
     funding |-> 0, interest |-> 0, mark |-> None,
     badFees |-> 0, badInterest |-> 0]

(* Mutant of Marked: only the leg that traded is marked. *)
MarkedOneLeg(state, leg, price) ==
    [state EXCEPT !.mark = price,
                  !.snap[leg] = Snapshot(state.fifo[leg], price, price)]

(* Both legs are marked at the latest price of the symbol. *)
Marked(state, leg, price) ==
    [state EXCEPT !.mark = price,
                  !.snap = [l \in {"spot", "futures"} |->
                               Snapshot(state.fifo[l], price, price)]]

(* VenueFifo::apply_fill *)
Filled(state, leg, side, price, qty, amount, fee) ==
    [state EXCEPT !.fifo[leg] =
        ApplyFill(state.fifo[leg], side, price,
                  IF Unit = "quantity" THEN qty ELSE amount, fee)]

SideOf(qty) == IF qty > 0 THEN "buy" ELSE "sell"

(* seed_fifo *)
SeededLeg(state, leg, qty, mark) ==
    IF qty = 0 THEN state
    ELSE Filled(state, leg, SideOf(qty), mark, Abs(qty), Abs(qty) * mark, 0)

(* seed_position *)
Seeded(state, position) ==
    Marked([SeededLeg(SeededLeg(state, "spot", position.spot, position.mark),
                      "futures", position.futures, position.mark)
            EXCEPT !.qty = [spot |-> position.spot,
                            futures |-> position.futures]],
           "spot", position.mark)

(* apply_trade *)
ApplyTrade(state, e) ==
    Marked([Filled(state, e.leg, e.side, e.price, e.qty, e.amount,
                   OrElse(e.fee, 0))
            EXCEPT !.qty[e.leg] = @ + (IF e.side = "buy" THEN e.qty ELSE -e.qty),
                   !.badFees = @ + (IF e.fee = None THEN 1 ELSE 0)],
           e.leg, e.price)

Charged(state, e) ==
    IF e.cost = None THEN [state EXCEPT !.badInterest = @ + 1]
    ELSE [state EXCEPT !.interest = @ + Scale * e.cost]

(***************************************************************************)
(* apply_interest: base-asset interest is a fill without a fee at the      *)
(* conversion price, else the price the cost implies, else the mark.       *)
(***************************************************************************)
ImpliedPrice(e) ==
    IF e.cost # None /\ e.cost > 0 THEN e.cost \div Abs(e.delta) ELSE None

InterestFill(state, e, price) ==
    CASE e.delta = 0 \/ Unit = "amount" ->
               Charged([state EXCEPT !.qty["spot"] = @ + e.delta], e)
      [] price = None -> Charged(state, e)
      [] OTHER ->
           Charged([Marked(Filled(state, "spot", SideOf(e.delta), price,
                                  Abs(e.delta), Abs(e.delta) * price, 0),
                           "spot", price)
                    EXCEPT !.qty["spot"] = @ + e.delta], e)

ApplyInterest(state, e) ==
    InterestFill(state, e,
                 OrElse(OrElse(e.price, ImpliedPrice(e)), state.mark))

(* apply_event *)
Applied(state, e) ==
    CASE e.type = "trade" -> ApplyTrade(state, e)
      [] e.type = "funding" -> [state EXCEPT !.funding = @ + Scale * e.amount]
      [] e.type = "interest" -> ApplyInterest(state, e)

Apply(states, e) == [states EXCEPT ![e.symbol] = Applied(states[e.symbol], e)]

(* metrics *)
Total(state) ==
    state.snap["spot"].total + state.snap["futures"].total
    + state.funding - state.interest

RealizedNet(state) ==
    state.snap["spot"].realized + state.snap["futures"].realized
    + state.funding - state.interest

(* selected_total_pnl *)
SelectedTotal(states, selected) ==
    MapThenSumSet(LAMBDA s : Total(states[s]), selected)

SeededStates ==
    FoldLeft(LAMBDA acc, position :
                 [acc EXCEPT ![position.symbol] = Seeded(@, position)],
             [s \in Symbols |-> NewState], InitialPositions)
-----------------------------------------------------------------------------
(* The merge of the three tables. *)

Rank(e) == CASE e.type = "trade" -> 0 [] e.type = "funding" -> 1 [] OTHER -> 2

(* Time, rank, symbol and, the sort being stable, the order of the table. *)
EventKey(all, k) == <<all[k].ts, Rank(all[k]), all[k].symbol, k>>

KeyLess(a, b) ==
    \E i \in DOMAIN a : a[i] < b[i] /\ \A j \in 1..(i - 1) : a[j] = b[j]

InOrder(all) ==
    LET order == SetToSortSeq(DOMAIN all, LAMBDA j, k :
                     KeyLess(EventKey(all, j), EventKey(all, k)))
    IN  [k \in DOMAIN order |-> all[order[k]]]

Events ==
    InOrder([k \in DOMAIN trades |-> TradeEvent(trades[k])]
            \o [k \in DOMAIN funding |-> FundingEvent(funding[k])]
            \o [k \in DOMAIN interest |-> InterestEvent(interest[k])])

(* The adapters refuse a history with an empty quantity. *)
Loadable == \A k \in DOMAIN trades : Quantity(trades[k]) > 0
-----------------------------------------------------------------------------
(* calculate *)

Point(ts, acc, selected) ==
    [ts |-> ts, total |-> SelectedTotal(acc.states, selected)
                          - MapThenSumSet(LAMBDA s : acc.base[s], selected)]

(* push_or_replace_point *)
Push(points, point) ==
    IF points # <<>> /\ Last(points).ts = point.ts
    THEN [points EXCEPT ![Len(points)] = point]
    ELSE Append(points, point)

(* The boundaries before ts are captured with the state of the moment. *)
Captured(acc, ts, selected) ==
    LET due == {b \in acc.wanted : b < ts}
    IN  [acc EXCEPT !.wanted = @ \ due,
                    !.boundary = @ \cup
                        {<<b, SelectedTotal(acc.states, selected)>> : b \in due}]

BeforeWindow(acc, e, selected) ==
    [Captured(acc, e.ts, selected) EXCEPT !.states = Apply(@, e)]

OpenWindow(acc, start, selected) ==
    LET captured == Captured(acc, start, selected)
        based == [captured EXCEPT !.base =
                     [s \in Symbols |-> Total(captured.states[s])]]
    IN  [based EXCEPT !.points = <<Point(start, based, selected)>>,
                      !.series = [s \in selected |->
                                     <<Point(start, based, {s})>>]]

Pointed(acc, e, selected) ==
    IF e.symbol \notin selected THEN acc
    ELSE [acc EXCEPT
            !.points = Push(@, Point(e.ts, acc, selected)),
            !.series[e.symbol] = Push(@, Point(e.ts, acc, {e.symbol}))]

InWindow(acc, e, selected) ==
    Pointed(BeforeWindow(acc, e, selected), e, selected)

CloseWindow(acc, end, selected) ==
    LET pushed == [acc EXCEPT
            !.points = Push(@, Point(end, acc, selected)),
            !.series = [s \in selected |->
                           Push(acc.series[s], Point(end, acc, {s}))]]
    IN  Captured(pushed, end + 1, selected)

Fresh(end, selected) ==
    [states |-> SeededStates, base |-> [s \in Symbols |-> 0],
     wanted |-> {end - w : w \in {v \in Windows : end - v >= 0}},
     boundary |-> {}, points |-> <<>>, series |-> [s \in selected |-> <<>>]]

Calculate(events, start, end, selected) ==
    CloseWindow(
        FoldLeft(LAMBDA acc, e : InWindow(acc, e, selected),
                 OpenWindow(FoldLeft(LAMBDA acc, e : BeforeWindow(acc, e, selected),
                                     Fresh(end, selected),
                                     SelectSeq(events, LAMBDA e : e.ts < start)),
                            start, selected),
                 SelectSeq(events, LAMBDA e : start =< e.ts /\ e.ts =< end)),
        end, selected)

(* resample_fixed_interval: the last point at or before each tick. *)
Ticks(start, end) ==
    SetToSortSeq({start, end} \cup {t \in start..end : t % Interval = 0}, <)

(* Mutant of Resample: the events at a tick are left out. *)
ResampleBefore(points, start, end) ==
    LET ticks == Ticks(start, end)
    IN  [k \in DOMAIN ticks |->
            [points[Max({1} \cup {i \in DOMAIN points :
                                     points[i].ts < ticks[k]})]
             EXCEPT !.ts = ticks[k]]]

Resample(points, start, end) ==
    LET ticks == Ticks(start, end)
    IN  [k \in DOMAIN ticks |->
            [points[Max({1} \cup {i \in DOMAIN points :
                                     points[i].ts =< ticks[k]})]
             EXCEPT !.ts = ticks[k]]]

(* build_performance *)
MaxDrawdown(points) ==
    FoldLeft(LAMBDA acc, p :
                 LET peak == Max({acc.peak, p.total})
                 IN  [peak |-> peak, worst |-> Max({acc.worst, peak - p.total})],
             [peak |-> points[1].total, worst |-> 0], points).worst

RollingPnl(calculation, window, end, selected) ==
    LET b == end - window
        base == IF b >= 0
                THEN (CHOOSE c \in calculation.boundary : c[1] = b)[2] ELSE 0
    IN  SelectedTotal(calculation.states, selected) - base
-----------------------------------------------------------------------------
(* overview::replay: totals by difference; a boundary precedes its fills.  *)

(* after is the state of the event's symbol after the event. *)
Replayed(acc, e, due, after) ==
    LET before == acc.states[e.symbol]
    IN  [states |-> [acc.states EXCEPT ![e.symbol] = after],
         failed |-> acc.failed \/ after.badFees > 0 \/ after.badInterest > 0,
         wanted |-> acc.wanted \ due,
         boundary |-> acc.boundary \cup {<<b, acc.total>> : b \in due},
         total |-> acc.total + Total(after) - Total(before),
         realized |-> acc.realized + RealizedNet(after) - RealizedNet(before)]

(* Mutant of ReplayStep: fills at a boundary precede it. *)
ReplayStepAfterFills(acc, e) ==
    Replayed(acc, e, {b \in acc.wanted : b < e.ts},
             Applied(acc.states[e.symbol], e))

ReplayStep(acc, e) ==
    Replayed(acc, e, {b \in acc.wanted : b =< e.ts},
             Applied(acc.states[e.symbol], e))

(* The boundaries that no event follows. *)
Ended(acc) ==
    [acc EXCEPT !.boundary = @ \cup {<<b, acc.total>> : b \in acc.wanted}]

Replay(events, end, boundaries) ==
    Ended(FoldLeft(ReplayStep,
                   [states |-> SeededStates, failed |-> FALSE,
                    wanted |-> {b \in boundaries : b =< end},
                    boundary |-> {}, total |-> 0, realized |-> 0],
                   SelectSeq(events, LAMBDA e : e.ts =< end)))
-----------------------------------------------------------------------------
(* Properties. *)

(* The states after each event, the seeded ones first. *)
Trace(events) ==
    FoldLeft(LAMBDA acc, e : Append(acc, Apply(Last(acc), e)),
             <<SeededStates>>, events)

Final == FoldLeft(Apply, SeededStates, Events)

(* The fills of a symbol, with their leg: seeds, trades and interest.      *)
LedgerStep(acc, e) ==
    LET price == IF e.type = "trade" THEN e.price
                 ELSE OrElse(OrElse(e.price, ImpliedPrice(e)), acc.mark)
        fill == IF e.type = "trade"
                THEN [leg |-> e.leg, price |-> price, amount |-> e.amount,
                      qty |-> IF e.side = "buy" THEN e.qty ELSE -e.qty,
                      fee |-> OrElse(e.fee, 0)]
                ELSE [leg |-> "spot", price |-> price, qty |-> e.delta,
                      amount |-> Abs(e.delta) * price, fee |-> 0]
    IN  IF price = None THEN acc
        ELSE [mark |-> price, fills |-> Append(acc.fills, fill)]

SeedFill(position, leg) ==
    [leg |-> leg, qty |-> position[leg], price |-> position.mark,
     amount |-> Abs(position[leg]) * position.mark, fee |-> 0]

FillsOf(symbol) ==
    LET seeds == SelectSeq(InitialPositions, LAMBDA p : p.symbol = symbol)
        first == IF seeds = <<>> THEN [mark |-> None, fills |-> <<>>]
                 ELSE [mark |-> seeds[1].mark,
                       fills |-> SelectSeq(<<SeedFill(seeds[1], "spot"),
                                             SeedFill(seeds[1], "futures")>>,
                                           LAMBDA f : f.qty # 0)]
    IN  FoldLeft(LedgerStep, first, SelectSeq(Events, LAMBDA e :
            /\ e.symbol = symbol
            /\ e.type = "trade" \/ (e.type = "interest" /\ e.delta # 0))).fills

SizeOf(fill) == IF Unit = "quantity" THEN Abs(fill.qty) ELSE fill.amount

(* The units of one side in the order of the fills; a unit carries the     *)
(* number of its fill.                                                     *)
UnitsOf(fills, side) ==
    FoldLeft(LAMBDA acc, i :
                 acc \o [u \in 1..(IF SideOf(fills[i].qty) = side
                                   THEN SizeOf(fills[i]) ELSE 0) |->
                            [price |-> fills[i].price, at |-> i]],
             <<>>, [i \in 1..Len(fills) |-> i])

(* The k-th unit bought is settled against the k-th unit sold. *)
UnitGain(bought, sold) ==
    IF bought.at < sold.at THEN Gain(Unit, bought.price, sold.price, 1)
    ELSE -Gain(Unit, sold.price, bought.price, 1)

(* First in, first out, whatever the sizes of the fills and however often   *)
(* the position changes sign: the realized PnL of a leg is the one of      *)
(* settling the k-th unit bought against the k-th unit sold ("a buy closes *)
(* the oldest short lots first; a sell closes the oldest long lots first").*)
SettledFifo(fifo, bought, sold) ==
    fifo.gross = FoldLeft(LAMBDA acc, k : acc + UnitGain(bought[k], sold[k]), 0,
                          [k \in 1..Least(Len(bought), Len(sold)) |-> k])

(* The lots left over, which lie on one side only, are the running totals  *)
(* of the amount engine and the position of the quantity engine.           *)
LotsMatchPosition(fifo, position) ==
    LET size(lots) == SumOver(lots, LAMBDA lot : lot.size)
    IN  /\ fifo.longs = <<>> \/ fifo.shorts = <<>>
        /\ fifo.longAmount = size(fifo.longs)
        /\ fifo.shortAmount = size(fifo.shorts)
        /\ Unit = "quantity" => position = size(fifo.longs) - size(fifo.shorts)

LegIsFifo(state, leg, fills) ==
    /\ SettledFifo(state.fifo[leg], UnitsOf(fills, "buy"), UnitsOf(fills, "sell"))
    /\ LotsMatchPosition(state.fifo[leg], state.qty[leg])

LegsAreFifo(state, fills) ==
    \A leg \in {"spot", "futures"} :
       LegIsFifo(state, leg, SelectSeq(fills, LAMBDA f : f.leg = leg))

SymbolsAreFifo(states) ==
    \A s \in Symbols : LegsAreFifo(states[s], FillsOf(s))

(***************************************************************************)
(* First in, first out to the last lot: realized PnL, open lots, running   *)
(* totals and position are of one matching, also after interest in coin    *)
(* shortened the position ("Keep FIFO and qty aligned", apply_interest).   *)
(***************************************************************************)
RealizedIsFifo == Loadable => SymbolsAreFifo(Final)

MarkedCash(state, fills) ==
    state.mark # None =>
      Total(state) = Scale * SumOver(fills, LAMBDA f :
                                         (state.mark - f.price) * f.qty - f.fee)
                     + state.funding - state.interest

SymbolsAreMarkedCash(states) ==
    \A s \in Symbols : MarkedCash(states[s], FillsOf(s))

(***************************************************************************)
(* The total of a symbol is what its legs earned at the latest price of    *)
(* the symbol, whichever leg traded last, plus funding, less interest and  *)
(* fees: matching neither creates nor loses value ("without double         *)
(* counting PnL", the interest test of pnl.rs).                            *)
(***************************************************************************)
TotalIsMarkedCash ==
    (Loadable /\ Unit = "quantity") => SymbolsAreMarkedCash(Final)

(* The end of a request is now: later rows would not be loaded. *)
Requests == [start : 0..now, selected : {Symbols, {1}}]

(* The total of the selected symbols after the events up to ts, or before. *)
TotalAt(events, trace, ts, selected) ==
    SelectedTotal(trace[1 + Cardinality({k \in DOMAIN events :
                                            events[k].ts =< ts})], selected)

TotalBefore(events, trace, ts, selected) ==
    TotalAt(events, trace, ts - 1, selected)

(* Every point of the curve, of all selected symbols and of each of them,  *)
(* is the PnL from the start of the window to that moment, events of that  *)
(* moment included, whatever happened between the ticks or before the      *)
(* window.                                                                 *)
PointsExact(calculation, events, trace, r) ==
    LET exact(points, selected) ==
            \A k \in DOMAIN points :
                points[k].total =
                    TotalAt(events, trace, points[k].ts, selected)
                    - TotalBefore(events, trace, r.start, selected)
    IN  /\ exact(Resample(calculation.points, r.start, now), r.selected)
        /\ \A s \in r.selected :
              exact(Resample(calculation.series[s], r.start, now), {s})

(* A rolling window contains the events after its boundary and no other    *)
(* ("the value reflects every event with ts <= boundary").                 *)
RollingIsExact(calculation, events, trace, r) ==
    \A w \in Windows :
       RollingPnl(calculation, w, now, r.selected) =
           TotalAt(events, trace, now, r.selected)
           - (IF now >= w THEN TotalAt(events, trace, now - w, r.selected) ELSE 0)

(* The maximal drawdown is the largest fall from any tick to a later one.  *)
DrawdownIsWorst(points) ==
    MaxDrawdown(points) =
        Max({points[p[1]].total - points[p[2]].total :
                p \in {q \in (DOMAIN points) \X (DOMAIN points) : q[1] =< q[2]}})

AnswerIsExact(calculation, events, trace, r) ==
    /\ PointsExact(calculation, events, trace, r)
    /\ RollingIsExact(calculation, events, trace, r)
    /\ DrawdownIsWorst(Resample(calculation.points, r.start, now))

AnswersAreExact(events, trace) ==
    \A r \in Requests :
       AnswerIsExact(Calculate(events, r.start, now, r.selected), events, trace, r)

(***************************************************************************)
(* What a request shows is what the events of its window give: the points  *)
(* of the curve between ticks, the rolling windows over their own          *)
(* boundaries, and the drawdown over the resampled points, although they   *)
(* share one pass over the events.                                         *)
(***************************************************************************)
CurveIsExact == Loadable => AnswersAreExact(Events, Trace(Events))

ReplayMatches(replay, events, trace) ==
    /\ replay.total = SelectedTotal(Last(trace), Symbols)
    /\ replay.realized = replay.total - MapThenSumSet(LAMBDA s :
          Last(trace)[s].snap["spot"].floating
          + Last(trace)[s].snap["futures"].floating, Symbols)
    /\ \A b \in replay.boundary :
          b[2] = TotalBefore(events, trace, b[1], Symbols)
    /\ {b[1] : b \in replay.boundary} = 0..now

(***************************************************************************)
(* The account overview and the PnL page agree: the sum of the differences *)
(* replay adds up is the total, its boundaries precede the fills at the    *)
(* boundary, and its realized part is what is not floating.                *)
(***************************************************************************)
ReplayAgrees ==
    Loadable => ReplayMatches(Replay(Events, now, 0..now), Events, Trace(Events))
=============================================================================
