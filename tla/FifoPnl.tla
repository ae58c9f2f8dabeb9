------------------------------ MODULE FifoPnl ------------------------------
(***************************************************************************)
(* FIFO matching of the fills of one leg into realized and floating PnL    *)
(* (src/src/fifo_pnl.rs, src/src/quantity_fifo_pnl.rs).  The two engines   *)
(* run the same loop over their lots and differ in what a lot measures:    *)
(* unit is "quantity" (base asset) or "amount" (notional at entry), and in *)
(* the running totals that only the amount engine keeps.                   *)
(*                                                                         *)
(* An engine is a record; PnL is counted in 1/Scale, where Scale is a      *)
(* multiple of every price, so that the amount engine's division by the    *)
(* entry price is exact.                                                   *)
(***************************************************************************)
EXTENDS Integers, Sequences, SequencesExt

CONSTANTS Prices, Scale

ASSUME ScaleAssumption ==
    /\ Prices \subseteq Nat \ {0}
    /\ Scale \in Nat \ {0} /\ \A p \in Prices : Scale % p = 0

NewFifo(unit) ==
    [unit |-> unit,
     longs |-> <<>>, shorts |-> <<>>,        \* open lots, oldest first
     longAmount |-> 0, shortAmount |-> 0,
     gross |-> 0, fees |-> 0]
-----------------------------------------------------------------------------
(* Matching. *)

Least(a, b) == IF a =< b THEN a ELSE b

(* What size earns when the price goes from entry to exit. *)
Gain(unit, entry, exit, size) ==
    IF unit = "quantity" THEN Scale * (exit - entry) * size
    ELSE (Scale \div entry) * (exit - entry) * size

(* One turn of the loop in close_fifo; lots after the rest is used up stay. *)
MatchLot(unit, acc, lot, price, direction) ==
    LET matched == Least(acc.rest, lot.size)
    IN  [rest |-> acc.rest - matched,
         pnl |-> acc.pnl + direction * Gain(unit, lot.price, price, matched),
         open |-> IF matched = lot.size THEN acc.open
                  ELSE Append(acc.open, [lot EXCEPT !.size = @ - matched])]

(* Mutant of CloseFifo: the newest lots are closed first. *)
CloseFifoNewest(unit, lots, price, size, direction) ==
    LET closed == FoldLeft(LAMBDA acc, lot :
                               MatchLot(unit, acc, lot, price, direction),
                           [rest |-> size, pnl |-> 0, open |-> <<>>],
                           Reverse(lots))
    IN  [closed EXCEPT !.open = Reverse(@)]

(* close_fifo *)
CloseFifo(unit, lots, price, size, direction) ==
    FoldLeft(LAMBDA acc, lot : MatchLot(unit, acc, lot, price, direction),
             [rest |-> size, pnl |-> 0, open |-> <<>>], lots)

(* The part of a fill that closes nothing opens a lot. *)
Opened(lots, price, rest) ==
    IF rest > 0 THEN Append(lots, [price |-> price, size |-> rest]) ELSE lots

(* matched_amount_u *)
Matched(size, rest) == size - rest

(* apply_fill by side, with what closing the other side's lots gave. *)
Bought(fifo, price, size, closed) ==
    [fifo EXCEPT !.shorts = closed.open,
                 !.longs = Opened(@, price, closed.rest),
                 !.shortAmount = @ - Matched(size, closed.rest),
                 !.longAmount = @ + closed.rest,
                 !.gross = @ + closed.pnl]

Sold(fifo, price, size, closed) ==
    [fifo EXCEPT !.longs = closed.open,
                 !.shorts = Opened(@, price, closed.rest),
                 !.longAmount = @ - Matched(size, closed.rest),
                 !.shortAmount = @ + closed.rest,
                 !.gross = @ + closed.pnl]

Buy(fifo, price, size) ==
    Bought(fifo, price, size, CloseFifo(fifo.unit, fifo.shorts, price, size, -1))

Sell(fifo, price, size) ==
    Sold(fifo, price, size, CloseFifo(fifo.unit, fifo.longs, price, size, 1))

(* apply_fill *)
ApplyFill(fifo, side, price, size, fee) ==
    [(IF side = "buy" THEN Buy(fifo, price, size) ELSE Sell(fifo, price, size))
     EXCEPT !.fees = @ + Scale * fee]
-----------------------------------------------------------------------------
(* Marking. *)

SumOver(lots, Value(_)) ==
    FoldLeft(LAMBDA acc, lot : acc + Value(lot), 0, lots)

(* floating_pnl: long lots are marked at ask, short lots at bid. *)
FloatingPnl(fifo, bid, ask) ==
    SumOver(fifo.longs, LAMBDA lot : Gain(fifo.unit, lot.price, ask, lot.size))
    - SumOver(fifo.shorts,
              LAMBDA lot : Gain(fifo.unit, lot.price, bid, lot.size))

SnapshotWith(fifo, floating) ==
    [gross |-> fifo.gross, fees |-> fifo.fees,
     realized |-> fifo.gross - fifo.fees, floating |-> floating,
     total |-> fifo.gross - fifo.fees + floating]

Snapshot(fifo, bid, ask) == SnapshotWith(fifo, FloatingPnl(fifo, bid, ask))
=============================================================================
