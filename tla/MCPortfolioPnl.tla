--------------------------- MODULE MCPortfolioPnl ---------------------------
(* Instances of PortfolioPnl for TLC. *)
EXTENDS PortfolioPnl

TradeRow(symbol, market, role, side, price, qty, asset) ==
    [symbol |-> symbol, market |-> market, role |-> role, side |-> side,
     price |-> price, qty |-> qty, quote |-> None, fee |-> 1,
     feeUsdt |-> IF asset = "stable" THEN 1 ELSE None, asset |-> asset]

(* Spot and futures legs, maker rebates, fees paid in another coin. *)
BinanceIntra ==
    [kind |-> "intra", exchange |-> "binance", cached |-> 2,
     rows |-> 3, lastTime |-> 3,
     trades |-> {TradeRow(1, "spot", "maker", side, price, 1, "base") :
                    side \in {"buy", "sell"}, price \in {1, 2}}
                \cup {TradeRow(1, "swap", "taker", side, 2, 2, "other") :
                    side \in {"buy", "sell"}},
     funding |-> {[symbol |-> 1, amount |-> 3]},
     interest |-> {}, snapshots |-> {<<>>}]

(* Base-asset fees and interest, with and without a known price; an         *)
(* initial snapshot.                                                        *)
BybitFunding ==
    [kind |-> "funding_rate", exchange |-> "bybit", cached |-> None,
     rows |-> 3, lastTime |-> 2,
     trades |-> {TradeRow(1, "spot", "taker", "buy", 1, 2, "base"),
                 TradeRow(1, "spot", "taker", "sell", 2, 2, "base"),
                 TradeRow(1, "swap", "taker", "sell", 1, 1, "other")},
     funding |-> {},
     interest |-> {[symbol |-> 1, interest |-> -1, usdt |-> None],
                   [symbol |-> 2, interest |-> -1, usdt |-> -2],
                   [symbol |-> 2, interest |-> -1, usdt |-> None],
                   [symbol |-> Stable, interest |-> -1, usdt |-> None]},
     snapshots |-> {<<>>, <<[symbol |-> 1, spot |-> -3, spotUsdt |-> -3,
                             futures |-> 2, futuresUsdt |-> 2],
                            [symbol |-> 2, spot |-> 0, spotUsdt |-> 0,
                             futures |-> 1, futuresUsdt |-> 0]>>}]

(* Futures fills of any size at any price, in notional. *)
GateMarketMaking ==
    [kind |-> "market_making", exchange |-> "gate", cached |-> None,
     rows |-> 4, lastTime |-> 0,
     trades |-> {TradeRow(1, "swap", "maker", side, price, qty, "stable") :
                    side \in {"buy", "sell"}, price \in {1, 2}, qty \in {1, 2}},
     funding |-> {}, interest |-> {}, snapshots |-> {<<>>}]

AllSetups == {BinanceIntra, BybitFunding, GateMarketMaking}
=============================================================================
