---------------------------- MODULE MCCollectors ----------------------------
(* Instances of Collectors for TLC. *)
EXTENDS Collectors

BothEnvironments == <<"arb", "gate">>
TheirVenues == [arb |-> "binance", gate |-> "gate"]
TwoSymbols == <<"btc", "eth">>
TheirVisible == [admin |-> {"arb", "gate"}, member |-> {"gate"}]

Leg(notional, limit) == [notional |-> notional, limit |-> limit]
Flat == [btc |-> <<>>, eth |-> <<>>]
AllLive == [buy |-> 2, sell |-> 0, amount |-> 5, overrides |-> <<>>]

Quiet ==
    [keys |-> TRUE, lists |-> TRUE, snapshot |-> Flat, guard |-> AllLive,
     positions |-> [btc |-> <<Leg(20, 100)>>, eth |-> <<>>],
     config |-> [btc |-> 100, eth |-> None], brackets |-> [btc |-> {}, eth |-> {}]]

Positions ==
    {[btc |-> btc, eth |-> <<>>] :
       btc \in {<<>>, <<Leg(-80, 100)>>, <<Leg(60, 80), Leg(30, 100)>>,
                <<Leg(90, None), Leg(None, 100)>>, <<Leg(50, 60), Leg(-50, 60)>>}}
        \cup {[btc |-> <<Leg(-80, 100)>>, eth |-> <<Leg(-9, 20)>>], None}

Snapshots ==
    {[btc |-> <<[open |-> 80, futures |-> -80], [open |-> 5, futures |-> None]>>,
      eth |-> <<>>], Flat, None}

Guards ==
    {AllLive, [AllLive EXCEPT !.amount = None], [AllLive EXCEPT !.overrides = None],
     [buy |-> -1, sell |-> 9, amount |-> 5,
      overrides |-> [s \in {"btc"} |-> 12]], None}

Configs ==
    {[btc |-> 100, eth |-> None], [btc |-> None, eth |-> 20],
     [btc |-> None, eth |-> None], None}

Brackets ==
    {[btc |-> btc, eth |-> {}] : btc \in {{}, {50, 95}}} \cup {None}

EveryReply(keys) ==
    [keys : keys, lists : {TRUE}, snapshot : Snapshots, guard : Guards, positions : Positions,
     config : Configs, brackets : Brackets]

(* One environment that answers anything; two users of two environments. *)
Scenes ==
    [binance |-> [arb |-> EveryReply({TRUE})
                            \cup {[Quiet EXCEPT !.lists = FALSE]},
                  gate |-> {Quiet}],
     gate |-> [arb |-> {Quiet}, gate |-> {reply \in EveryReply(BOOLEAN) :
                  reply.config = None /\ reply.brackets = None}],
     users |-> [arb |-> {Quiet, [Quiet EXCEPT !.config = None]}, gate |-> {Quiet}]]

Calls == [binance |-> 1, gate |-> 1, users |-> 3]

-----------------------------------------------------------------------------
Shape(leg, new, created, updated, signal, open, hedge) ==
    [leg |-> leg, new |-> new, created |-> created, updated |-> updated,
     signal |-> signal, open |-> open, hedge |-> hedge]

OrderShapes ==
    {Shape("margin", TRUE, 1, 3, 9, 8, 2), Shape("margin", TRUE, 1, 6, 9, 4, 5),
     Shape("futures", TRUE, 4, 3, 0, 0, 0)}

OneStrategy == <<"binance">>
SomeRanges == {<<0, 4>>}

GateAndOkx == <<"gate", "okx">>

-----------------------------------------------------------------------------
TwoRoles == <<"PreTrade", "TradeEngine">>
FewLines == [PreTrade |-> 1, TradeEngine |-> 2]
TheirStates == [PreTrade |-> {"stuck"}, TradeEngine |-> {"zombie"}]
OnlyEngine == {"TradeEngine"}
TheirKinds == [PreTrade |-> {"order", "odd"},
               TradeEngine |-> {"block", "expected"}]
=============================================================================
