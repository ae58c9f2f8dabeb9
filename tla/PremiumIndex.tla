----------------------------- MODULE PremiumIndex -----------------------------
(***************************************************************************)
(* The premium-index collector of one traded symbol                        *)
(* (src/src/binance_premium_index.rs; bybit_premium_index.rs is the same   *)
(* loop over another endpoint): every minute it reads which minutes are    *)
(* stored, fills backwards to the first trade and forwards to the last     *)
(* complete minute, page by page, each page stored on its own.  The first  *)
(* trade may move back when older orders are loaded.  A minute is a tick.  *)
(***************************************************************************)
EXTENDS Integers, FiniteSets, FiniteSetsExt, Absent

CONSTANTS
    Published,    \* minutes the exchange has a candle for
    FirstTrades,  \* the first trades the orders may show, None without
    PageLimit,    \* PAGE_LIMIT
    LastMinute,   \* bound: clock
    MaxErrors     \* bound: pages that fail and restarts

ASSUME PremiumAssumption ==
    /\ Published \subseteq Nat /\ PageLimit \in Nat \ {0}
    /\ LastMinute \in Nat /\ MaxErrors \in Nat

VARIABLES
    minute,
    firstTrade,   \* the first trade of the orders, None without
    candles,      \* *_premium_index_klines of the symbol: open minutes
    pass,         \* the pass of sync_cycle over the symbol, or None
    nextPass,     \* when the loop runs again
    errors,
    torn          \* history: a backward fill stopped half way

premiumVars == <<minute, firstTrade, candles, pass, nextPass, errors, torn>>

LatestComplete == minute - 1

-----------------------------------------------------------------------------
(* A pass fills one or two ranges, <<first minute, last minute>>. *)

Backward(desired) ==
    IF candles # {} /\ desired < Min(candles)
    THEN {<<desired, Min(candles) - 1>>} ELSE {}

ForwardStart(desired) ==
    IF candles = {} THEN desired ELSE Max(candles) + 1

Forward(desired) ==
    LET start == ForwardStart(desired)
    IN IF start =< LatestComplete THEN {<<start, LatestComplete>>} ELSE {}

(* Backward comes first: a failure there ends the pass. *)
Planning(ranges) ==
    IF ranges = {} THEN None
    ELSE LET first == CHOOSE r \in ranges : \A other \in ranges : r[1] =< other[1]
         IN [from |-> first[1], cursor |-> first[1], end |-> first[2],
             rest |-> ranges \ {first}]

PremiumInit ==
    /\ minute = 0
    /\ firstTrade = None /\ candles = {}
    /\ pass = None /\ nextPass = 0
    /\ errors = 0 /\ torn = FALSE

(* The loop sleeps a minute; at the end of the clock it still goes on.     *)
Later == Min({minute + 1, LastMinute})

BeginPass ==
    /\ pass = None /\ nextPass =< minute
    /\ LET ranges == IF firstTrade = None THEN {}
                     ELSE IF firstTrade > LatestComplete THEN {}
                     ELSE Backward(firstTrade) \cup Forward(firstTrade)
       IN /\ pass' = Planning(ranges)
          /\ nextPass' = IF ranges = {} THEN Later ELSE nextPass
    /\ UNCHANGED <<minute, firstTrade, candles, errors, torn>>

PageEnd == Min({pass.cursor + PageLimit - 1, pass.end})

(* The candle of the newest minute may not be published yet. *)
Available(late) ==
    {m \in Published : /\ pass.cursor =< m /\ m =< PageEnd
                       /\ ~(late /\ m = LatestComplete)}

AfterRange ==
    IF pass.rest = {} THEN None ELSE Planning(pass.rest)

(* Mutant of CursorAfter: the minute behind the page is skipped. *)
CursorBeyond(page) == Max(page) + 2

(* The cursor goes on behind the last candle the page had. *)
CursorAfter(page) == Max(page) + 1

StorePage ==
    /\ pass # None
    /\ \E late \in BOOLEAN :
         LET page == Available(late)
         IN /\ page # {}
            /\ candles' = candles \cup page
            /\ pass' = IF CursorAfter(page) =< pass.end
                       THEN [pass EXCEPT !.cursor = CursorAfter(page)]
                       ELSE AfterRange
    /\ nextPass' = IF pass' = None THEN Later ELSE nextPass
    /\ UNCHANGED <<minute, firstTrade, errors, torn>>

(* A pass that stops behind the first page of a backward fill leaves a     *)
(* hole that no later pass sees: only the ends are read.                   *)
Stopped ==
    /\ torn' = IF pass.from < pass.cursor /\ \E m \in candles : m > pass.end
               THEN TRUE ELSE torn
    /\ pass' = None
    /\ nextPass' = Later

(* sync_range fails on a page without candles. *)
EmptyPage ==
    /\ pass # None
    /\ \E late \in BOOLEAN : Available(late) = {}
    /\ Stopped
    /\ UNCHANGED <<minute, firstTrade, candles, errors>>

PageFails ==
    /\ pass # None /\ errors < MaxErrors
    /\ errors' = errors + 1
    /\ Stopped
    /\ UNCHANGED <<minute, firstTrade, candles>>

(* A trade, or an older order that is loaded late. *)
Traded ==
    /\ \E ts \in FirstTrades :
         /\ ts =< minute
         /\ IF firstTrade = None THEN TRUE ELSE ts < firstTrade
         /\ firstTrade' = ts
    /\ UNCHANGED <<minute, candles, pass, nextPass, errors, torn>>

MinuteTick ==
    /\ minute < LastMinute
    /\ minute' = minute + 1
    /\ UNCHANGED <<firstTrade, candles, pass, nextPass, errors, torn>>

PremiumNext ==
    \/ BeginPass \/ StorePage \/ EmptyPage \/ PageFails \/ Traded \/ MinuteTick

-----------------------------------------------------------------------------
(* Properties. *)

(* In the end every minute published since the first trade is stored,      *)
(* whatever fails, when no backward fill stops half way and the exchange   *)
(* has a candle in every page (spawn, sync_cycle).                         *)
CandlesFollow ==
    <>[](\/ torn \/ firstTrade = None
         \/ Published \cap (firstTrade .. LastMinute - 2) \subseteq candles)
=============================================================================
