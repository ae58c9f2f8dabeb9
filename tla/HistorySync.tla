---------------------------- MODULE HistorySync ----------------------------
(***************************************************************************)
(* The history scan of one dataset of one strategy: the sync_history       *)
(* command (src/src/bin/sync_history.rs), which copies fills from the      *)
(* exchange's REST history into PostgreSQL and keeps, per strategy and     *)
(* dataset, the row of history_sync_watermarks from which the next         *)
(* incremental scan starts.  Several processes run it at once: the child   *)
(* of the recurring worker, the child of a reconciliation, an operator.    *)
(*                                                                         *)
(* Times are abstract milliseconds.  A fill is identified by its symbol    *)
(* and its event time, which is what the upsert key comes to here; prices  *)
(* and quantities are not told apart.  The exchange publishes a fill in    *)
(* its REST history at most Lateness after its event time.                 *)
(***************************************************************************)
EXTENDS Integers, FiniteSets

CONSTANTS
    Procs,      \* processes that may run sync_history
    Symbols,    \* the symbols the account may trade
    Spot,       \* those of them on the spot or margin leg
    Delisted,   \* symbols the exchange may refuse to look up
    Mode,       \* how the exchange serves fills: see Scopes
    StMs,       \* strategy_envs.st_ms, where the strategy's history starts
    Overlap,    \* --overlap-minutes
    Lateness,   \* bound on the delay between a fill and its publication
    MaxTime,    \* bound: the clock stops here
    MaxFills,   \* bound: number of fills
    Requests    \* the command lines that may be issued

NoTime == -1    \* an absent optional timestamp

Time == 0..MaxTime

Fill == [sym: Symbols, t: Time]

(***************************************************************************)
(* The arguments of a command line.  ends says where --end-ms comes from:  *)
(* "now" (absent), "past" (any time up to now) or "any".  gated is not an  *)
(* argument: such a command is issued only once rows are stored, as the    *)
(* worker does with the backfill of a CTA symbol.                          *)
(***************************************************************************)
Request == [full: BOOLEAN, start: Time \cup {NoTime},
            ends: {"now", "past", "any"}, symbols: SUBSET Symbols,
            derivatives: BOOLEAN, advance: BOOLEAN, gated: BOOLEAN]

ASSUME ParametersAssumption ==
    /\ StMs \in Nat /\ Overlap \in Nat /\ Lateness \in Nat
    /\ MaxTime \in Nat /\ MaxFills \in Nat
    /\ Mode \in {"account", "portfolio", "symbol"}
    /\ Symbols # {} /\ Delisted \subseteq Symbols /\ Spot \subseteq Symbols
    /\ Requests \subseteq Request

VARIABLES
    now,        \* the clock
    fills,      \* fills that happened
    published,  \* those the REST history shows
    rows,       \* those stored in PostgreSQL
    watermark,  \* history_sync_watermarks.success_end_ms, or NoTime
    scan        \* the memory of each sync_history process

exchangeVars == <<now, fills, published>>
storeVars == <<rows, watermark>>
vars == <<now, fills, published, rows, watermark, scan>>

NoRequest == [full |-> FALSE, start |-> NoTime, ends |-> "now",
              symbols |-> {}, derivatives |-> FALSE, advance |-> FALSE,
              gated |-> FALSE]

(***************************************************************************)
(* A process that is not running.  A process runs latest -> cursor ->      *)
(* symbols -> fetch; end is main's end_ms, latest what                     *)
(* latest_dataset_time returned, start what scan_start returned, pending   *)
(* the symbols still to fetch and fetched the records downloaded so far.   *)
(***************************************************************************)
Idle == [pc |-> "idle", req |-> NoRequest, end |-> 0, latest |-> NoTime,
         start |-> 0, pending |-> {}, fetched |-> {}]

Init ==
    /\ now = 0
    /\ fills = {}
    /\ published = {}
    /\ rows = {}
    /\ watermark = NoTime
    /\ scan = [p \in Procs |-> Idle]
-----------------------------------------------------------------------------
(* The exchange and the clock. *)

Trade(s) ==
    /\ Cardinality(fills) < MaxFills
    /\ [sym |-> s, t |-> now] \notin fills
    /\ fills' = fills \cup {[sym |-> s, t |-> now]}
    /\ UNCHANGED <<now, published, rows, watermark, scan>>

Publish(f) ==
    /\ f \in fills \ published
    /\ published' = published \cup {f}
    /\ UNCHANGED <<now, fills, rows, watermark, scan>>

(* Time may not pass the moment at which a fill has to be published. *)
Tick ==
    /\ now < MaxTime
    /\ \A f \in fills \ published : now + 1 - f.t =< Lateness
    /\ now' = now + 1
    /\ UNCHANGED <<fills, published, rows, watermark, scan>>
-----------------------------------------------------------------------------
(* The scan. *)

MaxOf(a, b) == IF a >= b THEN a ELSE b

(* scan_start: an explicit start, then --full, then the cursor. *)
HasStart(r, mark, latest) ==
    r.start # NoTime \/ r.full \/ mark # NoTime \/ latest # NoTime

ScanStart(r, mark, latest) ==
    IF r.start # NoTime THEN r.start
    ELSE IF r.full THEN StMs
    ELSE MaxOf(StMs, (IF mark # NoTime THEN mark ELSE latest) - Overlap)

(* latest_dataset_time: SELECT MAX(event time), NULL for an empty table. *)
IsLatest(t) ==
    IF rows = {} THEN t = NoTime
    ELSE t \in {f.t : f \in rows} /\ \A f \in rows : f.t =< t

StoredSymbols == {f.sym : f \in rows}

(***************************************************************************)
(* load_trade_symbols together with fetch_trades: the symbols a scan asks  *)
(* for.  "account": Bybit, Gate, Bitget and OKX serve all symbols in one   *)
(* listing.  "portfolio": RapidX, where --symbol is a filter.  "symbol":   *)
(* Binance, one request per requested or else per stored symbol; stored    *)
(* funding, liquidations and fills of the other leg name symbols as well.  *)
(***************************************************************************)
Scopes(r) ==
    CASE Mode = "account" -> {Symbols}
      [] Mode = "portfolio" -> {IF r.symbols = {} THEN Symbols ELSE r.symbols}
      [] Mode = "symbol" -> IF r.symbols # {} THEN {r.symbols}
                            ELSE {scope \in SUBSET Symbols :
                                    StoredSymbols \subseteq scope}

(* include_spot_trades: --derivatives-only leaves the spot leg out. *)
Legs(r) == IF r.derivatives THEN Symbols \ Spot ELSE Symbols

(* main: the arguments are validated and end_ms fixed before any dataset. *)
Launch(p, r, e) ==
    /\ scan[p].pc = "idle"
    /\ r.ends = "now" => e = now
    /\ r.ends = "past" => e =< now
    /\ e >= StMs
    /\ r.start # NoTime => r.start >= StMs /\ r.start =< e
    /\ r.gated => rows # {}
    /\ scan' = [scan EXCEPT ![p] =
                  [Idle EXCEPT !.pc = "latest", !.req = r, !.end = e]]
    /\ UNCHANGED <<now, fills, published, rows, watermark>>

ReadLatest(p) ==
    /\ scan[p].pc = "latest"
    /\ \E t \in Time \cup {NoTime} :
          /\ IsLatest(t)
          /\ scan' = [scan EXCEPT ![p] = [@ EXCEPT !.pc = "cursor", !.latest = t]]
    /\ UNCHANGED <<now, fills, published, rows, watermark>>

(* The watermark is read after the latest row; scan_start uses both.  *)
ReadCursor(p) ==
    LET begin == ScanStart(scan[p].req, watermark, scan[p].latest)
    IN  /\ scan[p].pc = "cursor"
        /\ HasStart(scan[p].req, watermark, scan[p].latest)
        /\ begin =< scan[p].end
        /\ scan' = [scan EXCEPT ![p] = [@ EXCEPT !.pc = "symbols", !.start = begin]]
        /\ UNCHANGED <<now, fills, published, rows, watermark>>

(* "already beyond requested end; skipped": success without a commit.  *)
SkipBeyondEnd(p) ==
    /\ scan[p].pc = "cursor"
    /\ HasStart(scan[p].req, watermark, scan[p].latest)
    /\ ScanStart(scan[p].req, watermark, scan[p].latest) > scan[p].end
    /\ scan' = [scan EXCEPT ![p] = Idle]
    /\ UNCHANGED <<now, fills, published, rows, watermark>>

(* "is not initialized": there is no cursor and --full was not given.  *)
NotInitialized(p) ==
    /\ scan[p].pc = "cursor"
    /\ ~HasStart(scan[p].req, watermark, scan[p].latest)
    /\ scan' = [scan EXCEPT ![p] = Idle]
    /\ UNCHANGED <<now, fills, published, rows, watermark>>

(* An empty Binance symbol list is an error, left to Fail.  *)
ResolveSymbols(p) ==
    /\ scan[p].pc = "symbols"
    /\ \E scope \in Scopes(scan[p].req) :
          /\ scope # {}
          /\ scan' = [scan EXCEPT ![p] =
                [@ EXCEPT !.pc = "fetch",
                          !.pending = scope \cap Legs(scan[p].req)]]
    /\ UNCHANGED <<now, fills, published, rows, watermark>>

(* The fills of one symbol that the REST history shows at this moment.  *)
Shown(p, s) ==
    {f \in published : /\ f.sym = s
                       /\ scan[p].start =< f.t /\ f.t =< scan[p].end}

Fetch(p, s) ==
    /\ scan[p].pc = "fetch"
    /\ s \in scan[p].pending
    /\ scan' = [scan EXCEPT ![p] =
                  [@ EXCEPT !.pending = scan[p].pending \ {s},
                            !.fetched = scan[p].fetched \cup Shown(p, s)]]
    /\ UNCHANGED <<now, fills, published, rows, watermark>>

(***************************************************************************)
(* Error -1121 for a Binance symbol, or a Gate contract whose multiplier   *)
(* cannot be looked up: its fills are dropped and the scan goes on.        *)
(***************************************************************************)
SkipSymbol(p, s) ==
    /\ scan[p].pc = "fetch"
    /\ s \in scan[p].pending \cap Delisted
    /\ scan' = [scan EXCEPT ![p].pending = @ \ {s}]
    /\ UNCHANGED <<now, fills, published, rows, watermark>>

(* Mutant of AdvanceWatermark: the last commit wins. *)
AdvanceWatermarkOverwrite(end) == end

(* advance_watermark: GREATEST of the stored boundary and the scan's end. *)
AdvanceWatermark(end) == MaxOf(watermark, end)

(* Mutant of Commit: the transaction is written before every symbol is read. *)
CommitWithoutPending(p) ==
    /\ scan[p].pc = "fetch"
    /\ rows' = rows \cup scan[p].fetched
    /\ watermark' = IF scan[p].req.advance
                      THEN AdvanceWatermark(scan[p].end) ELSE watermark
    /\ scan' = [scan EXCEPT ![p] = Idle]
    /\ UNCHANGED <<now, fills, published>>

(* commit_*: rows and watermark in one PostgreSQL transaction.  *)
Commit(p) ==
    /\ scan[p].pc = "fetch"
    /\ scan[p].pending = {}
    /\ rows' = rows \cup scan[p].fetched
    /\ watermark' = IF scan[p].req.advance
                      THEN AdvanceWatermark(scan[p].end) ELSE watermark
    /\ scan' = [scan EXCEPT ![p] = Idle]
    /\ UNCHANGED <<now, fills, published>>

(* An error before the commit, or the death of the process.  *)
Fail(p) ==
    /\ scan[p].pc # "idle"
    /\ scan' = [scan EXCEPT ![p] = Idle]
    /\ UNCHANGED <<now, fills, published, rows, watermark>>

ScanStep(p) ==
    \/ ReadLatest(p)
    \/ ReadCursor(p)
    \/ SkipBeyondEnd(p)
    \/ NotInitialized(p)
    \/ ResolveSymbols(p)
    \/ \E s \in Symbols : Fetch(p, s) \/ SkipSymbol(p, s)
    \/ Commit(p)

Next ==
    \/ Tick
    \/ \E s \in Symbols : Trade(s)
    \/ \E f \in Fill : Publish(f)
    \/ \E p \in Procs :
          \/ \E r \in Requests, e \in Time : Launch(p, r, e)
          \/ ScanStep(p)
          \/ Fail(p)

Spec == Init /\ [][Next]_vars
-----------------------------------------------------------------------------
(* Properties. *)

ScanType ==
    [pc: {"idle", "latest", "cursor", "symbols", "fetch"},
     req: Request, end: Time, latest: Time \cup {NoTime}, start: Time,
     pending: SUBSET Symbols, fetched: SUBSET Fill]

(* The types of the clock, the exchange, the store and the processes. *)
TypeOK ==
    /\ now \in Time
    /\ fills \subseteq Fill
    /\ published \subseteq fills
    /\ rows \subseteq Fill
    /\ watermark \in Time \cup {NoTime}
    /\ scan \in [Procs -> ScanType]

(***************************************************************************)
(* What the watermark promises ("Last fully successful REST history scan   *)
(* boundary", migration 0020): every fill of the strategy that was old     *)
(* enough to be published when the boundary was reached is stored, except  *)
(* on a symbol the exchange may refuse to look up.                         *)
(***************************************************************************)
Due(f, boundary) ==
    f.sym \notin Delisted /\ StMs =< f.t /\ f.t + Lateness < boundary

WatermarkCovers == \A f \in fills : Due(f, watermark) => f \in rows

(***************************************************************************)
(* The boundary never moves back, whichever of two overlapping scans       *)
(* commits last (GREATEST in advance_watermark).                           *)
(***************************************************************************)
WatermarkMonotone == [][watermark' >= watermark]_vars

(***************************************************************************)
(* Scans, commits, failures and overlapping processes implement a stored   *)
(* history that only grows by what the exchange showed, with a boundary    *)
(* that moves forward and only over records that are stored: to a reader   *)
(* of rows and watermark the scans are not there.                          *)
(***************************************************************************)
Promise == INSTANCE StoredHistory WITH
    Refused <- Delisted, From <- StMs, Delay <- Lateness, NoBoundary <- NoTime,
    happened <- fills, shown <- published, stored <- rows, boundary <- watermark

KeepsPromise == Promise!Spec

(***************************************************************************)
(* The discipline under which the watermark keeps its promise: the overlap *)
(* covers the publication delay, a scan that advances the watermark starts *)
(* at the cursor, ends by now and reads every symbol, and a scan that does *)
(* not is issued only after a first scan has stored rows.                  *)
(***************************************************************************)
Whole(r) == /\ \/ Mode = "account"
               \/ Mode = "portfolio" /\ r.symbols = {}
               \/ r.symbols = Symbols
            /\ Legs(r) = Symbols

Contiguous ==
    /\ Lateness =< Overlap
    /\ \A r \in Requests :
          /\ r.advance => r.start = NoTime /\ r.ends # "any" /\ Whole(r)
          /\ ~r.advance => r.gated

(* An explicit start leaves nothing behind that is not stored.  *)
BeforeStored(r) ==
    \A f \in fills :
        f.sym \notin Delisted /\ StMs =< f.t /\ f.t < r.start => f \in rows

(* A scan below its start relies on rows that are stored already.  *)
BelowStartStored(p) ==
    \A f \in fills :
        Due(f, scan[p].end) /\ f.t < scan[p].start => f \in rows

(* What a scan has downloaded of the symbols it is done with.  *)
DoneSymbolsFetched(p) ==
    \A f \in fills :
        /\ f.sym \notin scan[p].pending
        /\ scan[p].start =< f.t
        /\ Due(f, scan[p].end)
        => f \in scan[p].fetched

(* The clock bounds the store and the exchange, and publication is timely. *)
ClockInv ==
    /\ watermark =< now
    /\ \A f \in fills : f.t =< now
    /\ \A f \in fills \ published : now - f.t =< Lateness

(* No rows are stored before the first boundary is. *)
FirstScanInv == rows # {} => watermark # NoTime

(* What a running scan has read stays good enough for its commit. *)
ScanInv(p) ==
    /\ scan[p].pc # "idle" /\ scan[p].req.advance =>
          /\ scan[p].req.start =< scan[p].end /\ scan[p].end =< now
          /\ Whole(scan[p].req) /\ BeforeStored(scan[p].req)
    /\ scan[p].pc # "idle" /\ ~scan[p].req.advance => watermark # NoTime
    /\ scan[p].pc = "cursor" /\ scan[p].latest # NoTime => rows # {}
    /\ scan[p].pc \in {"symbols", "fetch"} /\ scan[p].req.advance
          => BelowStartStored(p)
    /\ scan[p].pc = "fetch" /\ scan[p].req.advance => DoneSymbolsFetched(p)

(* The inductive strengthening of WatermarkCovers. *)
CoverInv ==
    /\ WatermarkCovers
    /\ ClockInv
    /\ FirstScanInv
    /\ \A p \in Procs : ScanInv(p)

(* What a scan holds was shown: needed for KeepsPromise.  *)
FetchedShown == \A p \in Procs : scan[p].fetched \subseteq published
=============================================================================
