---------------------------- MODULE LiveHistory ----------------------------
(***************************************************************************)
(* The recurring history worker of one strategy (src/src/live_history.rs): *)
(* at every slot it decides which symbols to scan and runs sync_history as *)
(* a child process.  The child is process Worker of HistorySync; the other *)
(* processes of HistorySync are command lines issued by operators.         *)
(*                                                                         *)
(* kind is the way a Binance strategy finds its symbols: "redis" (the      *)
(* online lists plus recently traded symbols), "cta" (the Manager's list   *)
(* plus stored symbols, with a backfill of each symbol that is not stored  *)
(* yet) or "stored" (market making: the worker names no symbols and the    *)
(* scan takes the stored ones).  The other exchanges list a whole account; *)
(* their worker is the one of Alignment.                                   *)
(***************************************************************************)
EXTENDS HistorySync

CONSTANTS
    Worker,        \* the process the worker runs its children in
    Kinds,         \* the kinds of strategy to explore
    RecentWindow,  \* RECENT_TRADE_SYMBOL_LOOKBACK_MS
    Lookback,      \* CTA_BACKFILL_LOOKBACK_MS
    MaxDelay,      \* bound on the time from the symbol lookup to the scan
    OperatorsIn,   \* the kinds beside which operators run commands
    OutagesIn,     \* the kinds whose symbol lookup may fail
    MaxOutages,    \* bound: failed symbol lookups
    MaxFailures,   \* bound: failed children
    FailIn,        \* the stages whose query or child may fail
    Unlisting,     \* stored symbols may leave the online list
    FundingAhead   \* funding rows may name symbols without stored fills

ASSUME WorkerAssumption ==
    /\ Worker \in Procs
    /\ Kinds \subseteq {"redis", "cta", "stored"} /\ OutagesIn \subseteq Kinds
    /\ OperatorsIn \subseteq Kinds
    /\ Mode = "symbol"
    /\ RecentWindow \in Nat /\ Lookback \in Nat /\ MaxDelay \in Nat
    /\ MaxOutages \in Nat /\ MaxFailures \in Nat
    /\ FailIn \subseteq {"stored", "backfill", "trades", "bootstrap"}
    /\ Unlisting \in BOOLEAN /\ FundingAhead \in BOOLEAN

VARIABLES
    kind,      \* how symbols are found
    online,    \* symbols in the online list or the Manager's list
    funded,    \* symbols with rows in the funding tables
    wk,        \* the worker's cycle
    outages,   \* failed lookups so far
    failures   \* failed queries and children so far

workerVars == <<kind, online, funded, wk, outages, failures>>
allVars == <<vars, workerVars>>

(* uses_online_symbols *)
NeedsSymbols == kind # "stored"

(***************************************************************************)
(* A cycle runs sleep -> lookup -> backfill -> trades -> bootstrap ->      *)
(* account.  recent is the list loaded from PostgreSQL at the slot, list   *)
(* the symbols of the trade scan, todo the symbols to backfill, firsts     *)
(* their first_fill_ts_us and since the time of the lookup.                *)
(***************************************************************************)
Asleep == [pc |-> "sleep", recent |-> {}, list |-> {}, todo |-> {},
           firsts |-> [s \in Symbols |-> NoTime], since |-> 0]

LiveInit ==
    /\ Init
    /\ kind \in Kinds
    /\ online = {}
    /\ funded = {}
    /\ wk = Asleep
    /\ outages = 0
    /\ failures = 0
-----------------------------------------------------------------------------
(* The environment. *)

List(s) ==
    /\ s \notin online
    /\ online' = online \cup {s}
    /\ UNCHANGED <<vars, kind, funded, wk, outages, failures>>

(* A symbol that leaves the list before any of its fills is stored is out  *)
(* of the worker's sight; the model lets only stored symbols leave, and    *)
(* between the two reads of a slot only those the first one returned.      *)
Unlist(s) ==
    /\ Unlisting
    /\ s \in online \cap StoredSymbols
    /\ wk.pc = "lookup" => s \in wk.recent
    /\ online' = online \ {s}
    /\ UNCHANGED <<vars, kind, funded, wk, outages, failures>>

(* Positions of symbols that left the list are still closed. *)
TradeListed(s) ==
    /\ s \in online \cup StoredSymbols
    /\ Trade(s)
    /\ UNCHANGED workerVars

PublishFill(f) == Publish(f) /\ UNCHANGED workerVars

(* A scan of the list is still to be launched, or may turn into one.  *)
LaunchPending ==
    \/ wk.pc \in {"backfill", "bootstrap"}
    \/ wk.pc = "trades" /\ scan[Worker].pc \in {"latest", "cursor"}

(* The last scan of the list starts within MaxDelay of the lookup. *)
LiveTick ==
    /\ LaunchPending => now < wk.since + MaxDelay
    /\ Tick
    /\ UNCHANGED workerVars
-----------------------------------------------------------------------------
(* The cycle. *)

(* load_stored_trade_symbols, load_recent_trade_symbols *)
KnownSymbols ==
    CASE kind = "cta" -> StoredSymbols \cup funded
      [] kind = "redis" -> {f.sym : f \in {g \in rows :
                                             g.t >= now - RecentWindow}}
      [] OTHER -> {}

(* The query of the known symbols fails: there are none.                   *)
Unread == IF NeedsSymbols /\ "stored" \in FailIn /\ failures < MaxFailures
          THEN {{}} ELSE {}

(* The slot: the known symbols are read before the list of online ones.    *)
Slot ==
    /\ wk.pc = "sleep"
    /\ now >= StMs
    /\ \E known \in {KnownSymbols} \cup Unread :
          /\ wk' = [wk EXCEPT !.pc = "lookup", !.recent = known]
          /\ failures' = IF known = KnownSymbols THEN failures
                         ELSE failures + 1
    /\ UNCHANGED <<vars, kind, online, funded, outages>>

FirstFill(s, t) ==
    IF \E f \in fills : f.sym = s
    THEN /\ \E f \in fills : f.sym = s /\ f.t = t
         /\ \A f \in fills : f.sym = s => t =< f.t
    ELSE t = NoTime

(* Mutant of Found: the list is looked at only when no symbol is known. *)
FoundKnownFirst(listed) ==
    LET list == IF wk.recent # {} THEN wk.recent ELSE listed
    IN  wk' = [wk EXCEPT
              !.pc = IF list = {} THEN "account" ELSE "backfill",
              !.list = list,
              !.since = now]

(***************************************************************************)
(* The online lookup of sync_strategy.  The trade scan covers what it      *)
(* returned and the known symbols; a CTA strategy that has stored symbols  *)
(* backfills the ones it does not know.  Without symbols a Binance scan is *)
(* skipped.                                                                *)
(***************************************************************************)
Found(listed) ==
    LET list == listed \cup wk.recent
    IN  /\ wk' = [wk EXCEPT
              !.pc = IF NeedsSymbols /\ list = {} THEN "account"
                     ELSE "backfill",
              !.list = list,
              !.todo = IF kind = "cta" /\ wk.recent # {}
                       THEN listed \ wk.recent ELSE {},
              !.firsts = [s \in Symbols |->
                  CHOOSE t \in Time \cup {NoTime} : FirstFill(s, t)],
              !.since = now]

Lookup ==
    /\ wk.pc = "lookup"
    /\ Found(IF NeedsSymbols THEN online ELSE {})
    /\ UNCHANGED <<vars, kind, online, funded, outages, failures>>

(* Redis or the Manager does not answer: the online list is taken as empty. *)
LookupFails ==
    /\ wk.pc = "lookup"
    /\ kind \in OutagesIn
    /\ outages < MaxOutages
    /\ Found({})
    /\ outages' = outages + 1
    /\ UNCHANGED <<vars, kind, online, funded, failures>>

(* run_cta_symbol_backfill: --no-advance-watermark, from the first fill.   *)
BackfillRequest(s) ==
    LET first == wk.firsts[s]
    IN  [full |-> first = NoTime,
         start |-> IF first = NoTime THEN NoTime
                   ELSE MaxOf(StMs, first - Lookback),
         ends |-> "now", symbols |-> {s}, derivatives |-> FALSE,
         advance |-> FALSE, gated |-> FALSE]

(* run_incremental_or_bootstrap: the scan of the list, full when retried.  *)
ScanRequest(full) ==
    [full |-> full, start |-> NoTime, ends |-> "now", symbols |-> wk.list,
     derivatives |-> FALSE, advance |-> TRUE, gated |-> FALSE]

StartBackfill(s) ==
    /\ wk.pc = "backfill"
    /\ s \in wk.todo
    /\ Launch(Worker, BackfillRequest(s), now)
    /\ wk' = [wk EXCEPT !.todo = @ \ {s}]
    /\ UNCHANGED <<kind, online, funded, outages, failures>>

StartTrades ==
    /\ wk.pc = "backfill"
    /\ wk.todo = {}
    /\ Launch(Worker, ScanRequest(FALSE), now)
    /\ wk' = [wk EXCEPT !.pc = "trades"]
    /\ UNCHANGED <<kind, online, funded, outages, failures>>

(* Mutant of ChildNotInitialized: the scan is given up. *)
ChildNotInitializedIgnored ==
    /\ NotInitialized(Worker)
    /\ wk' = [wk EXCEPT !.pc = IF @ = "trades" THEN "account" ELSE @]
    /\ UNCHANGED <<kind, online, funded, outages, failures>>

(* "is not initialized" of the incremental child: run it again with --full. *)
ChildNotInitialized ==
    /\ NotInitialized(Worker)
    /\ wk' = [wk EXCEPT !.pc = IF @ = "trades" THEN "bootstrap" ELSE @]
    /\ UNCHANGED <<kind, online, funded, outages, failures>>

StartBootstrap ==
    /\ wk.pc = "bootstrap"
    /\ Launch(Worker, ScanRequest(TRUE), now)
    /\ wk' = [wk EXCEPT !.pc = "bootstrapping"]
    /\ UNCHANGED <<kind, online, funded, outages, failures>>

(* A step inside the child. *)
ChildWorks ==
    /\ \/ ReadLatest(Worker)
       \/ ReadCursor(Worker)
       \/ ResolveSymbols(Worker)
       \/ \E s \in Symbols : Fetch(Worker, s) \/ SkipSymbol(Worker, s)
    /\ UNCHANGED workerVars

(* The child exits; after the trade scan the account datasets follow.      *)
AfterChild ==
    wk' = [wk EXCEPT !.pc = IF @ = "backfill" THEN @ ELSE "account"]

ChildSucceeds ==
    /\ Commit(Worker) \/ SkipBeyondEnd(Worker)
    /\ AfterChild
    /\ UNCHANGED <<kind, online, funded, outages, failures>>

Stage == CASE wk.pc = "backfill" -> "backfill"
           [] wk.pc = "trades" -> "trades"
           [] OTHER -> "bootstrap"

ChildFails ==
    /\ failures < MaxFailures
    /\ Stage \in FailIn
    /\ Fail(Worker)
    /\ AfterChild
    /\ failures' = failures + 1
    /\ UNCHANGED <<kind, online, funded, outages>>

(* The account datasets have scans and watermarks of their own. *)
AccountDatasets ==
    /\ wk.pc = "account"
    /\ wk' = Asleep
    /\ UNCHANGED <<vars, kind, online, funded, outages, failures>>

CycleStep ==
    \/ Slot
    \/ Lookup
    \/ \E s \in Symbols : StartBackfill(s)
    \/ StartTrades
    \/ ChildNotInitialized
    \/ StartBootstrap
    \/ ChildWorks
    \/ ChildSucceeds
    \/ AccountDatasets

(* An operator's command line runs beside the worker. *)
OperatorStep(p) ==
    /\ p # Worker
    /\ kind \in OperatorsIn
    /\ \/ \E r \in Requests, e \in Time : Launch(p, r, e)
       \/ ScanStep(p)
       \/ Fail(p)
    /\ UNCHANGED workerVars

(***************************************************************************)
(* An operator's sync_history --dataset funding, which the worker does not *)
(* run for a CTA strategy: its rows name symbols that hold positions.      *)
(***************************************************************************)
FundingScan(paid) ==
    /\ kind = "cta"
    /\ paid \subseteq IF FundingAhead THEN {f.sym : f \in fills}
                                       ELSE StoredSymbols
    /\ funded' = funded \cup paid
    /\ UNCHANGED <<vars, kind, online, wk, outages, failures>>

LiveNext ==
    \/ \E s \in Symbols : List(s) \/ Unlist(s) \/ TradeListed(s)
    \/ \E f \in Fill : PublishFill(f)
    \/ LiveTick
    \/ CycleStep
    \/ LookupFails
    \/ ChildFails
    \/ \E paid \in SUBSET Symbols : FundingScan(paid)
    \/ \E p \in Procs : OperatorStep(p)

LiveSpec == LiveInit /\ [][LiveNext]_allVars

(***************************************************************************)
(* The worker's task loops for ever and its child runs; the exchange       *)
(* publishes every fill; time passes.                                      *)
(***************************************************************************)
LiveFairSpec ==
    /\ LiveSpec
    /\ WF_allVars(CycleStep)
    /\ WF_allVars(LiveTick)
    /\ WF_allVars(\E f \in Fill : PublishFill(f))
-----------------------------------------------------------------------------
(* Properties. *)

(* Where the next incremental scan will start. *)
NextScanStart ==
    IF watermark = NoTime THEN StMs ELSE MaxOf(StMs, watermark - Overlap)

(* A symbol the next cycle will backfill. *)
AwaitsBackfill(s) == kind = "cta" /\ s \notin StoredSymbols \cup funded

(***************************************************************************)
(* No fill is skipped for good: a fill that is not stored is still within  *)
(* the range of the next scan, or its symbol has yet to be backfilled ("A  *)
(* single-symbol backfill must not advance the shared trades watermark;    *)
(* the incremental scan would then skip other symbols").                   *)
(***************************************************************************)
NoFillOutOfReach ==
    \A f \in fills :
        \/ f \in rows
        \/ f.t < StMs \/ f.sym \in Delisted
        \/ f.t >= NextScanStart
        \/ AwaitsBackfill(f.sym)

(***************************************************************************)
(* The discipline under which no fill falls out of reach: no query of      *)
(* symbols fails unnoticed and no backfill fails, funding rows name stored *)
(* symbols, a symbol that left the list traded recently, and the overlap   *)
(* covers publication and the time a list waits for its scan.              *)
(***************************************************************************)
WithinReach ==
    /\ Kinds \subseteq {"redis", "cta"}
    /\ "redis" \notin OutagesIn /\ "cta" \notin OperatorsIn
    /\ FailIn \cap {"stored", "backfill"} = {} /\ ~FundingAhead
    /\ Unlisting => MaxTime =< RecentWindow
    /\ MaxDelay =< Overlap /\ Contiguous

(***************************************************************************)
(* Every fill since st_ms reaches PostgreSQL, although lookups are stale   *)
(* when they are used, publication is late, and queries and children fail. *)
(***************************************************************************)
EveryFillStored ==
    \A f \in Fill : f.t >= StMs => (f \in fills ~> f \in rows)
=============================================================================
