-------------------------- MODULE LiveHistoryProofs --------------------------
(***************************************************************************)
(* Proofs about LiveHistory for every number of symbols, fills, cycles,    *)
(* failures and operators' commands: under WithinReach no fill falls out   *)
(* of the worker's reach.                                                  *)
(***************************************************************************)
EXTENDS LiveHistory, HistorySyncProofs, WellFoundedInduction

WorkerType ==
    [pc: {"sleep", "lookup", "backfill", "trades", "bootstrap",
          "bootstrapping", "account"},
     recent: SUBSET Symbols, list: SUBSET Symbols, todo: SUBSET Symbols,
     firsts: [Symbols -> Time \cup {NoTime}], since: Time]

(* The types of the scans, the lists and the worker's cycle. *)
LiveType ==
    /\ TypeOK
    /\ kind \in Kinds /\ online \subseteq Symbols /\ funded \subseteq Symbols
    /\ wk \in WorkerType
    /\ outages \in Nat /\ failures \in Nat

-----------------------------------------------------------------------------
(* The invariant.                                                          *)

Needed(f) == f.sym \notin Delisted /\ StMs =< f.t

(* A fill the next scan after one that ends at b will not look for. *)
Behind(f, b) == Needed(f) /\ f.t + Overlap < b

(* A scan that ends at b and covers these symbols leaves the fill to a     *)
(* backfill, which is due once there are rows.                             *)
LeftToBackfill(f) == rows # {} /\ AwaitsBackfill(f.sym)

(* What the watermark has passed is stored or still to be backfilled. *)
ReachInv ==
    \A f \in fills : Behind(f, watermark) => f \in rows \/ LeftToBackfill(f)

(* The worker can see every symbol that has a fill. *)
SymbolInv ==
    /\ \A f \in fills : f.sym \in online \cup StoredSymbols
    /\ funded \subseteq StoredSymbols
    /\ ~Unlisting => \A f \in fills : f.sym \in online
    /\ rows \subseteq published

(* Scans cover what lies between their start and end of the symbols they   *)
(* were given; below it those symbols are stored.                          *)
Kept(p) ==
    \A f \in fills : Needed(f) /\ f.sym \in scan[p].req.symbols =>
      /\ f.t < scan[p].req.start => f \in rows
      /\ scan[p].pc \in {"symbols", "fetch"} /\ f.t < scan[p].start => f \in rows
      /\ /\ scan[p].pc = "fetch" /\ f.sym \notin scan[p].pending
         /\ scan[p].start =< f.t /\ f.t + Overlap < scan[p].end
         => f \in scan[p].fetched
Others(p) ==
    \A f \in fills : Behind(f, scan[p].end) =>
       f.sym \in scan[p].req.symbols \/ LeftToBackfill(f)
ScanReach(p) ==
    /\ scan[p].pc # "idle" /\ ~scan[p].req.advance => watermark # NoTime
    /\ scan[p].pc = "cursor" /\ scan[p].latest # NoTime => rows # {}
    /\ scan[p].pc # "idle" /\ (p = Worker \/ scan[p].req.advance) =>
         /\ scan[p].end \in StMs .. now /\ scan[p].req.start =< scan[p].end
         /\ scan[p].pc \in {"symbols", "fetch"} => scan[p].start =< scan[p].end
         /\ scan[p].req.symbols # {} /\ Legs(scan[p].req) = Symbols
         /\ \A f \in scan[p].fetched : f.sym \in scan[p].req.symbols
         /\ scan[p].pending \subseteq scan[p].req.symbols
         /\ Kept(p)
         /\ scan[p].req.advance => Others(p)

(* The worker's list and its child fit the stage of the cycle. *)
Listing == wk.pc \in {"backfill", "trades", "bootstrap", "bootstrapping"}
Backfilling ==
    IF wk.pc = "backfill" /\ scan[Worker].pc # "idle"
    THEN scan[Worker].req.symbols ELSE {}
ChildInv ==
    /\ scan[Worker].pc = "idle" => wk.pc \notin {"trades", "bootstrapping"}
    /\ scan[Worker].pc # "idle" =>
         /\ wk.since =< scan[Worker].end
         /\ \/ wk.pc = "trades" /\ scan[Worker].req = ScanRequest(FALSE)
            \/ wk.pc = "bootstrapping" /\ scan[Worker].req = ScanRequest(TRUE)
            \/ /\ wk.pc = "backfill" /\ kind = "cta"
               /\ \E s \in wk.list \ wk.todo : scan[Worker].req = BackfillRequest(s)
    /\ kind = "cta" => \A p \in Procs \ {Worker} : scan[p].pc = "idle"

(* The list holds every symbol with a fill when it was made, except those  *)
(* left to a backfill; a CTA strategy has what lies behind the watermark   *)
(* of the listed symbols, once they are backfilled.                        *)
ListInv ==
    /\ wk.list # {} /\ wk.todo \subseteq wk.list /\ wk.since =< now
    /\ wk.pc # "backfill" => wk.todo = {}
    /\ wk.todo # {} => kind = "cta" /\ rows # {}
    /\ \A s \in Symbols : wk.firsts[s] =< wk.since
    /\ \A f \in fills : wk.firsts[f.sym] =< f.t
    /\ \A f \in fills :
         f.sym \in wk.list \/ wk.since =< f.t \/ LeftToBackfill(f)
    /\ kind = "cta" =>
         /\ watermark =< wk.since
         /\ \A f \in fills :
              /\ Behind(f, watermark)
              /\ f.sym \in wk.list \ (wk.todo \cup Backfilling)
              => f \in rows
CycleInv ==
    /\ wk.pc = "lookup" =>
         /\ StoredSymbols \ online \subseteq wk.recent
         /\ kind = "cta" => wk.recent = StoredSymbols
    /\ Listing => ListInv
    /\ LaunchPending => now =< wk.since + MaxDelay

LiveInv ==
    /\ ClockInv /\ FirstScanInv /\ FetchedShown
    /\ ReachInv /\ SymbolInv /\ ChildInv /\ CycleInv
    /\ \A p \in Procs : ScanReach(p)

-----------------------------------------------------------------------------
(* Types.                                                                  *)

LEMMA LeastTime ==
    ASSUME NEW T, T \subseteq Time, T # {}
    PROVE  \E x \in T : \A y \in T : x =< y
  <1>1. \E R : /\ IsWellFoundedOn(R, Nat)
               /\ \A x, y \in Nat : y < x => <<y, x>> \in R
    <2>1. \A x, y \in Nat : y < x => <<y, x>> \in OpToRel(<, Nat)
      BY DEF OpToRel
    <2>2. IsWellFoundedOn(OpToRel(<, Nat), Nat)
      BY NatLessThanWellFounded
    <2>. QED  BY <2>1, <2>2, Zenon
  <1>2. PICK R : /\ IsWellFoundedOn(R, Nat)
                 /\ \A x, y \in Nat : y < x => <<y, x>> \in R
    BY <1>1
  <1>3. T \subseteq Nat
    BY DEF Time
  <1>4. PICK x \in T : \A y \in T : ~ (<<y, x>> \in R)
    BY <1>2, <1>3, WFMin
  <1>5. ASSUME NEW y \in T
        PROVE  x =< y
    <2>1. ~(y < x)
      BY <1>2, <1>3, <1>4
    <2>. QED  BY <1>3, <2>1
  <1>. QED  BY <1>5

(* The time of a symbol's first fill. *)
Firsts == [s \in Symbols |-> CHOOSE t \in Time \cup {NoTime} : FirstFill(s, t)]

LEMMA FirstTimes ==
    ASSUME TypeOK
    PROVE  /\ Firsts \in [Symbols -> Time \cup {NoTime}]
           /\ \A f \in fills : Firsts[f.sym] =< f.t
           /\ \A s \in Symbols : Firsts[s] = NoTime \/ \E f \in fills : Firsts[s] = f.t
  <1>1. ASSUME NEW s \in Symbols
        PROVE  \E t \in Time \cup {NoTime} : FirstFill(s, t)
    <2>. DEFINE T == {f.t : f \in {g \in fills : g.sym = s}}
    <2>1. CASE \E f \in fills : f.sym = s
      <3>1. T \subseteq Time /\ T # {}
        BY <2>1 DEF TypeOK, Fill
      <3>2. PICK t \in T : \A u \in T : t =< u
        BY <3>1, LeastTime
      <3>. QED  BY <2>1, <3>1, <3>2 DEF FirstFill
    <2>2. CASE ~\E f \in fills : f.sym = s
      BY <2>2 DEF FirstFill
    <2>. QED  BY <2>1, <2>2
  <1>2. ASSUME NEW s \in Symbols
        PROVE  Firsts[s] \in Time \cup {NoTime} /\ FirstFill(s, Firsts[s])
    BY <1>1 DEF Firsts
  <1>3. \A f \in fills : f.sym \in Symbols
    BY DEF TypeOK, Fill
  <1>. QED  BY <1>2, <1>3 DEF Firsts, FirstFill

(* The scan of the list and a backfill are command lines. *)
LEMMA WorkerRequests ==
    ASSUME LiveType
    PROVE  /\ \A full \in BOOLEAN : ScanRequest(full) \in Request
           /\ \A s \in Symbols : /\ BackfillRequest(s).start \in Nat \cup {NoTime}
                                 /\ BackfillRequest(s).start =< MaxTime
                                    => BackfillRequest(s) \in Request
  <1>1. wk \in WorkerType
    BY DEF LiveType
  <1>2. \A full \in BOOLEAN : ScanRequest(full) \in Request
    BY <1>1 DEF ScanRequest, Request, WorkerType
  <1>3. ASSUME NEW s \in Symbols
        PROVE  /\ BackfillRequest(s).start \in Nat \cup {NoTime}
               /\ BackfillRequest(s).start =< MaxTime
                  => BackfillRequest(s) \in Request
    <2>1. wk.firsts[s] \in Time \cup {NoTime}
      BY <1>1 DEF WorkerType
    <2>2. BackfillRequest(s).start \in Nat \cup {NoTime}
      BY <2>1, ParametersAssumption, WorkerAssumption
         DEF BackfillRequest, MaxOf, Time, NoTime
    <2>3. BackfillRequest(s).start =< MaxTime
            => BackfillRequest(s).start \in Time \cup {NoTime}
      BY <2>2, ParametersAssumption DEF Time
    <2>. QED  BY <2>2, <2>3 DEF BackfillRequest, Request
  <1>. QED  BY <1>2, <1>3

(* How a step moves the scans: as in HistorySync, or the worker or an      *)
(* operator launches a command.                                            *)
LEMMA LiveMoves ==
    ASSUME LiveType, [LiveNext]_allVars
    PROVE  \/ [Moves]_vars
           \/ \E s \in wk.todo : StartBackfill(s)
           \/ StartTrades \/ StartBootstrap
           \/ \E p \in Procs, r \in Requests, e \in Time :
                /\ p # Worker /\ kind \in OperatorsIn /\ Launch(p, r, e)
                /\ UNCHANGED workerVars
  <1>1. CASE UNCHANGED allVars
    BY <1>1 DEF allVars
  <1>2. CASE \E s \in Symbols : List(s) \/ Unlist(s)
    BY <1>2 DEF List, Unlist
  <1>3. CASE \E s \in Symbols : TradeListed(s)
    BY <1>3 DEF TradeListed, Moves
  <1>4. CASE \E f \in Fill : PublishFill(f)
    BY <1>4 DEF PublishFill, Moves
  <1>5. CASE LiveTick
    BY <1>5 DEF LiveTick, Moves
  <1>6. CASE Slot \/ Lookup \/ LookupFails \/ AccountDatasets
    BY <1>6 DEF Slot, Lookup, LookupFails, AccountDatasets
  <1>7. CASE \E paid \in SUBSET Symbols : FundingScan(paid)
    BY <1>7 DEF FundingScan
  <1>8. CASE ChildNotInitialized \/ ChildWorks \/ ChildSucceeds \/ ChildFails
    BY <1>8, WorkerAssumption DEF ChildNotInitialized, ChildWorks, ChildSucceeds, ChildFails,
       Moves, ScanStep
  <1>9. CASE \E p \in Procs : OperatorStep(p)
    BY <1>9 DEF OperatorStep, Moves
  <1>10. CASE \E s \in Symbols : StartBackfill(s)
    BY <1>10 DEF StartBackfill
  <1>. QED
    BY <1>1, <1>2, <1>3, <1>4, <1>5, <1>6, <1>7, <1>8, <1>9, <1>10
       DEF LiveNext, CycleStep

LEMMA LiveTypeStep ==
    ASSUME LiveType, [LiveNext]_allVars
    PROVE  LiveType'
  <1>1. TypeOK'
    <2>1. CASE [Moves]_vars
      BY <2>1, MoveType DEF LiveType
    <2>2. ASSUME NEW s \in wk.todo, StartBackfill(s)
          PROVE  TypeOK'
      <3>1. s \in Symbols
        BY DEF LiveType, WorkerType
      <3>2. now \in Time
        BY DEF LiveType, TypeOK
      <3>3. Launch(Worker, BackfillRequest(s), now)
        BY <2>2 DEF StartBackfill
      <3>4. BackfillRequest(s).start =< MaxTime
        BY <3>1, <3>2, <3>3, WorkerRequests, ParametersAssumption
           DEF Launch, Time, NoTime
      <3>5. BackfillRequest(s) \in Request
        BY <3>1, <3>4, WorkerRequests
      <3>. QED  BY <3>2, <3>3, <3>5, LaunchType, WorkerAssumption DEF LiveType
    <2>3. CASE StartTrades \/ StartBootstrap
      BY <2>3, LaunchType, WorkerRequests, WorkerAssumption
         DEF StartTrades, StartBootstrap, LiveType, TypeOK
    <2>4. ASSUME NEW p \in Procs, NEW r \in Requests, NEW e \in Time, Launch(p, r, e)
          PROVE  TypeOK'
      BY <2>4, LaunchType, ParametersAssumption DEF LiveType
    <2>. QED  BY <2>1, <2>2, <2>3, <2>4, LiveMoves
  <1>. DEFINE Rest == /\ kind \in Kinds /\ online \subseteq Symbols /\ funded \subseteq Symbols
                      /\ wk \in WorkerType /\ outages \in Nat /\ failures \in Nat
  <1>. SUFFICES Rest'
    BY <1>1 DEF LiveType
  <1>2. Rest /\ Worker \in Procs
    BY WorkerAssumption DEF LiveType
  <1>3. CASE UNCHANGED workerVars
    BY <1>2, <1>3 DEF workerVars
  <1>4. CASE \E s \in Symbols : List(s) \/ Unlist(s)
    BY <1>2, <1>4 DEF List, Unlist
  <1>5. CASE Slot
    <2>1. KnownSymbols \subseteq Symbols
      BY <1>2 DEF KnownSymbols, StoredSymbols, LiveType, TypeOK, Fill
    <2>2. PICK known \in SUBSET Symbols :
            /\ wk' = [wk EXCEPT !.pc = "lookup", !.recent = known]
            /\ failures' = IF known = KnownSymbols THEN failures ELSE failures + 1
      BY <1>5, <2>1 DEF Slot, Unread
    <2>3. UNCHANGED <<kind, online, funded, outages>>
      BY <1>5 DEF Slot
    <2>4. wk' \in WorkerType
      BY <1>2, <2>2 DEF WorkerType
    <2>5. failures' \in Nat
      BY <1>2, <2>2
    <2>. QED  BY <1>2, <2>3, <2>4, <2>5
  <1>6. CASE Lookup \/ LookupFails
    <2>1. PICK listed \in SUBSET Symbols : Found(listed)
      BY <1>2, <1>6 DEF Lookup, LookupFails
    <2>2. wk' \in WorkerType
      <3>1. Firsts \in [Symbols -> Time \cup {NoTime}] /\ now \in Time
        BY FirstTimes DEF LiveType, TypeOK
      <3>2. PICK pc \in {"account", "backfill"}, todo \in SUBSET Symbols :
              wk' = [wk EXCEPT !.pc = pc, !.list = listed \cup wk.recent,
                               !.todo = todo, !.firsts = Firsts, !.since = now]
        <4>. DEFINE pc == IF NeedsSymbols /\ listed \cup wk.recent = {}
                          THEN "account" ELSE "backfill"
                    todo == IF kind = "cta" /\ wk.recent # {}
                            THEN listed \ wk.recent ELSE {}
        <4>1. pc \in {"account", "backfill"} /\ todo \in SUBSET Symbols
          OBVIOUS
        <4>2. wk' = [wk EXCEPT !.pc = pc, !.list = listed \cup wk.recent,
                               !.todo = todo, !.firsts = Firsts, !.since = now]
          BY <2>1 DEF Found, Firsts
        <4>. HIDE DEF pc, todo
        <4>. QED  BY <4>1, <4>2
      <3>. QED  BY <1>2, <3>1, <3>2 DEF WorkerType
    <2>3. UNCHANGED <<kind, online, funded, failures>> /\ outages' \in Nat
      BY <1>2, <1>6 DEF Lookup, LookupFails
    <2>. QED  BY <1>2, <2>2, <2>3
  <1>7. CASE AccountDatasets
    <2>1. Asleep \in WorkerType
      BY ParametersAssumption DEF Asleep, WorkerType, Time
    <2>. QED  BY <1>2, <1>7, <2>1 DEF AccountDatasets
  <1>8. CASE \E s \in Symbols : StartBackfill(s)
    BY <1>2, <1>8 DEF StartBackfill, WorkerType
  <1>9. CASE StartTrades \/ StartBootstrap
    BY <1>2, <1>9 DEF StartTrades, StartBootstrap, WorkerType
  <1>10. CASE ChildNotInitialized
    BY <1>2, <1>10 DEF ChildNotInitialized, WorkerType
  <1>11. CASE ChildSucceeds \/ ChildFails
    BY <1>2, <1>11 DEF ChildSucceeds, ChildFails, AfterChild, WorkerType
  <1>12. CASE \E paid \in SUBSET Symbols : FundingScan(paid)
    BY <1>2, <1>12 DEF FundingScan
  <1>13. CASE \/ ChildWorks \/ LiveTick \/ UNCHANGED allVars
              \/ \E s \in Symbols : TradeListed(s)
              \/ \E f \in Fill : PublishFill(f)
              \/ \E p \in Procs : OperatorStep(p)
    <2>1. UNCHANGED workerVars
      BY <1>13 DEF ChildWorks, LiveTick, allVars, TradeListed, PublishFill,
         OperatorStep
    <2>. QED  BY <1>3, <2>1
  <1>. QED
    BY <1>1, <1>4, <1>5, <1>6, <1>7, <1>8, <1>9, <1>10, <1>11, <1>12, <1>13
       DEF LiveNext, CycleStep

-----------------------------------------------------------------------------
(* What a step leaves alone.                                               *)

(* What is left to a backfill, when funding rows name stored symbols. *)
LEMMA LeftSame ==
    ASSUME UNCHANGED <<rows, kind>>, SymbolInv, SymbolInv'
    PROVE  \A f : LeftToBackfill(f)' <=> LeftToBackfill(f)
BY DEF SymbolInv, LeftToBackfill, AwaitsBackfill, StoredSymbols

(* A scan is not disturbed while time passes and others store rows. *)
LEMMA ScanKeeps ==
    ASSUME NEW p \in Procs, TypeOK, TypeOK', ScanReach(p),
           scan'[p] = scan[p], fills' = fills, rows \subseteq rows',
           now' >= now, watermark # NoTime => watermark' # NoTime,
           \A f \in fills : LeftToBackfill(f) => LeftToBackfill(f)'
    PROVE  ScanReach(p)'
  <1>1. Kept(p) => Kept(p)'
    BY DEF Kept, Needed
  <1>2. Others(p) => Others(p)'
    BY DEF Others, Behind, Needed
  <1>3. scan[p].end \in StMs .. now => scan'[p].end \in StMs .. now'
    BY ParametersAssumption DEF TypeOK, ScanType, Time
  <1>. QED  BY <1>1, <1>2, <1>3 DEF ScanReach

(* A step that leaves the exchange and the store alone. *)
LEMMA Frame ==
    ASSUME LiveType, LiveType', LiveInv,
           UNCHANGED <<now, fills, published, rows, watermark, kind>>,
           SymbolInv', FetchedShown', ChildInv', CycleInv',
           \A p \in Procs : scan'[p] = scan[p] \/ ScanReach(p)'
    PROVE  LiveInv'
  <1>1. \A f : LeftToBackfill(f)' <=> LeftToBackfill(f)
    BY LeftSame DEF LiveInv
  <1>2. ASSUME NEW p \in Procs
        PROVE  ScanReach(p)'
    <2>1. CASE scan'[p] = scan[p]
      <3>1. now' >= now
        BY DEF LiveType, TypeOK, Time
      <3>. QED  BY <1>1, <2>1, <3>1, ScanKeeps DEF LiveInv, LiveType
    <2>. QED  BY <2>1
  <1>3. ReachInv'
    BY <1>1 DEF LiveInv, ReachInv, Behind, Needed
  <1>4. ClockInv' /\ FirstScanInv'
    BY DEF LiveInv, ClockInv, FirstScanInv
  <1>. QED  BY <1>2, <1>3, <1>4 DEF LiveInv

(* The cycle is not disturbed by a step that leaves it and the store alone. *)
LEMMA CycleKeeps ==
    ASSUME LiveType, LiveType', LiveInv,
           UNCHANGED <<now, fills, rows, watermark, kind, wk>>,
           SymbolInv', Backfilling' = Backfilling, LaunchPending' => LaunchPending,
           wk.pc = "lookup" => StoredSymbols \ online' \subseteq wk.recent
    PROVE  CycleInv'
  <1>1. \A f : LeftToBackfill(f)' <=> LeftToBackfill(f)
    BY LeftSame DEF LiveInv
  <1>2. CycleInv /\ StoredSymbols' = StoredSymbols
    BY DEF LiveInv, StoredSymbols
  <1>3. Listing' = Listing
    BY DEF Listing
  <1>4. ListInv => ListInv'
    BY <1>1 DEF ListInv, Behind, Needed
  <1>. QED  BY <1>2, <1>3, <1>4 DEF CycleInv

(* The lists change and funding is paid. *)
LEMMA ListsReach ==
    ASSUME WithinReach, LiveType, LiveType', LiveInv,
           \/ \E s \in Symbols : List(s) \/ Unlist(s)
           \/ \E paid \in SUBSET Symbols : FundingScan(paid)
    PROVE  LiveInv'
  <1>1. UNCHANGED <<vars, kind, wk>>
    BY DEF List, Unlist, FundingScan
  <1>2. StoredSymbols' = StoredSymbols
    BY <1>1 DEF vars, StoredSymbols
  <1>3. SymbolInv'
    <2>1. CASE \E s \in Symbols : List(s) \/ Unlist(s)
      BY <1>1, <1>2, <2>1 DEF List, Unlist, LiveInv, SymbolInv, vars
    <2>2. CASE \E paid \in SUBSET Symbols : FundingScan(paid)
      BY <1>1, <1>2, <2>2 DEF FundingScan, WithinReach, LiveInv, SymbolInv, vars
    <2>. QED  BY <2>1, <2>2
  <1>4. wk.pc = "lookup" => StoredSymbols \ online' \subseteq wk.recent
    BY DEF List, Unlist, FundingScan, LiveInv, CycleInv
  <1>5. /\ Backfilling' = Backfilling /\ LaunchPending' = LaunchPending
        /\ UNCHANGED <<now, fills, published, rows, watermark, scan>>
    BY <1>1 DEF Backfilling, LaunchPending, vars
  <1>6. CycleInv'
    BY <1>1, <1>3, <1>4, <1>5, CycleKeeps
  <1>7. ChildInv' /\ FetchedShown'
    BY <1>1, <1>5 DEF LiveInv, ChildInv, FetchedShown, ScanRequest, BackfillRequest
  <1>. QED  BY <1>1, <1>3, <1>5, <1>6, <1>7, Frame

-----------------------------------------------------------------------------
(* The exchange and the clock.                                             *)

LEMMA TradeReach ==
    ASSUME WithinReach, LiveType, LiveType', LiveInv,
           NEW s \in Symbols, TradeListed(s)
    PROVE  LiveInv'
  <1>. DEFINE g == [sym |-> s, t |-> now]
  <1>1. /\ fills' = fills \cup {g}
        /\ UNCHANGED <<now, published, rows, watermark, scan, workerVars>>
        /\ s \in online \cup StoredSymbols
    BY DEF TradeListed, Trade
  <1>2. /\ now \in Nat /\ watermark \in Int /\ Overlap \in Nat /\ Lateness \in Nat
        /\ watermark =< now
    BY ParametersAssumption
       DEF LiveType, TypeOK, Time, NoTime, LiveInv, ClockInv
  <1>3. g.t = now /\ g.sym = s
    OBVIOUS
  <1>. HIDE DEF g
  <1>4. \A b \in Int : b =< now => ~Behind(g, b)
    BY <1>2, <1>3 DEF Behind
  <1>5. \A f : LeftToBackfill(f)' <=> LeftToBackfill(f)
    BY <1>1 DEF LeftToBackfill, AwaitsBackfill, StoredSymbols, workerVars
  <1>6. \A f : Needed(f)' <=> Needed(f)
    BY DEF Needed
  <1>7. ReachInv'
    BY <1>1, <1>2, <1>4, <1>5 DEF LiveInv, ReachInv, Behind, Needed
  <1>8. SymbolInv'
    <2>1. ~Unlisting => StoredSymbols \subseteq online
      BY DEF StoredSymbols, LiveInv, SymbolInv, LiveType, TypeOK
    <2>2. StoredSymbols' = StoredSymbols
      BY <1>1 DEF StoredSymbols
    <2>. QED  BY <1>1, <1>3, <2>1, <2>2 DEF LiveInv, SymbolInv, workerVars
  <1>9. ASSUME NEW p \in Procs
        PROVE  ScanReach(p)'
    <2>1. scan[p] \in ScanType /\ ScanReach(p)
      BY DEF LiveType, TypeOK, LiveInv
    <2>2. CASE scan[p].pc # "idle" /\ (p = Worker \/ scan[p].req.advance)
      <3>1. /\ scan[p].end \in StMs .. now /\ scan[p].req.start =< scan[p].end
            /\ scan[p].pc \in {"symbols", "fetch"} => scan[p].start =< scan[p].end
            /\ Kept(p)
        BY <2>1, <2>2 DEF ScanReach
      <3>2. /\ scan[p].end \in Int /\ scan[p].req.start \in Int
            /\ scan[p].start \in Int /\ scan[p].end =< now
        BY <2>1, <3>1, ParametersAssumption DEF ScanType, Request, Time, NoTime
      <3>3. Kept(p)'
        <4>1. /\ ~(g.t < scan[p].req.start)
              /\ scan[p].pc \in {"symbols", "fetch"} => ~(g.t < scan[p].start)
              /\ ~(g.t + Overlap < scan[p].end)
          BY <1>2, <1>3, <3>1, <3>2
        <4>. QED  BY <1>1, <3>1, <4>1 DEF Kept, Needed
      <3>4. scan[p].req.advance => Others(p)'
        <4>1. ~Behind(g, scan[p].end)
          BY <1>4, <3>2
        <4>. QED  BY <1>1, <1>5, <2>1, <2>2, <4>1 DEF ScanReach, Others, Behind, Needed
      <3>. QED  BY <1>1, <2>1, <2>2, <3>3, <3>4 DEF ScanReach
    <2>3. CASE ~(scan[p].pc # "idle" /\ (p = Worker \/ scan[p].req.advance))
      BY <1>1, <2>1, <2>3 DEF ScanReach
    <2>. QED  BY <2>2, <2>3
  <1>10. Listing => ListInv'
    <2>1. Listing => ListInv
      BY DEF LiveInv, CycleInv
    <2>2. Listing => wk.since \in Nat /\ wk.since =< now
      BY <2>1 DEF ListInv, LiveType, WorkerType, Time
    <2>3. wk' = wk /\ Backfilling' = Backfilling
      BY <1>1 DEF workerVars, Backfilling
    <2>4. wk.firsts[s] \in Int
      BY DEF LiveType, WorkerType, Time, NoTime
    <2>5. Listing => wk.firsts[g.sym] =< g.t
      BY <1>2, <1>3, <2>1, <2>2, <2>4 DEF ListInv
    <2>6. Listing => wk.since =< g.t /\ ~Behind(g, watermark)
      BY <1>2, <1>3, <1>4, <2>2
    <2>. QED  BY <1>1, <1>5, <2>1, <2>3, <2>5, <2>6
              DEF ListInv, Behind, Needed, workerVars
  <1>11. CycleInv'
    BY <1>1, <1>10 DEF LiveInv, CycleInv, Listing, LaunchPending, StoredSymbols, workerVars
  <1>12. ClockInv' /\ FirstScanInv'
    BY <1>1, <1>2, <1>3 DEF LiveInv, ClockInv, FirstScanInv
  <1>13. ChildInv' /\ FetchedShown'
    BY <1>1 DEF LiveInv, ChildInv, FetchedShown, ScanRequest, BackfillRequest, workerVars
  <1>. QED  BY <1>7, <1>8, <1>9, <1>11, <1>12, <1>13 DEF LiveInv

(* A fill is published or time passes. *)
LEMMA TimeReach ==
    ASSUME WithinReach, LiveType, LiveType', LiveInv,
           LiveTick \/ \E f \in Fill : PublishFill(f)
    PROVE  LiveInv'
  <1>1. /\ UNCHANGED <<fills, rows, watermark, scan, workerVars>>
        /\ published \subseteq published'
        /\ \/ now' = now
           \/ now' = now + 1 /\ (LaunchPending => now < wk.since + MaxDelay)
    BY DEF LiveTick, Tick, PublishFill, Publish
  <1>2. now \in Nat /\ now' \in Nat /\ wk.since \in Nat /\ MaxDelay \in Nat /\ now' >= now
    BY <1>1, WorkerAssumption DEF LiveType, TypeOK, Time, WorkerType
  <1>3. \A f : LeftToBackfill(f)' <=> LeftToBackfill(f)
    BY <1>1 DEF LeftToBackfill, AwaitsBackfill, StoredSymbols, workerVars
  <1>4. ReachInv'
    BY <1>1, <1>3 DEF LiveInv, ReachInv, Behind, Needed
  <1>5. SymbolInv'
    BY <1>1 DEF LiveInv, SymbolInv, StoredSymbols, workerVars
  <1>6. \A p \in Procs : ScanReach(p)'
    BY <1>1, <1>2, <1>3, ScanKeeps DEF LiveInv, LiveType
  <1>7. CycleInv'
    <2>1. LaunchPending' = LaunchPending /\ Listing' = Listing
      BY <1>1 DEF LaunchPending, Listing, workerVars
    <2>2. wk' = wk /\ StoredSymbols' = StoredSymbols /\ Backfilling' = Backfilling
      BY <1>1 DEF workerVars, StoredSymbols, Backfilling
    <2>3. ListInv => ListInv'
      BY <1>1, <1>2, <1>3, <2>2 DEF ListInv, Behind, Needed, workerVars
    <2>4. LaunchPending => now' =< wk.since + MaxDelay
      BY <1>1, <1>2 DEF LiveInv, CycleInv
    <2>5. UNCHANGED <<kind, online, wk>>
      BY <1>1 DEF workerVars
    <2>. QED  BY <2>1, <2>2, <2>3, <2>4, <2>5 DEF LiveInv, CycleInv
  <1>8. ClockInv'
    <2>1. \A f \in fills : f.t \in Int
      BY DEF LiveType, TypeOK, Fill, Time
    <2>2. Lateness \in Nat /\ watermark \in Int
      BY ParametersAssumption DEF LiveType, TypeOK, Time, NoTime
    <2>3. CASE LiveTick
      <3>1. /\ now' = now + 1 /\ UNCHANGED <<fills, published, watermark>>
            /\ \A f \in fills \ published : now + 1 - f.t =< Lateness
        BY <2>3 DEF LiveTick, Tick
      <3>. QED  BY <1>2, <2>1, <2>2, <3>1 DEF LiveInv, ClockInv
    <2>4. CASE \E f \in Fill : PublishFill(f)
      <3>1. UNCHANGED <<now, fills, watermark>>
        BY <2>4 DEF PublishFill, Publish
      <3>. QED  BY <1>1, <3>1 DEF LiveInv, ClockInv
    <2>. QED  BY <2>3, <2>4
  <1>9. FirstScanInv' /\ FetchedShown'
    BY <1>1 DEF LiveInv, FirstScanInv, FetchedShown
  <1>10. ChildInv'
    BY <1>1 DEF LiveInv, ChildInv, ScanRequest, BackfillRequest, workerVars
  <1>. QED  BY <1>4, <1>5, <1>6, <1>7, <1>8, <1>9, <1>10 DEF LiveInv

-----------------------------------------------------------------------------
(* The cycle between its scans.                                            *)

(* Outside its stages the worker has no child. *)
LEMMA NoChild ==
    ASSUME LiveInv, wk.pc \in {"sleep", "lookup", "account", "bootstrap"}
    PROVE  scan[Worker].pc = "idle"
BY DEF LiveInv, ChildInv

LEMMA CycleQuiet ==
    ASSUME LiveType, LiveType', LiveInv, UNCHANGED <<vars, kind, online, funded>>,
           wk.pc \in {"sleep", "lookup", "account"},
           wk'.pc \notin {"trades", "bootstrapping"}, CycleInv'
    PROVE  LiveInv'
  <1>1. scan'[Worker].pc = "idle" /\ scan' = scan /\ kind' = kind
    BY NoChild DEF vars
  <1>2. ChildInv'
    BY <1>1 DEF LiveInv, ChildInv
  <1>3. SymbolInv' /\ FetchedShown'
    BY DEF LiveInv, SymbolInv, FetchedShown, StoredSymbols, vars
  <1>. QED  BY <1>1, <1>2, <1>3, Frame DEF vars

LEMMA SlotReach ==
    ASSUME WithinReach, LiveType, LiveType', LiveInv, Slot
    PROVE  LiveInv'
  <1>1. /\ wk.pc = "sleep"
        /\ wk' = [wk EXCEPT !.pc = "lookup", !.recent = KnownSymbols]
        /\ UNCHANGED <<vars, kind, online, funded>>
    BY DEF Slot, Unread, WithinReach
  <1>2. kind \in {"redis", "cta"} /\ funded \subseteq StoredSymbols
    BY DEF WithinReach, LiveType, LiveInv, SymbolInv
  <1>3. kind = "cta" => KnownSymbols = StoredSymbols
    BY <1>2 DEF KnownSymbols
  <1>4. StoredSymbols \ online \subseteq KnownSymbols
    <2>1. CASE ~Unlisting
      BY <2>1 DEF StoredSymbols, LiveInv, SymbolInv, LiveType, TypeOK
    <2>2. CASE Unlisting /\ kind = "redis"
      <3>1. now \in Nat /\ now =< MaxTime /\ RecentWindow \in Nat /\ MaxTime =< RecentWindow
        BY <2>2, ParametersAssumption, WorkerAssumption
           DEF LiveType, TypeOK, Time, WithinReach
      <3>2. \A g \in rows : g.t \in Nat
        BY DEF LiveType, TypeOK, Fill, Time
      <3>3. \A g \in rows : g.t >= now - RecentWindow
        BY <3>1, <3>2, ParametersAssumption
      <3>. QED  BY <2>2, <3>3 DEF KnownSymbols, StoredSymbols
    <2>. QED  BY <1>2, <1>3, <2>1, <2>2
  <1>5. wk'.pc = "lookup" /\ wk'.recent = KnownSymbols /\ StoredSymbols' = StoredSymbols
    BY <1>1 DEF LiveType, WorkerType, StoredSymbols, vars
  <1>6. CycleInv'
    BY <1>1, <1>3, <1>4, <1>5 DEF CycleInv, Listing, LaunchPending
  <1>. QED  BY <1>1, <1>5, <1>6, CycleQuiet

LEMMA AccountReach ==
    ASSUME LiveType, LiveType', LiveInv, AccountDatasets
    PROVE  LiveInv'
  <1>1. wk'.pc = "sleep" /\ wk.pc = "account" /\ UNCHANGED <<vars, kind, online, funded>>
    BY DEF AccountDatasets, Asleep
  <1>2. CycleInv'
    BY <1>1 DEF CycleInv, Listing, LaunchPending
  <1>. QED  BY <1>1, <1>2, CycleQuiet

(* The list that a lookup makes. *)
LEMMA FoundReach ==
    ASSUME WithinReach, LiveType, LiveType', LiveInv, Lookup \/ LookupFails
    PROVE  LiveInv'
  <1>1. kind \in {"redis", "cta"} /\ NeedsSymbols
    BY DEF WithinReach, LiveType, NeedsSymbols
  <1>2. PICK listed \in SUBSET Symbols :
          /\ wk.pc = "lookup" /\ Found(listed)
          /\ UNCHANGED <<vars, kind, online, funded>>
          /\ listed = online \/ (listed = {} /\ kind = "cta")
    <2>1. CASE Lookup
      BY <1>1, <2>1 DEF Lookup, LiveType
    <2>2. CASE LookupFails
      BY <1>1, <2>2 DEF LookupFails, WithinReach
    <2>. QED  BY <2>1, <2>2
  <1>. DEFINE list == listed \cup wk.recent
              todo == IF kind = "cta" /\ wk.recent # {} THEN listed \ wk.recent ELSE {}
              pc == IF list = {} THEN "account" ELSE "backfill"
  <1>3. wk' = [wk EXCEPT !.pc = pc, !.list = list, !.todo = todo,
                         !.firsts = Firsts, !.since = now]
    BY <1>1, <1>2 DEF Found, Firsts
  <1>4. /\ StoredSymbols \ online \subseteq wk.recent
        /\ kind = "cta" => wk.recent = StoredSymbols
    BY <1>2 DEF LiveInv, CycleInv
  <1>5. /\ list # {} => pc = "backfill"
        /\ list = {} => pc = "account"
        /\ todo \subseteq list
        /\ todo # {} => kind = "cta" /\ wk.recent # {}
        /\ kind = "cta" /\ wk.recent # {} => list \ todo \subseteq wk.recent
    OBVIOUS
  <1>6. wk.recent \subseteq list /\ listed \subseteq list
    OBVIOUS
  <1>. HIDE DEF list, todo, pc
  <1>7. /\ wk'.pc = pc /\ wk'.list = list /\ wk'.todo = todo
        /\ wk'.firsts = Firsts /\ wk'.since = now
    BY <1>3 DEF LiveType, WorkerType
  <1>8. /\ UNCHANGED <<now, fills, published, rows, watermark, scan>>
        /\ now \in Nat /\ watermark =< now
    BY <1>2 DEF vars, LiveType, TypeOK, Time, LiveInv, ClockInv
  <1>9. \A f : LeftToBackfill(f)' <=> LeftToBackfill(f)
    BY <1>2, <1>8 DEF LeftToBackfill, AwaitsBackfill, StoredSymbols
  <1>10. rows = {} <=> StoredSymbols = {}
    BY DEF StoredSymbols
  <1>11. ASSUME list # {}
         PROVE  ListInv'
    <2>1. /\ wk'.list # {} /\ wk'.todo \subseteq wk'.list /\ wk'.since =< now'
          /\ wk'.pc = "backfill"
      BY <1>5, <1>7, <1>8, <1>11
    <2>2. wk'.todo # {} => kind' = "cta" /\ rows' # {}
      BY <1>2, <1>4, <1>5, <1>7, <1>8, <1>10
    <2>3. \A s \in Symbols : wk'.firsts[s] =< wk'.since
      <3>1. \A s \in Symbols : Firsts[s] = NoTime \/ \E f \in fills : Firsts[s] = f.t
        BY FirstTimes DEF LiveType
      <3>2. NoTime =< now /\ \A f \in fills : f.t =< now
        BY <1>8 DEF NoTime, LiveInv, ClockInv
      <3>. QED  BY <1>7, <3>1, <3>2
    <2>4. \A f \in fills' : wk'.firsts[f.sym] =< f.t
      BY <1>7, <1>8, FirstTimes DEF LiveType
    <2>5. \A f \in fills' :
            f.sym \in wk'.list \/ wk'.since =< f.t \/ LeftToBackfill(f)'
      <3>. SUFFICES ASSUME NEW f \in fills, f.sym \notin list
                    PROVE  LeftToBackfill(f)
        BY <1>7, <1>8, <1>9
      <3>1. f.sym \in online \cup StoredSymbols /\ funded \subseteq StoredSymbols
        BY DEF LiveInv, SymbolInv
      <3>2. kind = "cta" /\ listed = {}
        BY <1>2, <1>4, <1>6, <3>1
      <3>3. f.sym \notin StoredSymbols /\ wk.recent # {}
        BY <1>4, <1>6, <1>11, <3>2 DEF list
      <3>. QED  BY <1>4, <1>10, <3>1, <3>2, <3>3 DEF LeftToBackfill, AwaitsBackfill
    <2>6. kind' = "cta" => watermark' =< wk'.since
      BY <1>7, <1>8
    <2>7. ASSUME kind = "cta", NEW f \in fills, Behind(f, watermark),
                 f.sym \in list \ todo
          PROVE  f \in rows
      <3>1. CASE wk.recent # {}
        BY <1>4, <1>5, <2>7, <3>1 DEF LiveInv, ReachInv, LeftToBackfill, AwaitsBackfill
      <3>2. CASE wk.recent = {}
        BY <1>4, <1>10, <2>7, <3>2 DEF LiveInv, ReachInv, LeftToBackfill
      <3>. QED  BY <3>1, <3>2
    <2>8. kind' = "cta" =>
            \A f \in fills' :
              /\ Behind(f, watermark)'
              /\ f.sym \in wk'.list \ (wk'.todo \cup Backfilling')
              => f \in rows'
      BY <1>2, <1>7, <1>8, <2>7 DEF Behind, Needed
    <2>. QED  BY <2>1, <2>2, <2>3, <2>4, <2>5, <2>6, <2>8 DEF ListInv
  <1>12. CycleInv'
    <2>1. wk'.pc \in {"account", "backfill"} /\ (wk'.pc = "backfill" => list # {})
      BY <1>5, <1>7
    <2>2. now' =< wk'.since + MaxDelay
      BY <1>7, <1>8, WorkerAssumption
    <2>. QED  BY <1>11, <2>1, <2>2 DEF CycleInv, Listing
  <1>13. wk'.pc \in {"account", "backfill"}
    BY <1>5, <1>7
  <1>. QED  BY <1>2, <1>12, <1>13, CycleQuiet

-----------------------------------------------------------------------------
(* Launches.                                                               *)

(* A command that knows its symbols and leaves nothing below its start. *)
LEMMA LaunchScan ==
    ASSUME LiveType, LiveInv, NEW p \in Procs, NEW r \in Request, NEW e \in Time,
           Launch(p, r, e), UNCHANGED <<kind, funded>>,
           ~r.advance => watermark # NoTime,
           p = Worker \/ r.advance =>
             /\ e =< now /\ r.symbols # {} /\ Legs(r) = Symbols
             /\ \A f \in fills :
                  Needed(f) /\ f.sym \in r.symbols /\ f.t < r.start => f \in rows,
           r.advance =>
             \A f \in fills : Behind(f, e) => f.sym \in r.symbols \/ LeftToBackfill(f)
    PROVE  ScanReach(p)'
  <1>1. /\ scan'[p].pc = "latest" /\ scan'[p].req = r /\ scan'[p].end = e
        /\ scan'[p].pending = {} /\ scan'[p].fetched = {}
        /\ UNCHANGED <<now, fills, published, rows, watermark>>
    BY DEF Launch, LiveType, TypeOK, Idle
  <1>2. e \in StMs .. e /\ r.start =< e
    BY ParametersAssumption DEF Launch, Request, Time, NoTime
  <1>3. p = Worker \/ r.advance => e \in StMs .. now'
    BY <1>1, <1>2, ParametersAssumption DEF LiveType, TypeOK, Time
  <1>4. \A f : LeftToBackfill(f)' <=> LeftToBackfill(f)
    BY <1>1 DEF LeftToBackfill, AwaitsBackfill, StoredSymbols
  <1>5. p = Worker \/ r.advance => Kept(p)'
    BY <1>1 DEF Kept, Needed
  <1>6. r.advance => Others(p)'
    BY <1>1, <1>4 DEF Others, Behind, Needed
  <1>. QED  BY <1>1, <1>2, <1>3, <1>5, <1>6 DEF ScanReach

LEMMA StartScanReach ==
    ASSUME WithinReach, LiveType, LiveType', LiveInv, StartTrades \/ StartBootstrap
    PROVE  LiveInv'
  <1>1. PICK full \in BOOLEAN :
          /\ Launch(Worker, ScanRequest(full), now)
          /\ wk' = [wk EXCEPT !.pc = IF full THEN "bootstrapping" ELSE "trades"]
          /\ wk.pc = (IF full THEN "bootstrap" ELSE "backfill")
          /\ ~full => wk.todo = {}
    BY DEF StartTrades, StartBootstrap
  <1>2. UNCHANGED <<now, fills, published, rows, watermark, kind, online, funded>>
    BY DEF StartTrades, StartBootstrap, Launch
  <1>3. /\ wk'.pc = (IF full THEN "bootstrapping" ELSE "trades")
        /\ wk'.list = wk.list /\ wk'.todo = wk.todo /\ wk'.firsts = wk.firsts
        /\ wk'.since = wk.since
    BY <1>1 DEF LiveType, WorkerType
  <1>4. /\ ListInv /\ wk.todo = {} /\ now =< wk.since + MaxDelay
        /\ scan[Worker].pc = "idle" /\ Backfilling = {}
    BY <1>1 DEF LiveInv, CycleInv, Listing, ListInv, LaunchPending, Launch, Backfilling
  <1>5. \A f : LeftToBackfill(f)' <=> LeftToBackfill(f)
    BY <1>2 DEF LeftToBackfill, AwaitsBackfill, StoredSymbols
  <1>6. /\ now \in Time /\ wk.since \in Nat /\ MaxDelay \in Nat /\ Overlap \in Nat
        /\ MaxDelay =< Overlap /\ Worker \in Procs
    BY ParametersAssumption, WorkerAssumption
       DEF LiveType, TypeOK, Time, WorkerType, WithinReach
  <1>. DEFINE r == ScanRequest(full)
  <1>7. /\ r \in Request /\ r.start = NoTime /\ r.symbols = wk.list /\ r.advance
        /\ r.full = full /\ Legs(r) = Symbols
    BY WorkerRequests DEF ScanRequest, Legs
  <1>8. r = ScanRequest(full)
    OBVIOUS
  <1>. HIDE DEF r
  <1>9. ScanReach(Worker)'
    <2>1. \A f \in fills : f.t \in Nat
      BY DEF LiveType, TypeOK, Fill, Time
    <2>2. \A f \in fills : ~(f.t < r.start)
      BY <1>7, <2>1 DEF NoTime
    <2>3. ASSUME NEW f \in fills, Behind(f, now)
          PROVE  f.sym \in r.symbols \/ LeftToBackfill(f)
      <3>1. f.t < wk.since
        BY <1>4, <1>6, <2>1, <2>3 DEF Behind, Time
      <3>. QED  BY <1>4, <1>6, <1>7, <2>1, <3>1 DEF ListInv
    <2>4. wk.list # {} /\ now =< now
      BY <1>4, <1>6 DEF ListInv, Time
    <2>. QED
      BY <1>1, <1>2, <1>6, <1>7, <1>8, <2>2, <2>3, <2>4, LaunchScan
  <1>10. /\ scan'[Worker].pc = "latest" /\ scan'[Worker].req = r
         /\ scan'[Worker].end = now
         /\ \A q \in Procs : q # Worker => scan'[q] = scan[q]
    BY <1>1, <1>6, <1>8 DEF Launch, LiveType, TypeOK, Idle
  <1>11. r = ScanRequest(full)'
    BY <1>3, <1>8 DEF ScanRequest
  <1>12. ChildInv'
    <2>1. wk'.since =< scan'[Worker].end
      BY <1>3, <1>4, <1>10 DEF ListInv
    <2>2. \/ wk'.pc = "trades" /\ scan'[Worker].req = ScanRequest(FALSE)'
          \/ wk'.pc = "bootstrapping" /\ scan'[Worker].req = ScanRequest(TRUE)'
      BY <1>3, <1>10, <1>11
    <2>3. kind' = "cta" => \A p \in Procs \ {Worker} : scan'[p].pc = "idle"
      BY <1>2, <1>10 DEF LiveInv, ChildInv
    <2>. QED  BY <1>10, <2>1, <2>2, <2>3 DEF ChildInv
  <1>13. CycleInv'
    <2>1. Backfilling' = {}
      BY <1>3 DEF Backfilling
    <2>2. ListInv'
      BY <1>2, <1>3, <1>4, <1>5, <2>1 DEF ListInv, Behind, Needed
    <2>3. now' =< wk'.since + MaxDelay
      BY <1>2, <1>3, <1>4
    <2>. QED  BY <1>3, <2>2, <2>3 DEF CycleInv
  <1>14. FetchedShown'
    BY <1>1, <1>6, LaunchFetched DEF LiveType, LiveInv
  <1>15. SymbolInv'
    BY <1>2 DEF LiveInv, SymbolInv, StoredSymbols
  <1>. QED  BY <1>2, <1>9, <1>10, <1>12, <1>13, <1>14, <1>15, Frame

LEMMA StartBackfillReach ==
    ASSUME WithinReach, LiveType, LiveType', LiveInv,
           NEW s \in wk.todo, StartBackfill(s)
    PROVE  LiveInv'
  <1>1. /\ wk.pc = "backfill" /\ Launch(Worker, BackfillRequest(s), now)
        /\ wk' = [wk EXCEPT !.todo = @ \ {s}]
        /\ UNCHANGED <<now, fills, published, rows, watermark, kind, online, funded>>
    BY DEF StartBackfill, Launch
  <1>2. /\ wk'.pc = "backfill" /\ wk'.list = wk.list /\ wk'.todo = wk.todo \ {s}
        /\ wk'.firsts = wk.firsts /\ wk'.since = wk.since
    BY <1>1 DEF LiveType, WorkerType
  <1>3. /\ ListInv /\ now =< wk.since + MaxDelay
        /\ scan[Worker].pc = "idle" /\ Backfilling = {}
    BY <1>1 DEF LiveInv, CycleInv, Listing, LaunchPending, Launch, Backfilling
  <1>4. /\ kind = "cta" /\ rows # {} /\ watermark # NoTime
        /\ s \in wk.list /\ s \in Symbols /\ now \in Time /\ Worker \in Procs
    BY <1>3, WorkerAssumption
       DEF ListInv, LiveInv, FirstScanInv, LiveType, WorkerType, TypeOK
  <1>5. \A f : LeftToBackfill(f)' <=> LeftToBackfill(f)
    BY <1>1 DEF LeftToBackfill, AwaitsBackfill, StoredSymbols
  <1>. DEFINE r == BackfillRequest(s)
  <1>6. /\ r.symbols = {s} /\ ~r.advance /\ r.start \in Nat \cup {NoTime}
        /\ r.start = (IF wk.firsts[s] = NoTime THEN NoTime
                      ELSE MaxOf(StMs, wk.firsts[s] - Lookback))
        /\ Legs(r) = Symbols
    BY <1>4, WorkerRequests DEF BackfillRequest, Legs
  <1>7. r \in Request
    <2>1. r.start =< MaxTime
      BY <1>1, <1>4, <1>6, ParametersAssumption DEF Launch, Time, NoTime
    <2>. QED  BY <1>4, <2>1, WorkerRequests
  <1>8. r = BackfillRequest(s)
    OBVIOUS
  <1>. HIDE DEF r
  <1>9. ScanReach(Worker)'
    <2>1. ASSUME NEW f \in fills, Needed(f), f.sym \in r.symbols
          PROVE  ~(f.t < r.start)
      <3>1. /\ f.t \in Nat /\ StMs =< f.t /\ wk.firsts[s] =< f.t
            /\ wk.firsts[s] \in Int /\ StMs \in Nat /\ Lookback \in Nat
        BY <1>3, <1>4, <1>6, <2>1, ParametersAssumption, WorkerAssumption
           DEF Needed, ListInv, LiveType, TypeOK, Fill, Time, WorkerType, NoTime
      <3>2. CASE wk.firsts[s] = NoTime
        BY <1>6, <3>1, <3>2 DEF NoTime
      <3>3. CASE wk.firsts[s] # NoTime
        BY <1>6, <3>1, <3>3 DEF MaxOf
      <3>. QED  BY <3>2, <3>3
    <2>2. now =< now
      BY <1>4 DEF Time
    <2>. QED
      BY <1>1, <1>4, <1>6, <1>7, <1>8, <2>1, <2>2, LaunchScan
  <1>10. /\ scan'[Worker].pc = "latest" /\ scan'[Worker].req = r
         /\ scan'[Worker].end = now
         /\ \A q \in Procs : q # Worker => scan'[q] = scan[q]
    BY <1>1, <1>4, <1>8 DEF Launch, LiveType, TypeOK, Idle
  <1>11. r = BackfillRequest(s)'
    BY <1>2, <1>8 DEF BackfillRequest
  <1>12. ChildInv'
    <2>1. wk'.since =< scan'[Worker].end
      BY <1>2, <1>3, <1>10 DEF ListInv
    <2>2. s \in wk'.list \ wk'.todo
      BY <1>2, <1>4
    <2>3. \E t \in wk'.list \ wk'.todo : scan'[Worker].req = BackfillRequest(t)'
      BY <1>10, <1>11, <2>2
    <2>4. kind' = "cta" => \A p \in Procs \ {Worker} : scan'[p].pc = "idle"
      BY <1>1, <1>10 DEF LiveInv, ChildInv
    <2>5. kind' = "cta"
      BY <1>1, <1>4
    <2>. QED  BY <1>2, <1>10, <2>1, <2>3, <2>4, <2>5 DEF ChildInv
  <1>13. CycleInv'
    <2>1. Backfilling' = {s}
      BY <1>2, <1>6, <1>10 DEF Backfilling
    <2>2. wk'.list \ (wk'.todo \cup Backfilling')
            \subseteq wk.list \ (wk.todo \cup Backfilling)
      BY <1>2, <1>3, <2>1
    <2>3. ListInv'
      BY <1>1, <1>2, <1>3, <1>4, <1>5, <2>2 DEF ListInv, Behind, Needed
    <2>4. now' =< wk'.since + MaxDelay
      BY <1>1, <1>2, <1>3
    <2>. QED  BY <1>2, <2>3, <2>4 DEF CycleInv
  <1>14. FetchedShown'
    BY <1>1, <1>4, LaunchFetched DEF LiveType, LiveInv
  <1>15. SymbolInv'
    BY <1>1 DEF LiveInv, SymbolInv, StoredSymbols
  <1>. QED  BY <1>1, <1>9, <1>10, <1>12, <1>13, <1>14, <1>15, Frame

(* A command of an operator, beside a "redis" strategy. *)
LEMMA OperatorLaunchReach ==
    ASSUME WithinReach, LiveType, LiveType', LiveInv,
           NEW p \in Procs, p # Worker, kind \in OperatorsIn,
           NEW r \in Requests, NEW e \in Time, Launch(p, r, e),
           UNCHANGED workerVars
    PROVE  LiveInv'
  <1>1. /\ UNCHANGED <<now, fills, published, rows, watermark>>
        /\ UNCHANGED <<kind, online, funded, wk>>
    BY DEF Launch, workerVars
  <1>2. kind # "cta" /\ r \in Request
    BY ParametersAssumption DEF WithinReach
  <1>3. /\ r.advance => /\ r.start = NoTime /\ r.symbols = Symbols /\ e =< now
                        /\ Legs(r) = Symbols
        /\ ~r.advance => watermark # NoTime
    <2>1. r.advance => r.start = NoTime /\ r.ends # "any" /\ Whole(r)
      BY DEF WithinReach, Contiguous
    <2>2. Whole(r) => r.symbols = Symbols /\ Legs(r) = Symbols
      BY WorkerAssumption DEF Whole
    <2>3. r.advance => e =< now
      BY <1>2, <2>1 DEF Launch, LiveType, TypeOK, Time, Request
    <2>4. ~r.advance => rows # {}
      BY DEF WithinReach, Contiguous, Launch
    <2>. QED  BY <2>1, <2>2, <2>3, <2>4 DEF LiveInv, FirstScanInv
  <1>4. ScanReach(p)'
    <2>1. \A f \in fills : f.t \in Nat /\ f.sym \in Symbols
      BY DEF LiveType, TypeOK, Fill, Time
    <2>2. r.advance => \A f \in fills : ~(f.t < r.start)
      BY <1>3, <2>1 DEF NoTime
    <2>. QED  BY <1>1, <1>2, <1>3, <2>1, <2>2, LaunchScan, ParametersAssumption
  <1>5. \A q \in Procs : q # p => scan'[q] = scan[q]
    BY DEF Launch, LiveType, TypeOK
  <1>6. scan'[Worker] = scan[Worker]
    BY <1>5, WorkerAssumption
  <1>7. ChildInv'
    BY <1>1, <1>2, <1>6 DEF LiveInv, ChildInv, ScanRequest, BackfillRequest
  <1>8. SymbolInv'
    BY <1>1 DEF LiveInv, SymbolInv, StoredSymbols
  <1>9. CycleInv'
    <2>1. Backfilling' = Backfilling /\ LaunchPending' = LaunchPending
      BY <1>1, <1>6 DEF Backfilling, LaunchPending
    <2>2. wk.pc = "lookup" => StoredSymbols \ online' \subseteq wk.recent
      BY <1>1 DEF LiveInv, CycleInv
    <2>. QED  BY <1>1, <1>8, <2>1, <2>2, CycleKeeps
  <1>10. FetchedShown'
    BY LaunchFetched DEF LiveType, LiveInv
  <1>. QED  BY <1>1, <1>4, <1>5, <1>7, <1>8, <1>9, <1>10, Frame

-----------------------------------------------------------------------------
(* Steps of a running scan.                                                *)

(* Only a "redis" strategy has operators' scans beside it. *)
LEMMA RunningScan ==
    ASSUME WithinReach, LiveType, LiveInv, NEW p \in Procs, scan[p].pc # "idle"
    PROVE  kind = "redis" \/ (kind = "cta" /\ p = Worker)
BY DEF WithinReach, LiveType, LiveInv, ChildInv

(* A scan goes on with the command it was given. *)
LEMMA RunsOn ==
    ASSUME WithinReach, LiveType, LiveType', LiveInv, NEW p \in Procs,
           UNCHANGED <<now, fills, published, rows, watermark, workerVars>>,
           \A q \in Procs : q # p => scan'[q] = scan[q],
           scan[p].pc # "idle", scan'[p].pc # "idle",
           scan'[p].req = scan[p].req, scan'[p].end = scan[p].end,
           scan'[p].pc \in {"latest", "cursor"} => scan[p].pc \in {"latest", "cursor"},
           FetchedShown', ScanReach(p)'
    PROVE  LiveInv'
  <1>1. UNCHANGED <<kind, online, funded, wk>>
    BY DEF workerVars
  <1>2. /\ scan'[Worker].req = scan[Worker].req /\ scan'[Worker].end = scan[Worker].end
        /\ scan'[Worker].pc = "idle" <=> scan[Worker].pc = "idle"
        /\ scan'[Worker].pc \in {"latest", "cursor"}
             => scan[Worker].pc \in {"latest", "cursor"}
    BY WorkerAssumption
  <1>3. \A q \in Procs : scan[q].pc = "idle" => scan'[q].pc = "idle"
    OBVIOUS
  <1>4. ChildInv'
    BY <1>1, <1>2, <1>3 DEF LiveInv, ChildInv, ScanRequest, BackfillRequest
  <1>5. SymbolInv'
    BY <1>1 DEF LiveInv, SymbolInv, StoredSymbols
  <1>6. CycleInv'
    <2>1. Backfilling' = Backfilling /\ (LaunchPending' => LaunchPending)
      BY <1>1, <1>2 DEF Backfilling, LaunchPending
    <2>2. wk.pc = "lookup" => StoredSymbols \ online' \subseteq wk.recent
      BY <1>1 DEF LiveInv, CycleInv
    <2>. QED  BY <1>1, <1>5, <2>1, <2>2, CycleKeeps
  <1>. QED  BY <1>1, <1>4, <1>5, <1>6, Frame

(* What a scan that starts at the watermark leaves behind is stored. *)
LEMMA CursorStored ==
    ASSUME WithinReach, LiveType, LiveInv, NEW p \in Procs,
           scan[p].pc = "cursor", p = Worker \/ scan[p].req.advance,
           scan[p].req.start = NoTime, ~scan[p].req.full,
           NEW f \in fills, Behind(f, watermark), f.sym \in scan[p].req.symbols
    PROVE  f \in rows
  <1>1. f \in rows \/ LeftToBackfill(f)
    BY DEF LiveInv, ReachInv
  <1>2. CASE kind = "redis"
    BY <1>1, <1>2 DEF LeftToBackfill, AwaitsBackfill
  <1>3. CASE kind = "cta" /\ p = Worker
    <2>1. \A s \in Symbols : ~(BackfillRequest(s).start = NoTime /\ ~BackfillRequest(s).full)
      <3>. SUFFICES ASSUME NEW s \in Symbols, BackfillRequest(s).start = NoTime,
                           ~BackfillRequest(s).full
                    PROVE  FALSE
        OBVIOUS
      <3>1. wk.firsts[s] # NoTime
        BY DEF BackfillRequest
      <3>2. BackfillRequest(s).start = MaxOf(StMs, wk.firsts[s] - Lookback)
        BY <3>1 DEF BackfillRequest
      <3>3. wk.firsts[s] \in Nat
        BY <3>1 DEF LiveType, WorkerType, Time
      <3>. QED  BY <3>2, <3>3, ParametersAssumption, WorkerAssumption DEF MaxOf, NoTime
    <2>2. wk.list \subseteq Symbols
      BY DEF LiveType, WorkerType
    <2>3. wk.pc = "trades" /\ scan[Worker].req = ScanRequest(FALSE)
      BY <1>3, <2>1, <2>2 DEF LiveInv, ChildInv, ScanRequest
    <2>4. /\ ListInv /\ f.sym \in wk.list /\ wk.todo = {} /\ Backfilling = {}
      BY <1>3, <2>3 DEF LiveInv, CycleInv, Listing, ListInv, Backfilling, ScanRequest
    <2>. QED  BY <1>3, <2>4 DEF ListInv
  <1>. QED  BY <1>2, <1>3, RunningScan

LEMMA ReadLatestReach ==
    ASSUME WithinReach, LiveType, LiveType', LiveInv,
           NEW p \in Procs, ReadLatest(p), UNCHANGED workerVars
    PROVE  LiveInv'
  <1>1. PICK t \in Time \cup {NoTime} :
          /\ IsLatest(t) /\ scan[p].pc = "latest"
          /\ scan' = [scan EXCEPT ![p] = [@ EXCEPT !.pc = "cursor", !.latest = t]]
          /\ UNCHANGED <<now, fills, published, rows, watermark>>
    BY DEF ReadLatest
  <1>2. /\ scan[p] \in ScanType /\ ScanReach(p)
        /\ \A q \in Procs : q # p => scan'[q] = scan[q]
    BY <1>1 DEF LiveType, TypeOK, LiveInv
  <1>3. /\ scan'[p].pc = "cursor" /\ scan'[p].req = scan[p].req
        /\ scan'[p].end = scan[p].end /\ scan'[p].latest = t
        /\ scan'[p].pending = scan[p].pending /\ scan'[p].fetched = scan[p].fetched
    BY <1>1, <1>2 DEF LiveType, TypeOK, ScanType
  <1>4. t # NoTime => rows # {}
    BY <1>1 DEF IsLatest
  <1>5. \A f : LeftToBackfill(f)' <=> LeftToBackfill(f)
    BY <1>1 DEF LeftToBackfill, AwaitsBackfill, StoredSymbols, workerVars
  <1>6. Kept(p) => Kept(p)'
    BY <1>1, <1>3 DEF Kept, Needed
  <1>7. Others(p) => Others(p)'
    BY <1>1, <1>3, <1>5 DEF Others, Behind, Needed
  <1>8. ScanReach(p)'
    BY <1>1, <1>2, <1>3, <1>4, <1>6, <1>7 DEF ScanReach
  <1>9. FetchedShown'
    BY <1>1, <1>2, <1>3 DEF LiveInv, FetchedShown
  <1>. QED  BY <1>1, <1>2, <1>3, <1>8, <1>9, RunsOn

LEMMA ReadCursorReach ==
    ASSUME WithinReach, LiveType, LiveType', LiveInv,
           NEW p \in Procs, ReadCursor(p), UNCHANGED workerVars
    PROVE  LiveInv'
  <1>. DEFINE r == scan[p].req
              begin == ScanStart(r, watermark, scan[p].latest)
  <1>1. /\ scan[p].pc = "cursor" /\ HasStart(r, watermark, scan[p].latest)
        /\ begin =< scan[p].end
        /\ scan' = [scan EXCEPT ![p] = [@ EXCEPT !.pc = "symbols", !.start = begin]]
        /\ UNCHANGED <<now, fills, published, rows, watermark>>
    BY DEF ReadCursor
  <1>2. /\ scan[p] \in ScanType /\ ScanReach(p) /\ r \in Request
        /\ \A q \in Procs : q # p => scan'[q] = scan[q]
    BY <1>1 DEF LiveType, TypeOK, LiveInv, ScanType
  <1>3. ASSUME p = Worker \/ r.advance,
               NEW f \in fills, Needed(f), f.sym \in r.symbols, f.t < begin
        PROVE  f \in rows
    <2>1. f.t \in Nat /\ StMs \in Nat /\ StMs =< f.t /\ Overlap \in Nat /\ watermark \in Int
      BY <1>3, ParametersAssumption DEF Needed, LiveType, TypeOK, Fill, Time, NoTime
    <2>2. CASE r.start # NoTime
      <3>1. begin = r.start
        BY <2>2 DEF ScanStart
      <3>. QED  BY <1>1, <1>2, <1>3, <3>1 DEF ScanReach, Kept
    <2>3. CASE r.start = NoTime /\ r.full
      <3>1. begin = StMs
        BY <2>3 DEF ScanStart
      <3>. QED  BY <1>3, <2>1, <3>1
    <2>4. CASE r.start = NoTime /\ ~r.full
      <3>1. watermark # NoTime
        BY <1>1, <1>2, <2>4 DEF HasStart, ScanReach, LiveInv, FirstScanInv
      <3>2. begin = MaxOf(StMs, watermark - Overlap)
        BY <2>4, <3>1 DEF ScanStart
      <3>3. Behind(f, watermark)
        BY <1>3, <2>1, <3>2 DEF Behind, MaxOf
      <3>. QED  BY <1>1, <1>3, <2>4, <3>3, CursorStored
    <2>. QED  BY <2>2, <2>3, <2>4
  <1>. HIDE DEF begin
  <1>4. /\ scan'[p].pc = "symbols" /\ scan'[p].req = scan[p].req
        /\ scan'[p].end = scan[p].end /\ scan'[p].start = begin
        /\ scan'[p].pending = scan[p].pending /\ scan'[p].fetched = scan[p].fetched
    BY <1>1, <1>2 DEF LiveType, TypeOK, ScanType
  <1>5. \A f : LeftToBackfill(f)' <=> LeftToBackfill(f)
    BY <1>1 DEF LeftToBackfill, AwaitsBackfill, StoredSymbols, workerVars
  <1>6. p = Worker \/ r.advance => Kept(p)'
    <2>. SUFFICES ASSUME p = Worker \/ r.advance
                  PROVE  Kept(p)'
      OBVIOUS
    <2>1. Kept(p)
      BY <1>1, <1>2 DEF ScanReach
    <2>2. \A f \in fills : Needed(f) /\ f.sym \in scan[p].req.symbols /\ f.t < begin
                           => f \in rows
      BY <1>3
    <2>. QED  BY <1>1, <1>4, <2>1, <2>2 DEF Kept, Needed
  <1>7. Others(p) => Others(p)'
    BY <1>1, <1>4, <1>5 DEF Others, Behind, Needed
  <1>8. ScanReach(p)'
    BY <1>1, <1>2, <1>4, <1>6, <1>7 DEF ScanReach
  <1>9. FetchedShown'
    BY <1>1, <1>2, <1>4 DEF LiveInv, FetchedShown
  <1>. QED  BY <1>1, <1>2, <1>4, <1>8, <1>9, RunsOn

LEMMA ResolveReach ==
    ASSUME WithinReach, LiveType, LiveType', LiveInv,
           NEW p \in Procs, ResolveSymbols(p), UNCHANGED workerVars
    PROVE  LiveInv'
  <1>1. /\ scan[p].pc = "symbols"
        /\ \E scope \in Scopes(scan[p].req) :
              scan' = [scan EXCEPT ![p] =
                         [@ EXCEPT !.pc = "fetch",
                                   !.pending = scope \cap Legs(scan[p].req)]]
        /\ UNCHANGED <<now, fills, published, rows, watermark>>
    BY DEF ResolveSymbols
  <1>2. /\ scan[p] \in ScanType /\ ScanReach(p)
        /\ \A q \in Procs : q # p => scan'[q] = scan[q]
    BY <1>1 DEF LiveType, TypeOK, LiveInv
  <1>3. /\ scan'[p].pc = "fetch" /\ scan'[p].req = scan[p].req
        /\ scan'[p].end = scan[p].end /\ scan'[p].start = scan[p].start
        /\ \E scope \in Scopes(scan[p].req) :
              scan'[p].pending = scope \cap Legs(scan[p].req)
        /\ scan'[p].fetched = scan[p].fetched
    BY <1>1, <1>2 DEF LiveType, TypeOK, ScanType
  <1>4. scan[p].req.symbols # {} /\ Legs(scan[p].req) = Symbols
          => scan'[p].pending = scan[p].req.symbols
    BY <1>2, <1>3, WorkerAssumption DEF Scopes, ScanType, Request
  <1>5. \A f : LeftToBackfill(f)' <=> LeftToBackfill(f)
    BY <1>1 DEF LeftToBackfill, AwaitsBackfill, StoredSymbols, workerVars
  <1>6. Kept(p) /\ scan[p].req.symbols # {} /\ Legs(scan[p].req) = Symbols
          => Kept(p)'
    BY <1>1, <1>3, <1>4 DEF Kept, Needed
  <1>7. Others(p) => Others(p)'
    BY <1>1, <1>3, <1>5 DEF Others, Behind, Needed
  <1>8. ScanReach(p)'
    BY <1>1, <1>2, <1>3, <1>4, <1>6, <1>7 DEF ScanReach
  <1>9. FetchedShown'
    BY <1>1, <1>2, <1>3 DEF LiveInv, FetchedShown
  <1>. QED  BY <1>1, <1>2, <1>3, <1>8, <1>9, RunsOn

LEMMA FetchReach ==
    ASSUME WithinReach, LiveType, LiveType', LiveInv,
           NEW p \in Procs, NEW s \in Symbols, Fetch(p, s) \/ SkipSymbol(p, s),
           UNCHANGED workerVars
    PROVE  LiveInv'
  <1>1. /\ scan[p].pc = "fetch" /\ s \in scan[p].pending
        /\ UNCHANGED <<now, fills, published, rows, watermark>>
    BY DEF Fetch, SkipSymbol
  <1>2. /\ scan[p] \in ScanType /\ ScanReach(p)
        /\ \A q \in Procs : q # p => scan'[q] = scan[q]
    BY <1>1 DEF LiveType, TypeOK, LiveInv, Fetch, SkipSymbol
  <1>3. /\ scan'[p].pc = "fetch" /\ scan'[p].req = scan[p].req
        /\ scan'[p].end = scan[p].end /\ scan'[p].start = scan[p].start
        /\ scan'[p].pending = scan[p].pending \ {s}
    <2>1. CASE Fetch(p, s)
      BY <1>2, <2>1 DEF LiveType, TypeOK, ScanType, Fetch
    <2>2. CASE SkipSymbol(p, s)
      BY <1>2, <2>2 DEF LiveType, TypeOK, ScanType, SkipSymbol
    <2>. QED  BY <2>1, <2>2
  <1>4. \/ scan'[p].fetched = scan[p].fetched \cup Shown(p, s)
        \/ scan'[p].fetched = scan[p].fetched /\ s \in Delisted
    <2>1. CASE Fetch(p, s)
      BY <1>2, <2>1 DEF LiveType, TypeOK, ScanType, Fetch
    <2>2. CASE SkipSymbol(p, s)
      BY <1>2, <2>2 DEF LiveType, TypeOK, ScanType, SkipSymbol
    <2>. QED  BY <2>1, <2>2
  <1>5. \A f : LeftToBackfill(f)' <=> LeftToBackfill(f)
    BY <1>1 DEF LeftToBackfill, AwaitsBackfill, StoredSymbols, workerVars
  <1>6. ASSUME p = Worker \/ scan[p].req.advance
        PROVE  Kept(p)'
    <2>1. Kept(p) /\ scan[p].end \in Nat /\ scan[p].end =< now /\ now \in Nat
      BY <1>1, <1>2, <1>6, ParametersAssumption
         DEF ScanReach, ScanType, LiveType, TypeOK, Time
    <2>2. ASSUME NEW f \in fills, Needed(f), f.sym \notin scan[p].pending \ {s},
                 f.sym \in scan[p].req.symbols,
                 scan[p].start =< f.t, f.t + Overlap < scan[p].end
          PROVE  f \in scan'[p].fetched
      <3>1. CASE f.sym \notin scan[p].pending
        BY <1>1, <1>4, <2>1, <2>2, <3>1 DEF Kept
      <3>2. CASE f.sym = s
        <4>1. scan'[p].fetched = scan[p].fetched \cup Shown(p, s)
          BY <1>4, <2>2, <3>2 DEF Needed
        <4>2. f.t \in Nat /\ Overlap \in Nat /\ Lateness \in Nat /\ Lateness =< Overlap
          BY ParametersAssumption DEF LiveType, TypeOK, Fill, Time, WithinReach, Contiguous
        <4>3. f \in published
          BY <2>1, <2>2, <4>2 DEF LiveInv, ClockInv
        <4>4. f.t =< scan[p].end
          BY <2>1, <2>2, <4>2
        <4>. QED  BY <2>2, <3>2, <4>1, <4>3, <4>4 DEF Shown
      <3>. QED  BY <2>2, <3>1, <3>2
    <2>. QED  BY <1>1, <1>3, <2>1, <2>2 DEF Kept, Needed
  <1>7. Others(p) => Others(p)'
    BY <1>1, <1>3, <1>5 DEF Others, Behind, Needed
  <1>8. \A f \in scan'[p].fetched : f \in scan[p].fetched \/ f.sym = s
    BY <1>4 DEF Shown
  <1>9. ScanReach(p)'
    <2>1. CASE p = Worker \/ scan[p].req.advance
      <3>1. \A f \in scan'[p].fetched : f.sym \in scan[p].req.symbols
        BY <1>1, <1>2, <1>8, <2>1 DEF ScanReach
      <3>. QED  BY <1>1, <1>2, <1>3, <1>6, <1>7, <2>1, <3>1 DEF ScanReach
    <2>2. CASE ~(p = Worker \/ scan[p].req.advance)
      BY <1>1, <1>2, <1>3, <2>2 DEF ScanReach
    <2>. QED  BY <2>1, <2>2
  <1>10. FetchedShown'
    BY MoveFetched DEF LiveType, LiveInv, Moves, ScanStep
  <1>. QED  BY <1>1, <1>2, <1>3, <1>9, <1>10, RunsOn

-----------------------------------------------------------------------------
(* A scan that exits.                                                      *)

LEMMA IdleReach ==
    ASSUME NEW p \in Procs, scan'[p] = Idle
    PROVE  ScanReach(p)'
BY DEF ScanReach, Idle

(* An operator's command ends without a commit. *)
LEMMA OperatorExitReach ==
    ASSUME WithinReach, LiveType, LiveType', LiveInv,
           NEW p \in Procs, p # Worker, scan[p].pc # "idle",
           scan' = [scan EXCEPT ![p] = Idle],
           UNCHANGED <<now, fills, published, rows, watermark, workerVars>>
    PROVE  LiveInv'
  <1>1. UNCHANGED <<kind, online, funded, wk>>
    BY DEF workerVars
  <1>2. /\ scan'[p] = Idle /\ \A q \in Procs : q # p => scan'[q] = scan[q]
        /\ scan'[Worker] = scan[Worker] /\ kind # "cta"
    BY RunningScan, WorkerAssumption DEF LiveType, TypeOK
  <1>3. ChildInv'
    BY <1>1, <1>2 DEF LiveInv, ChildInv, ScanRequest, BackfillRequest
  <1>4. SymbolInv'
    BY <1>1 DEF LiveInv, SymbolInv, StoredSymbols
  <1>5. CycleInv'
    <2>1. Backfilling' = Backfilling /\ LaunchPending' = LaunchPending
      BY <1>1, <1>2 DEF Backfilling, LaunchPending
    <2>2. wk.pc = "lookup" => StoredSymbols \ online' \subseteq wk.recent
      BY <1>1 DEF LiveInv, CycleInv
    <2>. QED  BY <1>1, <1>4, <2>1, <2>2, CycleKeeps
  <1>6. FetchedShown'
    BY <1>2 DEF LiveInv, FetchedShown, Idle
  <1>. QED  BY <1>1, <1>2, <1>3, <1>4, <1>5, <1>6, IdleReach, Frame

(* The worker's child ends without a commit: the account datasets follow,  *)
(* or the scan is run again with --full.                                   *)
LEMMA ChildExitReach ==
    ASSUME LiveType, LiveType', LiveInv,
           scan[Worker].pc # "idle", scan' = [scan EXCEPT ![Worker] = Idle],
           UNCHANGED <<now, fills, published, rows, watermark, kind, online, funded>>,
           \/ wk'.pc = "account"
           \/ /\ wk.pc = "trades" /\ scan[Worker].pc = "cursor"
              /\ wk' = [wk EXCEPT !.pc = "bootstrap"]
    PROVE  LiveInv'
  <1>1. /\ scan'[Worker].pc = "idle" /\ scan'[Worker] = Idle
        /\ \A q \in Procs : q # Worker => scan'[q] = scan[q]
    BY WorkerAssumption DEF LiveType, TypeOK, Idle
  <1>2. ChildInv'
    <2>1. wk'.pc \in {"account", "bootstrap"}
      BY DEF LiveType, WorkerType
    <2>. QED  BY <1>1, <2>1 DEF LiveInv, ChildInv
  <1>3. SymbolInv'
    BY DEF LiveInv, SymbolInv, StoredSymbols
  <1>4. CycleInv'
    <2>1. CASE wk'.pc = "account"
      BY <2>1 DEF CycleInv, Listing, LaunchPending
    <2>2. CASE /\ wk.pc = "trades" /\ scan[Worker].pc = "cursor"
               /\ wk' = [wk EXCEPT !.pc = "bootstrap"]
      <3>1. /\ wk'.pc = "bootstrap" /\ wk'.list = wk.list /\ wk'.todo = wk.todo
            /\ wk'.firsts = wk.firsts /\ wk'.since = wk.since
        BY <2>2 DEF LiveType, WorkerType
      <3>2. ListInv /\ now =< wk.since + MaxDelay /\ wk.todo = {}
        BY <2>2 DEF LiveInv, CycleInv, Listing, LaunchPending, ListInv
      <3>3. Backfilling = {} /\ Backfilling' = {}
        BY <2>2, <3>1 DEF Backfilling
      <3>4. \A f : LeftToBackfill(f)' <=> LeftToBackfill(f)
        BY DEF LeftToBackfill, AwaitsBackfill, StoredSymbols
      <3>5. ListInv'
        BY <3>1, <3>2, <3>3, <3>4 DEF ListInv, Behind, Needed
      <3>. QED  BY <3>1, <3>2, <3>5 DEF CycleInv
    <2>. QED  BY <2>1, <2>2
  <1>5. FetchedShown'
    BY <1>1 DEF LiveInv, FetchedShown, Idle
  <1>. QED  BY <1>1, <1>2, <1>3, <1>4, <1>5, IdleReach, WorkerAssumption, Frame

(* A backfill has a cursor within its range. *)
LEMMA BackfillCursor ==
    ASSUME LiveType, LiveInv, wk.pc = "backfill", scan[Worker].pc # "idle"
    PROVE  /\ HasStart(scan[Worker].req, watermark, scan[Worker].latest)
           /\ ~(ScanStart(scan[Worker].req, watermark, scan[Worker].latest)
                  > scan[Worker].end)
  <1>1. PICK s \in Symbols : scan[Worker].req = BackfillRequest(s)
    BY DEF LiveInv, ChildInv, LiveType, WorkerType
  <1>. DEFINE r == BackfillRequest(s)
  <1>2. scan[Worker].end \in Nat /\ StMs =< scan[Worker].end /\ r.start =< scan[Worker].end
    BY <1>1, WorkerAssumption, ParametersAssumption
       DEF LiveInv, ScanReach, LiveType, TypeOK, ScanType, Time
  <1>3. r.start # NoTime \/ r.full
    <2>1. CASE wk.firsts[s] # NoTime
      <3>1. r.start = MaxOf(StMs, wk.firsts[s] - Lookback) /\ wk.firsts[s] \in Nat
        BY <2>1 DEF BackfillRequest, LiveType, WorkerType, Time
      <3>. QED  BY <3>1, ParametersAssumption, WorkerAssumption DEF MaxOf, NoTime
    <2>. QED  BY <2>1 DEF BackfillRequest
  <1>4. r.start \in Int /\ StMs \in Int
    BY WorkerRequests, ParametersAssumption DEF NoTime
  <1>. HIDE DEF r
  <1>5. scan[Worker].req = r
    BY <1>1 DEF r
  <1>. QED  BY <1>2, <1>3, <1>4, <1>5 DEF HasStart, ScanStart

(* The exits of the worker's child that commit nothing. *)
LEMMA WorkerExitReach ==
    ASSUME WithinReach, LiveType, LiveType', LiveInv,
           \/ ChildNotInitialized \/ ChildFails
           \/ SkipBeyondEnd(Worker) /\ AfterChild /\ UNCHANGED <<kind, online, funded>>
    PROVE  LiveInv'
  <1>1. /\ scan[Worker].pc # "idle" /\ scan' = [scan EXCEPT ![Worker] = Idle]
        /\ UNCHANGED <<now, fills, published, rows, watermark, kind, online, funded>>
    BY DEF ChildNotInitialized, NotInitialized, ChildFails, Fail, SkipBeyondEnd
  <1>2. wk.pc \in {"backfill", "trades", "bootstrapping"}
    BY <1>1 DEF LiveInv, ChildInv
  <1>3. CASE ChildNotInitialized
    <2>1. /\ scan[Worker].pc = "cursor"
          /\ ~HasStart(scan[Worker].req, watermark, scan[Worker].latest)
          /\ wk' = [wk EXCEPT !.pc = IF @ = "trades" THEN "bootstrap" ELSE @]
      BY <1>3 DEF ChildNotInitialized, NotInitialized
    <2>2. ~scan[Worker].req.full
      BY <2>1 DEF HasStart
    <2>3. wk.pc # "bootstrapping"
      BY <1>1, <2>2 DEF LiveInv, ChildInv, ScanRequest
    <2>4. wk.pc = "trades"
      BY <1>1, <1>2, <2>1, <2>3, BackfillCursor
    <2>5. wk' = [wk EXCEPT !.pc = "bootstrap"]
      BY <2>1, <2>4 DEF LiveType, WorkerType
    <2>. QED  BY <1>1, <2>1, <2>4, <2>5, ChildExitReach
  <1>4. CASE ChildFails
    <2>1. wk.pc # "backfill"
      BY <1>4 DEF ChildFails, Stage, WithinReach
    <2>2. wk'.pc = "account"
      BY <1>4, <2>1 DEF ChildFails, AfterChild, LiveType, WorkerType
    <2>. QED  BY <1>1, <2>2, ChildExitReach
  <1>5. CASE SkipBeyondEnd(Worker) /\ AfterChild
    <2>1. wk.pc # "backfill"
      BY <1>1, <1>5, BackfillCursor DEF SkipBeyondEnd
    <2>2. wk'.pc = "account"
      BY <1>5, <2>1 DEF AfterChild, LiveType, WorkerType
    <2>. QED  BY <1>1, <2>2, ChildExitReach
  <1>. QED  BY <1>3, <1>4, <1>5

-----------------------------------------------------------------------------
(* Commits.                                                                *)

(* A scan that is done has the fills of its symbols. *)
LEMMA Captured ==
    ASSUME LiveType, LiveInv, NEW p \in Procs, Commit(p),
           p = Worker \/ scan[p].req.advance,
           NEW f \in fills, Behind(f, scan[p].end), f.sym \in scan[p].req.symbols
    PROVE  f \in rows'
  <1>1. /\ scan[p].pc = "fetch" /\ scan[p].pending = {}
        /\ rows' = rows \cup scan[p].fetched
    BY DEF Commit
  <1>2. Kept(p) /\ Needed(f) /\ f.t + Overlap < scan[p].end
    BY <1>1 DEF LiveInv, ScanReach, Behind
  <1>3. f.t < scan[p].start \/ scan[p].start =< f.t
    BY DEF LiveType, TypeOK, ScanType, Fill, Time
  <1>. QED  BY <1>1, <1>2, <1>3 DEF Kept

(* What a commit does to the store. *)
LEMMA CommitStore ==
    ASSUME WithinReach, LiveType, LiveType', LiveInv,
           NEW p \in Procs, Commit(p), UNCHANGED <<kind, online, funded>>
    PROVE  /\ SymbolInv' /\ ClockInv' /\ FirstScanInv' /\ ReachInv' /\ FetchedShown'
           /\ \A q \in Procs : ScanReach(q)'
           /\ \A f : LeftToBackfill(f) => \/ LeftToBackfill(f)'
                                          \/ /\ p = Worker /\ kind = "cta"
                                             /\ f.sym \in scan[p].req.symbols
           /\ StoredSymbols' \ online \subseteq StoredSymbols \ online
  <1>1. /\ scan[p].pc = "fetch" /\ rows' = rows \cup scan[p].fetched
        /\ watermark' = IF scan[p].req.advance
                          THEN MaxOf(watermark, scan[p].end) ELSE watermark
        /\ scan' = [scan EXCEPT ![p] = Idle]
        /\ UNCHANGED <<now, fills, published>>
    BY DEF Commit, AdvanceWatermark
  <1>2. /\ scan[p] \in ScanType /\ ScanReach(p)
        /\ scan'[p] = Idle /\ \A q \in Procs : q # p => scan'[q] = scan[q]
    BY <1>1 DEF LiveType, TypeOK, LiveInv
  <1>3. kind = "redis" \/ (kind = "cta" /\ p = Worker)
    BY <1>1, RunningScan
  <1>4. /\ watermark \in Int /\ now \in Nat /\ scan[p].end \in Nat /\ StMs \in Nat
        /\ scan[p].req.advance => StMs =< scan[p].end /\ scan[p].end =< now
    BY <1>1, <1>2, ParametersAssumption
       DEF LiveType, TypeOK, ScanType, Time, NoTime, ScanReach
  <1>5. scan[p].fetched \subseteq published /\ rows \subseteq rows'
    BY <1>1 DEF LiveInv, FetchedShown
  <1>6. StoredSymbols' = StoredSymbols \cup {f.sym : f \in scan[p].fetched}
    BY <1>1 DEF StoredSymbols
  <1>7. ASSUME NEW f, LeftToBackfill(f)
        PROVE  LeftToBackfill(f)' \/ (p = Worker /\ kind = "cta"
                                      /\ f.sym \in scan[p].req.symbols)
    <2>1. /\ kind = "cta" /\ p = Worker /\ rows' # {}
          /\ f.sym \notin StoredSymbols \cup funded
      BY <1>3, <1>5, <1>7 DEF LeftToBackfill, AwaitsBackfill
    <2>2. \A g \in scan[p].fetched : g.sym \in scan[p].req.symbols
      BY <1>1, <1>2, <2>1 DEF ScanReach
    <2>. QED  BY <1>6, <2>1, <2>2 DEF LeftToBackfill, AwaitsBackfill
  <1>8. SymbolInv'
    BY <1>1, <1>5, <1>6 DEF LiveInv, SymbolInv
  <1>9. ClockInv'
    BY <1>1, <1>4 DEF LiveInv, ClockInv, MaxOf
  <1>10. FirstScanInv'
    <2>1. CASE scan[p].req.advance
      BY <1>1, <1>4, <2>1 DEF FirstScanInv, MaxOf, NoTime
    <2>2. CASE ~scan[p].req.advance
      BY <1>1, <1>2, <2>2 DEF FirstScanInv, ScanReach
    <2>. QED  BY <2>1, <2>2
  <1>11. ReachInv'
    <2>. SUFFICES ASSUME NEW f \in fills, Behind(f, watermark')
                  PROVE  f \in rows' \/ LeftToBackfill(f)'
      BY <1>1 DEF ReachInv, Behind, Needed
    <2>1. f.t \in Int /\ Overlap \in Nat
      BY ParametersAssumption DEF LiveType, TypeOK, Fill, Time
    <2>2. CASE Behind(f, watermark)
      <3>1. f \in rows \/ LeftToBackfill(f)
        BY <2>2 DEF LiveInv, ReachInv
      <3>2. ASSUME p = Worker, kind = "cta", f.sym \in scan[p].req.symbols
            PROVE  f \in rows'
        <4>1. /\ ListInv /\ wk.since \in Nat /\ wk.since =< scan[p].end
          <5>1. scan[Worker].pc # "idle"
            BY <1>1, <3>2
          <5>2. Listing /\ wk.since =< scan[Worker].end
            BY <5>1 DEF LiveInv, ChildInv, Listing
          <5>. QED  BY <3>2, <5>2 DEF LiveInv, CycleInv, LiveType, WorkerType, Time
        <4>2. watermark =< scan[p].end
          BY <1>4, <3>2, <4>1 DEF ListInv
        <4>3. Behind(f, scan[p].end)
          BY <1>4, <2>1, <2>2, <4>2 DEF Behind
        <4>. QED  BY <3>2, <4>3, Captured
      <3>. QED  BY <1>5, <1>7, <3>1, <3>2
    <2>3. CASE ~Behind(f, watermark)
      <3>1. scan[p].req.advance /\ Behind(f, scan[p].end)
        BY <1>1, <2>3 DEF MaxOf
      <3>2. f.sym \in scan[p].req.symbols \/ LeftToBackfill(f)
        BY <1>1, <1>2, <3>1 DEF ScanReach, Others
      <3>. QED  BY <1>7, <3>1, <3>2, Captured
    <2>. QED  BY <2>2, <2>3
  <1>12. ASSUME NEW q \in Procs
         PROVE  ScanReach(q)'
    <2>1. CASE q = p
      BY <1>2, <2>1, IdleReach
    <2>2. CASE q # p /\ kind = "redis"
      <3>1. \A f : ~LeftToBackfill(f)
        BY <2>2 DEF LeftToBackfill, AwaitsBackfill
      <3>2. now' >= now /\ (watermark # NoTime => watermark' # NoTime)
        <4>1. CASE scan[p].req.advance
          BY <1>1, <1>4, <4>1 DEF MaxOf, NoTime
        <4>2. CASE ~scan[p].req.advance
          BY <1>1, <1>4, <4>2
        <4>. QED  BY <4>1, <4>2
      <3>. QED
        BY <1>1, <1>2, <1>5, <2>2, <3>1, <3>2, ScanKeeps DEF LiveInv, LiveType
    <2>3. CASE q # p /\ kind = "cta"
      <3>1. scan'[q].pc = "idle"
        BY <1>2, <1>3, <2>3 DEF LiveInv, ChildInv
      <3>. QED  BY <3>1 DEF ScanReach
    <2>. QED  BY <1>3, <2>1, <2>2, <2>3
  <1>13. FetchedShown'
    BY MoveFetched DEF LiveType, LiveInv, Moves, ScanStep
  <1>14. StoredSymbols' \ online \subseteq StoredSymbols \ online
    <2>1. \A f \in scan[p].fetched : f.sym \in online \cup StoredSymbols
      BY <1>5 DEF LiveInv, SymbolInv, LiveType, TypeOK
    <2>. QED  BY <1>6, <2>1
  <1>. QED
    BY <1>7, <1>8, <1>9, <1>10, <1>11, <1>12, <1>13, <1>14

LEMMA OperatorCommitReach ==
    ASSUME WithinReach, LiveType, LiveType', LiveInv,
           NEW p \in Procs, p # Worker, Commit(p), UNCHANGED workerVars
    PROVE  LiveInv'
  <1>1. /\ scan[p].pc = "fetch" /\ scan' = [scan EXCEPT ![p] = Idle]
        /\ UNCHANGED <<now, fills, kind, online, funded, wk>>
        /\ rows \subseteq rows'
    BY DEF Commit, workerVars
  <1>2. kind # "cta" /\ scan'[Worker] = scan[Worker]
    BY <1>1, RunningScan, WorkerAssumption DEF LiveType, TypeOK
  <1>3. ChildInv'
    BY <1>1, <1>2 DEF LiveInv, ChildInv, ScanRequest, BackfillRequest
  <1>4. CycleInv'
    <2>1. Backfilling' = Backfilling /\ LaunchPending' = LaunchPending /\ Listing' = Listing
      BY <1>1, <1>2 DEF Backfilling, LaunchPending, Listing
    <2>2. \A f : ~LeftToBackfill(f)
      BY <1>2 DEF LeftToBackfill, AwaitsBackfill
    <2>3. ListInv => ListInv'
      BY <1>1, <1>2, <2>2 DEF ListInv
    <2>4. StoredSymbols' \ online \subseteq StoredSymbols \ online
      BY <1>1, CommitStore
    <2>. QED  BY <1>1, <1>2, <2>1, <2>3, <2>4 DEF LiveInv, CycleInv
  <1>. QED  BY <1>1, <1>3, <1>4, CommitStore DEF LiveInv

LEMMA ChildCommitReach ==
    ASSUME WithinReach, LiveType, LiveType', LiveInv,
           Commit(Worker), AfterChild, UNCHANGED <<kind, online, funded>>
    PROVE  LiveInv'
  <1>1. /\ scan[Worker].pc = "fetch" /\ scan' = [scan EXCEPT ![Worker] = Idle]
        /\ UNCHANGED <<now, fills>> /\ rows \subseteq rows'
        /\ ~scan[Worker].req.advance => watermark' = watermark
        /\ wk' = [wk EXCEPT !.pc = IF @ = "backfill" THEN @ ELSE "account"]
        /\ Worker \in Procs
    BY WorkerAssumption DEF Commit, AfterChild
  <1>2. /\ scan'[Worker].pc = "idle" /\ scan[Worker].pc # "idle"
        /\ \A q \in Procs : q # Worker => scan'[q] = scan[q]
        /\ wk' \in WorkerType
    BY <1>1 DEF LiveType, TypeOK, Idle
  <1>3. CASE wk.pc = "backfill"
    <2>1. wk' = wk
      BY <1>1, <1>3 DEF LiveType, WorkerType
    <2>2. PICK s \in wk.list \ wk.todo : scan[Worker].req = BackfillRequest(s)
      BY <1>2, <1>3 DEF LiveInv, ChildInv
    <2>3. /\ kind = "cta" /\ wk.since =< scan[Worker].end
          /\ scan[Worker].req.symbols = {s} /\ ~scan[Worker].req.advance
      BY <1>2, <1>3, <2>2 DEF LiveInv, ChildInv, BackfillRequest
    <2>4. Backfilling = {s} /\ Backfilling' = {} /\ watermark' = watermark
      BY <1>1, <1>2, <1>3, <2>1, <2>3 DEF Backfilling
    <2>5. ChildInv'
      BY <1>2, <1>3, <2>1 DEF LiveInv, ChildInv
    <2>6. ListInv /\ now =< wk.since + MaxDelay
      BY <1>3 DEF LiveInv, CycleInv, Listing, LaunchPending
    <2>7. ListInv'
      <3>1. /\ wk'.list # {} /\ wk'.todo \subseteq wk'.list /\ wk'.since =< now'
            /\ wk'.pc # "backfill" => wk'.todo = {}
            /\ wk'.todo # {} => kind' = "cta" /\ rows' # {}
            /\ \A t \in Symbols : wk'.firsts[t] =< wk'.since
            /\ \A f \in fills' : wk'.firsts[f.sym] =< f.t
            /\ kind' = "cta" => watermark' =< wk'.since
        BY <1>1, <2>1, <2>4, <2>6 DEF ListInv
      <3>2. ASSUME NEW f \in fills
            PROVE  f.sym \in wk.list \/ wk.since =< f.t \/ LeftToBackfill(f)'
        <4>1. f.sym \in wk.list \/ wk.since =< f.t \/ LeftToBackfill(f)
          BY <2>6 DEF ListInv
        <4>2. LeftToBackfill(f) => LeftToBackfill(f)' \/ f.sym \in {s}
          BY <1>1, <2>3, CommitStore
        <4>. QED  BY <2>2, <4>1, <4>2
      <3>3. ASSUME NEW f \in fills, Behind(f, watermark), f.sym \in wk.list \ wk.todo
            PROVE  f \in rows'
        <4>1. CASE f.sym # s
          BY <1>1, <2>3, <2>4, <2>6, <3>3, <4>1 DEF ListInv
        <4>2. CASE f.sym = s
          <5>1. /\ watermark \in Int /\ wk.since \in Int /\ scan[Worker].end \in Int
                /\ f.t \in Int /\ Overlap \in Int
            BY <1>1, ParametersAssumption
               DEF LiveType, TypeOK, ScanType, WorkerType, Fill, Time, NoTime
          <5>2. Behind(f, scan[Worker].end)
            BY <2>3, <2>6, <3>3, <5>1 DEF Behind, ListInv
          <5>. QED  BY <1>1, <2>3, <4>2, <5>2, Captured
        <4>. QED  BY <4>1, <4>2
      <3>. QED  BY <1>1, <2>1, <2>3, <2>4, <3>1, <3>2, <3>3 DEF ListInv, Behind, Needed
    <2>8. CycleInv'
      BY <1>1, <1>3, <2>1, <2>6, <2>7 DEF CycleInv
    <2>. QED  BY <1>1, <2>5, <2>8, CommitStore DEF LiveInv
  <1>4. CASE wk.pc # "backfill"
    <2>1. wk'.pc = "account"
      BY <1>1, <1>4 DEF LiveType, WorkerType
    <2>2. ChildInv'
      BY <1>2, <2>1 DEF LiveInv, ChildInv
    <2>3. CycleInv'
      BY <2>1 DEF CycleInv, Listing, LaunchPending
    <2>. QED  BY <1>1, <2>2, <2>3, CommitStore DEF LiveInv
  <1>. QED  BY <1>3, <1>4

-----------------------------------------------------------------------------
(* The theorems.                                                           *)

LEMMA OperatorReach ==
    ASSUME WithinReach, LiveType, LiveType', LiveInv,
           NEW p \in Procs, OperatorStep(p)
    PROVE  LiveInv'
  <1>1. p # Worker /\ kind \in OperatorsIn /\ UNCHANGED workerVars
    BY DEF OperatorStep
  <1>2. ASSUME NEW r \in Requests, NEW e \in Time, Launch(p, r, e)
        PROVE  LiveInv'
    BY <1>1, <1>2, OperatorLaunchReach
  <1>3. CASE Fail(p) \/ SkipBeyondEnd(p) \/ NotInitialized(p)
    <2>1. /\ scan[p].pc # "idle" /\ scan' = [scan EXCEPT ![p] = Idle]
          /\ UNCHANGED <<now, fills, published, rows, watermark>>
      BY <1>3 DEF Fail, SkipBeyondEnd, NotInitialized
    <2>. QED  BY <1>1, <2>1, OperatorExitReach
  <1>4. CASE ReadLatest(p)
    BY <1>1, <1>4, ReadLatestReach
  <1>5. CASE ReadCursor(p)
    BY <1>1, <1>5, ReadCursorReach
  <1>6. CASE ResolveSymbols(p)
    BY <1>1, <1>6, ResolveReach
  <1>7. CASE \E s \in Symbols : Fetch(p, s) \/ SkipSymbol(p, s)
    BY <1>1, <1>7, FetchReach
  <1>8. CASE Commit(p)
    BY <1>1, <1>8, OperatorCommitReach
  <1>. QED
    BY <1>2, <1>3, <1>4, <1>5, <1>6, <1>7, <1>8 DEF OperatorStep, ScanStep

LEMMA CycleReach ==
    ASSUME WithinReach, LiveType, LiveType', LiveInv, CycleStep
    PROVE  LiveInv'
  <1>1. CASE Slot
    BY <1>1, SlotReach
  <1>2. CASE Lookup
    BY <1>2, FoundReach
  <1>3. ASSUME NEW s \in Symbols, StartBackfill(s)
        PROVE  LiveInv'
    BY <1>3, StartBackfillReach DEF StartBackfill
  <1>4. CASE StartTrades \/ StartBootstrap
    BY <1>4, StartScanReach
  <1>5. CASE ChildNotInitialized
    BY <1>5, WorkerExitReach
  <1>6. CASE ChildWorks
    <2>1. Worker \in Procs /\ UNCHANGED workerVars
      BY <1>6, WorkerAssumption DEF ChildWorks
    <2>2. CASE ReadLatest(Worker)
      BY <2>1, <2>2, ReadLatestReach
    <2>3. CASE ReadCursor(Worker)
      BY <2>1, <2>3, ReadCursorReach
    <2>4. CASE ResolveSymbols(Worker)
      BY <2>1, <2>4, ResolveReach
    <2>5. CASE \E s \in Symbols : Fetch(Worker, s) \/ SkipSymbol(Worker, s)
      BY <2>1, <2>5, FetchReach
    <2>. QED  BY <1>6, <2>2, <2>3, <2>4, <2>5 DEF ChildWorks
  <1>7. CASE ChildSucceeds
    BY <1>7, ChildCommitReach, WorkerExitReach DEF ChildSucceeds
  <1>8. CASE AccountDatasets
    BY <1>8, AccountReach
  <1>. QED
    BY <1>1, <1>2, <1>3, <1>4, <1>5, <1>6, <1>7, <1>8 DEF CycleStep

(* Every step of the worker, the operators and the environment keeps what  *)
(* the watermark has passed stored or due for a backfill.                  *)
LEMMA LiveStep ==
    ASSUME WithinReach, LiveType, LiveType', LiveInv, [LiveNext]_allVars
    PROVE  LiveInv'
  <1>1. CASE \E s \in Symbols : List(s) \/ Unlist(s)
    BY <1>1, ListsReach
  <1>2. CASE \E s \in Symbols : TradeListed(s)
    BY <1>2, TradeReach
  <1>3. CASE LiveTick \/ \E f \in Fill : PublishFill(f)
    BY <1>3, TimeReach
  <1>4. CASE CycleStep
    BY <1>4, CycleReach
  <1>5. CASE LookupFails
    BY <1>5, FoundReach
  <1>6. CASE ChildFails
    BY <1>6, WorkerExitReach
  <1>7. CASE \E paid \in SUBSET Symbols : FundingScan(paid)
    BY <1>7, ListsReach
  <1>8. CASE \E p \in Procs : OperatorStep(p)
    BY <1>8, OperatorReach
  <1>9. CASE UNCHANGED allVars
    <2>1. UNCHANGED <<now, fills, published, rows, watermark, scan, kind, online, funded, wk>>
      BY <1>9 DEF allVars, vars, workerVars
    <2>2. Backfilling' = Backfilling /\ LaunchPending' = LaunchPending
      BY <2>1 DEF Backfilling, LaunchPending
    <2>3. SymbolInv' /\ FetchedShown'
      BY <2>1 DEF LiveInv, SymbolInv, FetchedShown, StoredSymbols
    <2>4. wk.pc = "lookup" => StoredSymbols \ online' \subseteq wk.recent
      BY <2>1 DEF LiveInv, CycleInv
    <2>5. ChildInv'
      BY <2>1 DEF LiveInv, ChildInv, ScanRequest, BackfillRequest
    <2>6. CycleInv'
      BY <2>1, <2>2, <2>3, <2>4, CycleKeeps
    <2>. QED  BY <2>1, <2>3, <2>5, <2>6, Frame
  <1>. QED
    BY <1>1, <1>2, <1>3, <1>4, <1>5, <1>6, <1>7, <1>8, <1>9 DEF LiveNext

LEMMA LiveStart ==
    ASSUME LiveInit
    PROVE  LiveType /\ LiveInv
  <1>1. TypeOK
    BY IdleType, ParametersAssumption DEF LiveInit, Init, TypeOK, Time, NoTime
  <1>2. LiveType
    BY <1>1, ParametersAssumption DEF LiveInit, LiveType, Asleep, WorkerType, Time
  <1>3. /\ fills = {} /\ published = {} /\ rows = {} /\ watermark = NoTime /\ now = 0
        /\ funded = {} /\ wk.pc = "sleep"
        /\ \A p \in Procs : scan[p].pc = "idle" /\ scan[p].fetched = {}
    BY DEF LiveInit, Init, Idle, Asleep
  <1>4. \A p \in Procs : ScanReach(p)
    BY <1>3 DEF ScanReach
  <1>5. ClockInv /\ FirstScanInv /\ FetchedShown /\ ReachInv /\ SymbolInv
    BY <1>3 DEF ClockInv, FirstScanInv, FetchedShown, ReachInv, SymbolInv, NoTime
  <1>6. ChildInv /\ CycleInv
    BY <1>3, WorkerAssumption DEF ChildInv, CycleInv, Listing, LaunchPending
  <1>. QED  BY <1>2, <1>4, <1>5, <1>6 DEF LiveInv

(* What the invariant says of a reader of the history. *)
LEMMA ReachShows ==
    ASSUME LiveType, LiveInv
    PROVE  NoFillOutOfReach
  <1>. SUFFICES ASSUME NEW f \in fills, Needed(f), ~(f.t >= NextScanStart)
                PROVE  f \in rows \/ AwaitsBackfill(f.sym)
    <2>1. \A f \in fills : f.t < StMs \/ StMs =< f.t
      BY ParametersAssumption DEF LiveType, TypeOK, Fill, Time
    <2>. QED  BY <2>1 DEF NoFillOutOfReach, Needed
  <1>1. /\ f.t \in Nat /\ StMs \in Nat /\ Overlap \in Nat /\ watermark \in Int
        /\ StMs =< f.t
    BY ParametersAssumption DEF Needed, LiveType, TypeOK, Fill, Time, NoTime
  <1>2. Behind(f, watermark)
    BY <1>1 DEF Behind, NextScanStart, MaxOf
  <1>. QED  BY <1>2 DEF LiveInv, ReachInv, LeftToBackfill

(* The scans, the lists and the worker's cycle keep their types, whatever  *)
(* the worker, the operators and the exchange do.                          *)
THEOREM LiveTypeCorrect == LiveSpec => []LiveType
  <1>. QED  BY LiveStart, LiveTypeStep, PTL DEF LiveSpec

(***************************************************************************)
(* Under the discipline WithinReach the recurring worker loses no fill of  *)
(* the strategy for good, although symbols are looked up before they are   *)
(* scanned, one of them at a time is backfilled, the exchange publishes    *)
(* late, lookups and scans fail and operators' scans run side by side: a   *)
(* fill is stored, within the range of the next scan, or its symbol is     *)
(* still to be backfilled.                                                 *)
(***************************************************************************)
THEOREM NoFillIsLost ==
    ASSUME WithinReach
    PROVE  LiveSpec => []NoFillOutOfReach
  <1>1. LiveInit => LiveInv
    BY LiveStart
  <1>2. LiveType /\ LiveType' /\ LiveInv /\ [LiveNext]_allVars => LiveInv'
    BY LiveStep
  <1>3. LiveType /\ LiveInv => NoFillOutOfReach
    BY ReachShows
  <1>. QED  BY <1>1, <1>2, <1>3, LiveTypeCorrect, PTL DEF LiveSpec
=============================================================================
