------------------------- MODULE HistorySyncProofs -------------------------
(***************************************************************************)
(* Proofs about HistorySync for every number of processes, symbols and     *)
(* fills: type correctness, that the watermark never moves back, that it   *)
(* keeps its promise under the discipline Contiguous, and that the scans   *)
(* then implement StoredHistory.                                           *)
(***************************************************************************)
EXTENDS HistorySync, TLAPS

(* scan_start yields a timestamp, whichever cursor it uses. *)
LEMMA ScanStartType ==
    ASSUME NEW r \in Request, NEW mark \in Time \cup {NoTime},
           NEW latest \in Time \cup {NoTime}
    PROVE  ScanStart(r, mark, latest) \in Nat
BY ParametersAssumption DEF ScanStart, Request, Time, NoTime, MaxOf

(* An idle process is well typed. *)
LEMMA IdleType == Idle \in ScanType
BY ParametersAssumption
   DEF Idle, ScanType, NoRequest, Request, Time, NoTime

(* A launched command is well typed, whoever chose its arguments. *)
LEMMA LaunchType ==
    ASSUME TypeOK, NEW p \in Procs, NEW r \in Request, NEW e \in Time,
           Launch(p, r, e)
    PROVE  TypeOK'
  <1>1. [Idle EXCEPT !.pc = "latest", !.req = r, !.end = e] \in ScanType
    BY IdleType DEF ScanType, Idle
  <1>. QED  BY <1>1 DEF Launch, TypeOK

(* Every step but the launch of a command. *)
Moves ==
    \/ Tick
    \/ \E s \in Symbols : Trade(s)
    \/ \E f \in Fill : Publish(f)
    \/ \E p \in Procs : ScanStep(p) \/ Fail(p)

LEMMA NextMoves ==
    Next => Moves \/ \E p \in Procs, r \in Requests, e \in Time : Launch(p, r, e)
BY DEF Next, Moves

(* Every step of the clock, the exchange or a process preserves the types. *)
LEMMA MoveType ==
    ASSUME TypeOK, [Moves]_vars
    PROVE  TypeOK'
  <1>. USE DEF TypeOK
  <1>1. CASE Tick
    BY <1>1, ParametersAssumption DEF Tick, Time
  <1>2. ASSUME NEW s \in Symbols, Trade(s)
        PROVE  TypeOK'
    BY <1>2 DEF Trade, Fill
  <1>3. ASSUME NEW f \in Fill, Publish(f)
        PROVE  TypeOK'
    BY <1>3 DEF Publish
  <1>5. ASSUME NEW p \in Procs, ReadLatest(p)
        PROVE  TypeOK'
    <2>1. PICK t \in Time \cup {NoTime} :
            scan' = [scan EXCEPT ![p] = [@ EXCEPT !.pc = "cursor",
                                                  !.latest = t]]
      BY <1>5 DEF ReadLatest
    <2>2. UNCHANGED <<now, fills, published, rows, watermark>>
      BY <1>5 DEF ReadLatest
    <2>. QED  BY <2>1, <2>2 DEF ScanType
  <1>6. ASSUME NEW p \in Procs, ReadCursor(p)
        PROVE  TypeOK'
    <2>. DEFINE begin == ScanStart(scan[p].req, watermark, scan[p].latest)
    <2>1. scan[p] \in ScanType
      OBVIOUS
    <2>2. begin \in Nat
      BY <2>1, ScanStartType DEF ScanType
    <2>3. begin \in Time
      BY <1>6, <2>1, <2>2, ParametersAssumption DEF ReadCursor, ScanType, Time
    <2>. HIDE DEF begin
    <2>4. scan' = [scan EXCEPT ![p] = [@ EXCEPT !.pc = "symbols", !.start = begin]]
      BY <1>6 DEF ReadCursor, begin
    <2>5. UNCHANGED <<now, fills, published, rows, watermark>>
      BY <1>6 DEF ReadCursor
    <2>. QED  BY <2>1, <2>3, <2>4, <2>5 DEF ScanType
  <1>7. ASSUME NEW p \in Procs,
               SkipBeyondEnd(p) \/ NotInitialized(p) \/ Fail(p)
        PROVE  TypeOK'
    BY <1>7, IdleType DEF SkipBeyondEnd, NotInitialized, Fail
  <1>8. ASSUME NEW p \in Procs, ResolveSymbols(p)
        PROVE  TypeOK'
    <2>1. PICK scope \in Scopes(scan[p].req) :
            scan' = [scan EXCEPT ![p] =
                       [@ EXCEPT !.pc = "fetch",
                                 !.pending = scope \cap Legs(scan[p].req)]]
      BY <1>8 DEF ResolveSymbols
    <2>. DEFINE left == scope \cap Legs(scan[p].req)
                after == [scan[p] EXCEPT !.pc = "fetch", !.pending = left]
    <2>2. left \in SUBSET Symbols
      BY DEF Legs
    <2>. HIDE DEF left
    <2>3. after \in ScanType
      BY <2>2 DEF ScanType
    <2>4. scan' = [scan EXCEPT ![p] = after]
      BY <2>1 DEF left
    <2>. HIDE DEF after
    <2>. QED  BY <1>8, <2>3, <2>4 DEF ResolveSymbols
  <1>9. ASSUME NEW p \in Procs, NEW s \in Symbols, Fetch(p, s)
        PROVE  TypeOK'
    <2>1. Shown(p, s) \subseteq Fill
      BY DEF Shown
    <2>2. scan[p] \in ScanType
      OBVIOUS
    <2>. DEFINE left == scan[p].pending \ {s}
                got == scan[p].fetched \cup Shown(p, s)
                after == [scan[p] EXCEPT !.pending = left, !.fetched = got]
    <2>6. left \in SUBSET Symbols /\ got \in SUBSET Fill
      BY <2>1, <2>2 DEF ScanType
    <2>3. after \in ScanType
      <3>. HIDE DEF left, got
      <3>. QED  BY <2>2, <2>6 DEF ScanType
    <2>4. scan' = [scan EXCEPT ![p] = after]
      BY <1>9 DEF Fetch
    <2>5. UNCHANGED <<now, fills, published, rows, watermark>>
      BY <1>9 DEF Fetch
    <2>. HIDE DEF after
    <2>. QED  BY <2>3, <2>4, <2>5
  <1>10. ASSUME NEW p \in Procs, NEW s \in Symbols, SkipSymbol(p, s)
        PROVE  TypeOK'
    BY <1>10 DEF SkipSymbol, ScanType
  <1>11. ASSUME NEW p \in Procs, Commit(p)
         PROVE  TypeOK'
    BY <1>11, IdleType
       DEF Commit, ScanType, AdvanceWatermark, MaxOf
  <1>12. CASE UNCHANGED vars
    BY <1>12 DEF vars
  <1>. QED
    BY <1>1, <1>2, <1>3, <1>5, <1>6, <1>7, <1>8, <1>9, <1>10, <1>11, <1>12
       DEF Moves, ScanStep

LEMMA TypeStep == TypeOK /\ [Next]_vars => TypeOK'
  <1>1. Requests \subseteq Request
    BY ParametersAssumption
  <1>. QED  BY <1>1, MoveType, LaunchType, NextMoves

(* Only a commit writes the store. *)
LEMMA StoreWrites ==
    ASSUME [Next]_vars
    PROVE  (\E p \in Procs : Commit(p)) \/ UNCHANGED <<rows, watermark>>
BY DEF Next, vars, Tick, Trade, Publish, Launch, ScanStep, ReadLatest,
       ReadCursor, SkipBeyondEnd, NotInitialized, ResolveSymbols, Fetch,
       SkipSymbol, Fail

(* The clock, the exchange, the store and every process keep their types. *)
THEOREM TypeCorrect == Spec => []TypeOK
  <1>1. Init => TypeOK
    BY IdleType, ParametersAssumption DEF Init, TypeOK, Time, NoTime
  <1>. QED  BY <1>1, TypeStep, PTL DEF Spec

(* No step lowers history_sync_watermarks.success_end_ms. *)
THEOREM WatermarkNeverMovesBack == Spec => WatermarkMonotone
  <1>1. ASSUME TypeOK, [Next]_vars
        PROVE  watermark' >= watermark
    <2>1. watermark \in Int /\ \A p \in Procs : scan[p].end \in Int
      BY <1>1 DEF TypeOK, ScanType, Time, NoTime
    <2>2. ASSUME NEW p \in Procs, Commit(p)
          PROVE  watermark' >= watermark
      BY <2>1, <2>2 DEF Commit, AdvanceWatermark, MaxOf
    <2>3. CASE UNCHANGED watermark
      BY <2>1, <2>3
    <2>. QED
      BY <1>1, <2>2, <2>3, StoreWrites
  <1>. QED  BY <1>1, TypeCorrect, PTL DEF Spec, WatermarkMonotone
-----------------------------------------------------------------------------
(* A scan is not disturbed while time passes and others store rows. *)
LEMMA ScanFrame ==
    ASSUME NEW p \in Procs, TypeOK, TypeOK', ScanInv(p),
           scan'[p] = scan[p], fills' = fills, rows \subseteq rows',
           now' >= now, watermark # NoTime => watermark' # NoTime
    PROVE  ScanInv(p)'
  <1>1. BelowStartStored(p) => BelowStartStored(p)'
    BY DEF BelowStartStored, Due
  <1>2. DoneSymbolsFetched(p) => DoneSymbolsFetched(p)'
    BY DEF DoneSymbolsFetched, Due
  <1>3. scan[p].end =< now => scan'[p].end =< now'
    BY DEF TypeOK, ScanType, Time
  <1>4. BeforeStored(scan[p].req) => BeforeStored(scan[p].req)'
    BY DEF BeforeStored
  <1>. QED  BY <1>1, <1>2, <1>3, <1>4 DEF ScanInv

(* A step of one process that leaves clock, exchange and store alone and   *)
(* keeps that process's own invariant keeps the whole invariant.           *)
LEMMA LocalStep ==
    ASSUME NEW p \in Procs, TypeOK, TypeOK', CoverInv,
           UNCHANGED <<now, fills, published, rows, watermark>>,
           \A q \in Procs : q # p => scan'[q] = scan[q],
           ScanInv(p)'
    PROVE  CoverInv'
  <1>1. now' >= now
    BY DEF TypeOK, Time
  <1>2. ASSUME NEW q \in Procs
        PROVE  ScanInv(q)'
    BY <1>1, ScanFrame DEF CoverInv
  <1>. QED
    BY <1>2 DEF CoverInv, WatermarkCovers, Due, ClockInv, FirstScanInv

(* A new fill is younger than any boundary a scan can reach. *)
LEMMA TradeCover ==
    ASSUME TypeOK, TypeOK', CoverInv, NEW s \in Symbols, Trade(s)
    PROVE  CoverInv'
  <1>. DEFINE g == [sym |-> s, t |-> now]
  <1>1. /\ fills' = fills \cup {g}
        /\ UNCHANGED <<now, published, rows, watermark, scan>>
    BY DEF Trade
  <1>2. now \in Int /\ watermark \in Int /\ Lateness \in Nat
    BY ParametersAssumption DEF TypeOK, Time, NoTime
  <1>3. ~Due(g, watermark)
    BY <1>2 DEF Due, CoverInv, ClockInv
  <1>4. WatermarkCovers'
    BY <1>1, <1>3 DEF CoverInv, WatermarkCovers, Due
  <1>5. ClockInv'
    BY <1>1, <1>2 DEF CoverInv, ClockInv
  <1>6. ASSUME NEW p \in Procs
        PROVE  ScanInv(p)'
    <2>1. ScanInv(p)
      BY DEF CoverInv
    <2>2. scan[p].pc # "idle" /\ scan[p].req.advance
            => ~Due(g, scan[p].end)
      BY <1>2, <2>1 DEF Due, ScanInv, TypeOK, ScanType, Time
    <2>3. scan[p].pc \in {"symbols", "fetch"} /\ scan[p].req.advance
            => BelowStartStored(p)'
      BY <1>1, <2>1, <2>2 DEF ScanInv, BelowStartStored, Due
    <2>4. scan[p].pc = "fetch" /\ scan[p].req.advance
            => DoneSymbolsFetched(p)'
      BY <1>1, <2>1, <2>2 DEF ScanInv, DoneSymbolsFetched, Due
    <2>5. scan[p].pc # "idle" /\ scan[p].req.advance
            => BeforeStored(scan[p].req)'
      <3>1. scan[p].req.start \in Int /\ scan[p].end \in Int
        BY DEF TypeOK, ScanType, Request, Time, NoTime
      <3>. QED  BY <1>1, <1>2, <2>1, <3>1 DEF ScanInv, BeforeStored
    <2>. QED  BY <1>1, <2>1, <2>3, <2>4, <2>5 DEF ScanInv
  <1>. QED
    BY <1>1, <1>4, <1>5, <1>6 DEF CoverInv, FirstScanInv

(* A scan that reads a cursor starts where stored history ends. *)
LEMMA CursorCover ==
    ASSUME Lateness =< Overlap, TypeOK, TypeOK', CoverInv,
           NEW p \in Procs, ReadCursor(p)
    PROVE  CoverInv'
  <1>. DEFINE r == scan[p].req
              begin == ScanStart(r, watermark, scan[p].latest)
  <1>1. /\ scan[p].pc = "cursor"
        /\ HasStart(r, watermark, scan[p].latest)
        /\ scan' = [scan EXCEPT ![p] = [@ EXCEPT !.pc = "symbols",
                                                  !.start = begin]]
        /\ UNCHANGED <<now, fills, published, rows, watermark>>
    BY DEF ReadCursor
  <1>2. scan[p] \in ScanType /\ ScanInv(p)
    BY DEF TypeOK, CoverInv
  <1>3. ASSUME r.advance, NEW f \in fills, Due(f, scan[p].end), f.t < begin
        PROVE  f \in rows
    <2>2. f.t \in Int /\ watermark \in Int /\ scan[p].latest \in Int
      BY <1>2 DEF TypeOK, Fill, ScanType, Time, NoTime
    <2>. SUFFICES ASSUME r.start = NoTime
                  PROVE  f \in rows
      BY <1>1, <1>2, <1>3 DEF ScanInv, BeforeStored, ScanStart, Due
    <2>1. r.start = NoTime
      OBVIOUS
    <2>3. ~r.full
      BY <1>3, <2>1, <2>2, ParametersAssumption DEF Due, ScanStart
    <2>4. watermark # NoTime
      BY <1>1, <1>2, <2>1, <2>3 DEF HasStart, ScanInv, CoverInv, FirstScanInv
    <2>5. begin = MaxOf(StMs, watermark - Overlap)
      BY <2>1, <2>3, <2>4 DEF ScanStart
    <2>6. f.t < watermark - Overlap
      BY <1>3, <2>2, <2>5, ParametersAssumption DEF MaxOf, Due
    <2>7. Due(f, watermark)
      BY <1>3, <2>2, <2>6, ParametersAssumption DEF Due
    <2>. QED  BY <2>7 DEF CoverInv, WatermarkCovers
  <1>. HIDE DEF begin
  <1>4. /\ scan'[p].pc = "symbols" /\ scan'[p].req = r
        /\ scan'[p].start = begin /\ scan'[p].end = scan[p].end
    BY <1>1, <1>2 DEF TypeOK, ScanType
  <1>5. r.advance => BelowStartStored(p)'
    BY <1>1, <1>3, <1>4 DEF BelowStartStored, Due
  <1>6. ScanInv(p)'
    BY <1>1, <1>2, <1>4, <1>5 DEF ScanInv, BeforeStored
  <1>7. \A q \in Procs : q # p => scan'[q] = scan[q]
    BY <1>1 DEF TypeOK
  <1>. QED  BY <1>1, <1>6, <1>7, LocalStep

(* A fetch sees every fill that is due, since those are published. *)
LEMMA FetchCover ==
    ASSUME TypeOK, TypeOK', CoverInv,
           NEW p \in Procs, NEW s \in Symbols,
           Fetch(p, s) \/ SkipSymbol(p, s)
    PROVE  CoverInv'
  <1>1. scan[p] \in ScanType /\ ScanInv(p) /\ scan[p].pc = "fetch"
    BY DEF TypeOK, CoverInv, Fetch, SkipSymbol
  <1>2. UNCHANGED <<now, fills, published, rows, watermark>>
    BY DEF Fetch, SkipSymbol
  <1>3. \A q \in Procs : q # p => scan'[q] = scan[q]
    BY DEF TypeOK, Fetch, SkipSymbol
  <1>4. /\ scan'[p].pc = "fetch" /\ scan'[p].req = scan[p].req
        /\ scan'[p].start = scan[p].start /\ scan'[p].end = scan[p].end
        /\ scan'[p].pending = scan[p].pending \ {s}
        /\ scan[p].fetched \subseteq scan'[p].fetched
        /\ s \in Delisted \/ Shown(p, s) \subseteq scan'[p].fetched
    <2>1. CASE Fetch(p, s)
      BY <1>1, <2>1 DEF Fetch, TypeOK, ScanType
    <2>2. CASE SkipSymbol(p, s)
      BY <1>1, <2>2 DEF SkipSymbol, TypeOK, ScanType
    <2>. QED  BY <2>1, <2>2
  <1>5. BelowStartStored(p) => BelowStartStored(p)'
    BY <1>2, <1>4 DEF BelowStartStored, Due
  <1>6. ASSUME scan[p].req.advance
        PROVE  DoneSymbolsFetched(p)'
    <2>1. SUFFICES ASSUME NEW f \in fills, Due(f, scan[p].end),
                          scan[p].start =< f.t,
                          f.sym \notin scan[p].pending \ {s}
                   PROVE  f \in scan'[p].fetched
      BY <1>2, <1>4 DEF DoneSymbolsFetched, Due
    <2>2. CASE f.sym \notin scan[p].pending
      BY <1>1, <1>4, <1>6, <2>1, <2>2 DEF ScanInv, DoneSymbolsFetched
    <2>3. CASE f.sym = s
      <3>1. f.t \in Int /\ now \in Int /\ scan[p].end \in Int
        BY <1>1 DEF TypeOK, Fill, ScanType, Time
      <3>2. scan[p].end =< now
        BY <1>1, <1>6 DEF ScanInv
      <3>3. f \in published /\ f.t =< scan[p].end
        BY <2>1, <3>1, <3>2, ParametersAssumption
           DEF Due, CoverInv, ClockInv
      <3>4. f \in Shown(p, s) /\ s \notin Delisted
        BY <2>1, <2>3, <3>3 DEF Shown, Due
      <3>. QED  BY <1>4, <3>4
    <2>. QED  BY <2>1, <2>2, <2>3
  <1>7. ScanInv(p)'
    BY <1>1, <1>2, <1>4, <1>5, <1>6 DEF ScanInv, BeforeStored
  <1>. QED  BY <1>2, <1>3, <1>7, LocalStep

(* The commit stores what the new boundary promises. *)
LEMMA CommitCover ==
    ASSUME TypeOK, TypeOK', CoverInv, NEW p \in Procs, Commit(p)
    PROVE  CoverInv'
  <1>1. /\ scan[p].pc = "fetch" /\ scan[p].pending = {}
        /\ rows' = rows \cup scan[p].fetched
        /\ watermark' = IF scan[p].req.advance
                          THEN MaxOf(watermark, scan[p].end) ELSE watermark
        /\ scan' = [scan EXCEPT ![p] = Idle]
        /\ UNCHANGED <<now, fills, published>>
    BY DEF Commit, AdvanceWatermark
  <1>2. scan[p] \in ScanType /\ ScanInv(p)
    BY DEF TypeOK, CoverInv
  <1>3. /\ watermark \in Int /\ now \in Int /\ scan[p].end \in Nat
        /\ \A f \in fills : f.t \in Int
    BY <1>2 DEF TypeOK, ScanType, Time, NoTime, Fill
  <1>4. ASSUME scan[p].req.advance, NEW f \in fills, Due(f, scan[p].end)
        PROVE  f \in rows'
    <2>1. CASE f.t < scan[p].start
      BY <1>1, <1>2, <1>4, <2>1 DEF ScanInv, BelowStartStored
    <2>2. CASE scan[p].start =< f.t
      BY <1>1, <1>2, <1>4, <2>2 DEF ScanInv, DoneSymbolsFetched
    <2>. QED  BY <1>2, <1>3, <2>1, <2>2 DEF ScanType, Time
  <1>5. WatermarkCovers'
    <2>1. CASE scan[p].req.advance
      <3>1. watermark' \in {watermark, scan[p].end}
        BY <1>1, <2>1 DEF MaxOf
      <3>. QED
        BY <1>1, <1>4, <2>1, <3>1 DEF CoverInv, WatermarkCovers, Due
    <2>2. CASE ~scan[p].req.advance
      BY <1>1, <2>2 DEF CoverInv, WatermarkCovers, Due
    <2>. QED  BY <2>1, <2>2
  <1>6. watermark' =< now /\ watermark' # NoTime
    BY <1>1, <1>2, <1>3 DEF ScanInv, CoverInv, ClockInv, MaxOf, NoTime
  <1>7. ClockInv' /\ FirstScanInv'
    BY <1>1, <1>6 DEF CoverInv, ClockInv, FirstScanInv
  <1>8. ASSUME NEW q \in Procs
        PROVE  ScanInv(q)'
    <2>1. CASE q = p
      BY <1>1, <2>1 DEF TypeOK, ScanInv, Idle
    <2>2. CASE q # p
      <3>1. ScanInv(q) /\ scan'[q] = scan[q] /\ now' >= now
        BY <1>1, <1>3, <2>2 DEF CoverInv, TypeOK
      <3>. QED  BY <1>1, <1>6, <3>1, ScanFrame
    <2>. QED  BY <2>1, <2>2
  <1>. QED  BY <1>5, <1>7, <1>8 DEF CoverInv

(***************************************************************************)
(* A command may be launched that advances the watermark over stored       *)
(* history, or that leaves it alone once there is one.                     *)
(***************************************************************************)
LEMMA LaunchCover ==
    ASSUME TypeOK, TypeOK', CoverInv,
           NEW p \in Procs, NEW r \in Request, NEW e \in Time,
           Launch(p, r, e),
           r.advance => r.ends # "any" /\ Whole(r) /\ BeforeStored(r),
           ~r.advance => watermark # NoTime
    PROVE  CoverInv'
  <1>1. /\ scan'[p].pc = "latest" /\ scan'[p].req = r /\ scan'[p].end = e
        /\ UNCHANGED <<now, fills, published, rows, watermark>>
    BY DEF Launch, TypeOK, Idle
  <1>2. r.advance => e =< now
    BY DEF Launch, TypeOK, Time, Request
  <1>3. r.start =< e
    BY ParametersAssumption DEF Launch, Request, Time, NoTime
  <1>4. r.advance => BeforeStored(r)'
    BY <1>1 DEF BeforeStored
  <1>5. ScanInv(p)'
    BY <1>1, <1>2, <1>3, <1>4 DEF ScanInv
  <1>. QED  BY <1>1, <1>5, LocalStep DEF Launch, TypeOK

(* Every other step preserves the invariant: one step per action. *)
LEMMA MoveCover ==
    ASSUME Lateness =< Overlap, TypeOK, TypeOK', CoverInv, [Moves]_vars
    PROVE  CoverInv'
  <1>1. CASE Tick
    <2>1. /\ now' = now + 1
          /\ UNCHANGED <<fills, published, rows, watermark, scan>>
          /\ \A f \in fills \ published : now + 1 - f.t =< Lateness
      BY <1>1 DEF Tick
    <2>2. now \in Int /\ watermark \in Int /\ \A f \in fills : f.t \in Int
      BY DEF TypeOK, Time, NoTime, Fill
    <2>3. \A p \in Procs : ScanInv(p)'
      BY <2>1, <2>2, ScanFrame DEF CoverInv
    <2>4. WatermarkCovers' /\ ClockInv' /\ FirstScanInv'
      BY <2>1, <2>2
         DEF CoverInv, WatermarkCovers, Due, ClockInv, FirstScanInv
    <2>. QED  BY <2>3, <2>4 DEF CoverInv
  <1>2. ASSUME NEW s \in Symbols, Trade(s)
        PROVE  CoverInv'
    BY <1>2, TradeCover
  <1>3. ASSUME NEW f \in Fill, Publish(f)
        PROVE  CoverInv'
    BY <1>3 DEF Publish, CoverInv, WatermarkCovers, Due, ClockInv,
       FirstScanInv, ScanInv, BelowStartStored, DoneSymbolsFetched,
       BeforeStored
  <1>5. ASSUME NEW p \in Procs, ReadLatest(p)
        PROVE  CoverInv'
    <2>1. PICK t \in Time \cup {NoTime} :
            /\ IsLatest(t)
            /\ scan' = [scan EXCEPT ![p] = [@ EXCEPT !.pc = "cursor",
                                                     !.latest = t]]
      BY <1>5 DEF ReadLatest
    <2>2. t # NoTime => rows # {}
      BY <2>1 DEF IsLatest
    <2>3. ScanInv(p)'
      <3>1. /\ scan'[p].pc = "cursor" /\ scan'[p].req = scan[p].req
            /\ scan'[p].end = scan[p].end /\ scan'[p].latest = t
        BY <2>1 DEF TypeOK, ScanType
      <3>. QED
        BY <1>5, <2>2, <3>1 DEF ReadLatest, ScanInv, CoverInv, BeforeStored
    <2>. QED  BY <1>5, <2>1, <2>3, LocalStep DEF ReadLatest, TypeOK
  <1>6. ASSUME NEW p \in Procs, ReadCursor(p)
        PROVE  CoverInv'
    BY <1>6, CursorCover
  <1>7. ASSUME NEW p \in Procs,
               SkipBeyondEnd(p) \/ NotInitialized(p) \/ Fail(p)
        PROVE  CoverInv'
    <2>1. /\ scan' = [scan EXCEPT ![p] = Idle]
          /\ UNCHANGED <<now, fills, published, rows, watermark>>
      BY <1>7 DEF SkipBeyondEnd, NotInitialized, Fail
    <2>2. ScanInv(p)'
      BY <2>1 DEF ScanInv, Idle, TypeOK
    <2>. QED  BY <2>1, <2>2, LocalStep DEF TypeOK
  <1>8. ASSUME NEW p \in Procs, ResolveSymbols(p)
        PROVE  CoverInv'
    <2>1. scan[p] \in ScanType /\ ScanInv(p) /\ scan[p].pc = "symbols"
      BY <1>8 DEF TypeOK, CoverInv, ResolveSymbols
    <2>2. /\ scan'[p].pc = "fetch" /\ scan'[p].req = scan[p].req
          /\ scan'[p].end = scan[p].end /\ scan'[p].start = scan[p].start
          /\ \E scope \in Scopes(scan[p].req) :
                scan'[p].pending = scope \cap Legs(scan[p].req)
          /\ UNCHANGED <<now, fills, published, rows, watermark>>
      BY <1>8, <2>1 DEF ResolveSymbols, TypeOK, ScanType
    <2>3. scan[p].req.advance => scan'[p].pending = Symbols
      <3>1. scan[p].req.advance => Scopes(scan[p].req) = {Symbols}
        BY <2>1, ParametersAssumption DEF ScanInv, Whole, Scopes
      <3>2. scan[p].req.advance => Legs(scan[p].req) = Symbols
        BY <2>1 DEF ScanInv, Whole
      <3>. QED  BY <2>2, <3>1, <3>2
    <2>4. scan[p].req.advance => DoneSymbolsFetched(p)'
      <3>1. \A f \in fills' : f.sym \in Symbols
        BY <2>2 DEF TypeOK, Fill
      <3>. QED  BY <2>2, <2>3, <3>1 DEF DoneSymbolsFetched
    <2>5. BelowStartStored(p) => BelowStartStored(p)'
      BY <2>2 DEF BelowStartStored, Due
    <2>6. ScanInv(p)'
      BY <2>1, <2>2, <2>4, <2>5 DEF ScanInv, BeforeStored
    <2>. QED  BY <1>8, <2>2, <2>6, LocalStep DEF ResolveSymbols, TypeOK
  <1>9. ASSUME NEW p \in Procs, NEW s \in Symbols,
               Fetch(p, s) \/ SkipSymbol(p, s)
        PROVE  CoverInv'
    BY <1>9, FetchCover
  <1>10. ASSUME NEW p \in Procs, Commit(p)
         PROVE  CoverInv'
    BY <1>10, CommitCover
  <1>11. CASE UNCHANGED vars
    BY <1>11 DEF vars, CoverInv, WatermarkCovers, Due, ClockInv,
       FirstScanInv, ScanInv, BelowStartStored, DoneSymbolsFetched,
       BeforeStored
  <1>. QED
    BY <1>1, <1>2, <1>3, <1>5, <1>6, <1>7, <1>8, <1>9, <1>10, <1>11
       DEF Moves, ScanStep

(* The discipline makes every command one of these. *)
LEMMA RequestCover ==
    ASSUME Contiguous, TypeOK, TypeOK', CoverInv,
           NEW p \in Procs, NEW r \in Requests, NEW e \in Time,
           Launch(p, r, e)
    PROVE  CoverInv'
  <1>1. r \in Request
    BY ParametersAssumption
  <1>2. r.advance => r.ends # "any" /\ Whole(r) /\ r.start = NoTime
    BY DEF Contiguous
  <1>3. ~r.advance => watermark # NoTime
    BY DEF Launch, Contiguous, CoverInv, FirstScanInv
  <1>4. r.start = NoTime => BeforeStored(r)
    BY ParametersAssumption DEF BeforeStored, TypeOK, Fill, Time, NoTime
  <1>. QED  BY <1>1, <1>2, <1>3, <1>4, LaunchCover

LEMMA CoverStep ==
    ASSUME Contiguous, TypeOK, TypeOK', CoverInv, [Next]_vars
    PROVE  CoverInv'
BY RequestCover, MoveCover, NextMoves DEF Contiguous

(***************************************************************************)
(* Under the discipline Contiguous every fill that was due when the        *)
(* watermark reached its value is stored, whatever scans run side by side, *)
(* fail, or are killed between reading the cursor and committing.          *)
(***************************************************************************)
THEOREM WatermarkKeepsItsPromise ==
    ASSUME Contiguous
    PROVE  Spec => []WatermarkCovers
  <1>1. Init => CoverInv
    BY ParametersAssumption
       DEF Init, CoverInv, WatermarkCovers, ClockInv, FirstScanInv, ScanInv,
           Idle, NoTime
  <1>2. TypeOK /\ TypeOK' /\ CoverInv /\ [Next]_vars => CoverInv'
    BY CoverStep
  <1>3. CoverInv => WatermarkCovers
    BY DEF CoverInv
  <1>. QED  BY <1>1, <1>2, <1>3, TypeCorrect, PTL DEF Spec
-----------------------------------------------------------------------------
(* A scan that is launched holds nothing. *)
LEMMA LaunchFetched ==
    ASSUME TypeOK, FetchedShown, NEW p \in Procs, NEW r, NEW e, Launch(p, r, e)
    PROVE  FetchedShown'
  <1>1. scan'[p].fetched = {} /\ published' = published
    BY DEF Launch, Idle, TypeOK
  <1>2. \A q \in Procs : q # p => scan'[q] = scan[q]
    BY DEF Launch, TypeOK
  <1>. QED  BY <1>1, <1>2 DEF FetchedShown

(* What a scan holds was shown, and stays so. *)
LEMMA MoveFetched ==
    ASSUME TypeOK, FetchedShown, [Moves]_vars
    PROVE  FetchedShown'
  <1>1. ASSUME NEW p \in Procs, NEW s \in Symbols, Fetch(p, s)
        PROVE  FetchedShown'
    <2>1. /\ Shown(p, s) \subseteq published
          /\ published' = published
      BY <1>1 DEF Shown, Fetch
    <2>2. scan'[p].fetched = scan[p].fetched \cup Shown(p, s)
      BY <1>1 DEF Fetch, TypeOK, ScanType
    <2>3. \A q \in Procs : q # p => scan'[q] = scan[q]
      BY <1>1 DEF Fetch, TypeOK
    <2>. QED  BY <2>1, <2>2, <2>3 DEF FetchedShown
  <1>2. ASSUME NEW p \in Procs,
               \/ ReadLatest(p) \/ ReadCursor(p) \/ ResolveSymbols(p)
               \/ \E s \in Symbols : SkipSymbol(p, s)
        PROVE  FetchedShown'
    <2>3. scan'[p].fetched = scan[p].fetched
      <3>1. CASE ReadLatest(p)
        BY <3>1 DEF ReadLatest, TypeOK, ScanType
      <3>2. CASE ReadCursor(p)
        BY <3>2 DEF ReadCursor, TypeOK, ScanType
      <3>3. CASE ResolveSymbols(p) \/ \E s \in Symbols : SkipSymbol(p, s)
        BY <3>3 DEF ResolveSymbols, SkipSymbol, TypeOK, ScanType
      <3>. QED  BY <1>2, <3>1, <3>2, <3>3
    <2>1. scan'[p].fetched = scan[p].fetched /\ published' = published
      BY <1>2, <2>3 DEF ReadLatest, ReadCursor, ResolveSymbols, SkipSymbol
    <2>2. \A q \in Procs : q # p => scan'[q] = scan[q]
      BY <1>2 DEF ReadLatest, ReadCursor, ResolveSymbols, SkipSymbol, TypeOK
    <2>. QED  BY <2>1, <2>2 DEF FetchedShown
  <1>3. ASSUME NEW p \in Procs,
               SkipBeyondEnd(p) \/ NotInitialized(p) \/ Fail(p) \/ Commit(p)
        PROVE  FetchedShown'
    <2>1. scan' = [scan EXCEPT ![p] = Idle] /\ published' = published
      BY <1>3 DEF SkipBeyondEnd, NotInitialized, Fail, Commit
    <2>. QED  BY <2>1 DEF FetchedShown, Idle, TypeOK
  <1>5. CASE Tick \/ UNCHANGED vars \/ \E s \in Symbols : Trade(s)
    BY <1>5 DEF Tick, Trade, vars, FetchedShown
  <1>6. CASE \E f \in Fill : Publish(f)
    BY <1>6 DEF Publish, FetchedShown
  <1>7. CASE \E p \in Procs : ScanStep(p)
    BY <1>1, <1>2, <1>3, <1>7 DEF ScanStep
  <1>. QED  BY <1>3, <1>5, <1>6, <1>7 DEF Moves

LEMMA FetchedStep == TypeOK /\ FetchedShown /\ [Next]_vars => FetchedShown'
BY MoveFetched, LaunchFetched, NextMoves

(* The commit is the one step that a reader of the store sees. *)
LEMMA CommitStores ==
    ASSUME TypeOK, CoverInv', FetchedShown, NEW p \in Procs, Commit(p)
    PROVE  Promise!Store
  <1>1. watermark \in Int /\ scan[p].end \in Int
    BY DEF TypeOK, ScanType, Time, NoTime
  <1>2. watermark' >= watermark
    BY <1>1 DEF Commit, AdvanceWatermark, MaxOf
  <1>3. rows \subseteq rows' /\ rows' \subseteq rows \cup published
    BY DEF Commit, FetchedShown
  <1>4. UNCHANGED <<fills, published>>
    BY DEF Commit
  <1>5. \A f \in fills : Due(f, watermark') => f \in rows'
    BY <1>4 DEF CoverInv, WatermarkCovers, Due
  <1>. QED  BY <1>2, <1>3, <1>4, <1>5 DEF Promise!Store, Promise!Promised, Due

(* Every step is a step of the stored history or changes nothing of it. *)
LEMMA StepRefines ==
    ASSUME TypeOK, TypeOK', CoverInv, CoverInv', FetchedShown, [Next]_vars
    PROVE  [Promise!Next]_(Promise!vars)
  <1>1. ASSUME NEW s \in Symbols, Trade(s)
        PROVE  Promise!Happen
    <2>. DEFINE g == [sym |-> s, t |-> now]
    <2>1. now \in Int /\ watermark \in Int /\ Lateness \in Nat
      BY ParametersAssumption DEF TypeOK, Time, NoTime
    <2>2. ~Promise!Promised(g, watermark)
      BY <2>1 DEF Promise!Promised, CoverInv, ClockInv
    <2>3. fills' = fills \cup {g} /\ UNCHANGED <<published, rows, watermark>>
      BY <1>1 DEF Trade
    <2>. QED  BY <2>2, <2>3 DEF Promise!Happen
  <1>2. ASSUME NEW f \in Fill, Publish(f)
        PROVE  Promise!Show
    BY <1>2 DEF Publish, Promise!Show, TypeOK
  <1>3. ASSUME NEW p \in Procs, Commit(p)
        PROVE  Promise!Store
    BY <1>3, CommitStores
  <1>4. CASE UNCHANGED <<fills, published, rows, watermark>>
    BY <1>4 DEF Promise!vars
  <1>5. \/ \E s \in Symbols : Trade(s)
        \/ \E f \in Fill : Publish(f)
        \/ \E p \in Procs : Commit(p)
        \/ UNCHANGED <<fills, published, rows, watermark>>
    BY DEF Next, vars, Tick, Launch, ScanStep, ReadLatest, ReadCursor,
           SkipBeyondEnd, NotInitialized, ResolveSymbols, Fetch, SkipSymbol,
           Fail
  <1>. QED  BY <1>1, <1>2, <1>3, <1>4, <1>5 DEF Promise!Next

(***************************************************************************)
(* Under Contiguous, scans of any number of processes over any number of   *)
(* symbols implement StoredHistory: what a reader of rows and watermark    *)
(* sees is a history that grows by shown records alone and a boundary that *)
(* moves forward over stored records alone.                                *)
(***************************************************************************)
THEOREM ScansKeepThePromise ==
    ASSUME Contiguous
    PROVE  Spec => KeepsPromise
  <1>1. Init => CoverInv
    BY ParametersAssumption
       DEF Init, CoverInv, WatermarkCovers, ClockInv, FirstScanInv, ScanInv,
           Idle, NoTime
  <1>2. TypeOK /\ TypeOK' /\ CoverInv /\ [Next]_vars => CoverInv'
    BY CoverStep
  <1>3. Init => FetchedShown
    BY DEF Init, FetchedShown, Idle
  <1>4. TypeOK /\ FetchedShown /\ [Next]_vars => FetchedShown'
    BY FetchedStep
  <1>5. Init => Promise!Init
    BY DEF Init, Promise!Init
  <1>6. /\ TypeOK /\ TypeOK' /\ CoverInv /\ CoverInv' /\ FetchedShown
        /\ [Next]_vars
        => [Promise!Next]_(Promise!vars)
    BY StepRefines
  <1>. QED
    BY <1>1, <1>2, <1>3, <1>4, <1>5, <1>6, TypeCorrect, PTL
       DEF Spec, KeepsPromise, Promise!Spec
=============================================================================
