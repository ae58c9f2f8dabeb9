---------------------------- MODULE HourlyLatency ----------------------------
(***************************************************************************)
(* Hourly order latencies of the intra strategies: the server's loop       *)
(* (src/src/intra_latency.rs) runs a process at every full hour, an        *)
(* operator may run it over a range, and the process                       *)
(* (src/src/bin/sync_intra_hourly_latency.rs) reads the hour's order rows  *)
(* in chunks from the persist service, which may get rows late, computes   *)
(* quantiles and stores them.  An hour is Hour ticks.                      *)
(***************************************************************************)
EXTENDS Integers, Sequences, FiniteSets, SequencesExt, FiniteSetsExt, Absent

CONSTANTS
    Strategies,  \* the enabled strategies, in the order of the request
    Shapes,      \* what an order row may hold besides its time
    Hour,        \* HOUR_MS, in ticks
    Chunk,       \* --source-chunk-minutes, in ticks
    NormalMax,   \* NORMAL_MAX_MS
    Ranges,      \* ranges an operator asks for
    Delays,      \* how late a row reaches the persist service
    LatencyEnd,  \* bound: clock
    MaxRows,     \* bound: order rows
    MaxTroubles  \* bound: processes an operator runs and that fail

(* An order row and a process of either kind; leg and new of a shape are   *)
(* those of the order, the others times of the row.                        *)
OrderRow ==
    [strategy : Range(Strategies), ts : Nat, arrived : Nat, shape : Shapes, id : Nat]
Process ==
    [computedAt : Nat, tasks : Seq(Range(Strategies) \X Nat),
     downloaded : SUBSET OrderRow, cursor : Nat \cup {None}]

ASSUME LatencyAssumption ==
    /\ Hour \in Nat \ {0, 1} /\ Chunk \in Nat \ {0} /\ NormalMax \in Nat
    /\ LatencyEnd \in Nat /\ MaxRows \in Nat
    /\ MaxTroubles \in Nat /\ Delays \subseteq Nat
    /\ Strategies \in Seq(Range(Strategies)) /\ Ranges \subseteq Seq(Nat)
    /\ None \notin Int \cup Process
    /\ \A shape \in Shapes :
         /\ shape.updated \in Int /\ shape.created \in Int
         /\ shape.signal \in Int /\ shape.open \in Int /\ shape.hedge \in Int

VARIABLES
    tick,
    rows,     \* rows of the persist service: set, with their arrival
    points,   \* intra_hourly_latency: [<<strategy, window start>> -> point]
    loop,     \* when the loop wakes, None while its process runs
    run,      \* [process -> None or its state]
    troubles, \* processes an operator ran and that failed
    skipped   \* history: windows whose run failed, or that ended while a
              \* process of the loop still ran

latencyVars == <<tick, rows, points, loop, run, troubles, skipped>>

Processes == {"loop", "operator"}
FloorHour(t) == t - (t % Hour)

-----------------------------------------------------------------------------
(* One hour's quantiles. *)

(* Samples of a leg: its NEW rows with both times. *)
NewCreate(used, leg) ==
    {row \in used : row.shape.leg = leg /\ row.shape.new
                    /\ row.shape.updated > 0 /\ row.shape.created > 0}

(* Mutant of Triggered: a row counts for both legs. *)
TriggeredByBoth(used, leg) ==
    {row \in used :
       /\ row.shape.leg = "margin" /\ row.shape.new /\ row.shape.signal > 0
       /\ row.shape.open > 0 /\ row.shape.hedge > 0}

(* classify_trigger_leg: the newer of the two signals triggered. *)
Triggered(used, leg) ==
    {row \in used :
       /\ row.shape.leg = "margin" /\ row.shape.new /\ row.shape.signal > 0
       /\ row.shape.open > 0 /\ row.shape.hedge > 0
       /\ IF leg = "spot" THEN row.shape.open > row.shape.hedge
          ELSE row.shape.hedge > row.shape.open}

(* The k-th of the samples in their order; latency is each row's sample. *)
Kth(latency, k) ==
    CHOOSE v \in Range(latency) :
      /\ Cardinality({row \in DOMAIN latency : latency[row] < v}) < k
      /\ k =< Cardinality({row \in DOMAIN latency : latency[row] =< v})

(* percentile, in tenths: q is in tenths. *)
Percentile(latency, q) ==
    IF DOMAIN latency = {} THEN None
    ELSE LET rank == q * (Cardinality(DOMAIN latency) - 1)
             lower == rank \div 10
             weight == rank % 10
         IN IF weight = 0 THEN 10 * Kth(latency, lower + 1)
            ELSE Kth(latency, lower + 1) * (10 - weight)
                   + Kth(latency, lower + 2) * weight

(* quantiles over the normal samples *)
Quantiles(latency) ==
    LET inRange == {row \in DOMAIN latency :
                      0 =< latency[row] /\ latency[row] =< NormalMax}
        normal == [row \in inRange |-> latency[row]]
    IN [count |-> Cardinality(DOMAIN latency), normal |-> Cardinality(inRange),
        p50 |-> Percentile(normal, 5), p90 |-> Percentile(normal, 9)]

OwnLatency(used) == [row \in used |-> row.shape.updated - row.shape.created]
SpotLatency(used) == [row \in used |-> row.shape.signal - row.shape.open]
FuturesLatency(used) == [row \in used |-> row.shape.signal - row.shape.hedge]

(* compute_hourly_latency *)
Compute(downloaded, window) ==
    LET used == {row \in downloaded : window =< row.ts /\ row.ts < window + Hour}
    IN [margin |-> Quantiles(OwnLatency(NewCreate(used, "margin"))),
        futures |-> Quantiles(OwnLatency(NewCreate(used, "futures"))),
        spotTrigger |-> Quantiles(SpotLatency(Triggered(used, "spot"))),
        futuresTrigger |-> Quantiles(FuturesLatency(Triggered(used, "futures")))]

-----------------------------------------------------------------------------
(* The process. *)

SoonerOf(t, u) == IF t =< u THEN t ELSE u

(* planned_hour_windows: starts of the complete hours of a range, which is *)
(* <<>> or its start, or its start and end; <<>> when it is refused.       *)
Planned(now, range) ==
    LET last == FloorHour(now)
        from == IF range = <<>> THEN last - Hour ELSE range[1]
        asked == IF Len(range) < 2 THEN from + Hour ELSE range[2]
        end == SoonerOf(asked, last)
    IN IF last = 0 \/ from % Hour # 0 \/ asked % Hour # 0 \/ end =< from
       THEN <<>>
       ELSE [k \in 1 .. (end - from) \div Hour |-> from + (k - 1) * Hour]

Tasks(windows) ==
    [k \in 1 .. Len(Strategies) * Len(windows) |->
       <<Strategies[((k - 1) \div Len(windows)) + 1],
         windows[((k - 1) % Len(windows)) + 1]>>]

Started(range) ==
    LET tasks == Tasks(Planned(tick, range))
    IN [computedAt |-> tick, tasks |-> tasks, downloaded |-> {},
        cursor |-> IF tasks = <<>> THEN None ELSE tasks[1][2]]

(* The next full hour, also from a full hour. *)
NextHour(t) == FloorHour(t) + Hour

LatencyInit ==
    /\ tick = 1
    /\ rows = {} /\ points = <<>>
    /\ loop = NextHour(tick)
    /\ run = [p \in Processes |-> None]
    /\ troubles = 0 /\ skipped = {}

Wake ==
    /\ loop # None /\ tick >= loop
    /\ loop' = None
    /\ run' = [run EXCEPT !["loop"] = Started(<<>>)]
    /\ UNCHANGED <<tick, rows, points, troubles, skipped>>

Operate ==
    /\ run["operator"] = None /\ troubles < MaxTroubles
    /\ troubles' = troubles + 1
    /\ \E range \in Ranges :
         /\ Planned(tick, range) # <<>>
         /\ run' = [run EXCEPT !["operator"] = Started(range)]
    /\ UNCHANGED <<tick, rows, points, loop, skipped>>

Task(p) == run[p].tasks[1]
WindowEnd(p) == Task(p)[2] + Hour

(* A chunk: rows of the strategy the service holds now. *)
Download(p) ==
    /\ run[p] # None /\ run[p].tasks # <<>> /\ run[p].cursor < WindowEnd(p)
    /\ LET end == SoonerOf(run[p].cursor + Chunk, WindowEnd(p))
           chunk == {row \in rows : row.strategy = Task(p)[1]
                                    /\ run[p].cursor =< row.ts /\ row.ts < end}
       IN run' = [run EXCEPT ![p].downloaded = @ \cup chunk, ![p].cursor = end]
    /\ UNCHANGED <<tick, rows, points, loop, troubles, skipped>>

(* upsert_point and the next task *)
Store(p) ==
    /\ run[p] # None /\ run[p].tasks # <<>> /\ run[p].cursor >= WindowEnd(p)
    /\ LET point == [computedAt |-> run[p].computedAt, storedAt |-> tick,
                     value |-> Compute(run[p].downloaded, Task(p)[2])]
           rest == Tail(run[p].tasks)
       IN /\ points' = [task \in DOMAIN points \cup {Task(p)} |->
                          IF task = Task(p) THEN point ELSE points[task]]
          /\ run' = [run EXCEPT ![p].tasks = rest, ![p].downloaded = {},
                       ![p].cursor = IF rest = <<>> THEN None ELSE rest[1][2]]
    /\ UNCHANGED <<tick, rows, loop, troubles, skipped>>

Back(p) == IF p = "loop" THEN NextHour(tick) ELSE loop

End(p) ==
    /\ run[p] # None /\ run[p].tasks = <<>>
    /\ run' = [run EXCEPT ![p] = None]
    /\ loop' = Back(p)
    /\ UNCHANGED <<tick, rows, points, troubles, skipped>>

(* The read fails with curl too, or the store does: the rest of the tasks  *)
(* is given up and nothing tries them again.                               *)
Fail(p) ==
    /\ run[p] # None /\ run[p].tasks # <<>> /\ troubles < MaxTroubles
    /\ troubles' = troubles + 1
    /\ skipped' = IF p = "loop" THEN skipped \cup {run[p].tasks[k][2] :
                                                   k \in DOMAIN run[p].tasks}
                  ELSE skipped
    /\ run' = [run EXCEPT ![p] = None]
    /\ loop' = Back(p)
    /\ UNCHANGED <<tick, rows, points>>

-----------------------------------------------------------------------------
(* Time and orders. *)

(* The loop's sleep ends on time. *)
LatencyTick ==
    /\ tick < LatencyEnd /\ (loop # None => tick < loop)
    /\ tick' = tick + 1
    /\ skipped' = IF tick' % Hour = 0 /\ run["loop"] # None
                  THEN skipped \cup {tick' - Hour} ELSE skipped
    /\ UNCHANGED <<rows, points, loop, run, troubles>>

(* An order row reaches the service, perhaps late. *)
Arrive ==
    /\ Cardinality(rows) < MaxRows
    /\ \E k \in DOMAIN Strategies : \E shape \in Shapes :
       \E ts \in {tick - delay : delay \in Delays} \cap Nat :
         LET twins == {row \in rows : row.strategy = Strategies[k] /\ row.ts = ts
                                     /\ row.arrived = tick /\ row.shape = shape}
             row == [strategy |-> Strategies[k], ts |-> ts, arrived |-> tick,
                     shape |-> shape, id |-> Cardinality(twins)]
         IN rows' = rows \cup {row}
    /\ UNCHANGED <<tick, points, loop, run, troubles, skipped>>

LatencyNext ==
    \/ Wake \/ Operate \/ LatencyTick \/ Arrive
    \/ \E p \in Processes : Download(p) \/ Store(p) \/ End(p) \/ Fail(p)

LatencySpec == LatencyInit /\ [][LatencyNext]_latencyVars

-----------------------------------------------------------------------------
(* Properties. *)

Of(task, t) ==
    {row \in rows : /\ row.strategy = task[1] /\ row.arrived =< t
                    /\ task[2] =< row.ts /\ row.ts < task[2] + Hour}

(* The samples of a row set as the columns name them. *)
Sample(row, column) ==
    IF column \in {"margin", "futures"} THEN row.shape.updated - row.shape.created
    ELSE IF column = "spotTrigger" THEN row.shape.signal - row.shape.open
    ELSE row.shape.signal - row.shape.hedge

Counts(row, column) ==
    /\ row.shape.new
    /\ row.shape.leg = IF column = "futures" THEN "futures" ELSE "margin"
    /\ \A time \in IF column \in {"margin", "futures"}
                    THEN {row.shape.updated, row.shape.created}
                    ELSE {row.shape.signal, row.shape.open, row.shape.hedge} : time > 0
    /\ column = "spotTrigger" => row.shape.open > row.shape.hedge
    /\ column = "futuresTrigger" => row.shape.open < row.shape.hedge

(* The share of samples below and above a percentile's value (tenths). *)
Covers(normal, column, p, q) ==
    LET n == Cardinality(normal)
        times(row) == 10 * Sample(row, column)
    IN /\ \E row \in normal : times(row) =< p
       /\ \E row \in normal : times(row) >= p
       /\ Cardinality({row \in normal : times(row) < p}) * 10 =< q * (n - 1) + 9
       /\ Cardinality({row \in normal : times(row) > p}) * 10 =< (10 - q) * (n - 1) + 9

(* A stored hour was over before its process began; it counts every row    *)
(* the service had then and no row it did not have yet; when none came     *)
(* meanwhile its quantiles lie where the normal samples of each column put *)
(* them (planned_hour_windows, compute_hourly_latency, quantiles).         *)
StoredHoursAreExact ==
    \A task \in DOMAIN points :
      LET point == points[task]
          before == Of(task, point.computedAt - 1)
          after == Of(task, point.storedAt)
      IN /\ task[2] % Hour = 0 /\ task[2] + Hour =< point.computedAt
         /\ \A column \in {"margin", "futures", "spotTrigger", "futuresTrigger"} :
              LET count == point.value[column].count
                  least == {row \in before : Counts(row, column)}
                  most == {row \in after : Counts(row, column)}
                  normal == {row \in least : /\ Sample(row, column) >= 0
                                             /\ Sample(row, column) =< NormalMax}
              IN /\ Cardinality(least) =< count /\ count =< Cardinality(most)
                 /\ least = most =>
                      /\ point.value[column].normal = Cardinality(normal)
                      /\ IF normal = {} THEN point.value[column].p50 = None
                         ELSE /\ Covers(normal, column, point.value[column].p50, 5)
                              /\ Covers(normal, column, point.value[column].p90, 9)
                              /\ point.value[column].p50 =< point.value[column].p90

(* While the server runs, every hour that ended is stored for every        *)
(* strategy, is being computed, or its run failed or could not start       *)
(* because the run before took longer (run_hourly_latency_loop).           *)
NoHourForgotten ==
    \A window \in {w \in 0 .. tick : w % Hour = 0 /\ w + Hour =< tick} :
    \A k \in DOMAIN Strategies :
      \/ window \in skipped
      \/ <<Strategies[k], window>> \in DOMAIN points
      \/ run["loop"] # None
           /\ <<Strategies[k], window>> \in Range(run["loop"].tasks)
      \/ loop # None /\ loop =< tick

(* The hourly points are exact and none is missing                         *)
(* (src/src/bin/sync_intra_hourly_latency.rs, run_hourly_latency_loop).    *)
HourlyPointsAreExact == StoredHoursAreExact /\ NoHourForgotten
=============================================================================
