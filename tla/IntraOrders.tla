---------------------------- MODULE IntraOrders ----------------------------
(***************************************************************************)
(* sync_intra_orders: order lifecycles are read from the center in source  *)
(* time, aggregated in PostgreSQL, released behind a reorder window and    *)
(* matched by the engine of intra_order_match.  Any number of processes    *)
(* run it at once; only the cursor checked under the row lock keeps their  *)
(* downloads apart.  One symbol: orders of different symbols never meet.   *)
(***************************************************************************)
EXTENDS Integers, Sequences, FiniteSets, SequencesExt, FiniteSetsExt

CONSTANTS
    Procs,      \* processes
    Orders,     \* client order ids, numbers
    Margin,     \* the Margin (maker) orders among them; the rest is Futures
    Buys,       \* the orders on the buy side
    Anchor,     \* main_fkey of each Futures order
    Start,      \* aligned_from of the checkpoint
    Reorder,    \* --reorder-minutes
    Lag,        \* bound: rows of an order after its terminal row
    MaxTime,    \* bound: source time
    LastRow,    \* bound: source time of the last row
    Behind,     \* how far the checkpoint or --end-ms may be behind now
    Kinds       \* the kinds of rows each order may have

Futures == Orders \ Margin

(* The fill of a row, whether its status is FILLED, and whether that ends  *)
(* the order; FILLED may come without a fill of its own.                   *)
RowKind == {kind \in [fill: {0, 1}, filled: BOOLEAN, terminal: BOOLEAN] :
              kind.filled => kind.terminal}

ASSUME OrdersAssumption ==
    /\ Orders \subseteq Nat /\ IsFiniteSet(Orders)
    /\ Margin \subseteq Orders /\ Buys \subseteq Orders
    /\ Anchor \in [Futures -> Orders]
    /\ Start \in Nat /\ Reorder \in Nat /\ Lag \in Nat
    /\ MaxTime \in Nat /\ LastRow \in Nat
    /\ Behind \subseteq Nat
    /\ Kinds \in [Orders -> SUBSET RowKind]

Absent == -1    \* NULL

VARIABLES
    now,        \* source time
    rows,       \* the center's rows of each order, in source order
    lifecycle,  \* intra_order_lifecycle
    orders,     \* intra_orders
    hedges,     \* intra_hedges
    mark,       \* intra_match_watermark
    proc        \* the memory of each process

vars == <<now, rows, lifecycle, orders, hedges, mark, proc>>
tables == <<lifecycle, orders, hedges, mark>>

NoLife == [count |-> 0]
NoOrder == [fill |-> 0]
NoHedge == [alloc |-> Absent]

Idle == [pc |-> "idle", start |-> 0, end |-> 0, released |-> 0]

(* The watermark as ensure_intra_order_synthesis and a rebuild leave it. *)
StartMark == [read |-> Start, released |-> Start - 1, finalized |-> Start - 1]

Init ==
    /\ now = Start
    /\ rows = [i \in Orders |-> <<>>]
    /\ lifecycle = [i \in Orders |-> NoLife]
    /\ orders = [i \in Margin |-> NoOrder]
    /\ hedges = [i \in Futures |-> NoHedge]
    /\ mark = StartMark
    /\ proc = [p \in Procs |-> Idle]
-----------------------------------------------------------------------------
(* The center. *)

Terminated(i) == \E k \in DOMAIN rows[i] : rows[i][k].terminal

(* create_ts, the same in every row of an order *)
Created(i) == Head(rows[i]).src

TerminalTime(i) ==
    Min({rows[i][k].src : k \in {l \in DOMAIN rows[i] : rows[i][l].terminal}})

(***************************************************************************)
(* An order may have a row at source time now.  Rows may follow the        *)
(* terminal one for a while: the exchange's update time of those is not    *)
(* later than the terminal one's.  There may be more than one terminal row.*)
(***************************************************************************)
MayEmit(i) ==
    now =< LastRow /\ (Terminated(i) => now =< TerminalTime(i) + Lag)

RowNow(i, kind) ==
    [src |-> now, upd |-> IF Terminated(i) THEN TerminalTime(i) ELSE now,
     fill |-> kind.fill, filled |-> kind.filled, terminal |-> kind.terminal]

(* Time passes, with the rows of the moment. *)
Tick ==
    /\ now < MaxTime
    /\ now' = now + 1
    /\ \E emitting \in SUBSET {i \in Orders : MayEmit(i)} :
         \E kind \in [emitting -> RowKind] :
            /\ \A i \in emitting : kind[i] \in Kinds[i]
            /\ rows' = [i \in Orders |->
                          IF i \in emitting
                          THEN Append(rows[i], RowNow(i, kind[i]))
                          ELSE rows[i]]
    /\ UNCHANGED <<tables, proc>>
-----------------------------------------------------------------------------
(* Lifecycle aggregates. *)

MinOf(a, b) == IF a =< b THEN a ELSE b
MaxOf(a, b) == IF a >= b THEN a ELSE b

(* The first event by source time: should_replace_first_event. *)
Earlier(src, current) == current = Absent \/ src < current

(* fill_update_ts: FILLED or a fill. *)
FillUpdate(row) == IF row.fill > 0 \/ row.filled THEN row.upd ELSE Absent

LifeOf(row) ==
    [first |-> row.src, last |-> row.src, fill |-> row.fill,
     lastFill |-> FillUpdate(row), terminal |-> row.terminal,
     termTs |-> IF row.terminal THEN row.upd ELSE Absent,
     termSrc |-> IF row.terminal THEN row.src ELSE Absent,
     count |-> 1]

(***************************************************************************)
(* What fold_frame does with a further row and the ON CONFLICT clause of   *)
(* upsert_lifecycles with a further aggregate.                             *)
(***************************************************************************)
Combine(a, b) ==
    LET replace == b.termSrc # Absent /\ Earlier(b.termSrc, a.termSrc)
    IN  [first |-> MinOf(a.first, b.first), last |-> MaxOf(a.last, b.last),
         fill |-> a.fill + b.fill, lastFill |-> MaxOf(a.lastFill, b.lastFill),
         terminal |-> a.terminal \/ b.terminal,
         termTs |-> IF replace THEN b.termTs ELSE a.termTs,
         termSrc |-> IF replace THEN b.termSrc ELSE a.termSrc,
         count |-> a.count + b.count]

Merged(a, b) ==
    IF a.count = 0 THEN b ELSE IF b.count = 0 THEN a ELSE Combine(a, b)

(* The aggregate of those of the rows that lie in start .. end - 1. *)
Aggregate(read, start, end) ==
    LET upto[k \in 0..Len(read)] ==
          IF k = 0 THEN NoLife
          ELSE IF start =< read[k].src /\ read[k].src < end
               THEN Merged(upto[k - 1], LifeOf(read[k]))
               ELSE upto[k - 1]
    IN  upto[Len(read)]

Delta(i, start, end) == Aggregate(rows[i], start, end)
-----------------------------------------------------------------------------
(***************************************************************************)
(* The engine: the orders it holds, the queue of pending ones (both sides, *)
(* oldest first) and what it knows of the hedges of each Margin order.     *)
(***************************************************************************)
Opposite(i, j) == (i \in Buys) # (j \in Buys)

(* The order of MatchEvent::sort_key and of load_pending_orders. *)
Key(i, ts, src) == <<ts, src, IF i \in Margin THEN 0 ELSE 1, i>>

Precedes(a, b) ==
    \E k \in 1..4 : a[k] < b[k] /\ \A l \in 1..(k - 1) : a[l] = b[l]

(* The elements of S by their keys. *)
InOrder(S, key) ==
    CHOOSE s \in [1..Cardinality(S) -> S] :
        /\ Range(s) = S
        /\ \A k, l \in DOMAIN s : k < l => Precedes(key[s[k]], key[s[l]])

PendingOrders == {i \in Margin : orders[i] # NoOrder /\ orders[i].rem > 0}

HedgesOf(i) == {h \in Futures : hedges[h] # NoHedge /\ Anchor[h] = i}

Unhedged == [hts |-> Absent, fts |-> Absent, n |-> 0]

(* Mutant of HedgeHistory: released hedges are not loaded. *)
HedgeHistoryUnloaded(i) == Unhedged

(* load_hedge_history and seed_hedge_history: the hedges that were        *)
(* released before their Margin order.                                     *)
HedgeHistory(i) ==
    IF HedgesOf(i) = {} THEN Unhedged
    ELSE [hts |-> Min({hedges[h].create : h \in HedgesOf(i)}),
          fts |-> Max({hedges[h].fts : h \in HedgesOf(i)}),
          n |-> Cardinality(HedgesOf(i))]

(* MatchEngine::new with the pending snapshot. *)
Seeded(ready, life) ==
    [held |-> [i \in Margin |-> IF i \in PendingOrders THEN orders[i]
                                ELSE NoOrder],
     queue |-> InOrder(PendingOrders, [i \in PendingOrders |->
                 Key(i, orders[i].uts, orders[i].src)]),
     about |-> [i \in Margin |->
                 IF i \in PendingOrders
                 THEN [hts |-> orders[i].hts, fts |-> orders[i].fts,
                       n |-> orders[i].n]
                 ELSE IF i \in ready THEN HedgeHistory(i) ELSE Unhedged],
     done |-> [h \in Futures |-> NoHedge], life |-> life,
     failed |-> FALSE]

(* One turn of the matching loop: quantity moves from the front order into *)
(* netted or closed.                                                       *)
Taken(order, q, field) ==
    [order EXCEPT !.rem = order.rem - q, ![field] = order[field] + q]

Consume(acc, i, j, field) ==
    LET q == MinOf(acc.rest, acc.held[j].rem)
    IN  IF Opposite(i, j)
        THEN [rest |-> acc.rest - q,
              held |-> [acc.held EXCEPT ![j] = Taken(acc.held[j], q, field)]]
        ELSE acc

Walk(queue, held, i, quantity, field) ==
    LET upto[k \in 0..Len(queue)] ==
          IF k = 0 THEN [rest |-> quantity, held |-> held]
          ELSE Consume(upto[k - 1], i, queue[k], field)
    IN  upto[Len(queue)]

(* refresh_state: an order that is closed leaves the queue. *)
StillPending(queue, held) ==
    LET upto[k \in 0..Len(queue)] ==
          IF k = 0 THEN <<>>
          ELSE IF held[queue[k]].rem > 0 THEN Append(upto[k - 1], queue[k])
               ELSE upto[k - 1]
    IN  upto[Len(queue)]

(* apply_margin: net against the other side, queue what is left. *)
ApplyMargin(eng, i) ==
    LET life == eng.life[i]
        walk == Walk(eng.queue, eng.held, i, life.fill, "net")
        order == [uts |-> life.lastFill, src |-> life.last,
                  fill |-> life.fill, rem |-> walk.rest, cam |-> 0,
                  net |-> life.fill - walk.rest, hts |-> eng.about[i].hts,
                  fts |-> eng.about[i].fts, n |-> eng.about[i].n]
        held == [walk.held EXCEPT ![i] = order]
    IN  IF eng.held[i] # NoOrder THEN [eng EXCEPT !.failed = TRUE]
        ELSE [eng EXCEPT !.held = held,
                         !.queue = StillPending(Append(@, i), held)]

(* record_hedge_order: earliest creation, latest fill and count.  *)
Recorded(about, create, fts) ==
    [hts |-> IF about.hts = Absent THEN create ELSE MinOf(about.hts, create),
     fts |-> MaxOf(about.fts, fts), n |-> about.n + 1]

(* A pending order that learns of its hedges. *)
Told(order, about) ==
    [order EXCEPT !.hts = about.hts, !.fts = about.fts, !.n = about.n]

(* apply_futures: record the hedge, then close the oldest opposite orders. *)
ApplyFutures(eng, i) ==
    LET life == eng.life[i]
        m == Anchor[i]
        about == IF m \notin Margin THEN eng.about
                 ELSE [eng.about EXCEPT ![m] =
                          Recorded(@, Created(i), life.lastFill)]
        held == IF m \notin Margin \/ eng.held[m] = NoOrder THEN eng.held
                ELSE [eng.held EXCEPT ![m] = Told(@, about[m])]
        walk == Walk(eng.queue, held, i, life.fill, "cam")
        hedge == [create |-> Created(i), fts |-> life.lastFill,
                  amount |-> life.fill, alloc |-> life.fill - walk.rest]
    IN  [eng EXCEPT !.held = walk.held, !.about = about,
                    !.queue = StillPending(@, walk.held),
                    !.done[i] = hedge]

Apply(eng, i) ==
    IF i \in Margin THEN ApplyMargin(eng, i) ELSE ApplyFutures(eng, i)

(* lifecycle_events: Margin orders without a fill are dropped. *)
Events(ready, life) == {i \in ready : i \in Futures \/ life[i].fill > 0}

EventKey(life, i) ==
    Key(i, IF i \in Margin THEN life[i].lastFill ELSE Created(i), life[i].last)

Matched(ready, life) ==
    LET events == Events(ready, life)
        ordered == InOrder(events, [i \in events |-> EventKey(life, i)])
        after[k \in 0..Len(ordered)] ==
          IF k = 0 THEN Seeded(ready, life) ELSE Apply(after[k - 1], ordered[k])
    IN  after[Len(ordered)]
-----------------------------------------------------------------------------
(* A process. *)

(* load_watermark; the endpoint must not be behind the cursor.  The rows   *)
(* in the range do not change any more, so the download needs no step.     *)
Loaded(end) ==
    IF end < mark.read THEN Idle
    ELSE [pc |-> "commit", start |-> mark.read, end |-> end,
          released |-> MaxOf(end - Reorder - 1, mark.released)]

(* main: the checkpoint, or --end-ms below it, bounds the source range.    *)
(* With --rebuild the tables are reset before the watermark is loaded.     *)
Launch(p, target, rebuild) ==
    /\ proc[p].pc = "idle"
    /\ target >= Start
    /\ proc' = [proc EXCEPT ![p] =
                  IF rebuild THEN [Idle EXCEPT !.pc = "reset", !.end = target + 1]
                  ELSE Loaded(target + 1)]
    /\ UNCHANGED <<now, rows, tables>>

(* reset_synthesis, a transaction of its own. *)
Reset(p) ==
    /\ proc[p].pc = "reset"
    /\ lifecycle' = [i \in Orders |-> NoLife]
    /\ orders' = [i \in Margin |-> NoOrder]
    /\ hedges' = [i \in Futures |-> NoHedge]
    /\ mark' = StartMark
    /\ proc' = [proc EXCEPT ![p].pc = "load"]
    /\ UNCHANGED <<now, rows>>

Load(p) ==
    /\ proc[p].pc = "load"
    /\ proc' = [proc EXCEPT ![p] = Loaded(@.end)]
    /\ UNCHANGED <<now, rows, tables>>

(* Mutant of CursorUnmoved: the cursor is not checked under the lock. *)
CursorUnchecked(p) == TRUE

(* lock_watermark: nobody moved the cursor since it was loaded. *)
CursorUnmoved(p) == mark.read = proc[p].start

(* load_ready_lifecycles *)
Ready(life, released) ==
    {i \in Orders : life[i].count > 0 /\ life[i].terminal
                                      /\ life[i].last =< released}

(* The upsert keeps the opening columns of an order that is already there. *)
Upserted(held) ==
    [i \in Margin |->
        IF held[i] = NoOrder THEN orders[i]
        ELSE IF orders[i] = NoOrder THEN held[i]
        ELSE [held[i] EXCEPT !.fill = orders[i].fill, !.uts = orders[i].uts,
                             !.src = orders[i].src]]

(* insert_hedges: a hedge that is already there stays as it is. *)
Inserted(done) ==
    [h \in Futures |-> IF hedges[h] = NoHedge THEN done[h] ELSE hedges[h]]

(* delete_released_lifecycles *)
Unreleased(life, ready) ==
    [i \in Orders |-> IF i \in ready THEN NoLife ELSE life[i]]

(* margin_finalized_watermark *)
Finalized(table, life, released) ==
    Min({released}
        \cup {table[i].src - 1 : i \in {j \in Margin :
                 table[j] # NoOrder /\ table[j].rem > 0}}
        \cup {life[i].first - 1 : i \in {j \in Orders :
                 life[j].count > 0 /\ life[j].fill > 0}})

(* update_watermark *)
AdvancedMark(p, table, life) ==
    [read |-> proc[p].end, released |-> proc[p].released,
     finalized |-> Finalized(table, life, proc[p].released)]

(* The synthesis transaction. *)
Commit(p) ==
    LET life == [i \in Orders |-> Merged(lifecycle[i],
                    Delta(i, proc[p].start, proc[p].end))]
        ready == Ready(life, proc[p].released)
        eng == Matched(ready, life)
    IN  /\ proc[p].pc = "commit"
        /\ CursorUnmoved(p)
        /\ ~eng.failed
        /\ lifecycle' = Unreleased(life, ready)
        /\ orders' = Upserted(eng.held)
        /\ hedges' = Inserted(eng.done)
        /\ mark' = AdvancedMark(p, orders', lifecycle')
        /\ proc' = [proc EXCEPT ![p] = Idle]
        /\ UNCHANGED <<now, rows>>

(* The cursor moved, the engine refused an event, the download failed or   *)
(* the process died: the transaction is rolled back.                       *)
Abort(p) ==
    /\ proc[p].pc # "idle"
    /\ proc' = [proc EXCEPT ![p] = Idle]
    /\ UNCHANGED <<now, rows, tables>>

ProcStep(p) ==
    \/ \E d \in Behind, rebuild \in BOOLEAN : Launch(p, now - 1 - d, rebuild)
    \/ Reset(p)
    \/ Load(p)
    \/ Commit(p)
    \/ Abort(p)

Next ==
    \/ Tick
    \/ \E p \in Procs : ProcStep(p)

Spec == Init /\ [][Next]_vars
-----------------------------------------------------------------------------
(* Properties. *)

Sum(f) == MapThenSumSet(LAMBDA x : f[x], DOMAIN f)

(* The fills of order i that the cursor has passed. *)
FillsRead(i) == Delta(i, Start, mark.read)

(***************************************************************************)
(* Every fill behind the cursor is counted exactly once: in the aggregate  *)
(* of an order that is still open, or in the released order; however runs  *)
(* and rebuilds overlap ("The next center read starts exactly here",       *)
(* migration 0041).                                                        *)
(***************************************************************************)
FillsCountedOnce ==
    \A i \in Orders :
        LET read == FillsRead(i)
            released == IF i \in Margin THEN orders[i].fill
                        ELSE IF hedges[i] = NoHedge THEN 0
                        ELSE hedges[i].amount
            open == IF lifecycle[i].count = 0 THEN 0 ELSE lifecycle[i].fill
        IN  open + released = IF read.count = 0 THEN 0 ELSE read.fill

(***************************************************************************)
(* Matching creates and loses nothing: a Margin fill is pending, closed or *)
(* netted; what hedges allocated is what orders of the other side had      *)
(* closed; both sides netted the same amount.                              *)
(***************************************************************************)
Netted(S) ==
    Sum([i \in Margin \cap S |->
           IF orders[i] = NoOrder THEN 0 ELSE orders[i].net])
Closed(S) ==
    Sum([i \in Margin \cap S |->
           IF orders[i] = NoOrder THEN 0 ELSE orders[i].cam])
Allocated(S) ==
    Sum([h \in Futures \cap S |->
           IF hedges[h] = NoHedge THEN 0 ELSE hedges[h].alloc])

AmountsConserved ==
    /\ \A i \in Margin : orders[i] # NoOrder =>
          /\ orders[i].fill = orders[i].rem + orders[i].cam + orders[i].net
          /\ orders[i].rem >= 0
    /\ Netted(Buys) = Netted(Orders \ Buys)
    /\ Closed(Buys) = Allocated(Orders \ Buys)
    /\ Closed(Orders \ Buys) = Allocated(Buys)

(***************************************************************************)
(* What the tables hold is what was filled: each fill once, each matched   *)
(* amount on both sides, and buys and sells never pending together,        *)
(* whatever the batches in which they were released.                       *)
(***************************************************************************)
FillsConserved ==
    /\ FillsCountedOnce
    /\ AmountsConserved
    /\ \A i, j \in PendingOrders : ~Opposite(i, j)

(***************************************************************************)
(* A pending order is not behind the finalized watermark ("Largest         *)
(* continuous source-time prefix not blocked by a pending real Margin      *)
(* fill", migration 0041) and knows all its hedges, also the ones released *)
(* before it: the earliest creation, the latest fill and their number.     *)
(***************************************************************************)
PendingIsOpen ==
    \A i \in PendingOrders :
        /\ orders[i].src > mark.finalized
        /\ orders[i].n = Cardinality(HedgesOf(i))
        /\ HedgesOf(i) # {} =>
              orders[i].hts = Min({hedges[h].create : h \in HedgesOf(i)})
        /\ orders[i].fts = Max({hedges[h].fts : h \in HedgesOf(i)}
                                 \cup {Absent})
=============================================================================
