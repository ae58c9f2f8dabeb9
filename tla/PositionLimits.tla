---------------------------- MODULE PositionLimits ----------------------------
(***************************************************************************)
(* The position-limit monitor of the FR environments                       *)
(* (src/src/fr_position_limits.rs): a request reads every environment's    *)
(* snapshot, guard parameters and exchange limits at once, unless the      *)
(* cached overview is young enough.  One lock is held over cache and       *)
(* reading; a client that hangs up drops its request and the lock.         *)
(*                                                                         *)
(* A reply is all that the endpoints of one environment answer, None for   *)
(* an endpoint that fails; a leg is one row of the exchange's positions.   *)
(* lists is FALSE when positionRisk or leverageBracket answers no array.   *)
(***************************************************************************)
EXTENDS Integers, Sequences, FiniteSets, SequencesExt, FiniteSetsExt, Absent

CONSTANTS
    Environments, \* the environments, in the order of their sort_order
    Venue,        \* [environment -> "binance" or "gate"]
    Symbols,      \* normalized symbols, in their order
    Users,
    Visible,      \* [user -> environments it may see]
    Catalogue,    \* [scene -> [environment -> replies]]
    MaxCalls,     \* bound: [scene -> requests]
    Ttl,          \* CACHE_TTL
    DefaultAmount,\* DEFAULT_AMOUNT_U
    LimitsEnd     \* bound: clock

Symbol == Range(Symbols)
Positive == Nat \ {0}
IfAny(values) == values \cup {None}

(* What the parsers let through: numbers, of limits, brackets and amounts  *)
(* the positive ones.                                                      *)
IsReply(reply) ==
    /\ reply.positions # None => \A s \in Symbol :
         reply.positions[s] \in Seq([notional : IfAny(Int), limit : IfAny(Positive)])
    /\ reply.config # None => \A s \in Symbol : reply.config[s] \in IfAny(Positive)
    /\ reply.brackets # None => \A s \in Symbol :
         reply.brackets[s] \in SUBSET Positive /\ IsFiniteSet(reply.brackets[s])
    /\ reply.snapshot # None => \A s \in Symbol :
         reply.snapshot[s] \in Seq([open : IfAny(Int), futures : IfAny(Int)])
    /\ reply.guard # None =>
         /\ reply.guard.buy \in Int /\ reply.guard.sell \in Int
         /\ reply.guard.amount \in IfAny(Positive)
         /\ reply.guard.overrides # None =>
              \A s \in DOMAIN reply.guard.overrides :
                reply.guard.overrides[s] \in Positive

ASSUME LimitsAssumption ==
    /\ Ttl \in Positive /\ LimitsEnd \in Nat /\ DefaultAmount \in Positive
    /\ None \notin Int
    /\ Symbols \in Seq(Symbol) /\ Environments \in Seq(Range(Environments))
    /\ \A user \in Users : Visible[user] \subseteq Range(Environments)
    /\ \A e \in Range(Environments) : Venue[e] \in {"binance", "gate"}
    /\ \A s \in DOMAIN Catalogue : \A e \in Range(Environments) :
         \A reply \in Catalogue[s][e] : IsReply(reply)

VARIABLES
    scene,
    clock, calls,
    waiting, \* users whose request waits for the lock
    reading, \* [user -> None or the overview it reads under the lock]
    cache,   \* FrPositionLimitMonitor::cache
    answer   \* [user -> the last overview it was given, and when]

limitVars == <<scene, clock, calls, waiting, reading, cache, answer>>

Abs(n) == IF n < 0 THEN -n ELSE n
Least(numbers) == IF numbers = {} THEN None ELSE Min(numbers)
Known(values) == values \ {None}
Total(values) ==
    LET sum[k \in 0 .. Len(values)] ==
          IF k = 0 THEN 0 ELSE sum[k - 1] + values[k]
    IN sum[Len(values)]

(* The total of a field over the rows at some positions. *)
TotalAt(rows, positions, field) ==
    Total([k \in DOMAIN rows |-> IF k \in positions THEN rows[k][field] ELSE 0])

(* A set in the order that puts the k-th element behind k - 1 others. *)
Sorted(set, Earlier(_, _)) ==
    [k \in 1 .. Cardinality(set) |->
       CHOOSE x \in set : Cardinality({y \in set : Earlier(y, x)}) = k - 1]

(* The first place of an element. *)
PlaceIn(sequence, x) == Min({k \in DOMAIN sequence : sequence[k] = x})

-----------------------------------------------------------------------------
(* The exchange's side of a symbol. *)

(* The rows that count: parse_gate_positions skips one without risk limit. *)
Legs(e, reply, s) ==
    IF reply.positions = None THEN {}
    ELSE {k \in DOMAIN reply.positions[s] :
            Venue[e] = "gate" => reply.positions[s][k].limit # None}

(* add_optional: a row without a usable notional adds nothing; that of a   *)
(* Gate row is zero.                                                       *)
Valued(e, reply, s) ==
    {k \in Legs(e, reply, s) : reply.positions[s][k].notional # None}

ExchangeNotional(e, reply, s) ==
    IF Valued(e, reply, s) # {} \/ (Venue[e] = "gate" /\ Legs(e, reply, s) # {})
    THEN TotalAt(reply.positions[s], Valued(e, reply, s), "notional")
    ELSE None

Bracket(e, reply, s) ==
    IF reply.brackets = None \/ reply.brackets[s] = {}
       \/ (reply.config[s] = None /\ Legs(e, reply, s) = {})
    THEN {} ELSE {Max(reply.brackets[s])}

(* BinanceLimit::effective_limit; Gate has the risk limits alone. *)
EffectiveLimit(e, reply, s) ==
    LET ofLegs == Known({reply.positions[s][k].limit : k \in Legs(e, reply, s)})
    IN IF Venue[e] = "gate" THEN Least(ofLegs)
       ELSE LET own == IF reply.config[s] # None THEN {reply.config[s]}
                       ELSE ofLegs
            IN Least(own \cup Bracket(e, reply, s))

-----------------------------------------------------------------------------
(* Rows and environments. *)

(* GuardParams, or its default when an endpoint fails. *)
Guard(reply) ==
    IF reply.guard = None
    THEN [buy |-> 0, sell |-> 0, amount |-> DefaultAmount, overrides |-> <<>>]
    ELSE [buy |-> Max({reply.guard.buy, 0}), sell |-> Max({reply.guard.sell, 0}),
          amount |-> IF reply.guard.amount = None THEN DefaultAmount
                     ELSE reply.guard.amount,
          overrides |-> IF reply.guard.overrides = None THEN <<>>
                        ELSE reply.guard.overrides]

(* Mutant of Pending: the sides are swapped. *)
PendingSwapped(guard, notional) ==
    IF notional > 0 THEN guard.buy
    ELSE IF notional < 0 THEN guard.sell
    ELSE Max({guard.buy, guard.sell})

(* A short is closed by buying, a long by selling. *)
Pending(guard, notional) ==
    IF notional < 0 THEN guard.buy
    ELSE IF notional > 0 THEN guard.sell
    ELSE Max({guard.buy, guard.sell})

(* guard_metrics: None when there is no limit or the cap is not positive. *)
GuardCap(limit, notional, s, guard) ==
    LET amount == IF s \in DOMAIN guard.overrides THEN guard.overrides[s]
                  ELSE guard.amount
        cap == limit - Pending(guard, notional) * amount
    IN IF limit = None THEN None ELSE IF cap > 0 THEN cap ELSE None

(* The sum a snapshot gives per symbol, None without a row that has it. *)
Snapshot(reply, s, field) ==
    IF reply.snapshot = None THEN None
    ELSE LET rows == reply.snapshot[s]
             with == {k \in DOMAIN rows : rows[k][field] # None}
         IN IF with = {} THEN None ELSE TotalAt(rows, with, field)

ZeroIfNone(n) == IF n = None THEN 0 ELSE n

(* relevant_snapshot_symbols and the exchange's own. *)
Displayed(e, reply) ==
    {s \in Symbol :
       \/ Abs(ZeroIfNone(ExchangeNotional(e, reply, s))) >= 1
       \/ Abs(ZeroIfNone(Snapshot(reply, s, "open"))) >= 1
       \/ Abs(ZeroIfNone(Snapshot(reply, s, "futures"))) >= 1}

(* build_row *)
Row(e, reply, s) ==
    LET exchange == ExchangeNotional(e, reply, s)
        notional == IF exchange # None THEN exchange
                    ELSE ZeroIfNone(Snapshot(reply, s, "futures"))
        cap == GuardCap(EffectiveLimit(e, reply, s), notional, s, Guard(reply))
        near == cap # None /\ 10 * Abs(notional) >= 9 * cap
    IN [symbol |-> s, notional |-> notional, cap |-> cap, near |-> near,
        status |-> IF near THEN "warning"
                   ELSE IF cap = None THEN "unavailable" ELSE "healthy"]

(* usage_ratio as a fraction, -1 without a cap. *)
Used(row) == IF row.cap = None THEN -1 ELSE Abs(row.notional)
Whole(row) == IF row.cap = None THEN 1 ELSE row.cap

(* sort_rows: near first, then by usage, then by size. *)
Before(row, other) ==
    LET mine == Used(row) * Whole(other)
        its == Used(other) * Whole(row)
    IN IF row.near # other.near THEN row.near
       ELSE IF mine # its THEN mine > its
       ELSE IF Abs(row.notional) # Abs(other.notional)
            THEN Abs(row.notional) > Abs(other.notional)
       ELSE PlaceIn(Symbols, row.symbol) < PlaceIn(Symbols, other.symbol)

(* Endpoints whose failure is a warning. *)
Warned(e, reply) ==
    \/ reply.snapshot = None
    \/ reply.guard = None
    \/ reply.guard # None /\ reply.guard.overrides = None
    \/ Venue[e] = "binance" /\ (reply.positions = None \/ reply.brackets = None)

(* The endpoint an environment cannot do without. *)
Failed(e, reply) ==
    \/ ~reply.keys
    \/ Venue[e] = "gate" /\ reply.positions = None
    \/ Venue[e] # "gate" /\ (reply.config = None \/ ~reply.lists)

(* fetch_environment *)
Environment(e, reply) ==
    IF Failed(e, reply)
    THEN [slug |-> e, status |-> "error", rows |-> <<>>, reply |-> reply]
    ELSE LET rows == Sorted({Row(e, reply, s) : s \in Displayed(e, reply)}, Before)
             near == \E k \in DOMAIN rows : rows[k].near
         IN [slug |-> e, rows |-> rows, reply |-> reply,
             status |-> IF near \/ Warned(e, reply) THEN "warning"
                        ELSE "healthy"]

(* A task that panicked. *)
Unknown == [slug |-> None, status |-> "error", rows |-> <<>>, reply |-> None]

-----------------------------------------------------------------------------
(* Requests. *)

LimitsInit ==
    /\ scene \in DOMAIN Catalogue
    /\ clock = 0 /\ calls = 0
    /\ waiting = {} /\ reading = [user \in Users |-> None]
    /\ cache = None
    /\ answer = [user \in Users |-> None]

(* Mutant of LockFree: the lock is released before the reading. *)
LockDropped == TRUE

LockFree == \A user \in Users : reading[user] = None
IsYoung == cache # None /\ clock - cache.stored < Ttl

Give(user, overview) ==
    /\ answer' = [answer EXCEPT ![user] =
                    [overview |-> overview, given |-> clock]]

Ask(user) ==
    /\ user \notin waiting /\ reading[user] = None
    /\ calls < MaxCalls[scene] /\ calls' = calls + 1
    /\ waiting' = waiting \cup {user}
    /\ UNCHANGED <<scene, clock, reading, cache, answer>>

AnswerFromCache(user) ==
    /\ user \in waiting /\ LockFree /\ IsYoung
    /\ Give(user, cache)
    /\ waiting' = waiting \ {user}
    /\ UNCHANGED <<scene, clock, calls, reading, cache>>

(* The answer lists the environments of the request that reads: another    *)
(* user's request served from the cache gets the same list.                *)
BeginReading(user) ==
    /\ user \in waiting /\ LockFree /\ ~IsYoung
    /\ waiting' = waiting \ {user}
    /\ reading' = [reading EXCEPT ![user] =
                     [begun |-> clock, sources |-> Visible[user],
                      pending |-> Visible[user], done |-> {}]]
    /\ UNCHANGED <<scene, clock, calls, cache, answer>>

ReadEnvironment(user) ==
    /\ reading[user] # None
    /\ \E e \in reading[user].pending :
       \E environment \in
            {Environment(e, reply) : reply \in Catalogue[scene][e]} \cup {Unknown} :
         reading' = [reading EXCEPT
                       ![user].pending = @ \ {e},
                       ![user].done = @ \cup {[of |-> e, result |-> environment]}]
    /\ UNCHANGED <<scene, clock, calls, waiting, cache, answer>>

(* sort_order; the tasks that panicked stand last. *)
Place(done) ==
    PlaceIn(Environments, done.of)
      + (IF done.result = Unknown THEN Len(Environments) ELSE 0)
InPlace(done, other) == Place(done) < Place(other)

Overview(read) ==
    LET ordered == Sorted(read.done, InPlace)
    IN [stored |-> clock, begun |-> read.begun, sources |-> read.sources,
        environments |-> [k \in DOMAIN ordered |-> ordered[k].result]]

EndReading(user) ==
    /\ reading[user] # None /\ reading[user].pending = {}
    /\ cache' = Overview(reading[user])
    /\ Give(user, Overview(reading[user]))
    /\ reading' = [reading EXCEPT ![user] = None]
    /\ UNCHANGED <<scene, clock, calls, waiting>>

HangUp(user) ==
    /\ (user \in waiting) = (reading[user] = None)
    /\ waiting' = waiting \ {user}
    /\ reading' = [reading EXCEPT ![user] = None]
    /\ UNCHANGED <<scene, clock, calls, cache, answer>>

LimitsTick ==
    /\ clock < LimitsEnd
    /\ clock' = clock + 1
    /\ UNCHANGED <<scene, calls, waiting, reading, cache, answer>>

LimitsNext ==
    \/ \E user \in Users :
         \/ Ask(user) \/ AnswerFromCache(user) \/ BeginReading(user)
         \/ ReadEnvironment(user) \/ EndReading(user) \/ HangUp(user)
    \/ LimitsTick

LimitsSpec == LimitsInit /\ [][LimitsNext]_limitVars

-----------------------------------------------------------------------------
(* Properties. *)

(* What the exchange and the guard allow a position of this size, read off *)
(* the replies: no more than the account's own limit and the largest       *)
(* bracket, less the orders that may be pending on the closing side.       *)
Allowed(e, reply, s, notional) ==
    LET limits == IF Venue[e] = "gate"
                  THEN {reply.positions[s][k].limit :
                          k \in DOMAIN reply.positions[s]}
                  ELSE {reply.config[s], Max(reply.brackets[s] \cup {0})}
        side == IF notional < 0 THEN reply.guard.buy ELSE reply.guard.sell
        amount == IF s \in DOMAIN reply.guard.overrides
                  THEN reply.guard.overrides[s]
                  ELSE IF reply.guard.amount = None THEN DefaultAmount
                  ELSE reply.guard.amount
    IN Min(limits \ {None, 0}) - Max({side, 0}) * amount

Held(reply, s) ==
    Total([k \in DOMAIN reply.positions[s] |->
             ZeroIfNone(reply.positions[s][k].notional)])

(* Every endpoint of a healthy environment answered, and each position the *)
(* exchange values at 1 USD or more has a row; where the exchange gives    *)
(* the account a limit and the guard leaves some of it, the position is    *)
(* below 90 % of what is left.                                             *)
HidesNothing(environment) ==
    LET e == environment.slug
        reply == environment.reply
        rows == Range(environment.rows)
    IN environment.status = "healthy" =>
         /\ reply.keys /\ reply.snapshot # None /\ reply.positions # None
         /\ reply.guard # None /\ reply.guard.overrides # None
         /\ Venue[e] = "binance" => reply.config # None /\ reply.brackets # None
         /\ \A s \in Symbol :
              LET limited == IF Venue[e] = "gate"
                             THEN \A j \in DOMAIN reply.positions[s] :
                                    reply.positions[s][j].limit # None
                             ELSE reply.config[s] # None
                  held == Held(reply, s)
              IN held # 0 /\ limited =>
                 /\ \E row \in rows : row.symbol = s /\ row.notional = held
                 /\ LET allowed == Allowed(e, reply, s, held)
                    IN allowed > 0 => 10 * Abs(held) < 9 * allowed

(* A healthy environment hides nothing, however the others end and in      *)
(* whatever order they answer (overview, fetch_environment, build_row).    *)
HealthyHidesNothing ==
    cache # None =>
      \A k \in DOMAIN cache.environments : HidesNothing(cache.environments[k])

(* Whoever asks, an answer never shows an older reading than an answer     *)
(* given before it (the lock is held over the whole reading).              *)
AnswersNeverGoBack ==
    [][\A user, other \in Users :
         answer'[user] # answer[user] /\ answer[other] # None =>
           answer[other].overview.begun =< answer'[user].overview.begun]_limitVars
=============================================================================
