------------------------------ MODULE Overview ------------------------------
(***************************************************************************)
(* The FR account overview (src/src/server/fr_overview.rs).  A refresh     *)
(* loop visits the enabled accounts in order: it copies the cached         *)
(* account, reads the account monitor's newest fact over HTTP or shared    *)
(* memory, and puts the account back; one replay of the PnL history at a   *)
(* time runs beside it and writes its result when it ends.  Polling        *)
(* managers read reports at any moment.                                    *)
(*                                                                         *)
(* A fact measured at t is the account's true equity at t (Worth); an      *)
(* exposure is named by the time it was measured at.  Midnight is Shanghai *)
(* midnight: both Day and MonitorInterval divide it.                       *)
(***************************************************************************)
EXTENDS Feeds

CONSTANTS
    Slugs,          \* <<strategy>>, in sort order
    Fr,             \* the strategies of kind funding_rate; others are mm
    Reachable,      \* strategies whose account monitor answers over HTTP
    Ledger,         \* [time -> realized and total PnL of its events]
    Worth0,         \* equity before the ledger's first event
    Opening,        \* [slug -> initial snapshot or strategy start]
    Initial,        \* strategies with an initial snapshot
    Day, HistoryDays, DrawdownDays, DateDays, \* DAY; 46, 15 and 30 of them
    MonitorInterval,
    Fresh,          \* FRESH
    Retry,          \* a history is replayed at most so often (300 s)
    MonitorStale,   \* 600 s
    Lags,           \* bound: how late an HTTP snapshot may be
    FollowedTime,   \* bound: clock, where the services are followed
    Delays          \* bound: how late the history sync may be

PnlKinds == {"realized", "total"}

ASSUME OverviewAssumption ==
    /\ Slugs \in Seq(Range(Slugs)) /\ Slugs # <<>>
    /\ Worth0 \in Int /\ DOMAIN Ledger \subseteq Nat \ {0}
    /\ \A t \in DOMAIN Ledger, kind \in PnlKinds : Ledger[t][kind] \in Int
    /\ Opening \in [Range(Slugs) -> 1 .. MaxTime]
    /\ Start =< MaxTime /\ FollowedTime \in Nat /\ FollowedTime =< MaxTime
    /\ RiskFeeds \subseteq Range(Slugs) /\ Reachable \subseteq Range(Slugs)
    /\ Fr \subseteq Range(Slugs) /\ Initial \subseteq Range(Slugs)
    /\ Day \in Nat \ {0} /\ MonitorInterval \in Nat \ {0}
    /\ Day % MonitorInterval = 0
    /\ {HistoryDays, DrawdownDays, DateDays, Fresh, Retry, MonitorStale} \subseteq Nat
    /\ Fresh < Retry /\ Len(Slugs) =< Retry
    /\ Lags \subseteq Nat /\ Delays \subseteq Nat

VARIABLES
    token,    \* an integration token is configured
    followed, \* bound: the scenario, see Init
    enabled,  \* the strategies the query of a refresh selects
    delay,    \* how far the synced history is behind
    pass,     \* the refresh under way
    accounts, \* Cache::accounts
    loaded,   \* Cache::loaded
    replay    \* the replay that holds history_gate

overviewVars == <<token, followed, enabled, delay, pass, accounts, loaded, replay>>
vars == <<now, faults, feedVars, overviewVars>>

(* Three scenarios are explored.  Without a token there is no refresh loop *)
(* and the mark feeds alone are followed.  With one, either the account    *)
(* monitors' services are followed by one pass in a tick over the accounts *)
(* with a risk feed, and a pass may last into the next tick, or those      *)
(* services are down and there are all accounts.                           *)
Init ==
    /\ token \in BOOLEAN /\ followed \in BOOLEAN /\ (followed \/ token)
    /\ up = IF ~followed THEN {} ELSE IF token THEN RiskFeeds ELSE MarkFeeds
    /\ FeedsInit
    /\ token => \A x \in Bootstrapped : readings[x] = None
    /\ enabled = IF followed THEN RiskFeeds ELSE Range(Slugs)
    /\ delay \in IF followed THEN {0} ELSE Delays
    /\ pass = [at |-> "asleep", began |-> now - 1]
    /\ accounts = <<>> /\ loaded = FALSE
    /\ replay = None
-----------------------------------------------------------------------------
(* PnL histories. *)

DayOf(t) == (t \div Day) * Day
Smaller(a, b) == IF a =< b THEN a ELSE b
Larger(a, b) == IF a >= b THEN a ELSE b

(* The PnL of the events up to a time, and from one time to another. *)
UpTo[t \in Nat] ==
    [kind \in PnlKinds |->
       IF t = 0 THEN 0
       ELSE UpTo[t - 1][kind] + (IF t \in DOMAIN Ledger THEN Ledger[t][kind] ELSE 0)]
Sums == [t \in 0 .. MaxTime |-> UpTo[t]]
Gain(kind, from, to) ==
    IF to < from THEN 0 ELSE Sums[to][kind] - Sums[from - 1][kind]

(* load_inputs: from the initial snapshot on, or from the strategy's start. *)
First(s) == IF s \in Initial THEN Opening[s] + 1 ELSE Opening[s]

(* The account's true equity, after and before the events of t. *)
Worth(t) == Worth0 + Gain("total", 1, t)
WorthBefore(t) == Worth(t - 1)

(* monitor_boundaries *)
MonitorTicks(start, end) ==
    {start, end} \cup {t \in start .. end : t % MonitorInterval = 0}

(* The boundaries reconstruct asks for. *)
Boundaries(s, at) ==
    {b \in {DayOf(at) - d * Day : d \in 0 .. HistoryDays} : b >= Opening[s]}
      \cup MonitorTicks(Opening[s], at)

(* A Reconstruction is named by what it was made from: the values of its   *)
(* history follow.  known: the events it saw.  A boundary's value precedes *)
(* the events at the boundary; the final value includes them.              *)
Upto(r, kind, to) == Gain(kind, First(r.slug), Smaller(to, r.known))
At(r, kind, b) == Upto(r, kind, b - 1)
Final(r, kind) == Upto(r, kind, r.at)

(* equity_at *)
EquityAt(r, b) ==
    IF r.equity # None /\ b \in Boundaries(r.slug, r.at)
    THEN r.equity - Final(r, "total") + At(r, "total", b)
    ELSE None

(* daily_realized_profit; end = None means until now. *)
DailyRealizedProfit(r, start, end) ==
    IF start \notin Boundaries(r.slug, r.at) THEN None
    ELSE IF end # None
    THEN IF end \in Boundaries(r.slug, r.at)
         THEN At(r, "realized", end) - At(r, "realized", start) ELSE None
    ELSE IF DayOf(r.at) = start
    THEN Final(r, "realized") - At(r, "realized", start) ELSE None

(* The equity after the events of t. *)
HistoryEquity(r, t) == r.equity - Final(r, "total") + Upto(r, "total", t)

(* The points of a window: the events the history saw and its anchor.      *)
Points(r, from, end) ==
    {t \in from .. end :
       t = r.at \/ (t \in DOMAIN Ledger /\ First(r.slug) =< t
                     /\ t =< r.known /\ t =< r.at)}

(* A window begins with its boundary's value or that of the last event     *)
(* before it; the peak of a point is the highest equity until then.        *)
Values(r, from, end) ==
    {<<t, HistoryEquity(r, t)>> : t \in {from - 1} \cup Points(r, from, end)}
Peak(values, t) == Max({v[2] : v \in {w \in values : w[1] =< t}})
Losses(r, from, end) ==
    LET values == Values(r, from, end)
    IN  {<<0, 1>>} \cup
        {LET peak == Peak(values, v[1]) IN <<peak - v[2], peak>> :
           v \in {w \in values : from =< w[1]}}

(* drawdown: <<loss, peak>> with the largest loss / peak.                  *)
Steeper(a, b) == b[1] * a[2] > a[1] * b[2]
Drawdown(r, end) ==
    LET from == end - DrawdownDays * Day
        losses == Losses(r, from, end)
    IN  IF r.equity = None \/ from < Opening[r.slug]
           \/ HistoryEquity(r, from - 1) =< 0
        THEN None
        ELSE CHOOSE worst \in losses : \A other \in losses : ~Steeper(worst, other)
-----------------------------------------------------------------------------
(* The refresh loop. *)

(* RiskFact::valid *)
Valid(ts, time) == time - ts \in 0 .. Fresh

Unknown(s) ==
    [slug |-> s, equity |-> None, date |-> None, exposure |-> None,
     status |-> "", reconstruction |-> None, monitor |-> None,
     attempt |-> 0, error |-> FALSE]

(* The accounts still to visit are visited in sort order. *)
NextOf(todo) == Slugs[Min({k \in DOMAIN Slugs : Slugs[k] \in todo})]

BeginPass ==
    /\ token /\ pass.at = "asleep"
    /\ followed => pass.began < now
    /\ pass' = [at |-> "copy", began |-> now,
                todo |-> enabled, listed |-> enabled,
                risks |-> [s \in RiskFeeds |->
                             IF RiskStatus(s) = "live" THEN readings[s].ts ELSE None]]
    /\ UNCHANGED <<now, faults, feedVars, token, enabled, followed, delay, accounts, loaded,
                   replay>>

(* The cached account is copied; the requests start. *)
CopyAccount ==
    /\ pass.at = "copy" /\ pass.todo # {}
    /\ LET s == NextOf(pass.todo) IN
       pass' = [at |-> "await", began |-> pass.began, todo |-> pass.todo,
                listed |-> pass.listed, risks |-> pass.risks, time |-> now,
                account |-> IF s \in DOMAIN accounts THEN accounts[s]
                            ELSE Unknown(s)]
    /\ UNCHANGED <<now, faults, feedVars, token, enabled, followed, delay, accounts, loaded,
                   replay>>

(* What an account monitor answers: nothing, or a risk and an exposure,    *)
(* each of which may be missing.                                           *)
Answers(s) ==
    {None} \cup
    IF s \notin Reachable THEN {}
    ELSE IF ~followed THEN {[risk |-> pass.time, exposure |-> pass.time]}
    ELSE [risk : {None} \cup {pass.time - lag : lag \in Lags},
          exposure : {None, pass.time}]

(* The newest valid fact: of the shared memory, unless HTTP has a newer. *)
RiskFact(s, answer) ==
    LET ipc == IF s \in RiskFeeds /\ pass.risks[s] # None
                  /\ Valid(pass.risks[s], pass.time)
               THEN {pass.risks[s]} ELSE {}
        viz == IF answer # None /\ answer.risk # None
                  /\ Valid(answer.risk, pass.time)
               THEN {answer.risk} ELSE {}
    IN  IF ipc \cup viz = {} THEN None ELSE Max(ipc \cup viz)

(* The account with its new facts.  Without one the old equity stays.      *)
Refreshed(account, risk, answer) ==
    LET old == [account EXCEPT !.exposure =
                  IF answer = None THEN @ ELSE answer.exposure]
    IN  IF risk # None
        THEN [old EXCEPT !.equity = Worth(risk), !.date = risk, !.status = "live"]
        ELSE [old EXCEPT !.status =
                IF old.equity # None THEN "stale" ELSE "unavailable"]

(* A history is due: not tried and not replayed for Retry, or of another   *)
(* day.  Mutant: a history that was tried is not tried again.              *)
DueOnce(account, time) == account.attempt = 0
Due(account, time) ==
    /\ time - account.attempt >= Retry
    /\ \/ account.monitor = None
       \/ time - account.monitor.at >= Retry
       \/ DayOf(account.monitor.at) # DayOf(time)

(* The replay's anchor: the live fact, or none.  Mutant: the fact is taken *)
(* for one of the time of the refresh.                                     *)
AnchorNow(risk, time) ==
    IF risk # None THEN [equity |-> Worth(risk), at |-> time]
    ELSE [equity |-> None, at |-> time]
Anchor(risk, time) ==
    IF risk # None THEN [equity |-> Worth(risk), at |-> risk]
    ELSE [equity |-> None, at |-> time]

(* The answers are in: the copy is brought up to date and put back whole,  *)
(* and its history is replayed when it is due and no other one is running. *)
PutAccount ==
    /\ pass.at = "await"
    /\ LET s == NextOf(pass.todo)
       IN  \E answer \in Answers(s) :
           LET risk == RiskFact(s, answer)
               permit == replay = None /\ Due(pass.account, pass.time)
               account == Refreshed(pass.account, risk, answer)
           IN  /\ accounts' = [x \in DOMAIN accounts \cup {s} |->
                                  IF x # s THEN accounts[x]
                                  ELSE IF permit
                                  THEN [account EXCEPT !.attempt = pass.time]
                                  ELSE account]
               /\ replay' = IF permit
                            THEN [slug |-> s, anchor |-> Anchor(risk, pass.time)]
                            ELSE replay
    /\ pass' = [at |-> "copy", began |-> pass.began,
                todo |-> pass.todo \ {NextOf(pass.todo)},
                listed |-> pass.listed, risks |-> pass.risks]
    /\ UNCHANGED <<now, faults, feedVars, token, enabled, followed, delay, loaded>>

(* The accounts that are no longer enabled leave. *)
EndPass ==
    /\ pass.at = "copy" /\ pass.todo = {}
    /\ accounts' = [s \in DOMAIN accounts \cap pass.listed |-> accounts[s]]
    /\ loaded' = TRUE
    /\ pass' = [at |-> "asleep", began |-> pass.began]
    /\ UNCHANGED <<now, faults, feedVars, token, enabled, followed, delay, replay>>

(* A query fails: refresh returns and the rest of the pass is skipped. *)
AbortPass ==
    /\ pass.at = "await" /\ Fault
    /\ pass' = [at |-> "asleep", began |-> pass.began]
    /\ UNCHANGED <<now, feedVars, token, enabled, followed, delay, accounts, loaded, replay>>
-----------------------------------------------------------------------------
(* The replay of one history: reconstruct and what is done with it.        *)

(* Without an anchor the replay has no equities: the earlier one stays.    *)
Replayed(account, r) ==
    [account EXCEPT !.reconstruction = IF r.equity # None THEN r ELSE @,
                    !.monitor = r, !.error = FALSE]

EndReplay ==
    /\ replay # None
    /\ LET s == replay.slug
           at == replay.anchor.at
       IN  IF s \notin DOMAIN accounts THEN UNCHANGED accounts
           ELSE IF at < Opening[s] THEN accounts' = [accounts EXCEPT ![s].error = TRUE]
           ELSE LET r == [slug |-> s, at |-> at, equity |-> replay.anchor.equity,
                          known |-> now - delay]
                IN  accounts' = [accounts EXCEPT ![s] = Replayed(@, r)]
    /\ replay' = None
    /\ UNCHANGED <<now, faults, feedVars, token, enabled, followed, delay, pass, loaded>>

(* The database fails, or the history has charges it cannot convert. *)
FailReplay ==
    /\ replay # None /\ Fault
    /\ accounts' = IF replay.slug \in DOMAIN accounts
                   THEN [accounts EXCEPT ![replay.slug].error = TRUE] ELSE accounts
    /\ replay' = None
    /\ UNCHANGED <<now, feedVars, token, enabled, followed, delay, pass, loaded>>
-----------------------------------------------------------------------------
(* A strategy is disabled or enabled. *)
Toggle(s) ==
    /\ token /\ Fault
    /\ enabled' = IF s \in enabled THEN enabled \ {s} ELSE enabled \cup {s}
    /\ UNCHANGED <<now, feedVars, token, followed, delay, pass, accounts, loaded, replay>>

(* Bounds on durations: a pass begins in every tick and ends before the    *)
(* next one must; a replay ends within the tick it began in.               *)
Tick ==
    /\ now < IF followed THEN FollowedTime ELSE MaxTime
    /\ token => pass.began = now /\ replay = None
    /\ followed \/ pass.at = "asleep"
    /\ now' = now + 1
    /\ UNCHANGED <<faults, feedVars, overviewVars>>

Next ==
    \/ /\ FeedsNext /\ UNCHANGED overviewVars
       /\ followed /\ up' \subseteq (IF token THEN RiskFeeds ELSE MarkFeeds)
    \/ BeginPass
    \/ CopyAccount
    \/ PutAccount
    \/ EndPass
    \/ AbortPass
    \/ EndReplay
    \/ FailReplay
    \/ ~followed /\ \E s \in Reachable : Toggle(s)
    \/ Tick

Spec == Init /\ [][Next]_vars
-----------------------------------------------------------------------------
(* What is reported now. *)

IsFresh(t) == t # None /\ now - t \in 0 .. Fresh
Today == DayOf(now)

(* The end of the selected past day; None when today is asked for. *)
EndOf(selected) == IF selected # None /\ selected < Today THEN selected + Day ELSE None

(* A row of report.  Mutant: a live row stays live. *)
LiveStatusAsStored(account) == account.status
LiveStatus(account) ==
    IF IsFresh(account.date) THEN account.status
    ELSE IF account.equity # None THEN "stale" ELSE "unavailable"

PastRow(account, end) ==
    LET r == account.reconstruction
        equity == IF r = None THEN None ELSE EquityAt(r, end)
    IN  [equity |-> equity, date |-> IF r = None THEN None ELSE end,
         yesterday |-> IF r = None THEN None ELSE EquityAt(r, end - Day),
         profit |-> IF r = None THEN None ELSE DailyRealizedProfit(r, end - Day, end),
         positions |-> None,
         status |-> IF equity # None THEN "historical" ELSE "unavailable"]

LiveRow(account) ==
    LET r == account.reconstruction
    IN  [equity |-> account.equity, date |-> account.date,
         yesterday |-> IF r = None THEN None ELSE EquityAt(r, Today),
         profit |-> IF r = None THEN None ELSE DailyRealizedProfit(r, Today, None),
         positions |-> IF IsFresh(account.exposure) THEN account.exposure ELSE None,
         status |-> LiveStatus(account)]

Row(account, selected) ==
    IF EndOf(selected) = None THEN LiveRow(account)
    ELSE PastRow(account, EndOf(selected))

(* The drawdown of a row. *)
RowDrawdown(account, selected) ==
    LET r == account.reconstruction
    IN  IF r = None THEN None
        ELSE Drawdown(r, IF EndOf(selected) = None THEN r.at ELSE EndOf(selected))

(* The days a report lists as available. *)
Listed(account) ==
    LET r == account.reconstruction
    IN  IF r = None THEN {}
        ELSE {d \in Boundaries(r.slug, r.at) :
                /\ DayOf(d) = d /\ Today - DateDays * Day =< d /\ d < Today
                /\ EquityAt(r, d + Day) # None}

(* monitor_value *)
Kind(s) == IF s \in Fr THEN "realized" ELSE "total"
MonitorValue(account) ==
    LET r == account.monitor
        kind == Kind(r.slug)
    IN  [complete |-> now - r.at =< MonitorStale,
         points |-> [t \in MonitorTicks(Opening[r.slug], r.at) |->
                       (IF t = r.at /\ t # Opening[r.slug] THEN Final(r, kind)
                        ELSE At(r, kind, t))
                         - At(r, kind, Opening[r.slug])]]
-----------------------------------------------------------------------------
Cached == {accounts[s] : s \in DOMAIN accounts}
Days == {d \in 0 .. MaxTime : DayOf(d) = d /\ d =< Today}

(* What a report calls live is true: the equity was the account's at its   *)
(* date, which is at most FRESH ago, whichever of the two sources it came  *)
(* from and however often the shared memory delivered it again; so are the *)
(* positions (refresh, report).                                            *)
LiveFactsAreRecent ==
    \A a \in Cached :
        LET row == LiveRow(a)
        IN  /\ row.status = "live" =>
                 /\ now - Fresh =< row.date /\ row.date =< now
                 /\ row.equity = Worth(row.date)
            /\ row.positions # None => now - Fresh =< row.positions

(* The equity reported for a past midnight is what the account was worth   *)
(* then, and the profit is that of the day, when the replay saw every      *)
(* event up to its anchor (reconstruct, equity_at, daily_realized_profit). *)
PastRowsAreExact ==
    \A a \in Cached, d \in Days :
        LET r == a.reconstruction
            row == Row(a, d)
            end == d + Day
        IN  r # None /\ d < Today /\ r.known >= r.at =>
              /\ row.equity # None => row.equity = WorthBefore(end)
              /\ row.yesterday # None => row.yesterday = WorthBefore(d)
              /\ row.profit # None =>
                   row.profit = Gain("realized", d, end - 1)

(* A row's drawdown is the largest relative loss from the highest equity   *)
(* so far, within the window that ends with the history, or with the past  *)
(* day that is selected when the history reaches its end (drawdown).       *)
DrawdownIsTrue ==
    \A a \in Cached, d \in Days :
        LET r == a.reconstruction
            end == IF EndOf(d) = None THEN r.at ELSE EndOf(d)
            from == end - DrawdownDays * Day
            worth == [t \in from - 1 .. end |-> Worth(t)]
            loss == RowDrawdown(a, d)
            Highest(t, u) == \A v \in from - 1 .. u : worth[v] =< worth[t]
        IN  r # None /\ r.known >= r.at /\ end =< r.at /\ loss # None =>
              /\ \A u \in DOMAIN worth : \A t \in from - 1 .. u : Highest(t, u) =>
                    (worth[t] - worth[u]) * loss[2] =< loss[1] * worth[t]
              /\ \E u \in DOMAIN worth : \E t \in from - 1 .. u : Highest(t, u) /\
                    (worth[t] - worth[u]) * loss[2] = loss[1] * worth[t]

(* The profit shown for today holds today's events only, all of those the  *)
(* history saw (daily_realized_profit: "historical profit uses the same    *)
(* daily realized-event boundaries", README.md).                           *)
TodaysProfitIsOfToday ==
    \A a \in Cached :
        LET r == a.reconstruction
        IN  r # None /\ LiveRow(a).profit # None =>
              LiveRow(a).profit = Gain("realized", Today, Smaller(r.at, r.known))

(* Every day a report lists can be selected: it has a row with an equity   *)
(* (report, dates).                                                        *)
ListedDaysAreServed ==
    \A a \in Cached : \A d \in Listed(a) : Row(a, d).status = "historical"

(* A monitor series that calls itself complete is at most 600 s old and    *)
(* holds the PnL of the account's kind since the opening at every tick and *)
(* at its end (monitor_value).                                             *)
MonitorIsExact ==
    \A a \in Cached :
        LET r == a.monitor
            kind == IF a.slug \in Fr THEN "realized" ELSE "total"
            since(t) == Gain(kind, First(a.slug), t)
            value == MonitorValue(a)
        IN  r # None /\ r.known >= r.at /\ value.complete =>
              /\ now - r.at =< MonitorStale
              /\ \A t \in DOMAIN value.points \ {r.at} : value.points[t] = since(t - 1)
              /\ r.at > Opening[a.slug] => value.points[r.at] = since(r.at)

(* No event happens in the very moment of an initial snapshot whose        *)
(* account has an equity: the replay leaves it out, the snapshot's         *)
(* boundary precedes it (reconstruct).                                     *)
QuietOpenings ==
    \A s \in Initial \cap (RiskFeeds \cup Reachable) : Opening[s] \notin DOMAIN Ledger

(* What the overview tells of the past agrees with the ledger, although    *)
(* the rows, the drawdown, the list of days and the monitor series are     *)
(* taken from two replays made at other times than the report, each with   *)
(* its own anchor and its own boundary conventions.                        *)
HistoryIsExact ==
    /\ PastRowsAreExact
    /\ TodaysProfitIsOfToday
    /\ DrawdownIsTrue
    /\ ListedDaysAreServed
    /\ MonitorIsExact

(* Where a pass may last into the next tick there is one account: one      *)
(* replay could turn an account away from two passes otherwise.            *)
OneFollowed == \A s, u \in RiskFeeds : s = u

(* No account's history waits for ever behind the others': with passes and *)
(* replays as short as assumed and no more accounts than fit into Retry,   *)
(* every account that stayed is tried again in time, although a replay's   *)
(* result may be overwritten by the copy a refresh holds (history_gate).   *)
HistoriesTakeTurns ==
    pass.at = "asleep" /\ pass.began = now /\ faults = 0 =>
      \A a \in Cached : now - Larger(Start, a.attempt) =< Retry + Len(Slugs) - 1
=============================================================================
