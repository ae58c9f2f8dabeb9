---------------------------- MODULE OverviewProofs ----------------------------
(***************************************************************************)
(* Proofs about Feeds and Overview, for any feeds, accounts and ledger and *)
(* any life of the services: a cached reading never goes back to an older  *)
(* fact, what the overview calls live is recent and true, what it tells of *)
(* the past agrees with the ledger, and every history gets its turn.       *)
(***************************************************************************)
EXTENDS Overview, FiniteSetTheorems, WellFoundedInduction, TLAPS

(* What is cached of a feed, and what is on its way. *)
Reading(r) == r # None => r \in [ts : Int, received : Int]
FeedsShape ==
    /\ now \in Nat
    /\ DOMAIN readings = Feeds \cup Bootstrapped
    /\ \A f \in DOMAIN readings : Reading(readings[f])
    /\ service \in [Feeds -> Seq(Int)]
    /\ queue \in [Feeds -> Seq(Int)]

(***************************************************************************)
(* A history belongs to its account, ends between the opening and now, and *)
(* is anchored at a true equity, if at any.                                *)
(***************************************************************************)
Fact(t) == t # None => t \in Int
Anchored(s, equity, at) ==
    equity # None => equity = Worth(at) /\ s \in RiskFeeds \cup Reachable
History(s, r, time) ==
    /\ r.slug = s /\ r.at \in Int /\ r.known \in Int
    /\ Opening[s] =< r.at /\ r.at =< time
    /\ Anchored(s, r.equity, r.at)

(* What is known of an account: its equity is true as of its date.         *)
AccountInv(s, a, time) ==
    /\ DOMAIN a = {"slug", "equity", "date", "exposure", "status",
                   "reconstruction", "monitor", "attempt", "error"}
    /\ a.slug = s /\ Fact(a.date) /\ Fact(a.exposure)
    /\ a.date # None => a.equity = Worth(a.date)
    /\ a.reconstruction # None =>
         History(s, a.reconstruction, time) /\ a.reconstruction.equity # None
    /\ a.monitor # None => History(s, a.monitor, time)

(* The readings and the copy that a pass carries along. *)
PassInv ==
    /\ pass.at \in {"asleep", "copy", "await"}
    /\ pass.at # "asleep" =>
         /\ pass.todo \subseteq Range(Slugs)
         /\ \A s \in RiskFeeds : Fact(pass.risks[s])
    /\ pass.at = "await" =>
         /\ pass.todo # {} /\ pass.time \in Int /\ pass.time =< now
         /\ AccountInv(NextOf(pass.todo), pass.account, now)

ReplayInv ==
    replay # None =>
      /\ replay.slug \in Range(Slugs)
      /\ replay.anchor.at \in Int /\ replay.anchor.at =< now
      /\ Anchored(replay.slug, replay.anchor.equity, replay.anchor.at)

OverviewInv ==
    /\ FeedsShape /\ now =< MaxTime
    /\ delay \in Int /\ enabled \subseteq Range(Slugs)
    /\ PassInv /\ ReplayInv
    /\ \A s \in DOMAIN accounts :
         s \in Range(Slugs) /\ AccountInv(s, accounts[s], now)

-----------------------------------------------------------------------------
(* Numbers and sums.                                                       *)

LEMMA LeastOf ==
    ASSUME NEW T, T \subseteq Nat, T # {}
    PROVE  \E x \in T : \A y \in T : x =< y
  <1>1. \E R : /\ IsWellFoundedOn(R, Nat)
               /\ \A x, y \in Nat : y < x => <<y, x>> \in R
    <2>1. \A x, y \in Nat : y < x => <<y, x>> \in OpToRel(<, Nat)
      BY DEF OpToRel
    <2>2. IsWellFoundedOn(OpToRel(<, Nat), Nat)
      BY NatLessThanWellFounded
    <2>. QED  BY <2>1, <2>2, Zenon
  <1>2. PICK R : /\ IsWellFoundedOn(R, Nat)
                 /\ \A x, y \in Nat : y < x => <<y, x>> \in R
    BY <1>1
  <1>3. PICK x \in T : \A y \in T : ~ (<<y, x>> \in R)
    BY <1>2, WFMin
  <1>4. ASSUME NEW y \in T
        PROVE  x =< y
    <2>1. ~(y < x)
      BY <1>2, <1>3
    <2>. QED  BY <2>1
  <1>. QED  BY <1>4

(* Induction: a set of numbers with 0 and every successor has them all.    *)
LEMMA SetInduction ==
    ASSUME NEW S, 0 \in S, \A n \in Nat : n \in S => n + 1 \in S
    PROVE  \A n \in Nat : n \in S
  <1>. SUFFICES ASSUME Nat \ S # {}  PROVE FALSE
    OBVIOUS
  <1>1. PICK n \in Nat \ S : \A m \in Nat \ S : n =< m
    <2>. DEFINE T == Nat \ S
    <2>. HIDE DEF T
    <2>1. T \subseteq Nat /\ T # {}
      BY DEF T
    <2>2. \E x \in T : \A y \in T : x =< y
      BY <2>1, LeastOf
    <2>. QED  BY <2>2 DEF T
  <1>2. n # 0 /\ n - 1 \in Nat /\ n - 1 < n
    BY <1>1
  <1>3. n - 1 \in S
    BY <1>1, <1>2
  <1>. QED  BY <1>1, <1>2, <1>3

(* The PnL of the events of one time. *)
Event(kind, t) == IF t \in DOMAIN Ledger THEN Ledger[t][kind] ELSE 0
Totals == [PnlKinds -> Int]

(* The totals up to n, as a finite table.  *)
Table(g, n) ==
    /\ g \in [0 .. n -> Totals]
    /\ \A t \in 0 .. n :
         g[t] = [kind \in PnlKinds |->
                   IF t = 0 THEN 0 ELSE g[t - 1][kind] + Event(kind, t)]

LEMMA EventType == \A t, kind : kind \in PnlKinds => Event(kind, t) \in Int
  BY OverviewAssumption DEF Event

LEMMA TableExists == \A n \in Nat : \E g : Table(g, n)
  <1>. DEFINE S == {n \in Nat : \E g : Table(g, n)}
  <1>1. 0 \in S
    <2>. DEFINE g == [t \in 0 .. 0 |-> [kind \in PnlKinds |-> 0]]
    <2>1. Table(g, 0)
      BY DEF Table, Totals
    <2>. QED  BY <2>1
  <1>2. ASSUME NEW n \in Nat, n \in S
        PROVE  n + 1 \in S
    <2>1. PICK g : Table(g, n)
      BY <1>2
    <2>. DEFINE last == [kind \in PnlKinds |-> g[n][kind] + Event(kind, n + 1)]
                h == [t \in 0 .. n + 1 |-> IF t = n + 1 THEN last ELSE g[t]]
    <2>2. g \in [0 .. n -> Totals] /\ g[n] \in Totals
      BY <2>1 DEF Table
    <2>3. last \in Totals
      BY <2>2, EventType DEF Totals
    <2>4. h \in [0 .. n + 1 -> Totals]
      BY <2>2, <2>3
    <2>5. ASSUME NEW t \in 0 .. n + 1
          PROVE  h[t] = [kind \in PnlKinds |->
                   IF t = 0 THEN 0 ELSE h[t - 1][kind] + Event(kind, t)]
      <3>1. CASE t = n + 1
        <4>1. h[t] = last /\ h[t - 1] = g[n] /\ t # 0
          BY <3>1
        <4>. QED  BY <3>1, <4>1
      <3>2. CASE t # n + 1
        <4>1. t \in 0 .. n /\ h[t] = g[t]
          BY <3>2
        <4>2. t # 0 => h[t - 1] = g[t - 1]
          BY <3>2
        <4>. QED  BY <2>1, <4>1, <4>2 DEF Table
      <3>. QED  BY <3>1, <3>2
    <2>6. Table(h, n + 1)
      BY <2>4, <2>5 DEF Table
    <2>. QED  BY <2>6
  <1>. HIDE DEF S
  <1>3. \A n \in Nat : n \in S
    BY <1>1, <1>2, SetInduction
  <1>. QED  BY <1>3 DEF S

LEMMA TablesAgree ==
    ASSUME NEW n \in Nat, NEW m \in Nat, NEW g, NEW h, Table(g, n), Table(h, m)
    PROVE  \A t \in Nat : t =< n /\ t =< m => g[t] = h[t]
  <1>. DEFINE S == {t \in Nat : t =< n /\ t =< m => g[t] = h[t]}
  <1>1. 0 \in S
    BY DEF Table
  <1>2. ASSUME NEW t \in Nat, t \in S
        PROVE  t + 1 \in S
    BY <1>2 DEF Table
  <1>. HIDE DEF S
  <1>3. \A t \in Nat : t \in S
    BY <1>1, <1>2, SetInduction
  <1>. QED  BY <1>3 DEF S

(* The totals satisfy their recursive definition. *)
LEMMA TotalsRecur ==
    /\ UpTo \in [Nat -> Totals]
    /\ \A kind \in PnlKinds : UpTo[0][kind] = 0
    /\ \A t \in Nat \ {0}, kind \in PnlKinds :
         UpTo[t][kind] = UpTo[t - 1][kind] + Event(kind, t)
  <1>. DEFINE table(n) == CHOOSE g : Table(g, n)
              f == [t \in Nat |-> table(t)[t]]
  <1>1. \A n \in Nat : Table(table(n), n)
    BY TableExists
  <1>. HIDE DEF table
  <1>2. \A t \in Nat : f[t] \in Totals
    BY <1>1 DEF Table
  <1>3. ASSUME NEW t \in Nat
        PROVE  f[t] = [kind \in PnlKinds |->
                         IF t = 0 THEN 0 ELSE f[t - 1][kind] + Event(kind, t)]
    <2>1. table(t)[t] = [kind \in PnlKinds |->
             IF t = 0 THEN 0 ELSE table(t)[t - 1][kind] + Event(kind, t)]
      BY <1>1 DEF Table
    <2>2. CASE t = 0
      BY <2>1, <2>2
    <2>3. CASE t # 0
      <3>1. t - 1 \in Nat /\ t - 1 =< t
        BY <2>3
      <3>2. table(t)[t - 1] = table(t - 1)[t - 1]
        BY <1>1, <3>1, TablesAgree
      <3>. QED  BY <2>1, <2>3, <3>1, <3>2
    <2>. QED  BY <2>2, <2>3
  <1>4. f = [t \in Nat |-> [kind \in PnlKinds |->
                IF t = 0 THEN 0 ELSE f[t - 1][kind] + Event(kind, t)]]
    BY <1>3
  <1>. HIDE DEF f
  <1>5. UpTo = [t \in Nat |-> [kind \in PnlKinds |->
                  IF t = 0 THEN 0 ELSE UpTo[t - 1][kind] + Event(kind, t)]]
    <2>1. \E u : u = [t \in Nat |-> [kind \in PnlKinds |->
                  IF t = 0 THEN 0 ELSE u[t - 1][kind] + Event(kind, t)]]
      BY <1>4
    <2>2. UpTo = CHOOSE u : u = [t \in Nat |-> [kind \in PnlKinds |->
                  IF t = 0 THEN 0 ELSE u[t - 1][kind] + Event(kind, t)]]
      BY Zenon DEF UpTo, Event
    <2>. QED  BY <2>1, <2>2
  <1>. DEFINE S == {t \in Nat : UpTo[t] \in Totals}
  <1>6. 0 \in S
    BY <1>5 DEF Totals
  <1>7. ASSUME NEW t \in Nat, t \in S
        PROVE  t + 1 \in S
    <2>1. UpTo[t + 1] = [kind \in PnlKinds |-> UpTo[t][kind] + Event(kind, t + 1)]
      BY <1>5
    <2>. QED  BY <1>7, <2>1, EventType DEF Totals
  <1>. HIDE DEF S
  <1>8. \A t \in Nat : t \in S
    BY <1>6, <1>7, SetInduction
  <1>9. UpTo \in [Nat -> Totals]
    BY <1>5, <1>8 DEF S
  <1>. QED  BY <1>5, <1>9 DEF Totals

-----------------------------------------------------------------------------
(* The feeds.                                                              *)

LEMMA FeedsStart == FeedsInit => FeedsShape
  BY FeedsAssumption DEF FeedsInit, FeedsShape, Bootstrap, Reading, Feeds

LEMMA FeedsStep ==
    ASSUME FeedsShape, FeedsNext
    PROVE  FeedsShape'
  <1>1. PICK f \in Feeds :
          \/ Publish(f) \/ ServiceEnds(f) \/ ServiceStarts(f)
          \/ Subscribe(f) \/ Drain(f) \/ ReceiveError(f)
    BY DEF FeedsNext
  <1>2. CASE Publish(f)
    <2>1. Append(service[f], now) \in Seq(Int) /\ Append(queue[f], now) \in Seq(Int)
      BY DEF FeedsShape
    <2>2. Newest(Append(service[f], now)) \in Seq(Int)
      BY <2>1 DEF Newest
    <2>. QED  BY <1>2, <2>1, <2>2 DEF Publish, FeedsShape
  <1>3. CASE ServiceEnds(f) \/ ServiceStarts(f) \/ ReceiveError(f)
    <2>1. << >> \in Seq(Int)
      OBVIOUS
    <2>. QED
      BY <1>3, <2>1 DEF ServiceEnds, ServiceStarts, ReceiveError, FeedsShape
  <1>4. CASE Subscribe(f)
    BY <1>4 DEF Subscribe, FeedsShape
  <1>5. CASE Drain(f)
    <2>1. Head(queue[f]) \in Int /\ Tail(queue[f]) \in Seq(Int)
      BY <1>5 DEF Drain, FeedsShape
    <2>2. Reading(Updated(readings[f], Head(queue[f]), now))
      BY <2>1 DEF FeedsShape, Updated, Reading, Feeds
    <2>. QED  BY <1>5, <2>1, <2>2 DEF Drain, FeedsShape
  <1>. QED  BY <1>1, <1>2, <1>3, <1>4, <1>5

-----------------------------------------------------------------------------
(* Accounts.                                                               *)

LEMMA Later ==
    ASSUME NEW t \in Int, NEW u \in Int, t =< u
    PROVE  \A s, a : AccountInv(s, a, t) => AccountInv(s, a, u)
  <1>1. \A s, r : History(s, r, t) => History(s, r, u)
    <2>. SUFFICES ASSUME NEW s, NEW r, History(s, r, t)
         PROVE  History(s, r, u)
      OBVIOUS
    <2>1. r.at \in Int /\ r.at =< t
      BY DEF History
    <2>2. r.at =< u
      BY <2>1
    <2>. QED  BY <2>2 DEF History
  <1>. QED  BY <1>1 DEF AccountInv

(* The newest of the facts is one of them. *)
LEMMA RiskIsFact ==
    ASSUME OverviewInv, pass.at = "await", NEW s, NEW answer \in Answers(s)
    PROVE  LET risk == RiskFact(s, answer)
           IN  /\ risk # None => /\ risk \in Int /\ risk =< pass.time
                                 /\ s \in RiskFeeds \cup Reachable
               /\ answer # None => Fact(answer.exposure)
  <1>1. answer # None => /\ Fact(answer.risk) /\ Fact(answer.exposure)
                         /\ s \in Reachable
    <2>1. pass.time \in Int /\ \A lag \in Lags : pass.time - lag \in Int
      BY OverviewAssumption DEF OverviewInv, PassInv
    <2>2. \/ answer = None
          \/ s \in Reachable /\ answer = [risk |-> pass.time, exposure |-> pass.time]
          \/ /\ s \in Reachable
             /\ answer \in [risk : {None} \cup {pass.time - lag : lag \in Lags},
                            exposure : {None, pass.time}]
      BY DEF Answers
    <2>. QED  BY <2>1, <2>2 DEF Fact
  <1>2. \A t, u \in Int : Max({t}) = t /\ Max({t, u}) \in {t, u}
    BY DEF Max
  <1>. DEFINE
     ipc == IF s \in RiskFeeds /\ pass.risks[s] # None
               /\ Valid(pass.risks[s], pass.time)
            THEN {pass.risks[s]} ELSE {}
     viz == IF answer # None /\ answer.risk # None
               /\ Valid(answer.risk, pass.time)
            THEN {answer.risk} ELSE {}
     good(x) == /\ x \in Int /\ x =< pass.time
                /\ s \in RiskFeeds \cup Reachable
  <1>3. pass.time \in Int /\ Fresh \in Nat
    BY OverviewAssumption DEF OverviewInv, PassInv
  <1>4. \A x \in ipc \cup viz : good(x)
    BY <1>1, <1>3 DEF OverviewInv, PassInv, Fact, Valid
  <1>5. \/ ipc \cup viz = {}
        \/ \E t \in Int : ipc \cup viz = {t}
        \/ \E t, u \in Int : ipc \cup viz = {t, u}
    <2>1. ipc = {} \/ \E t \in Int : ipc = {t}
      BY <1>4
    <2>2. viz = {} \/ \E t \in Int : viz = {t}
      BY <1>4
    <2>. HIDE DEF ipc, viz
    <2>. QED  BY <2>1, <2>2
  <1>6. RiskFact(s, answer) = IF ipc \cup viz = {} THEN None ELSE Max(ipc \cup viz)
    BY DEF RiskFact
  <1>. HIDE DEF ipc, viz
  <1>7. ipc \cup viz # {} => Max(ipc \cup viz) \in ipc \cup viz
    BY <1>2, <1>5
  <1>. QED  BY <1>1, <1>4, <1>6, <1>7

LEMMA RefreshedKeeps ==
    ASSUME NEW s, NEW a, NEW time, AccountInv(s, a, time), NEW risk, Fact(risk),
           NEW answer, answer # None => Fact(answer.exposure)
    PROVE  AccountInv(s, Refreshed(a, risk, answer), time)
  <1>. DEFINE old == [a EXCEPT !.exposure =
                        IF answer = None THEN @ ELSE answer.exposure]
  <1>1. AccountInv(s, old, time)
    BY DEF AccountInv
  <1>2. CASE risk # None
    <2>1. Refreshed(a, risk, answer) =
            [old EXCEPT !.equity = Worth(risk), !.date = risk, !.status = "live"]
      BY <1>2 DEF Refreshed
    <2>. HIDE DEF old
    <2>. QED  BY <1>1, <1>2, <2>1 DEF AccountInv
  <1>3. CASE risk = None
    <2>1. Refreshed(a, risk, answer) =
            [old EXCEPT !.status =
                IF old.equity # None THEN "stale" ELSE "unavailable"]
      BY <1>3 DEF Refreshed
    <2>. HIDE DEF old
    <2>. QED  BY <1>1, <2>1 DEF AccountInv
  <1>. QED  BY <1>2, <1>3

LEMMA UnknownKeeps == \A s, time : AccountInv(s, Unknown(s), time)
  BY DEF AccountInv, Unknown, Fact

(* What is only noted, and what a replay gives. *)
LEMMA NotedKeeps ==
    ASSUME NEW s, NEW a, NEW time, AccountInv(s, a, time)
    PROVE  /\ \A v : AccountInv(s, [a EXCEPT !.attempt = v], time)
           /\ \A v : AccountInv(s, [a EXCEPT !.error = v], time)
  BY DEF AccountInv

LEMMA ReplayKeeps ==
    ASSUME NEW s, NEW a, NEW time, AccountInv(s, a, time),
           NEW r, History(s, r, time)
    PROVE  AccountInv(s, Replayed(a, r), time)
  BY DEF AccountInv, Replayed

(* The account a pass turns to is one of those it still has to visit.      *)
LEMMA NextIsTodo ==
    ASSUME NEW todo, todo \subseteq Range(Slugs), todo # {}
    PROVE  NextOf(todo) \in todo
  <1>. DEFINE T == {k \in DOMAIN Slugs : Slugs[k] \in todo}
  <1>1. T \subseteq Nat
    BY OverviewAssumption
  <1>2. T # {}
    BY DEF Range
  <1>3. \E k \in T : \A j \in T : k =< j
    <2>. HIDE DEF T
    <2>. QED  BY <1>1, <1>2, LeastOf
  <1>4. Min(T) \in T
    <2>. HIDE DEF T
    <2>. QED  BY <1>3 DEF Min
  <1>. QED  BY <1>4 DEF NextOf

-----------------------------------------------------------------------------
(* The steps.                                                              *)

LEMMA OverviewStart == Init => OverviewInv
  <1>. SUFFICES ASSUME Init  PROVE OverviewInv
    OBVIOUS
  <1>1. FeedsShape /\ now = Start /\ replay = None /\ accounts = <<>>
        /\ pass.at = "asleep"
    BY FeedsStart DEF Init, FeedsInit
  <1>2. enabled \subseteq Range(Slugs) /\ delay \in Int
    BY OverviewAssumption DEF Init
  <1>. QED
    BY <1>1, <1>2, OverviewAssumption DEF OverviewInv, PassInv, ReplayInv

LEMMA PassBegins ==
    ASSUME OverviewInv, BeginPass
    PROVE  OverviewInv'
  <1>1. \A s \in RiskFeeds : RiskStatus(s) = "live" => readings[s].ts \in Int
    BY DEF RiskStatus, OverviewInv, FeedsShape, Reading, Feeds
  <1>2. /\ pass'.at = "copy" /\ pass'.todo = enabled
        /\ pass'.risks = [s \in RiskFeeds |->
                            IF RiskStatus(s) = "live" THEN readings[s].ts ELSE None]
    BY DEF BeginPass
  <1>3. PassInv'
    BY <1>1, <1>2 DEF PassInv, Fact, OverviewInv
  <1>4. FeedsShape' /\ UNCHANGED <<now, delay, enabled, accounts, replay>>
    BY DEF BeginPass, OverviewInv, FeedsShape, feedVars
  <1>. QED  BY <1>3, <1>4 DEF OverviewInv, ReplayInv

LEMMA AccountCopied ==
    ASSUME OverviewInv, CopyAccount
    PROVE  OverviewInv'
  <1>. DEFINE s == NextOf(pass.todo)
              copy == IF s \in DOMAIN accounts THEN accounts[s] ELSE Unknown(s)
  <1>1. AccountInv(s, copy, now)
    BY UnknownKeeps DEF OverviewInv
  <1>2. /\ pass' = [at |-> "await", began |-> pass.began, todo |-> pass.todo,
                    listed |-> pass.listed, risks |-> pass.risks, time |-> now,
                    account |-> copy]
        /\ pass.at = "copy" /\ pass.todo # {} /\ now' = now
    BY DEF CopyAccount
  <1>. HIDE DEF copy
  <1>3. /\ pass'.at = "await" /\ pass'.risks = pass.risks /\ pass'.time = now
        /\ pass'.account = copy /\ pass'.todo = pass.todo
        /\ NextOf(pass'.todo) = s
    BY <1>2
  <1>4. PassInv'
    BY <1>1, <1>2, <1>3 DEF PassInv, OverviewInv, FeedsShape
  <1>5. FeedsShape' /\ UNCHANGED <<now, delay, enabled, accounts, replay>>
    BY DEF CopyAccount, OverviewInv, FeedsShape, feedVars
  <1>. QED  BY <1>4, <1>5 DEF OverviewInv, ReplayInv

LEMMA AccountPut ==
    ASSUME OverviewInv, PutAccount
    PROVE  OverviewInv'
  <1>. DEFINE s == NextOf(pass.todo)
  <1>1. PICK answer \in Answers(s), permit \in BOOLEAN :
          LET new == Refreshed(pass.account, RiskFact(s, answer), answer)
          IN  /\ accounts' = [x \in DOMAIN accounts \cup {s} |->
                   IF x # s THEN accounts[x]
                   ELSE IF permit THEN [new EXCEPT !.attempt = pass.time] ELSE new]
              /\ replay' = IF permit
                   THEN [slug |-> s,
                         anchor |-> Anchor(RiskFact(s, answer), pass.time)]
                   ELSE replay
    BY DEF PutAccount
  <1>. DEFINE risk == RiskFact(s, answer)
              new == Refreshed(pass.account, risk, answer)
  <1>2. /\ pass.at = "await" /\ AccountInv(s, pass.account, now)
        /\ pass.todo # {} /\ pass.todo \subseteq Range(Slugs)
        /\ pass.time \in Int /\ pass.time =< now /\ now \in Int
        /\ \A x \in RiskFeeds : Fact(pass.risks[x])
    BY DEF PutAccount, OverviewInv, PassInv, FeedsShape
  <1>3. s \in Range(Slugs)
    BY <1>2, NextIsTodo
  <1>4. /\ risk # None => /\ risk \in Int /\ risk =< pass.time
                          /\ s \in RiskFeeds \cup Reachable
        /\ answer # None => Fact(answer.exposure)
    BY <1>2, RiskIsFact
  <1>. HIDE DEF risk, s
  <1>5. AccountInv(s, new, now)
    BY <1>2, <1>4, RefreshedKeeps DEF Fact
  <1>6. AccountInv(s, [new EXCEPT !.attempt = pass.time], now)
    BY <1>5, NotedKeeps
  <1>7. /\ accounts' = [x \in DOMAIN accounts \cup {s} |->
             IF x # s THEN accounts[x]
             ELSE IF permit THEN [new EXCEPT !.attempt = pass.time] ELSE new]
        /\ replay' = IF permit
             THEN [slug |-> s, anchor |-> Anchor(risk, pass.time)] ELSE replay
    BY <1>1 DEF risk, s
  <1>. HIDE DEF new
  <1>8. /\ FeedsShape' /\ UNCHANGED <<now, delay, enabled>>
        /\ pass' = [at |-> "copy", began |-> pass.began,
                    todo |-> pass.todo \ {s},
                    listed |-> pass.listed, risks |-> pass.risks]
    BY DEF PutAccount, OverviewInv, FeedsShape, feedVars, s
  <1>9. \A x \in DOMAIN accounts' :
          x \in Range(Slugs) /\ AccountInv(x, accounts'[x], now)
    <2>1. \A x \in DOMAIN accounts :
            x \in Range(Slugs) /\ AccountInv(x, accounts[x], now)
      BY DEF OverviewInv
    <2>. QED  BY <1>3, <1>5, <1>6, <1>7, <2>1
  <1>10. ReplayInv'
    <2>1. CASE permit
      <3>1. /\ replay'.slug = s
            /\ replay'.anchor = Anchor(risk, pass.time)
        BY <1>7, <2>1
      <3>2. CASE risk # None
        <4>1. Anchor(risk, pass.time) = [equity |-> Worth(risk), at |-> risk]
          BY <3>2 DEF Anchor
        <4>2. /\ replay'.anchor.at = risk /\ replay'.anchor.equity = Worth(risk)
          BY <3>1, <4>1
        <4>. QED
          BY <1>2, <1>3, <1>4, <1>8, <3>1, <3>2, <4>2 DEF ReplayInv, Anchored
      <3>3. CASE risk = None
        <4>1. Anchor(risk, pass.time) = [equity |-> None, at |-> pass.time]
          BY <3>3 DEF Anchor
        <4>2. replay'.anchor.at = pass.time /\ replay'.anchor.equity = None
          BY <3>1, <4>1
        <4>. QED
          BY <1>2, <1>3, <1>8, <3>1, <4>2 DEF ReplayInv, Anchored
      <3>. QED  BY <3>2, <3>3
    <2>2. CASE ~permit
      BY <1>7, <1>8, <2>2 DEF OverviewInv, ReplayInv
    <2>. QED  BY <2>1, <2>2
  <1>11. PassInv'
    BY <1>2, <1>8 DEF PassInv
  <1>. QED  BY <1>8, <1>9, <1>10, <1>11 DEF OverviewInv

LEMMA ReplayEnds ==
    ASSUME OverviewInv, EndReplay \/ FailReplay
    PROVE  OverviewInv'
  <1>. DEFINE s == replay.slug
              at == replay.anchor.at
              r == [slug |-> s, at |-> at, equity |-> replay.anchor.equity,
                    known |-> now - delay]
              failed == [accounts[s] EXCEPT !.error = TRUE]
              replayed == Replayed(accounts[s], r)
  <1>1. \/ accounts' = accounts
        \/ s \in DOMAIN accounts /\ accounts' = [accounts EXCEPT ![s] = failed]
        \/ /\ s \in DOMAIN accounts /\ ~(at < Opening[s])
           /\ accounts' = [accounts EXCEPT ![s] = replayed]
    BY DEF EndReplay, FailReplay
  <1>2. /\ s \in Range(Slugs) /\ at \in Int /\ at =< now
        /\ Anchored(s, replay.anchor.equity, at)
        /\ now \in Int /\ delay \in Int /\ Opening[s] \in Int
    BY OverviewAssumption
    DEF EndReplay, FailReplay, OverviewInv, ReplayInv, FeedsShape
  <1>3. \A x \in DOMAIN accounts :
          x \in Range(Slugs) /\ AccountInv(x, accounts[x], now)
    BY DEF OverviewInv
  <1>4. ~(at < Opening[s]) => History(s, r, now)
    BY <1>2 DEF History
  <1>. HIDE DEF s, r, at
  <1>5. \A x \in DOMAIN accounts' :
          x \in Range(Slugs) /\ AccountInv(x, accounts'[x], now)
    <2>1. s \in DOMAIN accounts => AccountInv(s, failed, now)
      BY <1>3, NotedKeeps
    <2>2. s \in DOMAIN accounts /\ ~(at < Opening[s]) => AccountInv(s, replayed, now)
      BY <1>3, <1>4, ReplayKeeps
    <2>. HIDE DEF failed, replayed
    <2>. QED  BY <1>1, <1>3, <2>1, <2>2
  <1>6. FeedsShape' /\ UNCHANGED <<now, delay, enabled, pass>> /\ replay' = None
    BY DEF EndReplay, FailReplay, OverviewInv, FeedsShape, feedVars
  <1>. QED  BY <1>5, <1>6 DEF OverviewInv, PassInv, ReplayInv

LEMMA TimePasses ==
    ASSUME OverviewInv, Tick
    PROVE  OverviewInv'
  <1>1. /\ now' = now + 1 /\ now \in Nat /\ now' =< MaxTime
        /\ UNCHANGED <<delay, enabled, pass, accounts, replay>>
    BY FeedsAssumption, OverviewAssumption
    DEF Tick, OverviewInv, FeedsShape, overviewVars
  <1>2. \A s, a : AccountInv(s, a, now) => AccountInv(s, a, now')
    BY <1>1, Later
  <1>3. FeedsShape'
    BY DEF Tick, OverviewInv, FeedsShape, feedVars
  <1>4. PassInv' /\ ReplayInv'
    BY <1>1, <1>2 DEF OverviewInv, PassInv, ReplayInv
  <1>. QED  BY <1>1, <1>2, <1>3, <1>4 DEF OverviewInv

LEMMA OverviewStep ==
    ASSUME OverviewInv, [Next]_vars
    PROVE  OverviewInv'
  <1>1. CASE UNCHANGED vars
    BY <1>1 DEF vars, feedVars, overviewVars, OverviewInv, FeedsShape, PassInv,
                ReplayInv
  <1>2. CASE FeedsNext /\ UNCHANGED overviewVars
    <2>1. FeedsShape' /\ now' = now
      BY <1>2, FeedsStep DEF OverviewInv, FeedsNext, Publish, ServiceEnds,
         ServiceStarts, Subscribe, Drain, ReceiveError
    <2>. QED  BY <1>2, <2>1 DEF overviewVars, OverviewInv, PassInv, ReplayInv
  <1>3. CASE EndPass
    <2>1. /\ accounts' = [s \in DOMAIN accounts \cap pass.listed |-> accounts[s]]
          /\ pass'.at = "asleep" /\ UNCHANGED <<now, delay, enabled, replay>>
      BY <1>3 DEF EndPass
    <2>2. FeedsShape'
      BY <1>3 DEF EndPass, OverviewInv, FeedsShape, feedVars
    <2>. QED  BY <2>1, <2>2 DEF OverviewInv, PassInv, ReplayInv
  <1>4. CASE AbortPass
    BY <1>4 DEF AbortPass, OverviewInv, FeedsShape, feedVars, PassInv, ReplayInv
  <1>5. CASE \E s \in Reachable : Toggle(s)
    <2>1. enabled' \subseteq Range(Slugs)
      BY <1>5, OverviewAssumption DEF Toggle, OverviewInv
    <2>. QED
      BY <1>5, <2>1 DEF Toggle, OverviewInv, FeedsShape, feedVars, PassInv,
         ReplayInv
  <1>. QED
    BY <1>1, <1>2, <1>3, <1>4, <1>5, PassBegins, AccountCopied, AccountPut,
       ReplayEnds, TimePasses DEF Next

(***************************************************************************)
(* An account is only called live with the equity it had at the date       *)
(* shown, at most FRESH ago, and positions are as recent, although the     *)
(* copy a refresh writes back was made before its requests and shared      *)
(* memory delivers its samples again (refresh, report).                    *)
(***************************************************************************)
THEOREM LiveFactsHold == Spec => []LiveFactsAreRecent
  <1>1. OverviewInv => LiveFactsAreRecent
    <2>. SUFFICES ASSUME OverviewInv, NEW a \in Cached
         PROVE  /\ LiveRow(a).status = "live" =>
                     /\ now - Fresh =< LiveRow(a).date /\ LiveRow(a).date =< now
                     /\ LiveRow(a).equity = Worth(LiveRow(a).date)
                /\ LiveRow(a).positions # None => now - Fresh =< LiveRow(a).positions
      BY DEF LiveFactsAreRecent
    <2>1. /\ now \in Nat /\ Fresh \in Nat /\ Fact(a.date) /\ Fact(a.exposure)
          /\ a.date # None => a.equity = Worth(a.date)
      BY OverviewAssumption DEF OverviewInv, FeedsShape, Cached, AccountInv
    <2>2. /\ LiveRow(a).status = LiveStatus(a)
          /\ LiveRow(a).date = a.date /\ LiveRow(a).equity = a.equity
          /\ LiveRow(a).positions = IF IsFresh(a.exposure) THEN a.exposure ELSE None
      BY DEF LiveRow
    <2>3. LiveStatus(a) = "live" => IsFresh(a.date)
      BY DEF LiveStatus
    <2>4. \A t : Fact(t) /\ IsFresh(t) => now - Fresh =< t /\ t =< now
      BY <2>1 DEF Fact, IsFresh
    <2>. QED  BY <2>1, <2>2, <2>3, <2>4 DEF IsFresh
  <1>. QED  BY <1>1, OverviewStart, OverviewStep, PTL DEF Spec

-----------------------------------------------------------------------------
(* A step keeps a reading or replaces it by one that is not older.         *)
LEMMA ReadingStep ==
    ASSUME OverviewInv, Next, NEW f \in DOMAIN readings, readings[f] # None
    PROVE  readings'[f] # None /\ readings'[f].ts >= readings[f].ts
  <1>1. readings[f] \in [ts : Int, received : Int]
    BY DEF OverviewInv, FeedsShape, Reading
  <1>2. CASE readings' = readings
    BY <1>1, <1>2
  <1>3. ASSUME NEW g \in Feeds, Drain(g)
        PROVE  readings'[f] # None /\ readings'[f].ts >= readings[f].ts
    <2>1. Head(queue[g]) \in Int /\ now \in Int
      BY <1>3 DEF Drain, OverviewInv, FeedsShape
    <2>2. readings' = [readings EXCEPT
                         ![g] = Updated(readings[g], Head(queue[g]), now)]
      BY <1>3 DEF Drain
    <2>3. f # g => readings'[f] = readings[f]
      BY <2>2
    <2>4. f = g => readings'[f] = Updated(readings[f], Head(queue[g]), now)
      BY <2>2
    <2>. QED  BY <1>1, <2>1, <2>3, <2>4, FeedsAssumption DEF Updated
  <1>4. readings' = readings \/ \E g \in Feeds : Drain(g)
    BY DEF Next, FeedsNext, Publish, ServiceEnds, ServiceStarts, Subscribe,
           ReceiveError, BeginPass, CopyAccount, PutAccount, EndPass, AbortPass,
           EndReplay, FailReplay, Toggle, Tick, feedVars
  <1>. QED  BY <1>2, <1>3, <1>4

(***************************************************************************)
(* A cached risk or mark never goes back to an older fact and is never     *)
(* lost, although services come and go, subscribers are dropped and a new  *)
(* subscriber receives the recent samples again.                           *)
(***************************************************************************)
THEOREM ReadingsMoveForward == Spec => ReadingsNeverGoBack
  <1>1. ASSUME OverviewInv, [Next]_vars
        PROVE  [\A f \in DOMAIN readings :
                  readings[f] # None =>
                    readings'[f] # None /\ readings'[f].ts >= readings[f].ts]_readings
    <2>1. UNCHANGED vars => UNCHANGED readings
      BY DEF vars, feedVars
    <2>2. Next => \A f \in DOMAIN readings :
                    readings[f] # None =>
                      readings'[f] # None /\ readings'[f].ts >= readings[f].ts
      BY <1>1, ReadingStep
    <2>. QED  BY <1>1, <2>1, <2>2
  <1>. QED
    BY <1>1, OverviewStart, OverviewStep, PTL DEF Spec, ReadingsNeverGoBack

-----------------------------------------------------------------------------
(* Drawdowns of a curve W from lo to hi that moves at the points P only.   *)

Curve(W, lo, hi, P) ==
    /\ lo \in Int /\ hi \in Int /\ lo =< hi
    /\ W \in [lo .. hi -> Int] /\ W[lo] > 0
    /\ P \subseteq lo + 1 .. hi
    /\ \A t \in lo + 1 .. hi : t \notin P => W[t] = W[t - 1]
Tops(W, lo, t, u) == \A v \in lo .. u : W[v] =< W[t]
PointPeak(W, lo, P, t) ==
    Max({W[lo]} \cup {W[u] : u \in {p \in P : p =< t}})
PointLosses(W, lo, P) ==
    {<<0, 1>>} \cup
    {<<PointPeak(W, lo, P, t) - W[t], PointPeak(W, lo, P, t)>> : t \in P}

(* Induction over an interval.                                             *)
LEMMA IntervalInduction ==
    ASSUME NEW lo \in Int, NEW hi \in Int, NEW S, lo \in S,
           \A t \in lo .. hi - 1 : t \in S => t + 1 \in S
    PROVE  \A t \in lo .. hi : t \in S
  <1>. DEFINE T == {n \in Nat : lo + n =< hi => lo + n \in S}
  <1>1. 0 \in T
    OBVIOUS
  <1>2. ASSUME NEW n \in Nat, n \in T
        PROVE  n + 1 \in T
    <2>. SUFFICES ASSUME lo + (n + 1) =< hi  PROVE lo + (n + 1) \in S
      OBVIOUS
    <2>1. lo + n \in lo .. hi - 1 /\ lo + n \in S
      BY <1>2
    <2>2. (lo + n) + 1 \in S
      BY <2>1
    <2>3. (lo + n) + 1 = lo + (n + 1)
      OBVIOUS
    <2>. QED  BY <2>2, <2>3
  <1>. HIDE DEF T
  <1>3. \A n \in Nat : n \in T
    BY <1>1, <1>2, SetInduction
  <1>4. ASSUME NEW t \in lo .. hi
        PROVE  t \in S
    <2>1. t - lo \in Nat /\ lo + (t - lo) = t
      OBVIOUS
    <2>. QED  BY <1>3, <2>1 DEF T
  <1>. QED  BY <1>4

(* A curve has a top, at every moment.                                     *)
LEMMA TopExists ==
    ASSUME NEW W, NEW lo, NEW hi, NEW P, Curve(W, lo, hi, P)
    PROVE  \A u \in lo .. hi : \E t \in lo .. u : Tops(W, lo, t, u)
  <1>. DEFINE S == {u \in lo .. hi : \E t \in lo .. u : Tops(W, lo, t, u)}
  <1>0. /\ lo \in Int /\ hi \in Int /\ lo =< hi
        /\ \A t \in lo .. hi : W[t] \in Int
    BY DEF Curve
  <1>1. lo \in S
    BY <1>0 DEF Tops
  <1>2. ASSUME NEW u \in lo .. hi - 1, u \in S
        PROVE  u + 1 \in S
    <2>1. PICK t \in lo .. u : Tops(W, lo, t, u)
      BY <1>2
    <2>2. \A v \in lo .. u + 1 : v \in lo .. u \/ v = u + 1
      BY <1>0
    <2>3. CASE W[u + 1] =< W[t]
      <3>1. Tops(W, lo, t, u + 1)
        BY <2>1, <2>2, <2>3 DEF Tops
      <3>. QED  BY <1>0, <3>1
    <2>4. CASE ~(W[u + 1] =< W[t])
      <3>1. W[u + 1] \in Int /\ W[t] \in Int /\ \A v \in lo .. u : W[v] \in Int
        BY <1>0
      <3>2. \A v \in lo .. u : W[v] =< W[u + 1]
        BY <2>1, <2>4, <3>1 DEF Tops
      <3>3. Tops(W, lo, u + 1, u + 1)
        BY <2>2, <3>1, <3>2 DEF Tops
      <3>. QED  BY <1>0, <3>3
    <2>. QED  BY <2>3, <2>4
  <1>. HIDE DEF S
  <1>3. \A u \in lo .. hi : u \in S
    BY <1>0, <1>1, <1>2, IntervalInduction
  <1>. QED  BY <1>3 DEF S

(* Since its last point, or its beginning, a curve has not moved.          *)
LEMMA LastPoint ==
    ASSUME NEW W, NEW lo, NEW hi, NEW P, Curve(W, lo, hi, P)
    PROVE  \A u \in lo .. hi :
             \E p \in {lo} \cup P : p =< u /\ \A v \in p .. u : W[v] = W[u]
  <1>. DEFINE S == {u \in lo .. hi :
             \E p \in {lo} \cup P : p =< u /\ \A v \in p .. u : W[v] = W[u]}
  <1>0. /\ lo \in Int /\ hi \in Int /\ lo =< hi /\ P \subseteq Int
        /\ \A t \in lo + 1 .. hi : t \notin P => W[t] = W[t - 1]
    BY DEF Curve
  <1>1. lo \in S
    BY <1>0
  <1>2. ASSUME NEW u \in lo .. hi - 1, u \in S
        PROVE  u + 1 \in S
    <2>0. u + 1 \in lo .. hi /\ u + 1 \in lo + 1 .. hi /\ (u + 1) - 1 = u
      BY <1>0
    <2>1. CASE u + 1 \in P
      <3>1. \A v \in u + 1 .. u + 1 : W[v] = W[u + 1]
        BY <1>0
      <3>. QED  BY <2>0, <2>1, <3>1
    <2>2. CASE u + 1 \notin P
      <3>1. PICK p \in {lo} \cup P : p =< u /\ \A v \in p .. u : W[v] = W[u]
        BY <1>2
      <3>2. W[u + 1] = W[u]
        BY <1>0, <2>0, <2>2
      <3>3. p \in Int
        BY <1>0
      <3>4. \A v \in p .. u + 1 : v \in p .. u \/ v = u + 1
        BY <1>0, <3>3
      <3>5. p =< u + 1 /\ \A v \in p .. u + 1 : W[v] = W[u + 1]
        BY <3>1, <3>2, <3>3, <3>4
      <3>. QED  BY <2>0, <3>5
    <2>. QED  BY <2>1, <2>2
  <1>. HIDE DEF S
  <1>3. \A u \in lo .. hi : u \in S
    BY <1>0, <1>1, <1>2, IntervalInduction
  <1>. QED  BY <1>3 DEF S

(* The highest of the points until t is the highest value until t.         *)
LEMMA PeakIsTop ==
    ASSUME NEW W, NEW lo, NEW hi, NEW P, Curve(W, lo, hi, P),
           NEW t \in P, NEW h \in lo .. t, Tops(W, lo, h, t)
    PROVE  PointPeak(W, lo, P, t) = W[h] /\ W[h] \in Int /\ W[h] > 0
  <1>. DEFINE V == {W[lo]} \cup {W[u] : u \in {p \in P : p =< t}}
  <1>0. /\ lo \in Int /\ hi \in Int /\ t \in lo .. hi /\ t \in lo + 1 .. hi
        /\ \A u \in lo .. hi : W[u] \in Int
        /\ P \subseteq lo + 1 .. hi /\ W[lo] > 0
    BY DEF Curve
  <1>1. h \in lo .. hi /\ W[h] \in Int
    BY <1>0
  <1>2. W[h] > 0
    BY <1>0, <1>1 DEF Tops
  <1>3. W[h] \in V
    <2>1. PICK p \in {lo} \cup P : p =< h /\ \A v \in p .. h : W[v] = W[h]
      BY <1>1, LastPoint
    <2>2. p \in Int /\ p \in p .. h /\ W[p] = W[h] /\ p =< t
      BY <1>0, <1>1, <2>1
    <2>. QED  BY <2>1, <2>2
  <1>4. \A x \in V : x \in Int /\ x =< W[h]
    <2>1. \A u \in {p \in P : p =< t} : u \in lo .. t /\ W[u] \in Int
      BY <1>0
    <2>2. lo \in lo .. t /\ W[lo] \in Int
      BY <1>0
    <2>. QED  BY <2>1, <2>2 DEF Tops
  <1>. HIDE DEF V
  <1>5. Max(V) = W[h]
    BY <1>1, <1>3, <1>4 DEF Max
  <1>. QED  BY <1>1, <1>2, <1>5 DEF PointPeak, V

(* Every loss on the curve is one of the points'.                          *)
LEMMA LossIsPoints ==
    ASSUME NEW W, NEW lo, NEW hi, NEW P, Curve(W, lo, hi, P),
           NEW u \in lo .. hi, NEW t \in lo .. u, Tops(W, lo, t, u)
    PROVE  /\ W[t] \in Int /\ W[u] \in Int /\ W[t] > 0
           /\ W[t] = W[u] \/ <<W[t] - W[u], W[t]>> \in PointLosses(W, lo, P)
  <1>0. /\ lo \in Int /\ hi \in Int /\ P \subseteq lo + 1 .. hi
        /\ \A v \in lo .. hi : W[v] \in Int
        /\ W[lo] > 0 /\ t \in lo .. hi
    BY DEF Curve
  <1>1. W[t] \in Int /\ W[u] \in Int /\ W[lo] =< W[t] /\ W[t] > 0
    BY <1>0 DEF Tops
  <1>2. PICK p \in {lo} \cup P : p =< u /\ \A v \in p .. u : W[v] = W[u]
    BY LastPoint
  <1>3. p \in lo .. hi /\ W[p] \in Int /\ p \in p .. u /\ W[p] = W[u]
    BY <1>0, <1>2
  <1>4. CASE t \in p .. u
    BY <1>1, <1>2, <1>4
  <1>5. CASE t \notin p .. u
    <2>1. t \in lo .. p /\ p # lo /\ p \in P
      BY <1>0, <1>2, <1>3, <1>5
    <2>2. Tops(W, lo, t, p)
      BY <1>0, <1>2, <1>3 DEF Tops
    <2>3. PointPeak(W, lo, P, p) = W[t]
      BY <2>1, <2>2, PeakIsTop
    <2>4. <<W[t] - W[u], W[t]>> \in PointLosses(W, lo, P)
      BY <1>3, <2>1, <2>3 DEF PointLosses
    <2>. QED  BY <1>1, <2>4
  <1>. QED  BY <1>4, <1>5

(* Every loss is a fraction with a positive denominator.                   *)
LEMMA LossType ==
    ASSUME NEW W, NEW lo, NEW hi, NEW P, Curve(W, lo, hi, P)
    PROVE  \A x \in PointLosses(W, lo, P) :
             \/ x[1] = 0 /\ x[2] = 1
             \/ \E u \in P : \E t \in lo .. u :
                  /\ Tops(W, lo, t, u) /\ x[1] = W[t] - W[u] /\ x[2] = W[t]
                  /\ W[t] \in Int /\ W[u] \in Int /\ W[t] > 0 /\ W[u] =< W[t]
  <1>. SUFFICES ASSUME NEW u \in P
       PROVE  \E t \in lo .. u :
                /\ Tops(W, lo, t, u)
                /\ PointPeak(W, lo, P, u) = W[t]
                /\ W[t] \in Int /\ W[u] \in Int /\ W[t] > 0 /\ W[u] =< W[t]
    BY DEF PointLosses
  <1>1. lo \in Int /\ hi \in Int /\ u \in lo .. hi /\ u \in lo .. u /\ W[u] \in Int
    BY DEF Curve
  <1>2. PICK t \in lo .. u : Tops(W, lo, t, u)
    BY <1>1, TopExists
  <1>3. PointPeak(W, lo, P, u) = W[t] /\ W[t] \in Int /\ W[t] > 0
    BY <1>2, PeakIsTop
  <1>4. W[u] =< W[t]
    BY <1>1, <1>2 DEF Tops
  <1>. QED  BY <1>1, <1>2, <1>3, <1>4

(* Steepness of fractions is transitive.                                   *)
LEMMA SteeperTransitive ==
    ASSUME NEW x1 \in Int, NEW x2 \in Int, NEW w1 \in Int, NEW w2 \in Int,
           NEW y1 \in Int, NEW y2 \in Int, x2 > 0, w2 > 0, y2 > 0,
           y1 * w2 =< w1 * y2, w1 * x2 =< x1 * w2
    PROVE  y1 * x2 =< x1 * y2
  <1>1. (y1 * w2) * x2 =< (w1 * y2) * x2
    OBVIOUS
  <1>2. (w1 * x2) * y2 =< (x1 * w2) * y2
    OBVIOUS
  <1>3. (y1 * x2) * w2 =< (x1 * y2) * w2
    BY <1>1, <1>2
  <1>. DEFINE a == y1 * x2
              b == x1 * y2
  <1>4. a \in Int /\ b \in Int
    OBVIOUS
  <1>5. a * w2 =< b * w2
    BY <1>3
  <1>. HIDE DEF a, b
  <1>6. a =< b
    BY <1>4, <1>5
  <1>. QED  BY <1>6 DEF a, b

(* There is a steepest one of the losses.                                  *)
LEMMA SteepestExists ==
    ASSUME NEW W, NEW lo, NEW hi, NEW P, Curve(W, lo, hi, P)
    PROVE  \E worst \in PointLosses(W, lo, P) :
             \A other \in PointLosses(W, lo, P) : ~Steeper(worst, other)
  <1>. DEFINE loss(t) == <<PointPeak(W, lo, P, t) - W[t], PointPeak(W, lo, P, t)>>
              L(n) == {<<0, 1>>} \cup {loss(t) : t \in {p \in P : p =< n}}
              S == {n \in lo .. hi :
                      \E worst \in L(n) : \A other \in L(n) : ~Steeper(worst, other)}
  <1>0. /\ lo \in Int /\ hi \in Int /\ lo =< hi /\ P \subseteq lo + 1 .. hi
    BY DEF Curve
  <1>1. \A n : \A x \in L(n) :
          /\ x[1] \in Int /\ x[2] \in Int /\ x[2] > 0
    <2>1. \A x \in PointLosses(W, lo, P) :
            /\ x[1] \in Int /\ x[2] \in Int /\ x[2] > 0
      BY LossType
    <2>2. \A n : L(n) \subseteq PointLosses(W, lo, P)
      BY DEF PointLosses
    <2>. QED  BY <2>1, <2>2
  <1>2. lo \in S
    <2>1. L(lo) = {<<0, 1>>}
      BY <1>0
    <2>2. ~Steeper(<<0, 1>>, <<0, 1>>)
      BY DEF Steeper
    <2>. QED  BY <1>0, <2>1, <2>2
  <1>3. ASSUME NEW n \in lo .. hi - 1, n \in S
        PROVE  n + 1 \in S
    <2>1. PICK w \in L(n) : \A other \in L(n) : ~Steeper(w, other)
      BY <1>3
    <2>2. L(n + 1) = IF n + 1 \in P THEN L(n) \cup {loss(n + 1)} ELSE L(n)
      <3>1. {p \in P : p =< n + 1} =
              {p \in P : p =< n} \cup IF n + 1 \in P THEN {n + 1} ELSE {}
        <4>1. \A p \in P : p =< n + 1 <=> p =< n \/ p = n + 1
          BY <1>0
        <4>. QED  BY <4>1
      <3>. QED  BY <3>1
    <2>. DEFINE x == loss(n + 1)
    <2>3. n + 1 \in P => x \in L(n + 1)
      BY <2>2
    <2>. HIDE DEF loss, L, x
    <2>4. CASE n + 1 \notin P \/ ~Steeper(w, x)
      BY <1>0, <2>1, <2>2, <2>4 DEF x
    <2>5. CASE n + 1 \in P /\ Steeper(w, x)
      <3>1. x \in L(n + 1) /\ L(n + 1) = L(n) \cup {x}
        BY <2>2, <2>3, <2>5 DEF x
      <3>2. /\ x[1] \in Int /\ x[2] \in Int /\ x[2] > 0
            /\ w[1] \in Int /\ w[2] \in Int /\ w[2] > 0
        BY <1>1, <2>1, <3>1
      <3>3. ASSUME NEW y \in L(n)
            PROVE  ~Steeper(x, y)
        <4>1. y[1] \in Int /\ y[2] \in Int /\ y[2] > 0
          BY <1>1
        <4>2. y[1] * w[2] =< w[1] * y[2]
          BY <2>1, <3>2, <4>1 DEF Steeper
        <4>3. w[1] * x[2] =< x[1] * w[2]
          BY <2>5, <3>2 DEF Steeper
        <4>4. y[1] * x[2] =< x[1] * y[2]
          BY <3>2, <4>1, <4>2, <4>3, SteeperTransitive
        <4>. QED  BY <3>2, <4>1, <4>4 DEF Steeper
      <3>4. ~Steeper(x, x)
        BY <3>2 DEF Steeper
      <3>. QED  BY <1>0, <3>1, <3>3, <3>4
    <2>. QED  BY <2>4, <2>5
  <1>4. L(hi) = PointLosses(W, lo, P)
    <2>1. \A p \in P : p =< hi
      BY <1>0
    <2>2. {p \in P : p =< hi} = P
      BY <2>1, Zenon
    <2>. QED  BY <2>2 DEF PointLosses
  <1>. HIDE DEF S, L
  <1>5. \A n \in lo .. hi : n \in S
    BY <1>0, <1>2, <1>3, IntervalInduction
  <1>6. hi \in S
    BY <1>0, <1>5
  <1>. QED  BY <1>4, <1>6 DEF S

(* The steepest of the points' losses is the curve's.                      *)
LEMMA SteepestIsDrawdown ==
    ASSUME NEW W, NEW lo, NEW hi, NEW P, Curve(W, lo, hi, P),
           NEW loss \in PointLosses(W, lo, P),
           \A other \in PointLosses(W, lo, P) : ~Steeper(loss, other)
    PROVE  /\ \A u \in lo .. hi : \A t \in lo .. u : Tops(W, lo, t, u) =>
                (W[t] - W[u]) * loss[2] =< loss[1] * W[t]
           /\ \E u \in lo .. hi : \E t \in lo .. u : Tops(W, lo, t, u) /\
                (W[t] - W[u]) * loss[2] = loss[1] * W[t]
  <1>0. lo \in Int /\ hi \in Int /\ lo =< hi /\ P \subseteq lo + 1 .. hi
        /\ W[lo] \in Int
    BY DEF Curve
  <1>1. \A other \in PointLosses(W, lo, P) : ~Steeper(loss, other)
    OBVIOUS
  <1>2. /\ loss[1] \in Int /\ loss[2] \in Int /\ loss[1] >= 0 /\ loss[2] > 0
    BY LossType
  <1>3. ASSUME NEW u \in lo .. hi, NEW t \in lo .. u, Tops(W, lo, t, u)
        PROVE  (W[t] - W[u]) * loss[2] =< loss[1] * W[t]
    <2>1. /\ W[t] \in Int /\ W[u] \in Int /\ W[t] > 0
          /\ W[t] = W[u] \/ <<W[t] - W[u], W[t]>> \in PointLosses(W, lo, P)
      BY <1>3, LossIsPoints
    <2>2. CASE W[t] = W[u]
      <3>1. loss[1] * W[t] >= 0
        BY <1>2, <2>1
      <3>2. (W[t] - W[u]) * loss[2] = 0
        BY <1>2, <2>1, <2>2
      <3>. QED  BY <3>1, <3>2, <1>2, <2>1
    <2>3. CASE <<W[t] - W[u], W[t]>> \in PointLosses(W, lo, P)
      <3>1. ~Steeper(loss, <<W[t] - W[u], W[t]>>)
        BY <1>1, <2>3
      <3>. QED  BY <1>2, <2>1, <3>1 DEF Steeper
    <2>. QED  BY <2>1, <2>2, <2>3
  <1>4. \E u \in lo .. hi : \E t \in lo .. u : Tops(W, lo, t, u) /\
          (W[t] - W[u]) * loss[2] = loss[1] * W[t]
    <2>1. CASE loss[1] = 0 /\ loss[2] = 1
      <3>1. lo \in lo .. hi /\ lo \in lo .. lo /\ Tops(W, lo, lo, lo)
        BY <1>0 DEF Tops
      <3>2. (W[lo] - W[lo]) * loss[2] = loss[1] * W[lo]
        BY <1>0, <2>1
      <3>. QED  BY <3>1, <3>2
    <2>2. ASSUME NEW u \in P,
                 \E t \in lo .. u :
                   /\ Tops(W, lo, t, u) /\ loss[1] = W[t] - W[u] /\ loss[2] = W[t]
                   /\ W[t] \in Int /\ W[u] \in Int /\ W[t] > 0 /\ W[u] =< W[t]
          PROVE  \E v \in lo .. hi : \E t \in lo .. v : Tops(W, lo, t, v) /\
                   (W[t] - W[v]) * loss[2] = loss[1] * W[t]
      <3>2. PICK t \in lo .. u :
                  /\ Tops(W, lo, t, u) /\ loss[1] = W[t] - W[u] /\ loss[2] = W[t]
                  /\ W[t] \in Int /\ W[u] \in Int
        BY <2>2
      <3>3. u \in lo .. hi
        BY <1>0
      <3>4. (W[t] - W[u]) * loss[2] = loss[1] * W[t]
        BY <3>2
      <3>. QED  BY <3>2, <3>3, <3>4
    <2>3. \/ loss[1] = 0 /\ loss[2] = 1
          \/ \E u \in P : \E t \in lo .. u :
               /\ Tops(W, lo, t, u) /\ loss[1] = W[t] - W[u] /\ loss[2] = W[t]
               /\ W[t] \in Int /\ W[u] \in Int /\ W[t] > 0 /\ W[u] =< W[t]
      BY LossType
    <2>. QED  BY <2>1, <2>2, <2>3
  <1>. QED  BY <1>3, <1>4
-----------------------------------------------------------------------------
(* What a replay says of the ledger.                                       *)

LEMMA SumsAre ==
    /\ MaxTime \in Nat
    /\ \A t \in 0 .. MaxTime, kind \in PnlKinds :
         /\ Sums[t][kind] \in Int
         /\ t = 0 => Sums[t][kind] = 0
         /\ t # 0 => t - 1 \in 0 .. MaxTime
              /\ Sums[t][kind] = Sums[t - 1][kind] + Event(kind, t)
  <1>1. MaxTime \in Nat
    BY FeedsAssumption, OverviewAssumption
  <1>2. ASSUME NEW t \in 0 .. MaxTime, NEW kind \in PnlKinds
        PROVE  /\ Sums[t][kind] \in Int
               /\ t = 0 => Sums[t][kind] = 0
               /\ t # 0 => t - 1 \in 0 .. MaxTime
                    /\ Sums[t][kind] = Sums[t - 1][kind] + Event(kind, t)
    <2>1. t \in Nat /\ Sums[t] = UpTo[t]
      BY <1>1 DEF Sums
    <2>2. t # 0 => /\ t - 1 \in 0 .. MaxTime /\ t - 1 \in Nat
                   /\ Sums[t - 1] = UpTo[t - 1]
      BY <1>1 DEF Sums
    <2>3. UpTo[t][kind] \in Int
      BY <2>1, TotalsRecur DEF Totals
    <2>. QED  BY <2>1, <2>2, <2>3, TotalsRecur
  <1>. QED  BY <1>1, <1>2

(* No event happens in the very moment of the account's initial snapshot.  *)
Quiet(s) == s \in Initial => Opening[s] \notin DOMAIN Ledger

LEMMA FirstIs ==
    ASSUME NEW s \in Range(Slugs)
    PROVE  /\ Opening[s] \in 1 .. MaxTime
           /\ \/ First(s) = Opening[s]
              \/ First(s) = Opening[s] + 1 /\ s \in Initial
  BY OverviewAssumption DEF First

LEMMA GainType ==
    ASSUME NEW kind \in PnlKinds, NEW from \in Int, from >= 1,
           NEW to \in Int, to =< MaxTime
    PROVE  Gain(kind, from, to) \in Int
  <1>1. CASE to < from
    BY <1>1 DEF Gain
  <1>2. CASE ~(to < from)
    <2>1. from - 1 \in 0 .. MaxTime /\ to \in 0 .. MaxTime
      BY <1>2, SumsAre
    <2>. QED  BY <1>2, <2>1, SumsAre DEF Gain
  <1>. QED  BY <1>1, <1>2

(* What came before t and what came since add up.                          *)
LEMMA GainSplits ==
    ASSUME NEW kind \in PnlKinds, NEW s \in Range(Slugs), Quiet(s),
           NEW t \in Int, Opening[s] =< t,
           NEW m \in Int, t - 1 =< m, m =< MaxTime
    PROVE  Gain(kind, First(s), m) - Gain(kind, First(s), t - 1) = Gain(kind, t, m)
  <1>1. /\ Opening[s] \in 1 .. MaxTime
        /\ \/ First(s) = Opening[s]
           \/ First(s) = Opening[s] + 1 /\ s \in Initial
    BY FirstIs
  <1>. DEFINE f == First(s)
  <1>2. f \in Int /\ f >= 1 /\ t \in 1 .. MaxTime + 1
    BY <1>1, SumsAre
  <1>3. CASE f =< t
    <2>1. \A u \in Int : f - 1 =< u /\ u =< MaxTime =>
            /\ u \in 0 .. MaxTime /\ Sums[u][kind] \in Int
            /\ Gain(kind, f, u) = Sums[u][kind] - Sums[f - 1][kind]
      <3>1. ASSUME NEW u \in Int, f - 1 =< u, u =< MaxTime
            PROVE  /\ u \in 0 .. MaxTime /\ Sums[u][kind] \in Int
                   /\ Gain(kind, f, u) = Sums[u][kind] - Sums[f - 1][kind]
        <4>1. u \in 0 .. MaxTime /\ Sums[u][kind] \in Int
          BY <1>2, <3>1, SumsAre
        <4>2. CASE u < f
          <5>1. u = f - 1 /\ Gain(kind, f, u) = 0
            BY <1>2, <3>1, <4>2 DEF Gain
          <5>. QED  BY <4>1, <5>1
        <4>3. CASE ~(u < f)
          BY <4>1, <4>3 DEF Gain
        <4>. QED  BY <4>1, <4>2, <4>3
      <3>. QED  BY <3>1
    <2>. HIDE DEF f
    <2>2. /\ f - 1 \in Int /\ f - 1 =< MaxTime /\ Sums[f - 1][kind] \in Int
          /\ Sums[m][kind] \in Int /\ Sums[t - 1][kind] \in Int
          /\ Gain(kind, f, m) = Sums[m][kind] - Sums[f - 1][kind]
          /\ Gain(kind, f, t - 1) = Sums[t - 1][kind] - Sums[f - 1][kind]
      <3>1. /\ MaxTime \in Int /\ f - 1 \in Int /\ t - 1 \in Int
            /\ f - 1 =< MaxTime /\ f - 1 =< m /\ f - 1 =< t - 1 /\ t - 1 =< MaxTime
        BY <1>2, <1>3, SumsAre
      <3>. QED  BY <2>1, <3>1
    <2>3. Gain(kind, t, m) = Sums[m][kind] - Sums[t - 1][kind]
      <3>1. CASE m < t
        <4>1. m = t - 1 /\ Gain(kind, t, m) = 0
          BY <3>1 DEF Gain
        <4>. QED  BY <2>2, <4>1
      <3>2. CASE ~(m < t)
        BY <3>2 DEF Gain
      <3>. QED  BY <3>1, <3>2
    <2>. QED  BY <2>2, <2>3 DEF f
  <1>4. CASE ~(f =< t)
    <2>1. t = Opening[s] /\ f = t + 1 /\ s \in Initial
      BY <1>1, <1>2, <1>4
    <2>2. Event(kind, t) = 0
      BY <2>1 DEF Event, Quiet
    <2>3. Gain(kind, f, t - 1) = 0
      BY <2>1 DEF Gain
    <2>4. CASE m < t
      BY <2>1, <2>3, <2>4 DEF Gain
    <2>5. CASE m = t
      <3>1. t \in 0 .. MaxTime /\ t # 0
        BY <1>2, <2>5
      <3>2. Gain(kind, f, m) = 0 /\ Gain(kind, t, m) = Sums[t][kind] - Sums[t - 1][kind]
        BY <2>1, <2>5 DEF Gain
      <3>. QED  BY <2>2, <2>3, <3>1, <3>2, SumsAre
    <2>6. CASE m > t
      <3>1. t \in 0 .. MaxTime /\ t # 0 /\ m \in 0 .. MaxTime
        BY <1>2, <2>6, SumsAre
      <3>2. /\ Gain(kind, f, m) = Sums[m][kind] - Sums[t][kind]
            /\ Gain(kind, t, m) = Sums[m][kind] - Sums[t - 1][kind]
        <4>1. f - 1 = t /\ ~(m < f) /\ ~(m < t)
          BY <2>1, <2>6
        <4>. QED  BY <4>1 DEF Gain
      <3>. QED  BY <2>2, <2>3, <3>1, <3>2, SumsAre
    <2>. QED  BY <2>4, <2>5, <2>6
  <1>. QED  BY <1>2, <1>3, <1>4

LEMMA WorthIs ==
    ASSUME NEW t \in 0 .. MaxTime
    PROVE  Worth(t) = Worth0 + Sums[t]["total"] /\ Worth(t) \in Int
  <1>1. "total" \in PnlKinds /\ Sums[t]["total"] \in Int /\ Worth0 \in Int
    BY SumsAre, OverviewAssumption DEF PnlKinds
  <1>2. Gain("total", 1, t) = Sums[t]["total"]
    <2>1. CASE t = 0
      BY <1>1, <2>1, SumsAre DEF Gain
    <2>2. CASE t # 0
      <3>1. ~(t < 1) /\ 1 - 1 = 0 /\ 0 \in 0 .. MaxTime
        BY <2>2, SumsAre
      <3>2. Sums[0]["total"] = 0
        BY <1>1, <3>1, SumsAre
      <3>. QED  BY <1>1, <3>1, <3>2 DEF Gain
    <2>. QED  BY <2>1, <2>2
  <1>. QED  BY <1>1, <1>2 DEF Worth

(* The equity before b is the equity at u less what was gained since b.    *)
LEMMA WorthSplits ==
    ASSUME NEW b \in Int, b >= 1, NEW u \in Int, b - 1 =< u, u =< MaxTime
    PROVE  Worth(u) - Gain("total", b, u) = Worth(b - 1) /\ Worth(u) \in Int
  <1>1. u \in 0 .. MaxTime /\ b - 1 \in 0 .. MaxTime /\ "total" \in PnlKinds
    BY SumsAre DEF PnlKinds
  <1>2. /\ Worth(u) = Worth0 + Sums[u]["total"]
        /\ Worth(b - 1) = Worth0 + Sums[b - 1]["total"]
        /\ Sums[u]["total"] \in Int /\ Sums[b - 1]["total"] \in Int /\ Worth0 \in Int
    BY <1>1, WorthIs, SumsAre, OverviewAssumption
  <1>3. CASE u < b
    <2>1. u = b - 1 /\ Gain("total", b, u) = 0
      BY <1>3 DEF Gain
    <2>. QED  BY <1>2, <2>1
  <1>4. CASE ~(u < b)
    <2>1. Gain("total", b, u) = Sums[u]["total"] - Sums[b - 1]["total"]
      BY <1>4 DEF Gain
    <2>. QED  BY <1>2, <2>1
  <1>. QED  BY <1>3, <1>4

(* The boundaries of a history lie between the opening and its end.        *)
LEMMA DayIs ==
    ASSUME NEW t \in Int
    PROVE  DayOf(t) \in Int /\ DayOf(t) =< t
  <1>1. Day \in Nat \ {0}
    BY OverviewAssumption
  <1>2. t = Day * (t \div Day) + (t % Day) /\ t % Day \in 0 .. Day - 1 /\ t \div Day \in Int
    BY <1>1
  <1>. QED  BY <1>1, <1>2 DEF DayOf

LEMMA BoundariesAre ==
    ASSUME NEW s \in Range(Slugs), NEW at \in Int, Opening[s] =< at
    PROVE  /\ MonitorTicks(Opening[s], at) \subseteq Opening[s] .. at
           /\ Boundaries(s, at) \subseteq Opening[s] .. at
  <1>1. Opening[s] \in Int
    BY FirstIs
  <1>2. MonitorTicks(Opening[s], at) \subseteq Opening[s] .. at
    BY <1>1 DEF MonitorTicks
  <1>3. Day \in Nat /\ HistoryDays \in Nat
    BY OverviewAssumption
  <1>4. \A d \in 0 .. HistoryDays : d * Day \in Nat
    BY <1>3
  <1>5. \A d \in 0 .. HistoryDays : DayOf(at) - d * Day \in Int /\ DayOf(at) - d * Day =< at
    BY <1>4, DayIs
  <1>. QED  BY <1>1, <1>2, <1>5 DEF Boundaries

(* A history whose anchor is true.                                         *)
Grounded(r) ==
    /\ r.slug \in Range(Slugs) /\ Quiet(r.slug)
    /\ r.at \in Int /\ r.known \in Int
    /\ Opening[r.slug] =< r.at /\ r.at =< MaxTime
    /\ r.equity = Worth(r.at)

LEMMA CachedAreGrounded ==
    ASSUME OverviewInv, QuietOpenings, NEW a \in Cached, a.reconstruction # None
    PROVE  Grounded(a.reconstruction)
  <1>. DEFINE r == a.reconstruction
  <1>1. PICK s \in DOMAIN accounts : a = accounts[s]
    BY DEF Cached
  <1>2. s \in Range(Slugs) /\ AccountInv(s, a, now) /\ now \in Nat /\ now =< MaxTime
    BY <1>1 DEF OverviewInv, FeedsShape
  <1>3. History(s, r, now) /\ r.equity # None
    BY <1>2 DEF AccountInv
  <1>4. s \in RiskFeeds \cup Reachable /\ r.equity = Worth(r.at)
    BY <1>3 DEF History, Anchored
  <1>5. Quiet(s)
    BY <1>4 DEF Quiet, QuietOpenings
  <1>6. r.at =< MaxTime
    BY <1>2, <1>3, SumsAre DEF History
  <1>. QED  BY <1>2, <1>3, <1>4, <1>5, <1>6 DEF Grounded, History

LEMMA UptoIs ==
    ASSUME NEW r, NEW kind, NEW to \in Int, to =< r.at, r.at \in Int,
           r.known \in Int, r.known >= r.at
    PROVE  Upto(r, kind, to) = Gain(kind, First(r.slug), to)
  BY DEF Upto, Smaller

LEMMA EquityAtIs ==
    ASSUME NEW r, Grounded(r), r.known >= r.at, NEW b, EquityAt(r, b) # None
    PROVE  EquityAt(r, b) = WorthBefore(b)
  <1>. DEFINE f == First(r.slug)
  <1>1. /\ EquityAt(r, b) = r.equity - Final(r, "total") + At(r, "total", b)
        /\ b \in Boundaries(r.slug, r.at)
    BY DEF EquityAt
  <1>2. /\ b \in Int /\ Opening[r.slug] =< b /\ b =< r.at /\ b >= 1
        /\ f \in Int /\ f >= 1 /\ r.at \in Int /\ r.at =< MaxTime
        /\ "total" \in PnlKinds
    BY <1>1, BoundariesAre, FirstIs DEF Grounded, PnlKinds
  <1>3. /\ Final(r, "total") = Gain("total", f, r.at)
        /\ At(r, "total", b) = Gain("total", f, b - 1)
    BY <1>2, UptoIs DEF Final, At, Grounded
  <1>4. Gain("total", f, r.at) - Gain("total", f, b - 1) = Gain("total", b, r.at)
    BY <1>2, GainSplits DEF Grounded
  <1>5. Worth(r.at) - Gain("total", b, r.at) = Worth(b - 1) /\ Worth(r.at) \in Int
    BY <1>2, WorthSplits
  <1>6. Gain("total", f, r.at) \in Int /\ Gain("total", f, b - 1) \in Int
    BY <1>2, SumsAre, GainType
  <1>. QED
    BY <1>1, <1>3, <1>4, <1>5, <1>6 DEF Grounded, WorthBefore

LEMMA HistoryEquityIs ==
    ASSUME NEW r, Grounded(r), r.known >= r.at,
           NEW t \in Int, Opening[r.slug] - 1 =< t, t =< r.at
    PROVE  HistoryEquity(r, t) = Worth(t)
  <1>. DEFINE f == First(r.slug)
              b == t + 1
  <1>1. /\ Opening[r.slug] \in Int /\ Opening[r.slug] >= 1
        /\ f \in Int /\ f >= 1 /\ r.at \in Int /\ r.at =< MaxTime
        /\ "total" \in PnlKinds
    BY FirstIs DEF Grounded, PnlKinds
  <1>2. b \in Int /\ b >= 1 /\ Opening[r.slug] =< b /\ b - 1 = t /\ b - 1 =< r.at
    BY <1>1
  <1>3. /\ Final(r, "total") = Gain("total", f, r.at)
        /\ Upto(r, "total", t) = Gain("total", f, t)
    BY <1>1, UptoIs DEF Final, Grounded
  <1>. HIDE DEF b
  <1>4. Gain("total", f, r.at) - Gain("total", f, b - 1) = Gain("total", b, r.at)
    BY <1>1, <1>2, GainSplits DEF Grounded
  <1>5. Worth(r.at) - Gain("total", b, r.at) = Worth(b - 1) /\ Worth(r.at) \in Int
    BY <1>1, <1>2, WorthSplits
  <1>6. Gain("total", f, r.at) \in Int /\ Gain("total", f, t) \in Int
    BY <1>1, SumsAre, GainType
  <1>. QED
    BY <1>2, <1>3, <1>4, <1>5, <1>6 DEF HistoryEquity, Grounded

LEMMA ProfitOfDay ==
    ASSUME NEW r, Grounded(r), r.known >= r.at, NEW d \in Int, NEW end \in Int,
           d =< end, DailyRealizedProfit(r, d, end) # None
    PROVE  DailyRealizedProfit(r, d, end) = Gain("realized", d, end - 1)
  <1>. DEFINE f == First(r.slug)
  <1>1. /\ d \in Boundaries(r.slug, r.at) /\ end \in Boundaries(r.slug, r.at)
        /\ DailyRealizedProfit(r, d, end) = At(r, "realized", end) - At(r, "realized", d)
    BY FeedsAssumption DEF DailyRealizedProfit
  <1>2. /\ Opening[r.slug] =< d /\ end =< r.at /\ r.at =< MaxTime /\ r.at \in Int
        /\ "realized" \in PnlKinds
    BY <1>1, BoundariesAre DEF Grounded, PnlKinds
  <1>3. /\ At(r, "realized", end) = Gain("realized", f, end - 1)
        /\ At(r, "realized", d) = Gain("realized", f, d - 1)
    BY <1>2, UptoIs DEF At, Grounded
  <1>4. MaxTime \in Int /\ end - 1 \in Int /\ d - 1 =< end - 1 /\ end - 1 =< MaxTime
    BY <1>2, SumsAre
  <1>5. Gain("realized", f, end - 1) - Gain("realized", f, d - 1)
          = Gain("realized", d, end - 1)
    BY <1>2, <1>4, GainSplits DEF Grounded
  <1>. QED  BY <1>1, <1>3, <1>5

LEMMA PastRowsHold ==
    ASSUME OverviewInv, QuietOpenings
    PROVE  PastRowsAreExact
  <1>. SUFFICES ASSUME NEW a \in Cached, NEW d \in Days
       PROVE  LET r == a.reconstruction
                  row == Row(a, d)
                  end == d + Day
              IN  r # None /\ d < Today /\ r.known >= r.at =>
                    /\ row.equity # None => row.equity = WorthBefore(end)
                    /\ row.yesterday # None => row.yesterday = WorthBefore(d)
                    /\ row.profit # None =>
                         row.profit = Gain("realized", d, end - 1)
    BY DEF PastRowsAreExact
  <1>. DEFINE r == a.reconstruction
              end == d + Day
  <1>. SUFFICES ASSUME r # None, d < Today, r.known >= r.at
       PROVE  /\ Row(a, d).equity # None => Row(a, d).equity = WorthBefore(end)
              /\ Row(a, d).yesterday # None => Row(a, d).yesterday = WorthBefore(d)
              /\ Row(a, d).profit # None =>
                   Row(a, d).profit = Gain("realized", d, end - 1)
    BY Zenon
  <1>1. d \in Int /\ end \in Int /\ end - Day = d /\ d =< end
    BY OverviewAssumption DEF Days
  <1>2. Grounded(r)
    BY CachedAreGrounded
  <1>3. EndOf(d) = end /\ EndOf(d) # None
    BY <1>1, FeedsAssumption DEF EndOf
  <1>4. /\ Row(a, d).equity = EquityAt(r, end)
        /\ Row(a, d).yesterday = EquityAt(r, d)
        /\ Row(a, d).profit = DailyRealizedProfit(r, d, end)
    BY <1>1, <1>3 DEF Row, PastRow
  <1>. HIDE DEF r, end
  <1>5. EquityAt(r, end) # None => EquityAt(r, end) = WorthBefore(end)
    BY <1>2, EquityAtIs
  <1>6. EquityAt(r, d) # None => EquityAt(r, d) = WorthBefore(d)
    BY <1>2, EquityAtIs
  <1>7. DailyRealizedProfit(r, d, end) # None =>
          DailyRealizedProfit(r, d, end) = Gain("realized", d, end - 1)
    BY <1>1, <1>2, ProfitOfDay
  <1>. QED  BY <1>4, <1>5, <1>6, <1>7

LEMMA TodaysProfitHolds ==
    ASSUME OverviewInv, QuietOpenings
    PROVE  TodaysProfitIsOfToday
  <1>. SUFFICES ASSUME NEW a \in Cached, a.reconstruction # None,
                       LiveRow(a).profit # None
       PROVE  LiveRow(a).profit =
                Gain("realized", Today, Smaller(a.reconstruction.at,
                                                a.reconstruction.known))
    BY DEF TodaysProfitIsOfToday
  <1>. DEFINE r == a.reconstruction
              f == First(r.slug)
              m == Smaller(r.at, r.known)
  <1>1. Grounded(r)
    BY CachedAreGrounded
  <1>2. LiveRow(a).profit = DailyRealizedProfit(r, Today, None)
    BY DEF LiveRow
  <1>3. /\ Today \in Boundaries(r.slug, r.at)
        /\ LiveRow(a).profit = Final(r, "realized") - At(r, "realized", Today)
    BY <1>2 DEF DailyRealizedProfit
  <1>. DEFINE t == Today
              k == Smaller(t - 1, r.known)
  <1>4. /\ t \in Int /\ t =< r.at /\ Opening[r.slug] =< t /\ t >= 1
        /\ r.at \in Int /\ r.known \in Int /\ r.at =< MaxTime /\ MaxTime \in Int
        /\ f \in Int /\ f >= 1 /\ "realized" \in PnlKinds
    BY <1>1, <1>3, BoundariesAre, FirstIs, SumsAre DEF Grounded, PnlKinds
  <1>5. /\ Final(r, "realized") = Gain("realized", f, m)
        /\ At(r, "realized", t) = Gain("realized", f, k)
    BY DEF Final, At, Upto
  <1>. HIDE DEF t
  <1>6. /\ m \in Int /\ m =< MaxTime /\ m =< r.known
        /\ k \in Int /\ k =< MaxTime
    BY <1>4 DEF Smaller
  <1>7. CASE r.known < t - 1
    <2>1. m = k /\ m < t
      BY <1>4, <1>7 DEF Smaller
    <2>2. Gain("realized", f, m) \in Int
      BY <1>4, <1>6, GainType
    <2>3. Gain("realized", t, m) = 0
      BY <2>1 DEF Gain
    <2>. HIDE DEF r, m, k
    <2>. QED  BY <1>3, <1>5, <2>1, <2>2, <2>3 DEF t, r, m
  <1>8. CASE ~(r.known < t - 1)
    <2>1. k = t - 1 /\ t - 1 =< m
      BY <1>4, <1>8 DEF Smaller
    <2>2. Gain("realized", f, m) - Gain("realized", f, t - 1) = Gain("realized", t, m)
      BY <1>1, <1>4, <1>6, <2>1, GainSplits DEF Grounded
    <2>. QED  BY <1>3, <1>5, <2>1, <2>2 DEF t
  <1>. QED  BY <1>7, <1>8

LEMMA ListedDaysHold ==
    ASSUME OverviewInv, QuietOpenings
    PROVE  ListedDaysAreServed
  <1>. SUFFICES ASSUME NEW a \in Cached, NEW d \in Listed(a)
       PROVE  Row(a, d).status = "historical"
    BY DEF ListedDaysAreServed
  <1>. DEFINE r == a.reconstruction
  <1>1. /\ r # None /\ d \in Boundaries(r.slug, r.at)
        /\ d < Today /\ EquityAt(r, d + Day) # None
    BY DEF Listed
  <1>2. Grounded(r)
    BY <1>1, CachedAreGrounded
  <1>3. d \in Int /\ Day \in Nat
    BY <1>1, <1>2, BoundariesAre, FirstIs, OverviewAssumption DEF Grounded
  <1>4. EndOf(d) = d + Day /\ EndOf(d) # None
    BY <1>1, <1>3, FeedsAssumption DEF EndOf
  <1>. QED  BY <1>1, <1>4 DEF Row, PastRow

LEMMA MonitorHolds ==
    ASSUME OverviewInv
    PROVE  MonitorIsExact
  <1>. SUFFICES ASSUME NEW a \in Cached, a.monitor # None,
                       a.monitor.known >= a.monitor.at, MonitorValue(a).complete
       PROVE  LET r == a.monitor
                  kind == IF a.slug \in Fr THEN "realized" ELSE "total"
                  since(t) == Gain(kind, First(a.slug), t)
                  value == MonitorValue(a)
              IN  /\ now - r.at =< MonitorStale
                  /\ \A t \in DOMAIN value.points \ {r.at} :
                       value.points[t] = since(t - 1)
                  /\ r.at > Opening[a.slug] => value.points[r.at] = since(r.at)
    BY DEF MonitorIsExact
  <1>. DEFINE r == a.monitor
              s == a.slug
              kind == IF s \in Fr THEN "realized" ELSE "total"
              f == First(s)
  <1>1. PICK x \in DOMAIN accounts : a = accounts[x]
    BY DEF Cached
  <1>2. x \in Range(Slugs) /\ AccountInv(x, a, now) /\ now \in Nat /\ now =< MaxTime
    BY <1>1 DEF OverviewInv, FeedsShape
  <1>3. s = x /\ History(x, r, now)
    BY <1>2 DEF AccountInv
  <1>4. /\ s \in Range(Slugs) /\ r.slug = s /\ r.at \in Int /\ r.known \in Int
        /\ Opening[s] =< r.at /\ r.at =< MaxTime /\ MaxTime \in Int
    BY <1>2, <1>3, SumsAre DEF History
  <1>5. /\ Opening[s] \in Int /\ Opening[s] >= 1 /\ f \in Int /\ f >= Opening[s]
        /\ kind \in PnlKinds /\ Kind(s) = kind
    BY <1>4, FirstIs DEF PnlKinds, Kind
  <1>6. \A t \in Int : t =< r.at =>
          /\ Upto(r, kind, t) = Gain(kind, f, t) /\ Gain(kind, f, t) \in Int
    BY <1>4, <1>5, UptoIs, GainType
  <1>7. At(r, kind, Opening[s]) = 0
    BY <1>4, <1>5, <1>6 DEF At, Gain
  <1>8. /\ now - r.at =< MonitorStale
        /\ MonitorValue(a).points =
             [t \in MonitorTicks(Opening[s], r.at) |->
                (IF t = r.at /\ t # Opening[s] THEN Final(r, kind) ELSE At(r, kind, t))
                  - At(r, kind, Opening[s])]
    BY <1>4, <1>5 DEF MonitorValue
  <1>. DEFINE points == MonitorValue(a).points
  <1>. HIDE DEF r, s, kind, f, points
  <1>9. ASSUME NEW t \in DOMAIN points \ {r.at}
        PROVE  points[t] = Gain(kind, f, t - 1)
    <2>1. t \in MonitorTicks(Opening[s], r.at)
      BY <1>8, <1>9 DEF points
    <2>2. t \in Int /\ t =< r.at
      BY <1>4, <1>5, <2>1, BoundariesAre
    <2>3. points[t] = At(r, kind, t) - 0
      BY <1>7, <1>8, <1>9, <2>1 DEF points
    <2>4. t - 1 \in Int /\ t - 1 =< r.at
      BY <1>4, <2>2
    <2>. QED  BY <1>6, <2>3, <2>4 DEF At
  <1>10. ASSUME r.at > Opening[s]
         PROVE  points[r.at] = Gain(kind, f, r.at)
    <2>1. r.at \in MonitorTicks(Opening[s], r.at)
      BY DEF MonitorTicks
    <2>2. points[r.at] = Final(r, kind) - 0
      BY <1>4, <1>5, <1>7, <1>8, <1>10, <2>1 DEF points
    <2>. QED  BY <1>4, <1>6, <2>2 DEF Final
  <1>. QED  BY <1>8, <1>9, <1>10 DEF r, s, kind, f, points

(* The equities of a window are a curve that moves at the history's points.*)
LEMMA WindowIsCurve ==
    ASSUME NEW r, Grounded(r), r.known >= r.at,
           NEW from \in Int, NEW hi \in Int,
           Opening[r.slug] =< from, from =< hi, hi =< r.at,
           Worth(from - 1) > 0
    PROVE  Curve([t \in from - 1 .. hi |-> Worth(t)], from - 1, hi,
                 Points(r, from, hi))
  <1>. DEFINE lo == from - 1
              W == [t \in lo .. hi |-> Worth(t)]
              P == Points(r, from, hi)
  <1>1. /\ r.at \in Int /\ r.at =< MaxTime /\ r.known \in Int
        /\ r.slug \in Range(Slugs) /\ Quiet(r.slug)
        /\ Opening[r.slug] \in Int /\ Opening[r.slug] >= 1
        /\ lo \in Int /\ lo >= 0 /\ lo =< hi /\ lo + 1 = from
        /\ MaxTime \in Int /\ "total" \in PnlKinds
    BY FirstIs, SumsAre DEF Grounded, PnlKinds
  <1>2. \A t \in lo .. hi : t \in 0 .. MaxTime /\ Worth(t) \in Int
    BY <1>1, WorthIs
  <1>3. W \in [lo .. hi -> Int] /\ W[lo] > 0
    BY <1>1, <1>2
  <1>4. P \subseteq lo + 1 .. hi
    <2>1. DOMAIN Ledger \subseteq Int
      BY OverviewAssumption
    <2>. QED  BY <1>1, <2>1 DEF Points
  <1>5. ASSUME NEW t \in lo + 1 .. hi, t \notin P
        PROVE  W[t] = W[t - 1]
    <2>1. t \in lo .. hi /\ t - 1 \in lo .. hi /\ t # 0 /\ t >= from
      BY <1>1
    <2>2. t \notin DOMAIN Ledger
      <3>1. SUFFICES ASSUME t \in DOMAIN Ledger  PROVE FALSE
        OBVIOUS
      <3>2. ~(First(r.slug) =< t)
        BY <1>1, <1>5, <3>1, <2>1 DEF Points
      <3>3. t = Opening[r.slug] /\ r.slug \in Initial
        BY <1>1, <2>1, <3>2, FirstIs
      <3>. QED  BY <1>1, <3>1, <3>3 DEF Quiet
    <2>3. Event("total", t) = 0
      BY <2>2 DEF Event
    <2>4. t \in 0 .. MaxTime /\ t - 1 \in 0 .. MaxTime
      BY <1>2, <2>1
    <2>5. Worth(t) = Worth(t - 1)
      <3>1. Worth(t) = Worth0 + Sums[t]["total"]
        BY <2>4, WorthIs
      <3>2. Worth(t - 1) = Worth0 + Sums[t - 1]["total"]
        BY <2>4, WorthIs
      <3>3. Sums[t]["total"] = Sums[t - 1]["total"] + 0 /\ Sums[t - 1]["total"] \in Int
        BY <1>1, <2>1, <2>3, <2>4, SumsAre
      <3>. QED  BY <3>1, <3>2, <3>3
    <2>. QED  BY <2>1, <2>5
  <1>. HIDE DEF W, P
  <1>6. Curve(W, lo, hi, P)
    BY <1>1, <1>3, <1>4, <1>5 DEF Curve
  <1>. QED  BY <1>6 DEF W, P

LEMMA LossesAre ==
    ASSUME NEW r, Grounded(r), r.known >= r.at,
           NEW from \in Int, NEW hi \in Int,
           Opening[r.slug] =< from, from =< hi, hi =< r.at
    PROVE  Losses(r, from, hi) =
             PointLosses([t \in from - 1 .. hi |-> Worth(t)], from - 1,
                         Points(r, from, hi))
  <1>. DEFINE lo == from - 1
              W == [t \in lo .. hi |-> Worth(t)]
              P == Points(r, from, hi)
              V == Values(r, from, hi)
  <1>1. /\ r.at \in Int /\ lo \in Int /\ lo =< hi /\ lo < from
        /\ Opening[r.slug] \in Int /\ Opening[r.slug] - 1 =< lo
    BY FirstIs DEF Grounded
  <1>2. \A t \in lo .. hi : HistoryEquity(r, t) = W[t]
    BY <1>1, HistoryEquityIs
  <1>3. P \subseteq Int /\ P \subseteq lo .. hi /\ \A t \in P : from =< t
    BY <1>1 DEF Points
  <1>4. V = {<<t, W[t]>> : t \in {lo} \cup P}
    <2>1. \A t \in {lo} \cup P : HistoryEquity(r, t) = W[t]
      BY <1>1, <1>2, <1>3
    <2>2. V = {<<t, HistoryEquity(r, t)>> : t \in {lo} \cup P}
      BY DEF Values
    <2>. HIDE DEF W, P, V, lo
    <2>. QED  BY <2>1, <2>2
  <1>. HIDE DEF W, P, V
  <1>5. \A t : <<t, W[t]>>[1] = t /\ <<t, W[t]>>[2] = W[t]
    OBVIOUS
  <1>6. \A w : w \in V <=> \E t \in {lo} \cup P : w = <<t, W[t]>>
    BY <1>4
  <1>7. \A w : w \in {v \in V : from =< v[1]} <=> \E t \in P : w = <<t, W[t]>>
    <2>1. ASSUME NEW w \in V, from =< w[1]
          PROVE  \E t \in P : w = <<t, W[t]>>
      <3>1. PICK t \in {lo} \cup P : w = <<t, W[t]>>
        BY <1>6, <2>1
      <3>2. t # lo
        BY <1>1, <1>5, <2>1, <3>1
      <3>. QED  BY <3>1, <3>2
    <2>2. ASSUME NEW t \in P
          PROVE  <<t, W[t]>> \in {v \in V : from =< v[1]}
      <3>1. <<t, W[t]>> \in V
        BY <1>6
      <3>. QED  BY <1>3, <1>5, <3>1
    <2>. QED  BY <2>1, <2>2
  <1>8. ASSUME NEW t \in P
        PROVE  Peak(V, t) = PointPeak(W, lo, P, t)
    <2>. DEFINE S == {v[2] : v \in {w \in V : w[1] =< t}}
                R == {W[lo]} \cup {W[u] : u \in {p \in P : p =< t}}
    <2>1. ASSUME NEW x \in S
          PROVE  x \in R
      <3>1. PICK v \in V : v[1] =< t /\ x = v[2]
        OBVIOUS
      <3>2. PICK u \in {lo} \cup P : v = <<u, W[u]>>
        BY <1>6, <3>1
      <3>3. u =< t /\ x = W[u]
        BY <1>5, <3>1, <3>2
      <3>. QED  BY <3>2, <3>3
    <2>2. ASSUME NEW x \in R
          PROVE  x \in S
      <3>1. PICK u \in {lo} \cup P : u =< t /\ x = W[u]
        BY <1>1, <1>3
      <3>2. <<u, W[u]>> \in V
        BY <1>6, <3>1
      <3>3. <<u, W[u]>> \in {w \in V : w[1] =< t} /\ x = <<u, W[u]>>[2]
        BY <1>5, <3>1, <3>2
      <3>. QED  BY <3>3
    <2>3. S = R
      BY <2>1, <2>2
    <2>. QED  BY <2>3 DEF Peak, PointPeak
  <1>9. Losses(r, from, hi) = {<<0, 1>>} \cup
           {<<Peak(V, v[1]) - v[2], Peak(V, v[1])>> : v \in {w \in V : from =< w[1]}}
    BY DEF Losses, V
  <1>10. {<<Peak(V, v[1]) - v[2], Peak(V, v[1])>> : v \in {w \in V : from =< w[1]}}
           = {<<PointPeak(W, lo, P, t) - W[t], PointPeak(W, lo, P, t)>> : t \in P}
    <2>. DEFINE A(v) == <<Peak(V, v[1]) - v[2], Peak(V, v[1])>>
                B(t) == <<PointPeak(W, lo, P, t) - W[t], PointPeak(W, lo, P, t)>>
                U == {w \in V : from =< w[1]}
    <2>1. ASSUME NEW t \in P
          PROVE  <<t, W[t]>> \in U /\ A(<<t, W[t]>>) = B(t)
      BY <1>5, <1>7, <1>8
    <2>2. ASSUME NEW v \in U
          PROVE  \E t \in P : v = <<t, W[t]>>
      BY <1>7
    <2>. HIDE DEF A, B, U
    <2>3. \A v \in U : \E t \in P : A(v) = B(t)
      BY <2>1, <2>2
    <2>4. \A t \in P : \E v \in U : A(v) = B(t)
      BY <2>1
    <2>5. {A(v) : v \in U} = {B(t) : t \in P}
      BY <2>3, <2>4
    <2>. QED  BY <2>5 DEF A, B, U
  <1>11. Losses(r, from, hi) = PointLosses(W, lo, P)
    BY <1>9, <1>10 DEF PointLosses
  <1>. QED  BY <1>11 DEF W, P

LEMMA DrawdownHolds ==
    ASSUME OverviewInv, QuietOpenings
    PROVE  DrawdownIsTrue
  <1>. SUFFICES ASSUME NEW a \in Cached, NEW d \in Days
       PROVE  LET r == a.reconstruction
                  end == IF EndOf(d) = None THEN r.at ELSE EndOf(d)
                  from == end - DrawdownDays * Day
                  worth == [t \in from - 1 .. end |-> Worth(t)]
                  loss == RowDrawdown(a, d)
                  Highest(t, u) == \A v \in from - 1 .. u : worth[v] =< worth[t]
              IN  r # None /\ r.known >= r.at /\ end =< r.at /\ loss # None =>
                    /\ \A u \in DOMAIN worth : \A t \in from - 1 .. u : Highest(t, u) =>
                          (worth[t] - worth[u]) * loss[2] =< loss[1] * worth[t]
                    /\ \E u \in DOMAIN worth : \E t \in from - 1 .. u : Highest(t, u) /\
                          (worth[t] - worth[u]) * loss[2] = loss[1] * worth[t]
    BY DEF DrawdownIsTrue
  <1>. DEFINE r == a.reconstruction
              end == IF EndOf(d) = None THEN r.at ELSE EndOf(d)
              from == end - DrawdownDays * Day
              W == [t \in from - 1 .. end |-> Worth(t)]
              P == Points(r, from, end)
              loss == RowDrawdown(a, d)
  <1>1. ASSUME r # None, r.known >= r.at, end =< r.at, loss # None
        PROVE  /\ \A u \in from - 1 .. end : \A t \in from - 1 .. u :
                    Tops(W, from - 1, t, u) =>
                      (W[t] - W[u]) * loss[2] =< loss[1] * W[t]
               /\ \E u \in from - 1 .. end : \E t \in from - 1 .. u :
                    Tops(W, from - 1, t, u) /\
                      (W[t] - W[u]) * loss[2] = loss[1] * W[t]
    <2>1. Grounded(r)
      BY <1>1, CachedAreGrounded
    <2>2. r.at \in Int /\ Opening[r.slug] \in Int /\ Opening[r.slug] =< r.at
      BY <2>1, FirstIs DEF Grounded
    <2>3. end \in Int /\ from \in Int /\ from =< end
      <3>1. DrawdownDays * Day \in Nat
        BY OverviewAssumption
      <3>2. end \in Int
        <4>1. CASE EndOf(d) = None
          BY <2>2, <4>1
        <4>2. CASE EndOf(d) # None
          BY <4>2, OverviewAssumption DEF EndOf, Days
        <4>. QED  BY <4>1, <4>2
      <3>. HIDE DEF end
      <3>. QED  BY <3>1, <3>2
    <2>4. loss = Drawdown(r, end)
      BY <1>1 DEF RowDrawdown
    <2>12. end =< r.at
      BY <1>1
    <2>. HIDE DEF loss, end
    <2>5. /\ ~(from < Opening[r.slug]) /\ ~(HistoryEquity(r, from - 1) =< 0)
          /\ loss = CHOOSE worst \in Losses(r, from, end) :
                      \A other \in Losses(r, from, end) : ~Steeper(worst, other)
      BY <1>1, <2>4 DEF Drawdown
    <2>. HIDE DEF from, r
    <2>6. Opening[r.slug] =< from /\ HistoryEquity(r, from - 1) = Worth(from - 1)
      <3>1. Opening[r.slug] =< from /\ from - 1 \in Int
            /\ Opening[r.slug] - 1 =< from - 1 /\ from - 1 =< r.at
        BY <2>2, <2>3, <2>5, <2>12
      <3>. QED  BY <1>1, <2>1, <3>1, HistoryEquityIs
    <2>7. Worth(from - 1) > 0
      <3>1. from - 1 \in 0 .. MaxTime
        BY <2>1, <2>2, <2>3, <2>6, <2>12, FirstIs, SumsAre DEF Grounded
      <3>. QED  BY <2>5, <2>6, <3>1, WorthIs
    <2>8. Curve(W, from - 1, end, P)
      BY <1>1, <2>1, <2>3, <2>6, <2>7, <2>12, WindowIsCurve
    <2>9. Losses(r, from, end) = PointLosses(W, from - 1, P)
      BY <1>1, <2>1, <2>3, <2>6, <2>12, LossesAre
    <2>. HIDE DEF W, P
    <2>10. \E worst \in PointLosses(W, from - 1, P) :
             \A other \in PointLosses(W, from - 1, P) : ~Steeper(worst, other)
      BY <2>8, SteepestExists
    <2>11. /\ loss \in PointLosses(W, from - 1, P)
           /\ \A other \in PointLosses(W, from - 1, P) : ~Steeper(loss, other)
      BY <2>5, <2>9, <2>10
    <2>. QED  BY <2>8, <2>11, SteepestIsDrawdown
  <1>2. DOMAIN W = from - 1 .. end
    OBVIOUS
  <1>3. ASSUME r # None, r.known >= r.at, end =< r.at, loss # None
        PROVE  /\ \A u \in DOMAIN W : \A t \in from - 1 .. u :
                    (\A v \in from - 1 .. u : W[v] =< W[t]) =>
                      (W[t] - W[u]) * loss[2] =< loss[1] * W[t]
               /\ \E u \in DOMAIN W : \E t \in from - 1 .. u :
                    (\A v \in from - 1 .. u : W[v] =< W[t]) /\
                      (W[t] - W[u]) * loss[2] = loss[1] * W[t]
    <2>. HIDE DEF W, loss, from, end, r
    <2>. QED  BY <1>1, <1>2, <1>3 DEF Tops
  <1>. QED  BY <1>3

(***************************************************************************)
(* What the overview tells of the past agrees with the ledger.             *)
(***************************************************************************)
THEOREM HistoryHolds ==
    ASSUME QuietOpenings
    PROVE  Spec => []HistoryIsExact
  <1>1. OverviewInv => HistoryIsExact
    BY PastRowsHold, TodaysProfitHolds, DrawdownHolds, ListedDaysHold, MonitorHolds
    DEF HistoryIsExact
  <1>. QED  BY <1>1, OverviewStart, OverviewStep, PTL DEF Spec

-----------------------------------------------------------------------------
(***************************************************************************)
(* The turns of the histories, while nothing fails.  An account is due     *)
(* Retry after its last attempt; as long as it is passed over, every tick  *)
(* has served another account (Served).  They all differ, because an       *)
(* account that was served is not due again for Retry ticks, so the wait   *)
(* ends before all others were served once more.                           *)
(***************************************************************************)
Selected == IF followed THEN RiskFeeds ELSE Range(Slugs)
Tried(s) == IF s \in DOMAIN accounts THEN accounts[s].attempt ELSE 0
Since(s) == Larger(Start, Tried(s))

(* An account's history is not newer than the last attempt. *)
Seen(account, time) ==
    /\ account.attempt \in Nat /\ account.attempt =< time
    /\ account.attempt # 0 => Start =< account.attempt
    /\ account.monitor # None => account.monitor.at =< account.attempt

TurnPass ==
    /\ pass.began \in Int /\ pass.began =< now
    /\ pass.at # "asleep" =>
         /\ pass.listed = Selected /\ pass.todo \subseteq Selected
         /\ now - 1 =< pass.began /\ (~followed => pass.began = now)
    /\ pass.at = "await" =>
         /\ Start =< pass.time /\ pass.began =< pass.time
         /\ Seen(pass.account, pass.time)
         /\ pass.account.attempt = Tried(NextOf(pass.todo))

TurnReplay ==
    replay # None =>
      /\ replay.slug \in DOMAIN accounts
      /\ replay.anchor.at =< Tried(replay.slug)
      /\ IF followed THEN now - 1 =< Tried(replay.slug)
         ELSE Tried(replay.slug) = now

TurnShape ==
    /\ Start =< now /\ enabled = Selected
    /\ ~token => pass.at = "asleep" /\ accounts = <<>> /\ replay = None
    /\ TurnPass /\ TurnReplay
    /\ DOMAIN accounts \subseteq Selected
    /\ \A s \in DOMAIN accounts : Seen(accounts[s], now)

(* The pass of this tick has come to the account, which is not due then,   *)
(* or another one had the turn.                                            *)
Visited(s) == pass.began = now /\ (pass.at = "asleep" \/ s \notin pass.todo)
TurnTaken(s) ==
    \/ now - Since(s) < Retry
    \/ IF followed THEN now - 1 =< Tried(s) ELSE \E j \in Selected : Tried(j) = now
TurnsTaken == token => \A s \in Selected : Visited(s) => TurnTaken(s)

(* The accounts served in the ticks in which s was due. *)
Served(s) ==
    {j \in Selected : Since(s) + Retry =< Since(j) /\ Since(j) < now}
TurnsCounted ==
    token /\ ~followed =>
      \A s \in Selected : Since(s) + Retry =< now =>
         Cardinality(Served(s)) >= now - Since(s) - Retry

Turns == TurnShape /\ TurnsTaken /\ TurnsCounted
TurnInv == faults \in Nat /\ (faults = 0 => Turns)

LEMMA TurnNumbers ==
    /\ Start \in Nat /\ Retry \in Nat \ {0} /\ Len(Slugs) \in Nat \ {0}
    /\ Len(Slugs) =< Retry /\ DOMAIN Slugs = 1 .. Len(Slugs)
  BY FeedsAssumption, OverviewAssumption

LEMMA SelectedIs ==
    /\ IsFiniteSet(Range(Slugs)) /\ Cardinality(Range(Slugs)) =< Len(Slugs)
    /\ Selected \subseteq Range(Slugs)
  <1>1. Slugs \in Surjection(1 .. Len(Slugs), Range(Slugs))
    BY TurnNumbers, OverviewAssumption DEF Surjection, Range
  <1>2. IsFiniteSet(1 .. Len(Slugs)) /\ Cardinality(1 .. Len(Slugs)) = Len(Slugs)
    BY TurnNumbers, FS_Interval
  <1>3. Selected \subseteq Range(Slugs)
    BY OverviewAssumption DEF Selected
  <1>. QED  BY <1>1, <1>2, <1>3, FS_Surjection

(* Never all accounts are served before one that is due. *)
LEMMA ServedBound ==
    ASSUME NEW s \in Selected, Since(s) \in Int
    PROVE  /\ IsFiniteSet(Served(s)) /\ Cardinality(Served(s)) \in Nat
           /\ Cardinality(Served(s)) =< Len(Slugs) - 1
  <1>1. /\ IsFiniteSet(Range(Slugs)) /\ Cardinality(Range(Slugs)) =< Len(Slugs)
        /\ s \in Range(Slugs)
    BY SelectedIs
  <1>2. /\ IsFiniteSet(Range(Slugs) \ {s})
        /\ Cardinality(Range(Slugs) \ {s}) = Cardinality(Range(Slugs)) - 1
        /\ Cardinality(Range(Slugs)) \in Nat
    BY <1>1, FS_RemoveElement, FS_CardinalityType
  <1>3. s \notin Served(s)
    BY TurnNumbers DEF Served
  <1>4. Served(s) \in SUBSET (Range(Slugs) \ {s})
    BY <1>3, SelectedIs DEF Served
  <1>5. /\ IsFiniteSet(Served(s))
        /\ Cardinality(Served(s)) =< Cardinality(Range(Slugs) \ {s})
    BY <1>2, <1>4, FS_Subset
  <1>. QED  BY <1>1, <1>2, <1>5, TurnNumbers, FS_CardinalityType

(* Attempts are numbers, and none lies ahead. *)
LEMMA TriedType ==
    ASSUME TurnShape, now \in Nat, NEW s
    PROVE  /\ Tried(s) \in Nat /\ Tried(s) =< now
           /\ Tried(s) # 0 => Start =< Tried(s)
           /\ Since(s) \in Nat /\ Since(s) =< now /\ Start =< Since(s)
           /\ Tried(s) =< Since(s) /\ (Start < Since(s) => Tried(s) = Since(s))
  <1>1. Tried(s) \in Nat /\ Tried(s) =< now /\ (Tried(s) # 0 => Start =< Tried(s))
    BY DEF TurnShape, Tried, Seen
  <1>. QED  BY <1>1, TurnNumbers DEF Since, Larger, TurnShape

LEMMA TurnStart == Init => TurnInv
  <1>. SUFFICES ASSUME Init  PROVE TurnInv
    OBVIOUS
  <1>1. /\ now = Start /\ faults = 0 /\ replay = None /\ accounts = <<>>
        /\ pass = [at |-> "asleep", began |-> now - 1]
        /\ enabled = Selected
    BY DEF Init, FeedsInit, Selected
  <1>2. DOMAIN accounts = {} /\ pass.at = "asleep" /\ pass.began = now - 1
    BY <1>1
  <1>3. \A s : Tried(s) = 0 /\ Since(s) = Start
    BY <1>2, TurnNumbers DEF Tried, Since, Larger
  <1>4. TurnShape
    BY <1>1, <1>2, TurnNumbers DEF TurnShape, TurnPass, TurnReplay
  <1>5. TurnsTaken /\ TurnsCounted
    BY <1>1, <1>2, <1>3, TurnNumbers DEF TurnsTaken, Visited, TurnsCounted
  <1>. QED  BY <1>1, <1>4, <1>5 DEF TurnInv, Turns

(* What leaves the attempts alone leaves the count of turns alone. *)
LEMMA SameTurns ==
    ASSUME Turns, UNCHANGED <<now, token, followed>>,
           \A s : Tried(s)' = Tried(s)
    PROVE  /\ \A s : TurnTaken(s)' = TurnTaken(s)
           /\ TurnsCounted' /\ Selected' = Selected
           /\ \A s : Since(s)' = Since(s)
  <1>1. Selected' = Selected
    BY DEF Selected
  <1>2. \A s : Since(s)' = Since(s)
    BY DEF Since, Larger
  <1>3. \A s : Served(s)' = Served(s)
    BY <1>1, <1>2 DEF Served
  <1>4. \A s : TurnTaken(s)' = TurnTaken(s)
    BY <1>1, <1>2 DEF TurnTaken
  <1>. QED  BY <1>1, <1>2, <1>3, <1>4 DEF Turns, TurnsCounted

LEMMA BeginTurns ==
    ASSUME OverviewInv, Turns, BeginPass
    PROVE  Turns'
  <1>1. /\ pass'.at = "copy" /\ pass'.began = now /\ pass'.todo = enabled
        /\ pass'.listed = enabled /\ token
        /\ UNCHANGED <<now, token, followed, enabled, accounts, replay>>
    BY DEF BeginPass
  <1>2. \A s : Tried(s)' = Tried(s)
    BY <1>1 DEF Tried
  <1>3. /\ TurnsCounted' /\ Selected' = Selected
    BY <1>1, <1>2, SameTurns
  <1>4. now \in Nat /\ enabled = Selected
    BY DEF OverviewInv, FeedsShape, Turns, TurnShape
  <1>5. TurnPass'
    BY <1>1, <1>3, <1>4 DEF TurnPass
  <1>6. TurnReplay'
    BY <1>1, <1>2 DEF Turns, TurnShape, TurnReplay
  <1>7. \A s \in DOMAIN accounts' : Seen(accounts'[s], now')
    BY <1>1 DEF Turns, TurnShape
  <1>8. TurnShape'
    BY <1>1, <1>3, <1>5, <1>6, <1>7 DEF Turns, TurnShape
  <1>9. TurnsTaken'
    BY <1>1, <1>3, <1>4 DEF TurnsTaken, Visited
  <1>. QED  BY <1>3, <1>8, <1>9 DEF Turns

LEMMA CopyTurns ==
    ASSUME OverviewInv, Turns, CopyAccount
    PROVE  Turns'
  <1>. DEFINE s == NextOf(pass.todo)
              copy == IF s \in DOMAIN accounts THEN accounts[s] ELSE Unknown(s)
  <1>1. copy.attempt = Tried(s) /\ Seen(copy, now)
    <2>1. Seen(Unknown(s), now) /\ Unknown(s).attempt = 0
      BY DEF Unknown, Seen, OverviewInv, FeedsShape
    <2>. QED  BY <2>1 DEF Tried, Turns, TurnShape
  <1>2. /\ pass' = [at |-> "await", began |-> pass.began, todo |-> pass.todo,
                    listed |-> pass.listed, risks |-> pass.risks, time |-> now,
                    account |-> copy]
        /\ pass.at = "copy"
        /\ UNCHANGED <<now, token, followed, enabled, accounts, replay>>
    BY DEF CopyAccount
  <1>. HIDE DEF copy
  <1>3. /\ pass'.at = "await" /\ pass'.began = pass.began /\ pass'.time = now
        /\ pass'.account = copy /\ pass'.todo = pass.todo
        /\ pass'.listed = pass.listed /\ NextOf(pass.todo)' = s
    BY <1>2
  <1>4. \A x : Tried(x)' = Tried(x)
    BY <1>2 DEF Tried
  <1>5. /\ TurnsCounted' /\ Selected' = Selected
        /\ \A x : TurnTaken(x)' = TurnTaken(x)
    BY <1>2, <1>4, SameTurns
  <1>6. now \in Nat /\ Start =< now /\ TurnPass
    BY DEF OverviewInv, FeedsShape, Turns, TurnShape
  <1>7. Tried(NextOf(pass.todo))' = Tried(s)
    BY <1>2, <1>3 DEF Tried
  <1>8. TurnPass'
    BY <1>1, <1>2, <1>3, <1>5, <1>6, <1>7 DEF TurnPass
  <1>9. TurnReplay'
    BY <1>2, <1>4 DEF Turns, TurnShape, TurnReplay
  <1>10. \A x \in DOMAIN accounts' : Seen(accounts'[x], now')
    BY <1>2 DEF Turns, TurnShape
  <1>11. token
    BY <1>2 DEF Turns, TurnShape
  <1>12. TurnShape'
    BY <1>2, <1>5, <1>8, <1>9, <1>10, <1>11 DEF Turns, TurnShape
  <1>13. TurnsTaken'
    BY <1>2, <1>3, <1>5 DEF Turns, TurnsTaken, Visited
  <1>. QED  BY <1>5, <1>12, <1>13 DEF Turns

(* The account gets its turn when it is due and no replay runs.            *)
LEMMA PutTurns ==
    ASSUME OverviewInv, Turns, PutAccount, followed => OneFollowed
    PROVE  Turns'
  <1>. DEFINE old == pass.account
  <1>0. PICK s : s = NextOf(pass.todo)
    OBVIOUS
  <1>1. PICK answer \in Answers(s) :
          LET new == Refreshed(old, RiskFact(s, answer), answer)
              permit == replay = None /\ Due(old, pass.time)
          IN  /\ accounts' = [x \in DOMAIN accounts \cup {s} |->
                   IF x # s THEN accounts[x]
                   ELSE IF permit THEN [new EXCEPT !.attempt = pass.time] ELSE new]
              /\ replay' = IF permit
                   THEN [slug |-> s,
                         anchor |-> Anchor(RiskFact(s, answer), pass.time)]
                   ELSE replay
    BY <1>0 DEF PutAccount
  <1>. DEFINE risk == RiskFact(s, answer)
              new == Refreshed(old, risk, answer)
              permit == replay = None /\ Due(old, pass.time)
              put == accounts'[s]
  <1>2. /\ pass.at = "await" /\ AccountInv(s, old, now)
        /\ pass.todo # {} /\ pass.todo \subseteq Range(Slugs)
        /\ pass.time \in Int /\ pass.time =< now /\ now \in Nat
        /\ \A x \in RiskFeeds : Fact(pass.risks[x])
    BY <1>0 DEF PutAccount, OverviewInv, PassInv, FeedsShape
  <1>3. s \in pass.todo
    BY <1>0, <1>2, NextIsTodo
  <1>4. /\ risk # None => risk \in Int /\ risk =< pass.time
        /\ answer # None => Fact(answer.exposure)
    BY <1>2, <1>3, RiskIsFact
  <1>5. /\ pass' = [at |-> "copy", began |-> pass.began,
                    todo |-> pass.todo \ {s},
                    listed |-> pass.listed, risks |-> pass.risks]
        /\ UNCHANGED <<now, token, followed, enabled>>
    BY <1>0 DEF PutAccount
  <1>6. /\ Seen(old, pass.time) /\ old.attempt = Tried(s)
        /\ Start =< pass.time /\ pass.began =< pass.time
        /\ pass.began \in Int /\ now - 1 =< pass.began
        /\ pass.listed = Selected /\ pass.todo \subseteq Selected
        /\ ~followed => pass.began = now
    BY <1>0, <1>2 DEF Turns, TurnShape, TurnPass
  <1>7. token /\ TurnShape /\ Start =< now
    BY <1>2 DEF Turns, TurnShape
  <1>. HIDE DEF old
  <1>8. new.attempt = old.attempt /\ new.monitor = old.monitor
        /\ AccountInv(s, new, now)
    <2>1. AccountInv(s, new, now)
      BY <1>2, <1>4, RefreshedKeeps DEF Fact
    <2>2. "attempt" \in DOMAIN old /\ "monitor" \in DOMAIN old
      BY <1>2 DEF AccountInv
    <2>. QED  BY <2>1, <2>2 DEF Refreshed
  <1>9. /\ DOMAIN accounts' = DOMAIN accounts \cup {s}
        /\ \A x \in DOMAIN accounts : x # s => accounts'[x] = accounts[x]
        /\ put = IF permit THEN [new EXCEPT !.attempt = pass.time] ELSE new
        /\ replay' = IF permit
             THEN [slug |-> s, anchor |-> Anchor(risk, pass.time)] ELSE replay
    BY <1>1 DEF old
  <1>. HIDE DEF new, risk
  <1>10. /\ put.attempt = IF permit THEN pass.time ELSE old.attempt
         /\ put.monitor = old.monitor
    BY <1>8, <1>9 DEF AccountInv
  <1>. HIDE DEF put
  <1>11. Due(old, pass.time) <=> pass.time - old.attempt >= Retry
    <2>1. old.monitor # None =>
            /\ old.monitor.at \in Int /\ old.monitor.at =< old.attempt
      BY <1>2, <1>6 DEF AccountInv, History, Seen
    <2>2. old.attempt \in Nat
      BY <1>6 DEF Seen
    <2>. QED  BY <1>2, <2>1, <2>2, TurnNumbers DEF Due
  <1>12. /\ \A x : x # s => Tried(x)' = Tried(x)
         /\ Tried(s)' = IF permit THEN pass.time ELSE Tried(s)
    <2>1. Tried(s)' = put.attempt
      BY <1>9 DEF Tried, put
    <2>2. \A x : x # s => Tried(x)' = Tried(x)
      BY <1>9 DEF Tried
    <2>. QED  BY <1>6, <1>10, <2>1, <2>2
  <1>13. Selected' = Selected
    BY <1>5 DEF Selected
  <1>14. Seen(put, now)
    <2>1. old.monitor # None =>
            /\ old.monitor.at \in Int /\ old.monitor.at =< old.attempt
      BY <1>2, <1>6 DEF AccountInv, History, Seen
    <2>2. /\ old.attempt \in Nat /\ old.attempt =< pass.time
          /\ old.attempt # 0 => Start =< old.attempt
      BY <1>6 DEF Seen
    <2>. HIDE DEF permit
    <2>. QED  BY <1>2, <1>6, <1>10, <2>1, <2>2, TurnNumbers DEF Seen
  <1>15. pass'.at = "copy" /\ pass'.began = pass.began /\ pass'.listed = pass.listed
         /\ pass'.todo = pass.todo \ {s}
    BY <1>5
  <1>16. TurnPass'
    BY <1>2, <1>5, <1>6, <1>13, <1>15 DEF TurnPass
  <1>17. TurnReplay'
    <2>1. CASE permit
      <3>1. replay'.slug = s /\ replay'.anchor.at =< pass.time
        BY <1>2, <1>4, <1>9, <2>1 DEF Anchor
      <3>2. Tried(replay.slug)' = pass.time
        BY <1>12, <2>1, <3>1 DEF Tried
      <3>3. followed \/ pass.time = now
        BY <1>2, <1>6
      <3>4. replay'.slug \in DOMAIN accounts' /\ now - 1 =< pass.time
        BY <1>2, <1>6, <1>9, <3>1
      <3>. QED  BY <1>5, <3>1, <3>2, <3>3, <3>4 DEF TurnReplay
    <2>2. CASE ~permit
      <3>1. replay' = replay /\ \A x : Tried(x)' = Tried(x)
        BY <1>9, <1>12, <2>2
      <3>2. Tried(replay.slug)' = Tried(replay.slug)
        BY <3>1 DEF Tried
      <3>. QED
        BY <1>5, <1>7, <1>9, <3>1, <3>2 DEF TurnShape, TurnReplay
    <2>. QED  BY <2>1, <2>2
  <1>18. TurnShape'
    <2>1. DOMAIN accounts' \subseteq Selected
      BY <1>3, <1>6, <1>7, <1>9 DEF TurnShape
    <2>2. \A x \in DOMAIN accounts' : Seen(accounts'[x], now')
      BY <1>5, <1>7, <1>9, <1>14 DEF TurnShape, put
    <2>3. enabled' = Selected'
      BY <1>5, <1>7, <1>13 DEF TurnShape
    <2>. QED
      BY <1>5, <1>7, <1>13, <1>16, <1>17, <2>1, <2>2, <2>3 DEF TurnShape
  <1>19. Since(s) \in Nat /\ Tried(s) \in Nat /\ Tried(s) =< Since(s)
         /\ (Start < Since(s) => Tried(s) = Since(s))
    BY <1>2, <1>7, TriedType
  <1>20. /\ \A x : x # s => Since(x)' = Since(x)
         /\ Since(s)' = IF permit THEN pass.time ELSE Since(s)
    BY <1>2, <1>6, <1>12, TurnNumbers DEF Since, Larger
  <1>21. TurnsTaken'
    <2>. SUFFICES ASSUME NEW x \in Selected, pass.began = now,
                         x \notin pass.todo \ {s}
         PROVE  TurnTaken(x)'
      BY <1>5, <1>13, <1>15 DEF TurnsTaken, Visited
    <2>1. pass.time = now
      BY <1>2, <1>6
    <2>2. CASE permit
      <3>1. Tried(s)' = now
        BY <1>12, <2>1, <2>2
      <3>2. CASE ~followed
        BY <1>3, <1>5, <1>6, <1>13, <3>1, <3>2 DEF TurnTaken
      <3>3. CASE followed /\ x = s
        BY <1>2, <1>5, <3>1, <3>3 DEF TurnTaken
      <3>4. CASE followed /\ x # s
        <4>1. x \in RiskFeeds /\ s \in RiskFeeds
          BY <1>3, <1>6, <3>4 DEF Selected
        <4>. QED  BY <3>4, <4>1 DEF OneFollowed
      <3>. QED  BY <3>2, <3>3, <3>4
    <2>3. CASE ~permit
      <3>1. \A y : Tried(y)' = Tried(y)
        BY <1>12, <2>3
      <3>2. TurnTaken(x)' <=> TurnTaken(x)
        BY <1>5, <3>1, SameTurns
      <3>3. CASE x # s
        <4>1. Visited(x)
          BY <3>3 DEF Visited
        <4>. QED  BY <1>7, <3>2, <4>1 DEF Turns, TurnsTaken
      <3>4. CASE x = s /\ replay = None
        <4>1. now - Tried(s) < Retry
          BY <1>2, <1>6, <1>11, <1>19, <2>1, <2>3, <3>4, TurnNumbers
        <4>2. now - Since(s) < Retry
          BY <1>2, <1>19, <4>1, TurnNumbers
        <4>. QED  BY <3>2, <3>4, <4>2 DEF TurnTaken
      <3>5. CASE x = s /\ replay # None
        <4>1. replay.slug \in Selected
          BY <1>7, <3>5 DEF TurnShape, TurnReplay
        <4>2. followed => replay.slug = s
          BY <1>3, <1>6, <4>1 DEF Selected, OneFollowed
        <4>3. TurnTaken(s)
          BY <1>7, <3>5, <4>1, <4>2 DEF TurnShape, TurnReplay, TurnTaken
        <4>. QED  BY <3>2, <3>5, <4>3
      <3>. QED  BY <3>3, <3>4, <3>5
    <2>. QED  BY <2>2, <2>3
  <1>22. TurnsCounted'
    <2>. SUFFICES ASSUME ~followed, NEW x \in Selected,
                         Since(x)' + Retry =< now
         PROVE  Cardinality(Served(x)') >= now - Since(x)' - Retry
      BY <1>5, <1>13 DEF TurnsCounted
    <2>1. pass.time = now
      BY <1>2, <1>6
    <2>2. CASE ~permit
      <3>1. \A y : Tried(y)' = Tried(y)
        BY <1>12, <2>2
      <3>2. TurnsCounted'
        BY <1>5, <3>1, SameTurns
      <3>. QED  BY <1>5, <1>7, <1>13, <3>2 DEF TurnsCounted
    <2>3. CASE permit
      <3>1. x # s
        BY <1>2, <1>20, <2>1, <2>3, TurnNumbers
      <3>2. Since(x)' = Since(x) /\ Since(x) \in Nat /\ Start =< Since(x)
        BY <1>2, <1>7, <1>20, <3>1, TriedType
      <3>3. /\ Cardinality(Served(x)) >= now - Since(x) - Retry
            /\ Cardinality(Served(x)) \in Nat
            /\ Cardinality(Served(x)) < Retry
        BY <1>7, <3>2, ServedBound, TurnNumbers DEF Turns, TurnsCounted
      <3>4. s \notin Served(x)
        <4>. SUFFICES ASSUME Since(x) + Retry =< Since(s)  PROVE FALSE
          BY DEF Served
        <4>1. Tried(s) = Since(s)
          BY <1>19, <3>2, TurnNumbers
        <4>2. now - Since(s) >= Retry
          BY <1>6, <1>11, <2>1, <2>3, <4>1
        <4>. QED  BY <1>2, <1>19, <3>2, <3>3, <4>2, TurnNumbers
      <3>5. Served(x)' = Served(x)
        <4>1. ~(Since(s)' < now)
          BY <1>2, <1>20, <2>1, <2>3
        <4>. QED  BY <1>5, <1>13, <1>20, <3>2, <3>4, <4>1 DEF Served
      <3>. QED  BY <3>2, <3>3, <3>5
    <2>. QED  BY <2>2, <2>3
  <1>. QED  BY <1>18, <1>21, <1>22 DEF Turns

LEMMA EndPassTurns ==
    ASSUME OverviewInv, Turns, EndPass
    PROVE  Turns'
  <1>1. /\ pass.at = "copy" /\ pass.todo = {}
        /\ accounts' = [s \in DOMAIN accounts \cap pass.listed |-> accounts[s]]
        /\ pass' = [at |-> "asleep", began |-> pass.began]
        /\ UNCHANGED <<now, token, followed, enabled, replay>>
    BY DEF EndPass
  <1>2. pass'.at = "asleep" /\ pass'.began = pass.began
    BY <1>1
  <1>3. TurnShape /\ pass.listed = Selected /\ DOMAIN accounts \subseteq Selected
        /\ token
    BY <1>1 DEF Turns, TurnShape, TurnPass
  <1>4. accounts' = [s \in DOMAIN accounts |-> accounts[s]]
    <2>1. DOMAIN accounts \cap pass.listed = DOMAIN accounts
      BY <1>3
    <2>. QED  BY <1>1, <2>1
  <1>5. DOMAIN accounts' = DOMAIN accounts
        /\ \A s \in DOMAIN accounts : accounts'[s] = accounts[s]
    BY <1>4
  <1>6. \A s : Tried(s)' = Tried(s)
    BY <1>5 DEF Tried
  <1>7. /\ TurnsCounted' /\ Selected' = Selected
        /\ \A s : TurnTaken(s)' = TurnTaken(s)
    BY <1>1, <1>6, SameTurns
  <1>8. TurnPass'
    BY <1>1, <1>2, <1>3 DEF TurnShape, TurnPass
  <1>9. TurnReplay'
    <2>1. Tried(replay.slug)' = Tried(replay.slug)
      BY <1>1, <1>6 DEF Tried
    <2>. QED  BY <1>1, <1>3, <1>5, <2>1 DEF TurnShape, TurnReplay
  <1>10. TurnShape'
    BY <1>1, <1>3, <1>5, <1>7, <1>8, <1>9 DEF TurnShape
  <1>11. TurnsTaken'
    BY <1>1, <1>2, <1>7 DEF Turns, TurnsTaken, Visited
  <1>. QED  BY <1>7, <1>10, <1>11 DEF Turns

(* A replay writes its result and leaves the attempts alone. *)
LEMMA ReplayTurns ==
    ASSUME OverviewInv, Turns, EndReplay
    PROVE  Turns'
  <1>1. PICK s, at : s = replay.slug /\ at = replay.anchor.at
    OBVIOUS
  <1>. DEFINE r == [slug |-> s, at |-> at, equity |-> replay.anchor.equity,
                    known |-> now - delay]
              failed == [accounts[s] EXCEPT !.error = TRUE]
              replayed == Replayed(accounts[s], r)
  <1>2. /\ replay # None /\ replay' = None
        /\ \/ accounts' = accounts
           \/ accounts' = [accounts EXCEPT ![s] = failed]
           \/ accounts' = [accounts EXCEPT ![s] = replayed]
        /\ UNCHANGED <<now, token, followed, enabled, pass>>
    BY <1>1 DEF EndReplay
  <1>3. /\ s \in DOMAIN accounts /\ at =< Tried(s) /\ TurnShape
        /\ \A x \in DOMAIN accounts : Seen(accounts[x], now)
    BY <1>1, <1>2 DEF Turns, TurnShape, TurnReplay
  <1>4. AccountInv(s, accounts[s], now)
    BY <1>3 DEF OverviewInv
  <1>5. /\ failed.attempt = accounts[s].attempt
        /\ failed.monitor = accounts[s].monitor
        /\ replayed.attempt = accounts[s].attempt /\ replayed.monitor = r
    <2>1. DOMAIN accounts[s] = {"slug", "equity", "date", "exposure", "status",
                   "reconstruction", "monitor", "attempt", "error"}
      BY <1>4 DEF AccountInv
    <2>. HIDE DEF r
    <2>. QED  BY <2>1 DEF Replayed
  <1>6. Seen(failed, now) /\ Seen(replayed, now)
    <2>1. r.at = at /\ Tried(s) = accounts[s].attempt
      BY <1>3 DEF Tried
    <2>2. Seen(accounts[s], now)
      BY <1>3
    <2>. HIDE DEF failed, replayed, r
    <2>. QED  BY <1>3, <1>5, <2>1, <2>2 DEF Seen
  <1>. HIDE DEF failed, replayed
  <1>7. /\ DOMAIN accounts' = DOMAIN accounts
        /\ \A x \in DOMAIN accounts : /\ Seen(accounts'[x], now)
                                      /\ accounts'[x].attempt = accounts[x].attempt
    BY <1>2, <1>3, <1>5, <1>6
  <1>8. \A x : Tried(x)' = Tried(x)
    BY <1>7 DEF Tried
  <1>9. /\ TurnsCounted' /\ Selected' = Selected
        /\ \A x : TurnTaken(x)' = TurnTaken(x)
    BY <1>2, <1>8, SameTurns
  <1>10. TurnPass'
    <2>1. Tried(NextOf(pass.todo))' = Tried(NextOf(pass.todo))
      BY <1>2, <1>7 DEF Tried
    <2>. QED  BY <1>2, <1>3, <1>9, <2>1 DEF TurnShape, TurnPass
  <1>11. token
    BY <1>2 DEF Turns, TurnShape
  <1>12. TurnShape' /\ TurnReplay'
    BY <1>2, <1>3, <1>7, <1>9, <1>10, <1>11 DEF TurnShape, TurnReplay
  <1>13. TurnsTaken'
    BY <1>2, <1>9 DEF Turns, TurnsTaken, Visited
  <1>. QED  BY <1>9, <1>12, <1>13 DEF Turns

(* Whoever was passed over in this tick was passed over for another.       *)
LEMMA TickTurns ==
    ASSUME OverviewInv, Turns, Tick
    PROVE  Turns'
  <1>1. /\ now \in Nat /\ now' = now + 1 /\ replay = None
        /\ token => pass.began = now
        /\ followed \/ pass.at = "asleep"
        /\ UNCHANGED <<token, followed, enabled, pass, accounts, replay>>
    BY DEF Tick, overviewVars, OverviewInv, FeedsShape, Turns, TurnShape
  <1>2. TurnShape
    BY DEF Turns
  <1>3. \A s : Tried(s)' = Tried(s) /\ Since(s)' = Since(s)
    BY <1>1 DEF Tried, Since, Larger
  <1>4. Selected' = Selected
    BY <1>1 DEF Selected
  <1>5. TurnPass'
    <2>1. Tried(NextOf(pass.todo))' = Tried(NextOf(pass.todo))
      BY <1>1 DEF Tried
    <2>2. pass.began =< now' /\ (token => now' - 1 =< pass.began)
      BY <1>1, <1>2 DEF TurnShape, TurnPass
    <2>3. pass.at # "asleep" => token /\ followed
      BY <1>1, <1>2 DEF TurnShape
    <2>. QED  BY <1>1, <1>2, <1>4, <2>1, <2>2, <2>3 DEF TurnShape, TurnPass
  <1>6. \A s \in DOMAIN accounts' : Seen(accounts'[s], now')
    BY <1>1, <1>2 DEF TurnShape, Seen
  <1>7. TurnShape'
    BY <1>1, <1>2, <1>4, <1>5, <1>6, TurnNumbers DEF TurnShape, TurnReplay
  <1>8. TurnsTaken'
    BY <1>1 DEF TurnsTaken, Visited
  <1>9. TurnsCounted'
    <2>. SUFFICES ASSUME token, ~followed, NEW s \in Selected,
                         Since(s)' + Retry =< now'
         PROVE  Cardinality(Served(s)') >= now' - Since(s)' - Retry
      BY <1>1, <1>4 DEF TurnsCounted
    <2>0. Since(s) + Retry =< now + 1 /\ Since(s)' = Since(s) /\ now' = now + 1
      BY <1>1, <1>3
    <2>. DEFINE after == {j \in Selected : /\ Since(s) + Retry =< Since(j)
                                           /\ Since(j) < now + 1}
    <2>1. Served(s)' = after
      BY <1>1, <1>3, <1>4 DEF Served
    <2>2. \A j : Since(j) \in Nat /\ Since(j) =< now /\ Tried(j) =< Since(j)
                 /\ Tried(j) \in Nat
      BY <1>1, <1>2, TriedType
    <2>3. /\ IsFiniteSet(after) /\ Cardinality(after) \in Nat
      <3>1. after \in SUBSET Range(Slugs)
        BY SelectedIs
      <3>. QED  BY <3>1, SelectedIs, FS_Subset, FS_CardinalityType
    <2>4. CASE now < Since(s) + Retry
      <3>. HIDE DEF after
      <3>. QED  BY <1>1, <2>0, <2>1, <2>2, <2>3, <2>4, TurnNumbers
    <2>5. CASE Since(s) + Retry =< now
      <3>1. TurnTaken(s)
        BY <1>1 DEF Turns, TurnsTaken, Visited
      <3>2. PICK j \in Selected : Tried(j) = now
        BY <1>1, <2>2, <2>5, <3>1, TurnNumbers DEF TurnTaken
      <3>3. Since(j) = now
        BY <1>1, <2>2, <3>2
      <3>4. j \notin Served(s) /\ j \in after
        BY <1>1, <2>2, <2>5, <3>3, TurnNumbers DEF Served
      <3>5. Served(s) \cup {j} \in SUBSET after
        BY <1>1, <2>2, <3>4 DEF Served
      <3>6. IsFiniteSet(Served(s)) /\ Cardinality(Served(s)) \in Nat
        BY <2>2, ServedBound
      <3>7. Cardinality(Served(s) \cup {j}) = Cardinality(Served(s)) + 1
        BY <3>4, <3>6, FS_AddElement
      <3>8. Cardinality(Served(s) \cup {j}) =< Cardinality(after)
        BY <2>3, <3>5, FS_Subset
      <3>9. Cardinality(Served(s)) >= now - Since(s) - Retry
        BY <2>5 DEF Turns, TurnsCounted
      <3>. HIDE DEF after
      <3>. QED
        BY <1>1, <2>0, <2>1, <2>2, <2>3, <3>6, <3>7, <3>8, <3>9, TurnNumbers
    <2>. HIDE DEF after
    <2>. QED  BY <1>1, <2>2, <2>4, <2>5, TurnNumbers
  <1>. QED  BY <1>7, <1>8, <1>9 DEF Turns

LEMMA TurnStep ==
    ASSUME OverviewInv, TurnInv, [Next]_vars, OneFollowed
    PROVE  TurnInv'
  <1>1. faults \in Nat /\ faults' \in Nat /\ (faults' = 0 => faults = 0)
    BY DEF TurnInv, Next, vars, FeedsNext, Publish, ServiceEnds, ServiceStarts,
       Subscribe, ReceiveError, Drain, Fault, BeginPass, CopyAccount, PutAccount,
       EndPass, AbortPass, EndReplay, FailReplay, Toggle, Tick
  <1>. SUFFICES ASSUME faults' = 0, Turns  PROVE Turns'
    BY <1>1 DEF TurnInv
  <1>2. CASE UNCHANGED <<now, overviewVars>>
    <2>1. UNCHANGED <<now, token, followed, enabled, pass, accounts, replay>>
      BY <1>2 DEF overviewVars
    <2>2. \A s : Tried(s)' = Tried(s)
      BY <2>1 DEF Tried
    <2>3. /\ TurnsCounted' /\ Selected' = Selected
          /\ \A s : TurnTaken(s)' = TurnTaken(s)
      BY <2>1, <2>2, SameTurns
    <2>4. /\ Tried(NextOf(pass.todo))' = Tried(NextOf(pass.todo))
          /\ Tried(replay.slug)' = Tried(replay.slug)
      BY <2>1 DEF Tried
    <2>5. TurnPass' /\ TurnReplay'
      BY <2>1, <2>3, <2>4 DEF Turns, TurnShape, TurnPass, TurnReplay
    <2>6. TurnShape'
      BY <2>1, <2>3, <2>5 DEF Turns, TurnShape
    <2>7. TurnsTaken'
      BY <2>1, <2>3 DEF Turns, TurnsTaken, Visited
    <2>. QED  BY <2>3, <2>6, <2>7 DEF Turns
  <1>3. CASE FeedsNext /\ UNCHANGED overviewVars
    <2>1. now' = now
      BY <1>3 DEF FeedsNext, Publish, ServiceEnds, ServiceStarts, Subscribe,
         Drain, ReceiveError
    <2>. QED  BY <1>2, <1>3, <2>1
  <1>4. CASE UNCHANGED vars
    BY <1>2, <1>4 DEF vars
  <1>5. ~AbortPass /\ ~FailReplay /\ \A s \in Reachable : ~Toggle(s)
    BY <1>1 DEF AbortPass, FailReplay, Toggle, Fault
  <1>. QED
    BY <1>3, <1>4, <1>5, BeginTurns, CopyTurns, PutTurns, EndPassTurns,
       ReplayTurns, TickTurns DEF Next

(* A pass that has ended in this tick has come to every account. *)
LEMMA TurnsBound ==
    ASSUME OverviewInv, TurnInv
    PROVE  HistoriesTakeTurns
  <1>. SUFFICES ASSUME pass.at = "asleep", pass.began = now, faults = 0,
                       NEW a \in Cached
       PROVE  now - Larger(Start, a.attempt) =< Retry + Len(Slugs) - 1
    BY DEF HistoriesTakeTurns
  <1>1. Turns /\ TurnShape
    BY DEF TurnInv, Turns
  <1>2. PICK s \in DOMAIN accounts : a = accounts[s]
    BY DEF Cached
  <1>3. s \in Selected /\ Larger(Start, a.attempt) = Since(s) /\ token
    BY <1>1, <1>2 DEF TurnShape, Since, Tried
  <1>4. /\ now \in Nat /\ Since(s) \in Nat /\ Tried(s) \in Nat
        /\ Tried(s) =< Since(s)
    BY <1>1, TriedType DEF OverviewInv, FeedsShape
  <1>5. TurnTaken(s)
    BY <1>1, <1>3 DEF Turns, TurnsTaken, Visited
  <1>6. CASE followed
    BY <1>3, <1>4, <1>5, <1>6, TurnNumbers DEF TurnTaken
  <1>7. CASE ~followed /\ Since(s) + Retry =< now
    <2>1. Cardinality(Served(s)) >= now - Since(s) - Retry
      BY <1>1, <1>3, <1>7 DEF Turns, TurnsCounted
    <2>2. Cardinality(Served(s)) \in Nat /\ Cardinality(Served(s)) =< Len(Slugs) - 1
      BY <1>3, <1>4, ServedBound
    <2>. QED  BY <1>3, <1>4, <2>1, <2>2, TurnNumbers
  <1>8. CASE now < Since(s) + Retry
    BY <1>3, <1>4, <1>8, TurnNumbers
  <1>. QED  BY <1>4, <1>6, <1>7, <1>8, TurnNumbers

(***************************************************************************)
(* While nothing fails, every history is tried again within Retry and one  *)
(* tick for each other account, although only one replay runs at a time,   *)
(* accounts are visited in the same order in every pass, and the result of *)
(* a replay may be lost to a copy (refresh, history_gate).                 *)
(***************************************************************************)
THEOREM TurnsAreTaken ==
    ASSUME OneFollowed  PROVE  Spec => []HistoriesTakeTurns
  <1>1. Init => OverviewInv /\ TurnInv
    BY OverviewStart, TurnStart
  <1>2. OverviewInv /\ TurnInv /\ [Next]_vars => (OverviewInv /\ TurnInv)'
    BY OverviewStep, TurnStep
  <1>3. OverviewInv /\ TurnInv => HistoriesTakeTurns
    BY TurnsBound
  <1>. QED  BY <1>1, <1>2, <1>3, PTL DEF Spec
=============================================================================
