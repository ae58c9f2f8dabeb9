------------------------------- MODULE Server -------------------------------
(***************************************************************************)
(* The API server (src/src/server.rs): beside the accounts, the handlers   *)
(* that change state of a strategy.  POST /api/snapshots/sync stores what  *)
(* the strategies' snapshot services return; PUT and DELETE of the initial *)
(* snapshot choose where PnL starts; POST /api/fee-rates/{slug}/sync runs  *)
(* the sync_fee_rates program; GET pnl reads the initial snapshot and then *)
(* the trades after it.  Clients disconnect and the server restarts        *)
(* between any two steps.                                                  *)
(*                                                                         *)
(* ensure_admin and the visible slugs are left to Accounts: a request here *)
(* is one that passed them.                                                *)
(***************************************************************************)
EXTENDS Accounts, Sequences

CONSTANTS
    Start,         \* [slug -> strategy_envs.st_ms]
    Priced,        \* <<slug, time>> whose snapshot has priced positions
    Markets,       \* [slug -> markets sync_fee_rates asks the exchange for]
    Symbols,       \* what may have been traded of late
    EmptyAnswers,  \* slugs whose exchange may answer without a rate: Bitget
    MaxProcesses   \* bound: sync_fee_rates processes

ASSUME ServerAssumption ==
    /\ Start \in [Slugs -> Nat] /\ MaxProcesses \in Nat
    /\ DOMAIN Markets = Slugs /\ EmptyAnswers \subseteq Slugs
    /\ Priced \subseteq Slugs \X (1 .. MaxTime)

VARIABLES
    snapshots,     \* strategy_snapshots: [slug -> times with a row]
    initial,       \* strategy_initial_snapshots: [slug -> time or None]
    snapshotSync,  \* AppState::snapshot_sync: the task that holds the mutex
    feeRateSyncs,  \* AppState::fee_rate_syncs: slugs
    processes,     \* sync_fee_rates processes, in the order they started
    lifetime,      \* starts of the server
    feeRates,      \* [slug -> rows of trading_fee_rates]
    answers,       \* history: GET pnl answers
    unrated        \* history: [slug -> markets for which the run stored last
                   \*           got an answer, but no rate]

strategyVars == <<snapshots, initial, feeRateSyncs, processes, lifetime,
                  feeRates, answers, unrated>>
serverVars == <<vars, snapshotSync, strategyVars>>

ServerInit ==
    /\ Init
    /\ snapshots = [s \in Slugs |-> {}]
    /\ initial = [s \in Slugs |-> None]
    /\ snapshotSync = None
    /\ feeRateSyncs = {}
    /\ processes = <<>>
    /\ lifetime = 1
    /\ feeRates = [s \in Slugs |-> {}]
    /\ answers = {}
    /\ unrated = [s \in Slugs |-> {}]

Accept(t, kind, task) ==
    /\ At(t, "idle") /\ requests < MaxRequests /\ kind \in offered
    /\ requests' = requests + 1
    /\ tasks' = [tasks EXCEPT ![t] = task]

accounts == <<now, drops, offered, users, usedIds, sessions, issued, grants,
              replaced, crossed>>
-----------------------------------------------------------------------------
(* sync_snapshots.  One request per strategy runs at a time; each answer is
   stored when it is joined, in the order of arrival. *)

BeginSnapshotSync(t) ==
    /\ IF snapshotSync = None
       THEN /\ Accept(t, "snapshots", [pc |-> "snapshots", pending |-> Slugs,
                                       fetched |-> {}])
            /\ snapshotSync' = t
       ELSE Accept(t, "snapshots", Idle) /\ UNCHANGED snapshotSync
    /\ UNCHANGED <<accounts, strategyVars>>

(* The service answers with a snapshot it took at some time, or fails. *)
FetchSnapshot(t, s) ==
    /\ At(t, "snapshots") /\ s \in tasks[t].pending
    /\ \E fetched \in {{}} \cup {{<<s, ts>>} : ts \in 1 .. now} :
          tasks' = [tasks EXCEPT ![t].pending = @ \ {s},
                                 ![t].fetched = @ \cup fetched]
    /\ UNCHANGED <<accounts, requests, snapshotSync, strategyVars>>

StoreSnapshot(t, s, ts) ==
    /\ At(t, "snapshots") /\ <<s, ts>> \in tasks[t].fetched
    /\ tasks' = [tasks EXCEPT ![t].fetched = @ \ {<<s, ts>>}]
    /\ snapshots' = [snapshots EXCEPT ![s] = @ \cup {ts}]
    /\ UNCHANGED <<accounts, requests, snapshotSync, initial, feeRateSyncs,
                   processes, lifetime, feeRates, answers, unrated>>

EndSnapshotSync(t) ==
    /\ At(t, "snapshots") /\ tasks[t].pending = {} /\ tasks[t].fetched = {}
    /\ Finish(t)
    /\ snapshotSync' = None
    /\ UNCHANGED <<accounts, requests, strategyVars>>
-----------------------------------------------------------------------------
(* The initial snapshot. *)

Selectable(s, ts) ==
    /\ ts >= Start[s]
    /\ ts \in snapshots[s]
    /\ <<s, ts>> \in Priced

(* set_initial_snapshot: the checks, then the upsert. *)
CheckInitial(t, s, ts) ==
    /\ Accept(t, "initial", IF Selectable(s, ts)
                            THEN [pc |-> "select", slug |-> s, ts |-> ts]
                            ELSE Idle)
    /\ UNCHANGED <<accounts, snapshotSync, strategyVars>>

SelectInitial(t) ==
    /\ At(t, "select")
    /\ initial' = [initial EXCEPT ![tasks[t].slug] = tasks[t].ts]
    /\ Finish(t)
    /\ UNCHANGED <<accounts, requests, snapshotSync, snapshots, feeRateSyncs,
                   processes, lifetime, feeRates, answers, unrated>>

ClearInitial(t, s) ==
    /\ Accept(t, "initial", Idle)
    /\ initial' = [initial EXCEPT ![s] = None]
    /\ UNCHANGED <<accounts, snapshotSync, snapshots, feeRateSyncs, processes,
                   lifetime, feeRates, answers, unrated>>

(* get_strategy_pnl: the base is read first, the trades several awaits on. *)
BeginPnl(t, s) ==
    /\ Accept(t, "pnl", [pc |-> "pnl", slug |-> s, base |-> initial[s]])
    /\ UNCHANGED <<accounts, snapshotSync, strategyVars>>

(* mutant: the start of the trades follows the selection as it is now. *)
LoadStartNow(t) ==
    LET s == tasks[t].slug
    IN  IF initial[s] = None THEN Start[s] ELSE initial[s] + 1
LoadStart(t) ==
    LET s == tasks[t].slug
    IN  IF tasks[t].base = None THEN Start[s] ELSE tasks[t].base + 1

AnswerPnl(t) ==
    /\ At(t, "pnl")
    /\ answers' = answers \cup
         {[slug |-> tasks[t].slug, base |-> tasks[t].base, from |-> LoadStart(t)]}
    /\ Finish(t)
    /\ UNCHANGED <<accounts, requests, snapshotSync, snapshots, initial,
                   feeRateSyncs, processes, lifetime, feeRates, unrated>>
-----------------------------------------------------------------------------
(* Fee rates.  The handler waits for a process that a blocking thread runs;
   neither ends with the handler. *)

NoAnswer == [answered |-> {}, rates |-> {}]

BeginFeeSync(t, s) ==
    /\ IF s \in feeRateSyncs
       THEN Accept(t, "fees", Idle) /\ UNCHANGED <<feeRateSyncs, processes>>
       ELSE /\ Len(processes) < MaxProcesses
            /\ Accept(t, "fees", [pc |-> "fees", slug |-> s,
                                  process |-> Len(processes) + 1])
            /\ feeRateSyncs' = feeRateSyncs \cup {s}
            /\ processes' = Append(processes,
                 [slug |-> s, state |-> "fetch", answer |-> NoAnswer,
                  lifetime |-> lifetime])
    /\ UNCHANGED <<accounts, snapshotSync, snapshots, initial, lifetime,
                   feeRates, answers, unrated>>

(***************************************************************************)
(* The markets of which some symbol was answered, and the rates in these   *)
(* answers; a symbol that fails is skipped.  normalize_bitget makes a      *)
(* success with no rate out of an empty list, the others an error.         *)
(***************************************************************************)
Rated(rates) == {rate.market : rate \in rates}
Answers(s) ==
    {answer \in [answered : SUBSET Markets[s],
                 rates : SUBSET [market : Markets[s], symbol : Symbols]] :
        /\ Rated(answer.rates) \subseteq answer.answered
        /\ s \in EmptyAnswers \/ Rated(answer.rates) = answer.answered}

(* mutant: a market without any answer goes unnoticed. *)
CompleteIfAny(s, answer) == answer.rates # {}
Complete(s, answer) == answer.answered = Markets[s] /\ answer.rates # {}

(* sync_strategy: a market without a single success fails the run. *)
FetchRates(p) ==
    LET s == processes[p].slug
    IN  /\ processes[p].state = "fetch"
        /\ \E answer \in Answers(s) :
              processes' = [processes EXCEPT ![p] =
                 IF Complete(s, answer)
                 THEN [@ EXCEPT !.answer = answer, !.state = "store"]
                 ELSE [@ EXCEPT !.state = "exited"]]
        /\ UNCHANGED <<vars, snapshotSync, snapshots, initial, feeRateSyncs,
                       lifetime, feeRates, answers, unrated>>

(* store_trading_fee_rates: one transaction, one fetched_at; the rates of a
   run take effect at its own time, so no row of an earlier run is touched. *)
StoredRates(s, rates) ==
    LET fetchedAt == Cardinality({row.fetchedAt : row \in feeRates[s]}) + 1
    IN  feeRates[s] \cup
          {[market |-> rate.market, symbol |-> rate.symbol,
            fetchedAt |-> fetchedAt] : rate \in rates}

StoreRates(p) ==
    LET s == processes[p].slug
        answer == processes[p].answer
    IN  /\ processes[p].state = "store"
        /\ feeRates' = [feeRates EXCEPT ![s] = StoredRates(s, answer.rates)]
        /\ unrated' =
              [unrated EXCEPT ![s] = answer.answered \ Rated(answer.rates)]
        /\ processes' = [processes EXCEPT ![p] =
                           [@ EXCEPT !.state = "exited", !.answer = NoAnswer]]
        /\ UNCHANGED <<vars, snapshotSync, snapshots, initial, feeRateSyncs,
                       lifetime, answers>>

EndFeeSync(t) ==
    /\ At(t, "fees") /\ processes[tasks[t].process].state = "exited"
    /\ feeRateSyncs' = feeRateSyncs \ {tasks[t].slug}
    /\ Finish(t)
    /\ UNCHANGED <<accounts, requests, snapshotSync, snapshots, initial,
                   processes, lifetime, feeRates, answers, unrated>>

(* load_latest_fee_rates *)
LatestRates(s) ==
    {row \in feeRates[s] : \A other \in feeRates[s] :
                              other.fetchedAt =< row.fetchedAt}
-----------------------------------------------------------------------------
(* mutant: the guards end with the handler. *)
SyncsAfterDropped ==
    feeRateSyncs \ {tasks[t].slug : t \in {u \in Tasks : At(u, "fees")
                                                  /\ tasks'[u].pc = "idle"}}
(* What is left when a handler is dropped: the mutex guard goes with it, the
   slug of a fee-rate sync stays. *)
SyncsAfter == feeRateSyncs
LockAfter ==
    IF snapshotSync # None /\ tasks'[snapshotSync].pc = "idle" THEN None
    ELSE snapshotSync

AccountsStep ==
    /\ AccountsNext
    /\ snapshotSync' = LockAfter
    /\ feeRateSyncs' = SyncsAfter
    /\ UNCHANGED <<snapshots, initial, processes, lifetime, feeRates, answers,
                   unrated>>

(* The server is killed and started again: its memory goes, the processes it
   started run on. *)
Restart ==
    /\ drops < MaxDrops /\ drops' = drops + 1
    /\ tasks' = [t \in Tasks |-> Idle]
    /\ snapshotSync' = None /\ feeRateSyncs' = {}
    /\ lifetime' = lifetime + 1
    /\ UNCHANGED <<now, requests, offered, users, usedIds, sessions, issued,
                   grants, replaced, crossed, snapshots, initial, processes,
                   feeRates, answers, unrated>>

ServerNext ==
    \/ AccountsStep
    \/ Restart
    \/ \E t \in Tasks :
         \/ BeginSnapshotSync(t) \/ EndSnapshotSync(t)
         \/ \E s \in Slugs : FetchSnapshot(t, s)
         \/ \E s \in Slugs, ts \in 1 .. MaxTime : StoreSnapshot(t, s, ts)
         \/ \E s \in Slugs, ts \in 1 .. MaxTime : CheckInitial(t, s, ts)
         \/ SelectInitial(t) \/ AnswerPnl(t)
         \/ \E s \in Slugs : ClearInitial(t, s) \/ BeginPnl(t, s)
                                \/ BeginFeeSync(t, s)
         \/ EndFeeSync(t)
    \/ \E p \in DOMAIN processes : FetchRates(p) \/ StoreRates(p)

ServerSpec == ServerInit /\ [][ServerNext]_serverVars
-----------------------------------------------------------------------------
(* Two sync_fee_rates processes of one strategy never run at the same time on
   behalf of one server, although clients leave before they end. *)
OneFeeSyncProcess ==
    \A p, q \in DOMAIN processes :
       /\ processes[p].slug = processes[q].slug
       /\ processes[p].lifetime = processes[q].lifetime
       /\ processes[p].state # "exited" /\ processes[q].state # "exited"
       => p = q

(* A PnL answer never misses a trade between its base and its first trade nor
   counts one twice, although the selection moves while it is computed; and
   its base has positions with a price. *)
PnlStartsAtBase ==
    \A a \in answers :
       IF a.base = None THEN a.from = Start[a.slug]
       ELSE /\ a.from = a.base + 1
            /\ a.base >= Start[a.slug]
            /\ a.base \in snapshots[a.slug] /\ <<a.slug, a.base>> \in Priced

(***************************************************************************)
(* The fee rates shown are those of one run that got an answer for every   *)
(* market, whatever runs failed in part or overlapped across a restart:    *)
(* each market has a rate, unless the exchange answered without one.       *)
(***************************************************************************)
LatestRatesComplete ==
    \A s \in Slugs : feeRates[s] # {} =>
       \A m \in Markets[s] :
          \/ \E row \in LatestRates(s) : row.market = m
          \/ s \in EmptyAnswers /\ m \in unrated[s]
=============================================================================
