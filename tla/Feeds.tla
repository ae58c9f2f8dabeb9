-------------------------------- MODULE Feeds --------------------------------
(***************************************************************************)
(* The caches the server fills from shared-memory services: account risks  *)
(* (src/src/account_risk.rs) and mark prices (src/src/mark_prices.rs).     *)
(* One thread per cache polls its feeds: it subscribes again when it has   *)
(* no subscriber, drains what arrived, and drops the subscriber on a       *)
(* receive error.  A new subscriber first receives the service's recent    *)
(* samples again.  A sample stands for the fact measured at its time; one  *)
(* that does not decode changes nothing and is left out.                   *)
(***************************************************************************)
EXTENDS Integers, Sequences, FiniteSets, SequencesExt, FiniteSetsExt

CONSTANTS
    RiskFeeds,   \* strategies with an account risk feed
    MarkFeeds,   \* exchanges with a derivatives feed
    Bootstrapped,\* exchanges whose marks are first read over REST
    Recent,      \* bound: samples a service keeps for new subscribers
    StaleAfter,  \* STALE_AFTER_MS
    Start,       \* the time the server starts
    MaxTime,     \* bound: clock
    MaxFaults,   \* bound: faults of every kind
    None

ASSUME FeedsAssumption ==
    /\ RiskFeeds \cap MarkFeeds = {} /\ MarkFeeds \subseteq Bootstrapped
    /\ Recent \in Nat /\ StaleAfter \in Nat
    /\ Start \in Nat /\ MaxTime \in Nat /\ MaxFaults \in Nat
    /\ None \notin Int /\ None \notin [ts : Int, received : Int]

VARIABLES
    now, faults,
    up,         \* services that exist
    service,    \* [feed -> its recent samples]
    subscribed, \* feeds with a subscriber
    queue,      \* [feed -> samples its subscriber has not received]
    connected,  \* CacheState::connected: strategies
    readings    \* [feed or bootstrapped exchange -> newest reading or None]

feedVars == <<up, service, subscribed, queue, connected, readings>>

Feeds == RiskFeeds \cup MarkFeeds
Fault == faults < MaxFaults /\ faults' = faults + 1

(* The exchanges whose REST marks could be read and had a usable row. *)
Fetched == SUBSET Bootstrapped

(* bootstrap_rest, awaited before the listener starts: a REST mark has     *)
(* exchange time 0, so any sample of the feed replaces it.                 *)
Bootstrap(fetched) ==
    readings = [f \in Feeds \cup Bootstrapped |->
                  IF f \in fetched THEN [ts |-> 0, received |-> now] ELSE None]

FeedsInit ==
    /\ now = Start /\ faults = 0
    /\ up \subseteq Feeds /\ service = [f \in Feeds |-> <<>>]
    /\ subscribed = {} /\ queue = [f \in Feeds |-> <<>>]
    /\ connected = {}
    /\ \E fetched \in Fetched : Bootstrap(fetched)

Newest(samples) ==
    IF Len(samples) =< Recent THEN samples ELSE Tail(samples)

(* A publisher measures and sends; it sends at most once in a tick. *)
Publish(f) ==
    /\ f \in up
    /\ \A ts \in Range(service[f]) : ts < now
    /\ service' = [service EXCEPT ![f] = Newest(Append(@, now))]
    /\ queue' = IF f \in subscribed THEN [queue EXCEPT ![f] = Append(@, now)]
                ELSE queue
    /\ UNCHANGED <<now, faults, up, subscribed, connected, readings>>

(* A publisher ends and takes its service along, or starts a new one. *)
ServiceEnds(f) ==
    /\ f \in up /\ Fault
    /\ up' = up \ {f}
    /\ service' = [service EXCEPT ![f] = <<>>]
    /\ UNCHANGED <<now, subscribed, queue, connected, readings>>

ServiceStarts(f) ==
    /\ f \notin up
    /\ up' = up \cup {f}
    /\ UNCHANGED <<now, faults, service, subscribed, queue, connected, readings>>

(* ensure_subscriber.  Opening a service that does not exist changes       *)
(* nothing: the next try is IPC_RECONNECT_INTERVAL later.                  *)
Subscribe(f) ==
    /\ f \notin subscribed /\ f \in up
    /\ subscribed' = subscribed \cup {f}
    /\ queue' = [queue EXCEPT ![f] = service[f]]
    /\ connected' = connected \cup ({f} \cap RiskFeeds)
    /\ UNCHANGED <<now, faults, up, service, readings>>

(* update: an older fact never replaces a newer one.  Mutant: it does. *)
UpdatedUnordered(reading, ts, received) == [ts |-> ts, received |-> received]
Updated(reading, ts, received) ==
    IF reading # None /\ reading.ts > ts THEN reading
    ELSE [ts |-> ts, received |-> received]

(* drain: the next sample that arrived. *)
Drain(f) ==
    /\ f \in subscribed /\ queue[f] # <<>>
    /\ readings' = [readings EXCEPT ![f] = Updated(@, Head(queue[f]), now)]
    /\ queue' = [queue EXCEPT ![f] = Tail(@)]
    /\ UNCHANGED <<now, faults, up, service, subscribed, connected>>

(* drain, a receive error: the subscriber and what it holds are dropped.   *)
ReceiveError(f) ==
    /\ f \in subscribed /\ Fault
    /\ subscribed' = subscribed \ {f}
    /\ queue' = [queue EXCEPT ![f] = <<>>]
    /\ connected' = connected \ {f}
    /\ UNCHANGED <<now, up, service, readings>>

FeedsNext ==
    \E f \in Feeds :
        \/ Publish(f)
        \/ ServiceEnds(f)
        \/ ServiceStarts(f)
        \/ Subscribe(f)
        \/ Drain(f)
        \/ ReceiveError(f)

(* AccountRiskCache::snapshots, of one strategy. *)
RiskStatus(f) ==
    IF f \notin connected THEN "unavailable"
    ELSE IF readings[f] = None THEN "waiting"
    ELSE IF now - readings[f].received > StaleAfter THEN "stale"
    ELSE "live"
-----------------------------------------------------------------------------
(* A cached risk or mark never goes back to an older fact, although a new  *)
(* subscriber receives the recent samples of its service again             *)
(* (AccountRiskCache::update, MarkPriceCache::update).                     *)
ReadingsNeverGoBack ==
    [][\A f \in DOMAIN readings :
         readings[f] # None =>
           readings'[f] # None /\ readings'[f].ts >= readings[f].ts]_readings
=============================================================================
