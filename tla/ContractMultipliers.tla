------------------------- MODULE ContractMultipliers -------------------------
(***************************************************************************)
(* Contract multipliers (src/src/contract_multipliers.rs): at the start    *)
(* and after every UTC midnight a cycle reads the contracts of Gate and    *)
(* OKX, one after the other, and stores them as of the day the cycle       *)
(* began; PnL looks up the multiplier of a trade's time.  The server may   *)
(* restart at any moment.  A day is DayLength ticks.                       *)
(***************************************************************************)
EXTENDS Integers, Sequences, FiniteSets, SequencesExt, FiniteSetsExt, Absent

CONSTANTS
    Exchanges,    \* in the order of refresh_cycle
    Instruments,  \* contracts an exchange may list, one per symbol
    Multipliers,  \* multipliers a contract may have
    DayLength,    \* a UTC day, in ticks
    CycleEnd,     \* bound: clock
    MaxChanges,   \* bound: changes of a listing
    MaxOutages    \* bound: refreshes that fail and restarts

ASSUME MultiplierAssumption ==
    /\ DayLength \in Nat \ {0} /\ CycleEnd \in Nat
    /\ MaxChanges \in Nat /\ MaxOutages \in Nat
    /\ Multipliers \subseteq Nat \ {0}
    /\ Exchanges \in Seq(Range(Exchanges))

VARIABLES
    time,
    listed,   \* [exchange -> [instrument -> multiplier or None]]
    truth,    \* history: listed at each tick
    stored,   \* contract_multipliers
    fetched,  \* history: when the multiplier of a stored row was read
    cycle,    \* the refresh under way, None while asleep
    wake,     \* when the loop wakes
    changed,  \* history: <<exchange, instrument, time>> of its changes
    outages

multiplierVars ==
    <<time, listed, truth, stored, fetched, cycle, wake, changed,
      outages>>

Exchange == Range(Exchanges)
DayStart(t) == t - (t % DayLength)
NextMidnight(t) == DayStart(t) + DayLength

-----------------------------------------------------------------------------
(* Lookup: ContractMultiplierBook of the rows stored now. *)

Effective(exchange, instrument) ==
    {at \in 0 .. time : <<exchange, instrument, at>> \in DOMAIN stored}

(* Mutant of SnapshotFor: a snapshot counts from the next moment. *)
SnapshotBefore(effective, ts) ==
    LET past == {at \in effective : at < ts}
    IN IF past = {} THEN Min(effective) ELSE Max(past)

(* The last snapshot not after the trade, else the first. *)
SnapshotFor(effective, ts) ==
    LET past == {at \in effective : at =< ts}
    IN IF past = {} THEN Min(effective) ELSE Max(past)

(* multiplier_at, None for its error *)
MultiplierAt(exchange, instrument, ts) ==
    LET effective == Effective(exchange, instrument)
    IN IF effective = {} THEN None
       ELSE stored[<<exchange, instrument, SnapshotFor(effective, ts)>>]

-----------------------------------------------------------------------------
(* The refresh loop. *)

BeginAt(t) ==
    [effectiveAt |-> DayStart(t), begun |-> t, next |-> 1,
     contracts |-> None, at |-> t]

MultipliersInit ==
    /\ time = 0
    /\ listed = [e \in Exchange |-> [i \in Instruments |-> Min(Multipliers)]]
    /\ truth = [t \in {0} |-> listed]
    /\ stored = <<>> /\ fetched = <<>>
    /\ cycle = BeginAt(0) /\ wake = 0
    /\ changed = {} /\ outages = 0

BeginCycle ==
    /\ cycle = None /\ wake =< time
    /\ cycle' = BeginAt(time)
    /\ UNCHANGED <<time, listed, truth, stored, fetched, wake, changed, outages>>

(* fetch and parse: a listing without supported contracts is an error. *)
FetchContracts ==
    /\ cycle # None /\ cycle.next =< Len(Exchanges) /\ cycle.contracts = None
    /\ \E i \in Instruments : listed[Exchanges[cycle.next]][i] # None
    /\ cycle' = [cycle EXCEPT !.contracts = listed[Exchanges[cycle.next]],
                              !.at = time]
    /\ UNCHANGED <<time, listed, truth, stored, fetched, wake, changed, outages>>

(* Mutant of Rows: a cycle corrects the day before, too. *)
RowsOfTheDayBefore(exchange, contracts, effectiveAt) ==
    {<<exchange, i, effectiveAt - 1>> : i \in {j \in Instruments : contracts[j] # None}}

Rows(exchange, contracts, effectiveAt) ==
    {<<exchange, i, effectiveAt>> : i \in {j \in Instruments : contracts[j] # None}}

(* upsert_specs, one transaction *)
StoreContracts ==
    /\ cycle # None /\ cycle.contracts # None
    /\ LET keys == Rows(Exchanges[cycle.next], cycle.contracts, cycle.effectiveAt)
       IN /\ stored' = [key \in keys \cup DOMAIN stored |->
                          IF key \in keys THEN cycle.contracts[key[2]]
                          ELSE stored[key]]
          /\ fetched' = [key \in keys \cup DOMAIN fetched |->
                          IF key \in keys THEN cycle.at ELSE fetched[key]]
    /\ cycle' = [cycle EXCEPT !.contracts = None, !.next = @ + 1]
    /\ UNCHANGED <<time, listed, truth, wake, changed, outages>>

(* The other exchange is still refreshed. *)
AfterFailure(c) == [c EXCEPT !.contracts = None, !.next = @ + 1]

(* Nothing supported in the listing is a failure too. *)
RefreshFails ==
    /\ cycle # None /\ cycle.next =< Len(Exchanges)
    /\ IF \A i \in Instruments : listed[Exchanges[cycle.next]][i] = None
       THEN cycle.contracts = None /\ UNCHANGED outages
       ELSE outages < MaxOutages /\ outages' = outages + 1
    /\ cycle' = AfterFailure(cycle)
    /\ UNCHANGED <<time, listed, truth, stored, fetched, wake, changed>>

EndCycle ==
    /\ cycle # None /\ cycle.next > Len(Exchanges)
    /\ cycle' = None
    /\ wake' = NextMidnight(time)
    /\ UNCHANGED <<time, listed, truth, stored, fetched, changed, outages>>

RestartServer ==
    /\ outages < MaxOutages /\ outages' = outages + 1
    /\ cycle' = BeginAt(time)
    /\ UNCHANGED <<time, listed, truth, stored, fetched, wake, changed>>

-----------------------------------------------------------------------------
(* The exchanges and time. *)

Relist ==
    /\ Cardinality(changed) < MaxChanges
    /\ \E e \in Exchange, i \in Instruments : \E m \in Multipliers \cup {None} :
         /\ listed[e][i] # m
         /\ listed' = [listed EXCEPT ![e][i] = m]
         /\ changed' = changed \cup {<<e, i, time>>}
    /\ truth' = [truth EXCEPT ![time] = listed']
    /\ UNCHANGED <<time, stored, fetched, cycle, wake, outages>>

(* The loop's sleep ends on time; a cycle may take long. *)
MidnightTick ==
    /\ time < CycleEnd /\ (cycle = None => time < wake)
    /\ time' = time + 1
    /\ truth' = [t \in 0 .. time' |-> IF t = time' THEN listed ELSE truth[t]]
    /\ UNCHANGED <<listed, stored, fetched, cycle, wake, changed, outages>>

MultipliersNext ==
    \/ BeginCycle \/ FetchContracts \/ StoreContracts \/ RefreshFails
    \/ EndCycle \/ RestartServer \/ Relist \/ MidnightTick

MultipliersSpec == MultipliersInit /\ [][MultipliersNext]_multiplierVars

-----------------------------------------------------------------------------
(* Properties. *)

SteadyDay(exchange, instrument, day) ==
    \A t \in day .. NextMidnight(day) - 1 :
      <<exchange, instrument, t>> \notin changed

(* A trade of a day whose contracts were read that day is valued with the  *)
(* multiplier the exchange had, when it did not change during the day      *)
(* (multiplier_at, upsert_specs).                                          *)
MultiplierIsTrue ==
    \A e \in Exchange, i \in Instruments, ts \in 0 .. time :
      LET day == DayStart(ts)
      IN /\ <<e, i, day>> \in DOMAIN fetched
         /\ fetched[<<e, i, day>>] < NextMidnight(ts)
         /\ SteadyDay(e, i, day)
         => MultiplierAt(e, i, ts) = truth[ts][e][i]

(* What a lookup gives for a time before the day a cycle began stays what  *)
(* it was, so a PnL of the past can be computed again; times before the    *)
(* first snapshot are valued with it and follow its corrections            *)
(* (effective_at_ms, multiplier_at).                                       *)
PastMultipliersStay ==
    [][\A e \in Exchange, i \in Instruments, ts \in 0 .. time :
         /\ \E at \in Effective(e, i) : at =< ts
         /\ cycle # None => ts < DayStart(cycle.begun)
         => MultiplierAt(e, i, ts)' = MultiplierAt(e, i, ts)]_multiplierVars
=============================================================================
