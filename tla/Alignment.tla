----------------------------- MODULE Alignment -----------------------------
(***************************************************************************)
(* The reconciliation of the fills in PostgreSQL with the order fills kept *)
(* in the strategy's RocksDB (src/src/bin/reconcile_rocksdb.rs), run by    *)
(* the recurring worker after its trade scan (src/src/live_history.rs) and *)
(* by operators, with the switch an admin turns back on                    *)
(* (src/src/server.rs).  Trade scans are those of HistorySync: each run    *)
(* owns the process that runs its sync_history child.                      *)
(***************************************************************************)
EXTENDS HistorySync

CONSTANTS
    Worker,        \* the run (and process) of the recurring worker
    Gap,           \* --settlement-gap-minutes
    AlignOverlap,  \* --overlap-minutes of the reconciliation
    MaxMissed,     \* bound: fills the strategy's RocksDB lost
    Budgets,       \* bounds: what may happen besides in a behaviour
    EqualSizes     \* fills have one size, or sizes no two sums of which agree

ASSUME AlignmentAssumption ==
    /\ Worker \in Procs
    /\ Gap \in Nat /\ AlignOverlap \in Nat
    /\ MaxMissed \in Nat
    /\ Budgets \subseteq [until: Time, kills: Nat, lost: Nat, toggles: Nat]
    /\ EqualSizes \in BOOLEAN

VARIABLES
    local,      \* the fills RocksDB holds
    verified,   \* rocksdb_alignment_checkpoints.verified_through_ms
    state,      \* rocksdb_alignment_status.state
    automatic,  \* rocksdb_alignment_status.automatic_enabled
    run,        \* the reconciliation of each process
    left,       \* the last moment, and how many failures and time-outs of
                \* runs and scans, failed last writes of a run, and changes
                \* by an admin may still happen
    offDue,     \* history: an automatic run failed since the last enable,
                \* and the write of its verdict did not fail
    unwritten   \* history: since the status row was written last, a run came
                \* to its end whose own last write of the row failed

alignVars ==
    <<local, verified, state, automatic, run, left, offDue, unwritten>>
allVars == <<vars, alignVars>>

(***************************************************************************)
(* A run goes idle -> scan (the worker's own trade scan) -> start ->       *)
(* checkpoint -> sync -> reload -> pg -> compare -> complete -> idle; a    *)
(* failed automatic run stops at persist until the switch is off.          *)
(***************************************************************************)
NoRun == [pc |-> "idle", switch |-> FALSE, cand |-> 0, seen |-> 0,
          start |-> 0, end |-> 0, pg |-> {}, aligned |-> FALSE,
          skip |-> TRUE, synced |-> FALSE]

AlignInit ==
    /\ Init
    /\ local = {}
    /\ verified = StMs
    /\ state = "waiting"
    /\ automatic = TRUE
    /\ run = [p \in Procs |-> NoRun]
    /\ left \in Budgets
    /\ offDue = FALSE
    /\ unwritten = FALSE

(* A statement that writes the status row. *)
WriteRow(as) == state' = as /\ unwritten' = FALSE

(* One of the failures and changes the bounds allow. *)
Spend(what) == left[what] > 0 /\ left' = [left EXCEPT ![what] = @ - 1]
-----------------------------------------------------------------------------
(* The environment: fills reach RocksDB at once, or are lost there. *)

TradeSeen(s) ==
    /\ Trade(s)
    /\ local' = local \cup {[sym |-> s, t |-> now]}
    /\ UNCHANGED <<verified, state, automatic, run, left, offDue, unwritten>>

TradeMissed(s) ==
    /\ Cardinality(fills \ local) < MaxMissed
    /\ Trade(s)
    /\ UNCHANGED alignVars

PublishFill(f) == Publish(f) /\ UNCHANGED alignVars

Clock == now < left.until /\ Tick /\ UNCHANGED alignVars

(* set_alignment_automatic *)
AdminSets(on) ==
    /\ automatic # on
    /\ Spend("toggles")
    /\ automatic' = on
    /\ offDue' = (offDue /\ ~on)
    /\ UNCHANGED <<vars, local, verified, state, run, unwritten>>
-----------------------------------------------------------------------------
(* The worker's cycle around an automatic run. *)

(* The slot reads the switch before the trade scan starts. *)
Slot ==
    /\ run[Worker].pc = "idle"
    /\ now >= StMs
    /\ \E r \in Requests : Launch(Worker, r, now)
    /\ run' = [run EXCEPT ![Worker] = [NoRun EXCEPT !.pc = "scan",
                                                  !.switch = automatic]]
    /\ UNCHANGED <<local, verified, state, automatic, left, offDue, unwritten>>

(* The trade scan ended: the comparison follows if the switch was on. *)
ScanDone ==
    /\ run[Worker].pc = "scan"
    /\ Commit(Worker) \/ SkipBeyondEnd(Worker)
    /\ run' = [run EXCEPT ![Worker] =
                 IF run[Worker].switch THEN [@ EXCEPT !.pc = "start"]
                                     ELSE NoRun]
    /\ UNCHANGED <<local, verified, state, automatic, left, offDue, unwritten>>

(* The scan failed: no comparison in this cycle. *)
ScanFailed ==
    /\ run[Worker].pc = "scan"
    /\ \/ NotInitialized(Worker) /\ UNCHANGED left
       \/ Fail(Worker) /\ Spend("kills")
    /\ run' = [run EXCEPT ![Worker] = NoRun]
    /\ UNCHANGED <<local, verified, state, automatic, offDue, unwritten>>

(* An operator starts a run, with or without --skip-sync. *)
Operate(p, skip) ==
    /\ p # Worker
    /\ run[p].pc = "idle"
    /\ run' = [run EXCEPT ![p] = [NoRun EXCEPT !.pc = "start",
                                               !.skip = skip]]
    /\ UNCHANGED <<vars, local, verified, state, automatic, left, offDue,
                   unwritten>>
-----------------------------------------------------------------------------
(* reconcile *)

MinOf(a, b) == IF a =< b THEN a ELSE b

(* Mutant of Settled: no settlement gap. *)
SettledNow(t) == t

(* main: candidate_end_ms *)
Settled(t) == t - Gap

(* main and start_status: the row says running whatever run it belonged to. *)
Start(p) ==
    /\ run[p].pc = "start"
    /\ run' = [run EXCEPT ![p] = [@ EXCEPT !.pc = "checkpoint",
                                           !.cand = Settled(now)]]
    /\ WriteRow("running")
    /\ UNCHANGED <<vars, local, verified, automatic, left, offDue>>

(* Mutant of CompareFrom: the comparison starts at the PostgreSQL boundary. *)
CompareFromWatermark(done, boundary) == MaxOf(StMs, boundary - AlignOverlap)

(* scan_start_ms *)
CompareFrom(done, boundary) == MaxOf(StMs, done - AlignOverlap)

(* load_checkpoint and the first set_phase; without a watermark an error.  *)
LoadCheckpoint(p) ==
    /\ run[p].pc = "checkpoint"
    /\ watermark # NoTime
    /\ run' = [run EXCEPT ![p] =
                 [@ EXCEPT !.pc = IF run[p].skip THEN "reload" ELSE "sync",
                           !.seen = verified,
                           !.start = CompareFrom(verified, watermark)]]
    /\ WriteRow("running")
    /\ UNCHANGED <<vars, local, verified, automatic, left, offDue>>

(* sync_trades: sync_history --start-ms scan_start --end-ms candidate.     *)
SyncRequest(p) ==
    [full |-> FALSE, start |-> run[p].start, ends |-> "past", symbols |-> {},
     derivatives |-> FALSE, advance |-> TRUE, gated |-> FALSE]

SyncStart(p) ==
    /\ run[p].pc = "sync"
    /\ Launch(p, SyncRequest(p), run[p].cand)
    /\ run' = [run EXCEPT ![p] = [@ EXCEPT !.pc = "syncing"]]
    /\ UNCHANGED <<local, verified, state, automatic, left, offDue, unwritten>>

(* A refused or failed sync is reported; the comparison goes on.  *)
SyncRefused(p) ==
    /\ run[p].pc = "sync"
    /\ run[p].cand < run[p].start
    /\ run' = [run EXCEPT ![p] = [@ EXCEPT !.pc = "reload"]]
    /\ UNCHANGED <<vars, local, verified, state, automatic, left, offDue,
                   unwritten>>

SyncEnd(p) ==
    /\ run[p].pc = "syncing"
    /\ \/ /\ Commit(p) \/ SkipBeyondEnd(p)
          /\ run' = [run EXCEPT ![p] = [@ EXCEPT !.pc = "reload",
                                                 !.synced = TRUE]]
          /\ UNCHANGED left
       \/ /\ Fail(p)
          /\ Spend("kills")
          /\ run' = [run EXCEPT ![p] = [@ EXCEPT !.pc = "reload"]]
    /\ UNCHANGED <<local, verified, state, automatic, offDue, unwritten>>

(* A step inside a sync_history child. *)
ChildWorks(p) ==
    /\ \/ ReadLatest(p)
       \/ ReadCursor(p)
       \/ ResolveSymbols(p)
       \/ \E s \in Symbols : Fetch(p, s)
    /\ UNCHANGED alignVars

(* actual_end_ms *)
ActualEnd(p) == MinOf(run[p].cand, watermark)

(* The second load_checkpoint: actual_end_ms, bounded by the watermark.    *)
Reload(p) ==
    /\ run[p].pc = "reload"
    /\ ActualEnd(p) >= run[p].start
    /\ run' = [run EXCEPT ![p] =
                 [@ EXCEPT !.pc = "pg", !.end = ActualEnd(p)]]
    /\ WriteRow("running")
    /\ UNCHANGED <<vars, local, verified, automatic, left, offDue>>

Within(p, S) == {f \in S : run[p].start =< f.t /\ f.t =< run[p].end}

(* export_pg *)
ExportPg(p) ==
    /\ run[p].pc = "pg"
    /\ run' = [run EXCEPT ![p] = [@ EXCEPT !.pc = "compare",
                                           !.pg = Within(p, rows)]]
    /\ WriteRow("running")
    /\ UNCHANGED <<vars, local, verified, automatic, left, offDue>>

(* The UPDATE: GREATEST, when the end is beyond the checkpoint it loaded.  *)
Advance(p) ==
    IF run[p].end > run[p].seen THEN MaxOf(verified, run[p].end) ELSE verified

(***************************************************************************)
(* pg_groups: the quantity per group.  The sum of equal sizes is a number  *)
(* of fills; a sum of sizes that never coincide says which fills they are. *)
(***************************************************************************)
Quantities(S) ==
    [s \in Symbols |->
        IF EqualSizes THEN Cardinality({f \in S : f.sym = s})
                      ELSE {f \in S : f.sym = s}]

(* export_orders, uniform_groups and unmatched_groups *)
LocalQuantities(p) == Quantities(Within(p, local))

(* compare_groups *)
Aligned(p) == Quantities(run[p].pg) = LocalQuantities(p)

(* The orders are exported and compared, and the checkpoint follows.  *)
Compare(p) ==
    LET aligned == Aligned(p)
    IN  /\ run[p].pc = "compare"
        /\ verified' = IF aligned THEN Advance(p) ELSE verified
        /\ run' = [run EXCEPT ![p] = [@ EXCEPT !.pc = "complete",
                                               !.aligned = aligned]]
        /\ WriteRow("running")
        /\ UNCHANGED <<vars, local, automatic, left, offDue>>

(* complete_status; an automatic mismatch goes on to the worker's switch.  *)
Complete(p) ==
    /\ run[p].pc = "complete"
    /\ WriteRow(IF run[p].aligned THEN "succeeded" ELSE "mismatch")
    /\ run' = [run EXCEPT ![p] =
                 IF p = Worker /\ ~run[p].aligned
                 THEN [NoRun EXCEPT !.pc = "persist_mismatch"] ELSE NoRun]
    /\ offDue' = (offDue \/ (p = Worker /\ ~run[p].aligned))
    /\ UNCHANGED <<vars, local, verified, automatic, left>>

Comparing(p) ==
    run[p].pc \in
        {"start", "checkpoint", "reload", "pg", "compare", "complete"}

(***************************************************************************)
(* An error inside reconcile: exit code 1.  It is certain without a        *)
(* watermark, or when the watermark is behind the scan start.              *)
(***************************************************************************)
Certain(p) ==
    \/ run[p].pc = "checkpoint" /\ watermark = NoTime
    \/ run[p].pc = "reload" /\ ActualEnd(p) < run[p].start

Exits(p) ==
    /\ Comparing(p)
    /\ run' = [run EXCEPT ![p] =
                 IF p = Worker THEN [NoRun EXCEPT !.pc = "persist_failed"]
                             ELSE NoRun]
    /\ offDue' = (offDue \/ p = Worker)
    /\ UNCHANGED <<vars, local, verified, automatic>>

(* The error is recorded: fail_status. *)
RunFails(p) ==
    /\ Exits(p)
    /\ IF Certain(p) THEN UNCHANGED left ELSE Spend("kills")
    /\ WriteRow("failed")

(***************************************************************************)
(* PostgreSQL is out of reach, or goes away before fail_status: a line is  *)
(* logged and the row stays as it is.  The worker will write it itself.    *)
(***************************************************************************)
FailureUnrecorded(p) ==
    /\ Exits(p)
    /\ Spend("lost")
    /\ unwritten' = (unwritten \/ (p # Worker /\ run[p].pc # "start"))
    /\ UNCHANGED state

(* The worker's 30 minutes are over: the child is killed where it stands.  *)
TimesOut ==
    /\ Comparing(Worker)
    /\ Spend("kills")
    /\ run' = [run EXCEPT ![Worker] = [NoRun EXCEPT !.pc = "persist_failed"]]
    /\ offDue' = TRUE
    /\ UNCHANGED <<vars, local, verified, state, automatic, unwritten>>

(* Mutant of SwitchAfter: the switch survives a failure. *)
SwitchAfterKept == automatic

(* persist_alignment_failure turns the switch off ... *)
SwitchAfter == FALSE

(* Mutant of StateAfter: only the switch is written. *)
StateAfterKept == state

(* ... and completes the row. *)
StateAfter ==
    IF run[Worker].pc = "persist_mismatch" THEN "mismatch" ELSE "failed"

Persist ==
    /\ run[Worker].pc \in {"persist_mismatch", "persist_failed"}
    /\ automatic' = SwitchAfter
    /\ WriteRow(StateAfter)
    /\ run' = [run EXCEPT ![Worker] = NoRun]
    /\ UNCHANGED <<vars, local, verified, left, offDue>>

(* The write fails: a warning is logged, the cycle ends, the switch is on. *)
PersistFails ==
    /\ run[Worker].pc \in {"persist_mismatch", "persist_failed"}
    /\ Spend("lost")
    /\ run' = [run EXCEPT ![Worker] = NoRun]
    /\ offDue' = FALSE
    /\ unwritten' = (unwritten \/ run[Worker].pc = "persist_failed")
    /\ UNCHANGED <<vars, local, verified, state, automatic>>

RunStep(p) ==
    \/ Start(p)
    \/ LoadCheckpoint(p)
    \/ SyncStart(p)
    \/ SyncRefused(p)
    \/ SyncEnd(p)
    \/ ChildWorks(p)
    \/ Reload(p)
    \/ ExportPg(p)
    \/ Compare(p)
    \/ Complete(p)

AlignNext ==
    \/ \E s \in Symbols : TradeSeen(s) \/ TradeMissed(s)
    \/ \E f \in Fill : PublishFill(f)
    \/ Clock
    \/ \E on \in BOOLEAN : AdminSets(on)
    \/ Slot
    \/ ScanDone
    \/ ScanFailed
    \/ TimesOut
    \/ Persist
    \/ PersistFails
    \/ \E p \in Procs :
          \/ \E skip \in BOOLEAN : Operate(p, skip)
          \/ RunStep(p)
          \/ RunFails(p)
          \/ FailureUnrecorded(p)

AlignSpec == AlignInit /\ [][AlignNext]_allVars
-----------------------------------------------------------------------------
(* Properties. *)

Reconciles(f) == f \in local <=> f \in rows

(***************************************************************************)
(* The checkpoint's promise ("Continuous intervals where strategy RocksDB  *)
(* order fills reconcile with PostgreSQL trades", migration 0036), for     *)
(* fills that were due: runs that overlap, stale checkpoints and a         *)
(* watermark moved by another scan leave no gap in the interval.  It never *)
(* claims more than the PostgreSQL scan has reached, so the scan a         *)
(* reconciliation starts at its end joins the history that is stored.      *)
(***************************************************************************)
VerifiedReconciles ==
    /\ verified = StMs \/ verified =< watermark
    /\ \A f \in fills :
          StMs =< f.t /\ f.t + Lateness < verified => Reconciles(f)

(***************************************************************************)
(* The discipline under which the checkpoint keeps its promise: that of    *)
(* the trade scans, on an exchange that serves every symbol and refuses    *)
(* none, and an overlap that covers the publication delay.                 *)
(***************************************************************************)
Overlapping ==
    /\ Contiguous /\ Mode # "symbol" /\ Delisted = {}
    /\ Lateness =< AlignOverlap

(***************************************************************************)
(* A run that synced its own interval reports a mismatch only when RocksDB *)
(* lost a fill: the settlement gap gives the exchange time to publish, and *)
(* a scan of another process cannot take the rows or the boundary away.    *)
(***************************************************************************)
NoFalseAlarm ==
    \A p \in Procs :
        run[p].pc = "complete" /\ run[p].synced /\ ~run[p].aligned
            => \E f \in fills \ local : f \in rows

(***************************************************************************)
(* After an automatic comparison found a mismatch, failed or timed out, no *)
(* later slot starts one until an admin enables it again; only a verdict   *)
(* whose write failed leaves the switch on.                                *)
(***************************************************************************)
SwitchedOffAfterFailure ==
    [][run[Worker].pc = "idle" /\ run'[Worker].pc = "scan"
          => ~(run'[Worker].switch /\ offDue)]_allVars

(***************************************************************************)
(* The status row says running only while a run is on its way, although    *)
(* the worker kills a child that takes too long wherever it stands, and    *)
(* the runs of operators write the same row: whichever run wrote it last   *)
(* completes it, or the worker does, or that last write failed.            *)
(***************************************************************************)
NoOrphanRunning ==
    state = "running" => unwritten \/ \E p \in Procs : run[p].pc # "idle"
=============================================================================
