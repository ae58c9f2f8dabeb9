-------------------------- MODULE AlignmentProofs --------------------------
(***************************************************************************)
(* Proofs about Alignment for every number of runs, symbols, fills,        *)
(* failures and changes of the switch: types, the switch after a failure,  *)
(* the status row, the checkpoint's promise and that a run which synced    *)
(* its interval raises no false alarm.                                     *)
(***************************************************************************)
EXTENDS Alignment, HistorySyncProofs

RunType ==
    [pc: {"idle", "scan", "start", "checkpoint", "sync", "syncing", "reload",
          "pg", "compare", "complete", "persist_mismatch", "persist_failed"},
     switch: BOOLEAN, cand: Int, seen: Int, start: Int, end: Int,
     pg: SUBSET Fill, aligned: BOOLEAN, skip: BOOLEAN, synced: BOOLEAN]

(* A run owns its process: it scans while its child does.  *)
OwnChild(p) == scan[p].pc # "idle" <=> run[p].pc \in {"scan", "syncing"}

(* The types of the scans, the checkpoint, the status row and the runs. *)
AlignType ==
    /\ TypeOK
    /\ local \subseteq fills
    /\ verified \in Int /\ StMs =< verified
    /\ state \in {"waiting", "running", "succeeded", "mismatch", "failed"}
    /\ automatic \in BOOLEAN /\ offDue \in BOOLEAN /\ unwritten \in BOOLEAN
    /\ run \in [Procs -> RunType]
    /\ left \in [until: Time, kills: Nat, lost: Nat, toggles: Nat]

LEMMA NoRunType ==
    /\ NoRun \in RunType
    /\ \A r \in RunType, flag \in BOOLEAN :
         /\ [r EXCEPT !.pc = "scan", !.switch = flag] \in RunType
         /\ [r EXCEPT !.pc = "start", !.skip = flag] \in RunType
         /\ [r EXCEPT !.pc = "complete", !.aligned = flag] \in RunType
    /\ \A r \in RunType :
         /\ [r EXCEPT !.pc = "start"] \in RunType
         /\ [r EXCEPT !.pc = "persist_mismatch"] \in RunType
         /\ [r EXCEPT !.pc = "persist_failed"] \in RunType
  <1>1. NoRun \in RunType
    BY DEF NoRun, RunType
  <1>2. ASSUME NEW r \in RunType, NEW flag \in BOOLEAN
        PROVE  /\ [r EXCEPT !.pc = "scan", !.switch = flag] \in RunType
               /\ [r EXCEPT !.pc = "start", !.skip = flag] \in RunType
               /\ [r EXCEPT !.pc = "complete", !.aligned = flag] \in RunType
    <2>1. [r EXCEPT !.pc = "scan", !.switch = flag] \in RunType
      BY <1>2 DEF RunType
    <2>2. [r EXCEPT !.pc = "start", !.skip = flag] \in RunType
      BY <1>2 DEF RunType
    <2>3. [r EXCEPT !.pc = "complete", !.aligned = flag] \in RunType
      BY <1>2 DEF RunType
    <2>. QED  BY <2>1, <2>2, <2>3
  <1>3. ASSUME NEW r \in RunType,
               NEW pc \in {"start", "persist_mismatch", "persist_failed"}
        PROVE  [r EXCEPT !.pc = pc] \in RunType
    BY <1>3 DEF RunType
  <1>. QED  BY <1>1, <1>2, <1>3

(* What a change of one run does to the others. *)
LEMMA OneRun ==
    ASSUME NEW p \in Procs, NEW new \in RunType, run \in [Procs -> RunType],
           run' = [run EXCEPT ![p] = new]
    PROVE  /\ run' \in [Procs -> RunType]
           /\ run'[p] = new
           /\ \A q \in Procs : q # p => run'[q] = run[q]
OBVIOUS

LEMMA SpendType ==
    ASSUME AlignType, NEW what \in {"kills", "lost", "toggles"}, Spend(what)
    PROVE  left' \in [until: Time, kills: Nat, lost: Nat, toggles: Nat]
BY DEF AlignType, Spend

(* The scan part of a step: no launch, the worker's or a reconciliation's. *)
LEMMA AlignMoves ==
    ASSUME [AlignNext]_allVars
    PROVE  \/ [Moves]_vars
           \/ Slot
           \/ \E p \in Procs : SyncStart(p)
BY AlignmentAssumption
   DEF AlignNext, allVars, TradeSeen, TradeMissed, PublishFill, Clock, AdminSets,
       ScanDone, ScanFailed, TimesOut, Persist, PersistFails, Operate, RunStep,
       RunFails, FailureUnrecorded, Exits, Start, LoadCheckpoint,
       SyncRefused, SyncEnd, ChildWorks,
       Reload, ExportPg, Compare, Complete, Moves, ScanStep

(* The command of sync_trades is well typed once the scan accepts it. *)
LEMMA SyncTyped ==
    ASSUME AlignType, NEW p \in Procs, SyncStart(p)
    PROVE  /\ SyncRequest(p) \in Request /\ run[p].cand \in Time
           /\ Launch(p, SyncRequest(p), run[p].cand)
  <1>1. Launch(p, SyncRequest(p), run[p].cand)
    BY DEF SyncStart
  <1>2. run[p].cand \in Int /\ run[p].start \in Int /\ now \in Time
    BY DEF AlignType, TypeOK, RunType
  <1>3. /\ StMs =< run[p].cand /\ run[p].cand =< now
        /\ run[p].start # NoTime =>
             StMs =< run[p].start /\ run[p].start =< run[p].cand
    BY <1>1 DEF Launch, SyncRequest
  <1>4. run[p].cand \in Time /\ run[p].start \in Time \cup {NoTime}
    BY <1>2, <1>3, ParametersAssumption DEF Time
  <1>. QED  BY <1>1, <1>4 DEF SyncRequest, Request

(* The scans keep their types. *)
LEMMA AlignScanType ==
    ASSUME AlignType, [AlignNext]_allVars
    PROVE  TypeOK'
  <1>1. CASE Slot
    <2>1. PICK r \in Requests : Launch(Worker, r, now)
      BY <1>1 DEF Slot
    <2>. QED
      BY <2>1, LaunchType, ParametersAssumption, AlignmentAssumption
         DEF AlignType, TypeOK
  <1>2. ASSUME NEW p \in Procs, SyncStart(p)
        PROVE  TypeOK'
    BY <1>2, SyncTyped, LaunchType DEF AlignType
  <1>. QED  BY <1>1, <1>2, AlignMoves, MoveType DEF AlignType

(* Fills are never forgotten, a scan that fails changes nothing. *)
LEMMA FillsGrow ==
    ASSUME [AlignNext]_allVars
    PROVE  fills \subseteq fills'
BY AlignMoves
   DEF Moves, vars, Tick, Trade, Publish, Slot, SyncStart, Launch, ScanStep,
       ReadLatest, ReadCursor, SkipBeyondEnd, NotInitialized, ResolveSymbols,
       Fetch, SkipSymbol, Commit, Fail

(* Every step keeps the types: one step per action. *)
LEMMA AlignTypeStep ==
    ASSUME AlignType, [AlignNext]_allVars
    PROVE  AlignType'
  <1>. USE AlignmentAssumption
  <1>0. TypeOK' /\ fills \subseteq fills'
    BY AlignScanType, FillsGrow
  <1>1. ASSUME NEW s \in Symbols, TradeSeen(s)
        PROVE  AlignType'
    BY <1>0, <1>1 DEF TradeSeen, Trade, AlignType
  <1>2. CASE UNCHANGED alignVars
    BY <1>0, <1>2 DEF alignVars, AlignType
  <1>3. ASSUME NEW on \in BOOLEAN, AdminSets(on)
        PROVE  AlignType'
    <2>1. left' \in [until: Time, kills: Nat, lost: Nat, toggles: Nat]
      BY <1>3, SpendType DEF AdminSets
    <2>. QED  BY <1>0, <1>3, <2>1 DEF AdminSets, AlignType
  <1>4. ASSUME NEW p \in Procs, NEW new \in RunType,
               run' = [run EXCEPT ![p] = new],
               local' = local, verified' \in Int, StMs =< verified',
               state' \in {"waiting", "running", "succeeded", "mismatch", "failed"},
               automatic' \in BOOLEAN, offDue' \in BOOLEAN,
               unwritten' \in BOOLEAN,
               UNCHANGED left \/ Spend("kills") \/ Spend("lost")
        PROVE  AlignType'
    <2>1. left' \in [until: Time, kills: Nat, lost: Nat, toggles: Nat]
      BY <1>4, SpendType DEF AlignType
    <2>2. run' \in [Procs -> RunType]
      BY <1>4 DEF AlignType
    <2>. QED  BY <1>0, <1>4, <2>1, <2>2 DEF AlignType
  <1>5. CASE Slot \/ ScanDone \/ ScanFailed
    <2>1. PICK new : /\ run' = [run EXCEPT ![Worker] = new]
                     /\ new \in {[NoRun EXCEPT !.pc = "scan", !.switch = automatic],
                                 [run[Worker] EXCEPT !.pc = "start"], NoRun}
      BY <1>5 DEF Slot, ScanDone, ScanFailed
    <2>2. new \in RunType
      <3>1. run[Worker] \in RunType /\ automatic \in BOOLEAN
        BY DEF AlignType
      <3>. QED  BY <2>1, <3>1, NoRunType
    <2>3. UNCHANGED <<local, verified, state, automatic, offDue, unwritten>>
          /\ (UNCHANGED left \/ Spend("kills"))
      BY <1>5 DEF Slot, ScanDone, ScanFailed
    <2>. QED  BY <1>4, <2>1, <2>2, <2>3 DEF AlignType
  <1>6. CASE TimesOut \/ Persist \/ PersistFails
    <2>1. PICK new : /\ run' = [run EXCEPT ![Worker] = new]
                     /\ new \in {[NoRun EXCEPT !.pc = "persist_failed"], NoRun}
      BY <1>6 DEF TimesOut, Persist, PersistFails
    <2>2. new \in RunType
      BY <2>1, NoRunType
    <2>3. /\ UNCHANGED <<local, verified>>
          /\ automatic' \in {automatic, FALSE} /\ offDue' \in BOOLEAN
          /\ unwritten' \in BOOLEAN
          /\ state' \in {state, "mismatch", "failed"}
          /\ (UNCHANGED left \/ Spend("kills") \/ Spend("lost"))
      BY <1>6 DEF TimesOut, Persist, PersistFails, SwitchAfter, StateAfter,
                  WriteRow, AlignType
    <2>. QED  BY <1>4, <2>1, <2>2, <2>3 DEF AlignType
  <1>7. ASSUME NEW p \in Procs,
               \/ \E skip \in BOOLEAN : Operate(p, skip)
               \/ Start(p) \/ SyncStart(p) \/ SyncRefused(p) \/ SyncEnd(p)
        PROVE  AlignType'
    <2>0. run[p] \in RunType /\ now \in Int
      BY DEF AlignType, TypeOK, Time
    <2>1. PICK new :
            /\ run' = [run EXCEPT ![p] = new]
            /\ \/ \E skip \in BOOLEAN :
                     new = [NoRun EXCEPT !.pc = "start", !.skip = skip]
               \/ new = [run[p] EXCEPT !.pc = "checkpoint",
                                       !.cand = Settled(now)]
               \/ new = [run[p] EXCEPT !.pc = "syncing"]
               \/ new = [run[p] EXCEPT !.pc = "reload"]
               \/ new = [run[p] EXCEPT !.pc = "reload", !.synced = TRUE]
      BY <1>7 DEF Operate, Start, SyncStart, SyncRefused, SyncEnd
    <2>2. new \in RunType
      <3>1. Settled(now) \in Int
        BY <2>0 DEF Settled
      <3>2. \A cand \in Int :
              [run[p] EXCEPT !.pc = "checkpoint", !.cand = cand] \in RunType
        BY <2>0 DEF RunType
      <3>3. /\ [run[p] EXCEPT !.pc = "syncing"] \in RunType
            /\ [run[p] EXCEPT !.pc = "reload"] \in RunType
            /\ [run[p] EXCEPT !.pc = "reload", !.synced = TRUE] \in RunType
        BY <2>0 DEF RunType
      <3>4. \A skip \in BOOLEAN :
              [NoRun EXCEPT !.pc = "start", !.skip = skip] \in RunType
        BY NoRunType
      <3>5. [run[p] EXCEPT !.pc = "checkpoint", !.cand = Settled(now)] \in RunType
        BY <3>1, <3>2
      <3>. QED  BY <2>1, <3>3, <3>4, <3>5
    <2>3. /\ UNCHANGED <<local, verified, automatic, offDue>>
          /\ state' \in {state, "running"} /\ unwritten' \in {unwritten, FALSE}
          /\ (UNCHANGED left \/ Spend("kills"))
      BY <1>7 DEF Operate, Start, SyncStart, SyncRefused, SyncEnd, WriteRow
    <2>. QED  BY <1>4, <2>1, <2>2, <2>3 DEF AlignType
  <1>8. ASSUME NEW p \in Procs, LoadCheckpoint(p) \/ Reload(p) \/ ExportPg(p)
        PROVE  AlignType'
    <2>0. /\ run[p] \in RunType /\ verified \in Int /\ watermark \in Int
          /\ rows \subseteq Fill
      BY DEF AlignType, TypeOK, Time, NoTime
    <2>1. PICK new :
            /\ run' = [run EXCEPT ![p] = new]
            /\ \/ new = [run[p] EXCEPT
                           !.pc = IF run[p].skip THEN "reload" ELSE "sync",
                           !.seen = verified,
                           !.start = CompareFrom(verified, watermark)]
               \/ new = [run[p] EXCEPT !.pc = "pg", !.end = ActualEnd(p)]
               \/ new = [run[p] EXCEPT !.pc = "compare",
                                       !.pg = Within(p, rows)]
      BY <1>8 DEF LoadCheckpoint, Reload, ExportPg
    <2>2. /\ CompareFrom(verified, watermark) \in Int /\ ActualEnd(p) \in Int
          /\ Within(p, rows) \subseteq Fill
      BY <2>0, ParametersAssumption
         DEF CompareFrom, MaxOf, ActualEnd, MinOf, Within, RunType
    <2>3. new \in RunType
      <3>1. ASSUME NEW f \in Int, NEW g \in Int, NEW pc \in {"reload", "sync"},
                   new = [run[p] EXCEPT !.pc = pc, !.seen = f, !.start = g]
            PROVE  new \in RunType
        BY <2>0, <3>1 DEF RunType
      <3>2. ASSUME NEW g \in Int, new = [run[p] EXCEPT !.pc = "pg", !.end = g]
            PROVE  new \in RunType
        BY <2>0, <3>2 DEF RunType
      <3>3. ASSUME NEW S \in SUBSET Fill,
                   new = [run[p] EXCEPT !.pc = "compare", !.pg = S]
            PROVE  new \in RunType
        BY <2>0, <3>3 DEF RunType
      <3>. QED  BY <2>0, <2>1, <2>2, <3>1, <3>2, <3>3
    <2>4. /\ UNCHANGED <<local, verified, automatic, left, offDue>>
          /\ state' = "running" /\ unwritten' = FALSE
      BY <1>8 DEF LoadCheckpoint, Reload, ExportPg, WriteRow
    <2>. QED  BY <1>4, <2>1, <2>3, <2>4 DEF AlignType
  <1>9. ASSUME NEW p \in Procs,
               Compare(p) \/ Complete(p) \/ RunFails(p) \/ FailureUnrecorded(p)
        PROVE  AlignType'
    <2>0. run[p] \in RunType /\ verified \in Int /\ Aligned(p) \in BOOLEAN
      BY DEF AlignType, Aligned
    <2>1. PICK new :
            /\ run' = [run EXCEPT ![p] = new]
            /\ \/ new = [run[p] EXCEPT !.pc = "complete",
                                       !.aligned = Aligned(p)]
               \/ new \in {[NoRun EXCEPT !.pc = "persist_mismatch"],
                           [NoRun EXCEPT !.pc = "persist_failed"], NoRun}
      BY <1>9 DEF Compare, Complete, RunFails, FailureUnrecorded, Exits
    <2>2. new \in RunType
      BY <2>0, <2>1, NoRunType
    <2>3. Advance(p) \in Int /\ StMs =< Advance(p)
      BY <2>0, ParametersAssumption DEF Advance, MaxOf, RunType, AlignType
    <2>4. verified' \in Int /\ StMs =< verified'
      BY <1>9, <2>0, <2>3
         DEF Compare, Complete, RunFails, FailureUnrecorded, Exits, AlignType
    <2>5. /\ UNCHANGED <<local, automatic>>
          /\ state' \in {state, "running", "succeeded", "mismatch", "failed"}
          /\ offDue' \in BOOLEAN /\ unwritten' \in BOOLEAN
          /\ (UNCHANGED left \/ Spend("kills") \/ Spend("lost"))
      BY <1>9 DEF Compare, Complete, RunFails, FailureUnrecorded, Exits,
                  WriteRow, AlignType
    <2>. QED  BY <1>4, <2>1, <2>2, <2>4, <2>5 DEF AlignType
  <1>. QED
    BY <1>1, <1>2, <1>3, <1>5, <1>6, <1>7, <1>8, <1>9
       DEF AlignNext, allVars, RunStep, TradeMissed, PublishFill, Clock,
           ChildWorks

(* The checkpoint, the switch, the status row and every run keep their     *)
(* types, as the scans below them do.                                      *)
THEOREM AlignTypeCorrect == AlignSpec => []AlignType
  <1>1. AlignInit => AlignType
    <2>1. Init => TypeOK
      BY IdleType, ParametersAssumption DEF Init, TypeOK, Time, NoTime
    <2>2. AlignInit => run \in [Procs -> RunType]
      BY NoRunType DEF AlignInit
    <2>3. AlignInit => left \in [until: Time, kills: Nat, lost: Nat, toggles: Nat]
      BY AlignmentAssumption DEF AlignInit
    <2>4. StMs \in Int /\ StMs =< StMs
      BY ParametersAssumption
    <2>. QED  BY <2>1, <2>2, <2>3, <2>4 DEF AlignInit, AlignType
  <1>. QED  BY <1>1, AlignTypeStep, PTL DEF AlignSpec

-----------------------------------------------------------------------------
(* The switch and the status row. *)

(* The actions that leave the runs, the switch and the status row alone. *)
Outside ==
    \/ \E s \in Symbols : TradeSeen(s) \/ TradeMissed(s)
    \/ \E f \in Fill : PublishFill(f)
    \/ Clock
    \/ \E p \in Procs : ChildWorks(p)
    \/ UNCHANGED allVars

LEMMA OutsideFrame ==
    Outside => UNCHANGED
        <<verified, state, automatic, run, left, offDue, unwritten>>
BY DEF Outside, TradeSeen, TradeMissed, PublishFill, Clock, ChildWorks,
       alignVars, allVars

(* A verdict whose write is still to come, or the switch is off.  *)
SwitchInv ==
    offDue => \/ ~automatic
              \/ run[Worker].pc \in {"persist_mismatch", "persist_failed"}

LEMMA SwitchStep ==
    ASSUME AlignType, SwitchInv, [AlignNext]_allVars
    PROVE  SwitchInv'
  <1>. USE AlignmentAssumption DEF SwitchInv
  <1>1. CASE Outside
    BY <1>1, OutsideFrame
  <1>2. ASSUME NEW on \in BOOLEAN, AdminSets(on)
        PROVE  SwitchInv'
    BY <1>2 DEF AdminSets
  <1>3. CASE Slot \/ ScanDone \/ ScanFailed
    BY <1>3 DEF Slot, ScanDone, ScanFailed
  <1>4. CASE TimesOut \/ Persist \/ PersistFails
    <2>1. CASE TimesOut
      BY <2>1 DEF TimesOut, AlignType, NoRun
    <2>2. CASE Persist \/ PersistFails
      BY <2>2 DEF Persist, PersistFails, SwitchAfter
    <2>. QED  BY <1>4, <2>1, <2>2
  <1>5. ASSUME NEW p \in Procs, Complete(p) \/ RunFails(p) \/ FailureUnrecorded(p)
        PROVE  SwitchInv'
    BY <1>5 DEF Complete, RunFails, FailureUnrecorded, Exits, Comparing,
                AlignType, NoRun
  <1>6. ASSUME NEW p \in Procs,
               \/ \E skip \in BOOLEAN : Operate(p, skip)
               \/ Start(p) \/ LoadCheckpoint(p) \/ SyncStart(p)
               \/ SyncRefused(p) \/ SyncEnd(p) \/ Reload(p) \/ ExportPg(p)
               \/ Compare(p)
        PROVE  SwitchInv'
    <2>1. UNCHANGED <<automatic, offDue>>
      BY <1>6 DEF Operate, Start, LoadCheckpoint, SyncStart, SyncRefused,
                  SyncEnd, Reload, ExportPg, Compare
    <2>2. /\ run[p].pc \notin {"persist_mismatch", "persist_failed"}
          /\ \E new : run' = [run EXCEPT ![p] = new]
      BY <1>6 DEF Operate, Start, LoadCheckpoint, SyncStart, SyncRefused,
                  SyncEnd, Reload, ExportPg, Compare
    <2>. QED  BY <2>1, <2>2 DEF AlignType
  <1>. QED
    BY <1>1, <1>2, <1>3, <1>4, <1>5, <1>6 DEF AlignNext, RunStep, Outside

(* Only the slot starts a cycle, with the switch it read. *)
LEMMA CycleBegins ==
    ASSUME AlignType, [AlignNext]_allVars,
           run[Worker].pc = "idle", run'[Worker].pc = "scan"
    PROVE  run'[Worker].switch = automatic
  <1>. USE AlignmentAssumption
  <1>1. CASE Outside
    BY <1>1, OutsideFrame
  <1>2. CASE Slot
    BY <1>2 DEF Slot, AlignType, NoRun
  <1>3. CASE \/ ScanDone \/ ScanFailed \/ TimesOut \/ Persist \/ PersistFails
             \/ \E on \in BOOLEAN : AdminSets(on)
    BY <1>3 DEF ScanDone, ScanFailed, TimesOut, Persist, PersistFails,
                AdminSets, Comparing
  <1>4. ASSUME NEW p \in Procs,
               \/ \E skip \in BOOLEAN : Operate(p, skip)
               \/ RunStep(p) /\ ~ChildWorks(p)
               \/ RunFails(p) \/ FailureUnrecorded(p)
        PROVE  FALSE
    <2>1. CASE p = Worker
      BY <1>4, <2>1
         DEF Operate, RunStep, RunFails, FailureUnrecorded, Exits, Start,
             LoadCheckpoint, SyncStart, SyncRefused, SyncEnd, Reload, ExportPg,
             Compare, Complete, Comparing
    <2>2. CASE p # Worker
      <3>1. \E new : run' = [run EXCEPT ![p] = new]
        BY <1>4 DEF Operate, RunStep, RunFails, FailureUnrecorded, Exits,
                    Start, LoadCheckpoint, SyncStart, SyncRefused, SyncEnd,
                    Reload, ExportPg, Compare, Complete
      <3>. QED  BY <2>2, <3>1 DEF AlignType
    <2>. QED  BY <2>1, <2>2
  <1>. QED
    BY <1>1, <1>2, <1>3, <1>4 DEF AlignNext, RunStep, Outside

(***************************************************************************)
(* No cycle of the worker compares after an automatic comparison failed,   *)
(* until an admin turned the switch on again (persist_alignment_failure).  *)
(***************************************************************************)
THEOREM FailureSwitchesOff == AlignSpec => SwitchedOffAfterFailure
  <1>1. AlignInit => SwitchInv
    BY DEF AlignInit, SwitchInv
  <1>2. AlignType /\ SwitchInv /\ [AlignNext]_allVars => SwitchInv'
    BY SwitchStep
  <1>3. AlignType /\ SwitchInv /\ [AlignNext]_allVars
          => (run[Worker].pc = "idle" /\ run'[Worker].pc = "scan"
                => ~(run'[Worker].switch /\ offDue))
    <2>. SUFFICES ASSUME AlignType, SwitchInv, [AlignNext]_allVars,
                         run[Worker].pc = "idle", run'[Worker].pc = "scan"
                  PROVE  ~(run'[Worker].switch /\ offDue)
      OBVIOUS
    <2>1. run'[Worker].switch = automatic
      BY CycleBegins
    <2>. QED  BY <2>1 DEF SwitchInv
  <1>. QED
    BY <1>1, <1>2, <1>3, AlignTypeCorrect, PTL
       DEF AlignSpec, SwitchedOffAfterFailure

(* A run that has written the status row and not yet its verdict.  *)
Writing(p) ==
    run[p].pc \in {"checkpoint", "sync", "syncing", "reload", "pg", "compare",
                   "complete"}

(* Running is written over by a run that is on its way, or by the worker   *)
(* whose child was killed or could not say that it failed.                 *)
RowInv ==
    state = "running" =>
       \/ \E p \in Procs : Writing(p)
       \/ run[Worker].pc = "persist_failed"
       \/ unwritten

LEMMA RowStep ==
    ASSUME AlignType, RowInv, [AlignNext]_allVars
    PROVE  RowInv'
  <1>. USE AlignmentAssumption
  <1>0. DOMAIN run = Procs
    BY DEF AlignType
  <1>1. CASE Outside \/ \E on \in BOOLEAN : AdminSets(on)
    BY <1>1, OutsideFrame DEF RowInv, Writing, AdminSets
  <1>2. ASSUME NEW p \in Procs, \E new : run' = [run EXCEPT ![p] = new],
               ~Writing(p), UNCHANGED <<state, unwritten>>,
               run[Worker].pc = "persist_failed" => p # Worker
        PROVE  RowInv'
    BY <1>0, <1>2 DEF RowInv, Writing
  <1>3. CASE Slot \/ ScanDone \/ ScanFailed
    <2>1. /\ \E new : run' = [run EXCEPT ![Worker] = new]
          /\ run[Worker].pc \in {"idle", "scan"}
          /\ UNCHANGED <<state, unwritten>>
      BY <1>3 DEF Slot, ScanDone, ScanFailed
    <2>. QED  BY <1>2, <2>1 DEF Writing
  <1>4. CASE TimesOut
    BY <1>0, <1>4 DEF TimesOut, NoRun, RowInv
  <1>5. CASE Persist
    BY <1>5 DEF Persist, StateAfter, WriteRow, RowInv
  <1>6. CASE PersistFails
    <2>1. CASE run[Worker].pc = "persist_failed"
      BY <1>6, <2>1 DEF PersistFails, RowInv
    <2>2. CASE run[Worker].pc = "persist_mismatch"
      BY <1>2, <1>6, <2>2 DEF PersistFails, Writing, AlignType
    <2>. QED  BY <1>6, <2>1, <2>2 DEF PersistFails
  <1>7. ASSUME NEW p \in Procs, Complete(p) \/ RunFails(p)
        PROVE  RowInv'
    BY <1>7 DEF Complete, RunFails, WriteRow, RowInv
  <1>8. ASSUME NEW p \in Procs, FailureUnrecorded(p)
        PROVE  RowInv'
    <2>1. CASE p = Worker
      BY <1>0, <1>8, <2>1 DEF FailureUnrecorded, Exits, NoRun, RowInv
    <2>2. CASE p # Worker /\ run[p].pc # "start"
      BY <1>8, <2>2 DEF FailureUnrecorded, RowInv
    <2>3. CASE p # Worker /\ run[p].pc = "start"
      BY <1>2, <1>8, <2>3 DEF FailureUnrecorded, Exits, Writing, AlignType
    <2>. QED  BY <2>1, <2>2, <2>3
  <1>9. ASSUME NEW p \in Procs, NEW skip \in BOOLEAN, Operate(p, skip)
        PROVE  RowInv'
    BY <1>2, <1>9 DEF Operate, Writing
  <1>10. ASSUME NEW p \in Procs,
                \/ Start(p) \/ LoadCheckpoint(p) \/ SyncStart(p)
                \/ SyncRefused(p) \/ SyncEnd(p) \/ Reload(p) \/ ExportPg(p)
                \/ Compare(p)
         PROVE  RowInv'
    <2>0. run[p] \in RunType
      BY DEF AlignType
    <2>1. CASE Start(p) \/ SyncStart(p) \/ SyncRefused(p)
      BY <1>0, <2>0, <2>1
         DEF Start, SyncStart, SyncRefused, Writing, RunType, RowInv
    <2>2. CASE LoadCheckpoint(p)
      BY <1>0, <2>0, <2>2 DEF LoadCheckpoint, Writing, RunType, RowInv
    <2>3. CASE SyncEnd(p)
      BY <1>0, <2>0, <2>3 DEF SyncEnd, Writing, RunType, RowInv
    <2>4. CASE Reload(p)
      BY <1>0, <2>0, <2>4 DEF Reload, Writing, RunType, RowInv
    <2>5. CASE ExportPg(p) \/ Compare(p)
      <3>1. PICK new \in {"compare", "complete"} : run'[p].pc = new
        BY <1>0, <2>0, <2>5 DEF ExportPg, Compare, RunType
      <3>. QED  BY <3>1 DEF Writing, RowInv
    <2>. QED  BY <1>10, <2>1, <2>2, <2>3, <2>4, <2>5
  <1>. QED
    BY <1>1, <1>3, <1>4, <1>5, <1>6, <1>7, <1>8, <1>9, <1>10
       DEF AlignNext, RunStep, Outside

(***************************************************************************)
(* The status row says running only while a run is on its way, however     *)
(* the runs of the worker and of operators overlap, fail, are killed or    *)
(* lose writes, unless the last write a run owed the row failed (main,     *)
(* fail_status, persist_alignment_failure).                                *)
(***************************************************************************)
THEOREM NoRunLeftRunning == AlignSpec => []NoOrphanRunning
  <1>1. AlignInit => RowInv
    BY DEF AlignInit, RowInv
  <1>2. AlignType /\ RowInv /\ [AlignNext]_allVars => RowInv'
    BY RowStep
  <1>3. RowInv => NoOrphanRunning
    BY AlignmentAssumption DEF RowInv, Writing, NoOrphanRunning
  <1>. QED  BY <1>1, <1>2, <1>3, AlignTypeCorrect, PTL DEF AlignSpec
-----------------------------------------------------------------------------
(* The checkpoint. *)

(* What a run knows of the interval it compares. *)
RunInv(p) ==
    /\ OwnChild(p)
    /\ run[p].pc \in {"sync", "syncing", "reload", "pg", "compare"} =>
          /\ StMs =< run[p].seen /\ run[p].seen =< verified
          /\ run[p].start = MaxOf(StMs, run[p].seen - AlignOverlap)
    /\ run[p].pc \in {"pg", "compare"} => run[p].end =< watermark
    /\ run[p].pc = "compare" =>
          \A f \in fills :
             run[p].start =< f.t /\ Due(f, run[p].end) => f \in run[p].pg

(***************************************************************************)
(* The inductive strengthening of VerifiedReconciles: a due fill within    *)
(* the watermark is in PostgreSQL, so it remains to be in RocksDB.         *)
(***************************************************************************)
CheckpointInv ==
    /\ CoverInv
    /\ verified = StMs \/ verified =< watermark
    /\ \A f \in fills : Due(f, verified) => f \in local
    /\ \A p \in Procs : RunInv(p)

(* How a scan ends, with or without a commit. *)
LEMMA ScanEnds ==
    ASSUME NEW p \in Procs,
           Commit(p) \/ SkipBeyondEnd(p) \/ NotInitialized(p) \/ Fail(p)
    PROVE  scan' = [scan EXCEPT ![p] = Idle]
BY DEF Commit, SkipBeyondEnd, NotInitialized, Fail

(* A child that works is neither new nor done. *)
LEMMA ChildGoesOn ==
    ASSUME AlignType, NEW p \in Procs, ChildWorks(p)
    PROVE  /\ scan[p].pc # "idle" /\ scan'[p].pc # "idle"
           /\ \A q \in Procs : q # p => scan'[q] = scan[q]
           /\ UNCHANGED <<now, fills, published, rows, watermark>>
           /\ UNCHANGED alignVars
  <1>0. scan[p] \in ScanType /\ DOMAIN scan = Procs
    BY DEF AlignType, TypeOK
  <1>. USE <1>0 DEF ChildWorks
  <1>1. CASE ReadLatest(p)
    BY <1>1 DEF ReadLatest, ScanType
  <1>2. CASE ReadCursor(p)
    BY <1>2 DEF ReadCursor, ScanType
  <1>3. CASE ResolveSymbols(p)
    BY <1>3 DEF ResolveSymbols, ScanType
  <1>4. CASE \E s \in Symbols : Fetch(p, s)
    BY <1>4 DEF Fetch, ScanType
  <1>. QED  BY <1>1, <1>2, <1>3, <1>4

(* A sync that ends, with a commit or not, leaves the interval alone. *)
LEMMA SyncEnded ==
    ASSUME AlignType, NEW p \in Procs, SyncEnd(p)
    PROVE  /\ run[p].pc = "syncing" /\ run'[p].pc = "reload"
           /\ run'[p].cand = run[p].cand /\ run'[p].seen = run[p].seen
           /\ run'[p].start = run[p].start
           /\ run'[p].synced =>
                run[p].synced \/ Commit(p) \/ SkipBeyondEnd(p)
           /\ verified' = verified
  <1>0. run[p] \in RunType /\ DOMAIN run = Procs
    BY DEF AlignType
  <1>1. /\ run[p].pc = "syncing" /\ verified' = verified
        /\ \/ /\ Commit(p) \/ SkipBeyondEnd(p)
              /\ run' = [run EXCEPT ![p] = [@ EXCEPT !.pc = "reload",
                                                    !.synced = TRUE]]
           \/ run' = [run EXCEPT ![p] = [@ EXCEPT !.pc = "reload"]]
    BY DEF SyncEnd
  <1>2. CASE run' = [run EXCEPT ![p] = [@ EXCEPT !.pc = "reload"]]
    BY <1>0, <1>1, <1>2 DEF RunType
  <1>3. CASE /\ Commit(p) \/ SkipBeyondEnd(p)
             /\ run' = [run EXCEPT ![p] = [@ EXCEPT !.pc = "reload",
                                                   !.synced = TRUE]]
    BY <1>0, <1>1, <1>3 DEF RunType
  <1>. QED  BY <1>1, <1>2, <1>3

(* The actions that leave every scan alone. *)
LEMMA ScansRest ==
    ASSUME NEW p \in Procs,
           \/ Persist \/ PersistFails \/ TimesOut
           \/ \E skip \in BOOLEAN : Operate(p, skip)
           \/ Start(p) \/ LoadCheckpoint(p) \/ SyncRefused(p) \/ Reload(p)
           \/ ExportPg(p) \/ Compare(p) \/ Complete(p) \/ RunFails(p)
           \/ FailureUnrecorded(p)
    PROVE  UNCHANGED <<now, fills, published, rows, watermark, scan>>
BY DEF vars, Persist, PersistFails, TimesOut, Operate, Start, LoadCheckpoint,
       SyncRefused, Reload, ExportPg, Compare, Complete, RunFails,
       FailureUnrecorded, Exits

LEMMA OwnChildStep ==
    ASSUME AlignType, \A p \in Procs : OwnChild(p), [AlignNext]_allVars
    PROVE  \A p \in Procs : OwnChild(p)'
  <1>. USE AlignmentAssumption DEF OwnChild
  <1>0. DOMAIN scan = Procs /\ DOMAIN run = Procs
    BY DEF AlignType, TypeOK
  <1>1. CASE \/ \E s \in Symbols : TradeSeen(s) \/ TradeMissed(s)
             \/ \E f \in Fill : PublishFill(f)
             \/ Clock
             \/ UNCHANGED allVars
             \/ \E on \in BOOLEAN : AdminSets(on)
    <2>1. UNCHANGED <<scan, run>>
      BY <1>1 DEF TradeSeen, TradeMissed, Trade, PublishFill, Publish, Clock,
                  Tick, AdminSets, alignVars, allVars, vars
    <2>. QED  BY <2>1
  <1>2. ASSUME NEW p \in Procs, ChildWorks(p)
        PROVE  \A q \in Procs : OwnChild(q)'
    BY <1>2, ChildGoesOn DEF alignVars
  <1>3. CASE Slot
    <2>1. PICK r \in Requests : Launch(Worker, r, now)
      BY <1>3 DEF Slot
    <2>2. scan'[Worker].pc # "idle" /\ run'[Worker].pc = "scan"
      BY <1>0, <1>3, <2>1 DEF Slot, Launch, Idle, NoRun
    <2>3. \A q \in Procs : q # Worker => scan'[q] = scan[q] /\ run'[q] = run[q]
      BY <1>0, <1>3, <2>1 DEF Slot, Launch
    <2>. QED  BY <2>2, <2>3
  <1>4. ASSUME NEW p \in Procs, SyncStart(p)
        PROVE  \A q \in Procs : OwnChild(q)'
    <2>1. scan'[p].pc # "idle" /\ run'[p].pc = "syncing"
      BY <1>0, <1>4 DEF SyncStart, Launch, Idle, AlignType, RunType
    <2>2. \A q \in Procs : q # p => scan'[q] = scan[q] /\ run'[q] = run[q]
      BY <1>0, <1>4 DEF SyncStart, Launch
    <2>. QED  BY <2>1, <2>2
  <1>5. ASSUME NEW p \in Procs,
               (p = Worker /\ (ScanDone \/ ScanFailed)) \/ SyncEnd(p)
        PROVE  \A q \in Procs : OwnChild(q)'
    <2>1. scan' = [scan EXCEPT ![p] = Idle]
      BY <1>5, ScanEnds DEF ScanDone, ScanFailed, SyncEnd
    <2>2. run'[p].pc \notin {"scan", "syncing"}
      <3>0. run[p] \in RunType
        BY DEF AlignType
      <3>1. CASE p = Worker /\ (ScanDone \/ ScanFailed)
        BY <1>0, <3>0, <3>1 DEF ScanDone, ScanFailed, RunType, NoRun
      <3>2. CASE SyncEnd(p)
        BY <3>2, SyncEnded
      <3>. QED  BY <1>5, <3>1, <3>2
    <2>3. \A q \in Procs : q # p => run'[q] = run[q]
      BY <1>0, <1>5 DEF ScanDone, ScanFailed, SyncEnd
    <2>. QED  BY <1>0, <2>1, <2>2, <2>3 DEF Idle
  <1>6. CASE TimesOut \/ Persist \/ PersistFails
    <2>1. scan' = scan
      BY <1>6, ScansRest
    <2>2. /\ run[Worker].pc \notin {"scan", "syncing"}
          /\ run'[Worker].pc \notin {"scan", "syncing"}
      BY <1>0, <1>6 DEF TimesOut, Persist, PersistFails, Comparing, NoRun
    <2>3. \A q \in Procs : q # Worker => run'[q] = run[q]
      BY <1>0, <1>6 DEF TimesOut, Persist, PersistFails
    <2>. QED  BY <2>1, <2>2, <2>3
  <1>7. ASSUME NEW p \in Procs,
               \/ \E skip \in BOOLEAN : Operate(p, skip)
               \/ Start(p) \/ LoadCheckpoint(p) \/ SyncRefused(p) \/ Reload(p)
               \/ ExportPg(p) \/ Compare(p) \/ Complete(p) \/ RunFails(p)
           \/ FailureUnrecorded(p)
        PROVE  \A q \in Procs : OwnChild(q)'
    <2>1. scan' = scan
      BY <1>7, ScansRest
    <2>2. run[p].pc \notin {"scan", "syncing"}
      BY <1>7 DEF Operate, Start, LoadCheckpoint, SyncRefused, Reload,
                  ExportPg, Compare, Complete, RunFails, FailureUnrecorded,
                  Exits, Comparing
    <2>3. run'[p].pc \notin {"scan", "syncing"}
      <3>0. run[p] \in RunType
        BY DEF AlignType
      <3>1. CASE \E skip \in BOOLEAN : Operate(p, skip)
        BY <1>0, <3>1 DEF Operate, NoRun
      <3>6. CASE Complete(p) \/ RunFails(p) \/ FailureUnrecorded(p)
        BY <1>0, <3>6 DEF Complete, RunFails, FailureUnrecorded, Exits, NoRun
      <3>2. CASE Start(p) \/ SyncRefused(p)
        BY <1>0, <3>0, <3>2 DEF Start, SyncRefused, RunType
      <3>3. CASE LoadCheckpoint(p)
        BY <1>0, <3>0, <3>3 DEF LoadCheckpoint, RunType
      <3>4. CASE Reload(p)
        BY <1>0, <3>0, <3>4 DEF Reload, RunType
      <3>5. CASE ExportPg(p) \/ Compare(p)
        BY <1>0, <3>0, <3>5 DEF ExportPg, Compare, RunType
      <3>. QED  BY <1>7, <3>1, <3>2, <3>3, <3>4, <3>5, <3>6
    <2>4. \A q \in Procs : q # p => run'[q] = run[q]
      BY <1>0, <1>7 DEF Operate, Start, LoadCheckpoint, SyncRefused, Reload,
                        ExportPg, Compare, Complete, RunFails,
                        FailureUnrecorded, Exits
    <2>. QED  BY <2>1, <2>2, <2>3, <2>4
  <1>. QED
    BY <1>1, <1>2, <1>3, <1>4, <1>5, <1>6, <1>7 DEF AlignNext, RunStep
(* Fills, rows, boundary and checkpoint only grow; a new fill is new.  *)
LEMMA Forward ==
    ASSUME AlignType, [AlignNext]_allVars
    PROVE  /\ fills \subseteq fills' /\ \A f \in fills' \ fills : f.t = now
           /\ rows \subseteq rows' /\ local \subseteq local'
           /\ watermark' >= watermark /\ verified' >= verified /\ now' >= now
  <1>1. /\ now \in Int /\ watermark \in Int /\ verified \in Int
        /\ \A p \in Procs : scan[p].end \in Int /\ run[p].end \in Int
    BY DEF AlignType, TypeOK, Time, NoTime, ScanType, RunType
  <1>2. /\ fills \subseteq fills' /\ \A f \in fills' \ fills : f.t = now
        /\ rows \subseteq rows' /\ watermark' >= watermark /\ now' >= now
    <2>1. ASSUME NEW p \in Procs, Commit(p)
          PROVE  /\ UNCHANGED <<fills, now>> /\ rows \subseteq rows'
                 /\ watermark' >= watermark
      BY <1>1, <2>1 DEF Commit, AdvanceWatermark, MaxOf
    <2>2. CASE Tick \/ \E s \in Symbols : Trade(s)
      <3>1. CASE Tick
        BY <1>1, <3>1 DEF Tick
      <3>2. ASSUME NEW s \in Symbols, Trade(s)
            PROVE  /\ \A f \in fills' \ fills : f.t = now
                   /\ UNCHANGED <<now, rows, watermark>> /\ fills \subseteq fills'
        BY <3>2 DEF Trade
      <3>. QED  BY <1>1, <2>2, <3>1, <3>2
    <2>3. CASE UNCHANGED <<fills, now, rows, watermark>>
      BY <1>1, <2>3
    <2>4. CASE [Moves]_vars
      <3>1. \/ \E p \in Procs : Commit(p)
            \/ Tick \/ \E s \in Symbols : Trade(s)
            \/ UNCHANGED <<fills, now, rows, watermark>>
        BY <2>4 DEF Moves, vars, Publish, ScanStep, ReadLatest, ReadCursor,
                    SkipBeyondEnd, NotInitialized, ResolveSymbols, Fetch,
                    SkipSymbol, Fail
      <3>. QED  BY <1>1, <2>1, <2>2, <2>3, <3>1
    <2>5. CASE Slot \/ \E p \in Procs : SyncStart(p)
      BY <2>3, <2>5 DEF Slot, SyncStart, Launch
    <2>. QED  BY <2>4, <2>5, AlignMoves
  <1>3. local \subseteq local' /\ verified' >= verified
    <2>1. ASSUME NEW p \in Procs, Compare(p)
          PROVE  local' = local /\ verified' >= verified
      BY <1>1, <2>1 DEF Compare, Advance, MaxOf
    <2>2. CASE local \subseteq local' /\ verified' = verified
      BY <1>1, <2>2
    <2>3. \/ \E p \in Procs : Compare(p)
          \/ local \subseteq local' /\ verified' = verified
      BY DEF AlignNext, allVars, alignVars, TradeSeen, TradeMissed, PublishFill,
             Clock, AdminSets, Slot, ScanDone, ScanFailed, TimesOut, Persist,
             PersistFails, Operate, RunStep, RunFails, FailureUnrecorded, Exits,
             Start, LoadCheckpoint,
             SyncStart, SyncRefused, SyncEnd, ChildWorks, Reload, ExportPg,
             Complete
    <2>. QED  BY <2>1, <2>2, <2>3
  <1>. QED  BY <1>2, <1>3

(* The scans keep the watermark's promise: a reconciliation's own scan     *)
(* starts where the checkpoint, and so stored history, ends.               *)
LEMMA AlignCover ==
    ASSUME Overlapping, AlignType, AlignType', CheckpointInv,
           [AlignNext]_allVars
    PROVE  CoverInv'
  <1>0. TypeOK /\ TypeOK' /\ CoverInv /\ Lateness =< Overlap /\ Contiguous
    BY DEF AlignType, CheckpointInv, Overlapping, Contiguous
  <1>1. CASE Slot
    <2>1. PICK r \in Requests : Launch(Worker, r, now)
      BY <1>1 DEF Slot
    <2>. QED  BY <1>0, <2>1, RequestCover, AlignmentAssumption DEF TypeOK
  <1>2. ASSUME NEW p \in Procs, SyncStart(p)
        PROVE  CoverInv'
    <2>. DEFINE r == SyncRequest(p)
    <2>1. /\ r \in Request /\ run[p].cand \in Time
          /\ Launch(p, r, run[p].cand)
      BY <1>2, SyncTyped
    <2>2. /\ r.advance /\ r.ends = "past" /\ r.start = run[p].start
          /\ r.symbols = {}
      BY DEF SyncRequest
    <2>3. Whole(r)
      BY <2>2, ParametersAssumption DEF Whole, Legs, SyncRequest, Overlapping
    <2>4. BeforeStored(r)
      <3>1. SUFFICES ASSUME NEW f \in fills, f.sym \notin Delisted,
                            StMs =< f.t, f.t < run[p].start
                     PROVE  f \in rows
        BY <2>2 DEF BeforeStored
      <3>2. /\ StMs =< run[p].seen /\ run[p].seen =< verified
            /\ run[p].start = MaxOf(StMs, run[p].seen - AlignOverlap)
        BY <1>2 DEF SyncStart, CheckpointInv, RunInv
      <3>3. /\ f.t \in Int /\ watermark \in Int /\ run[p].seen \in Int
            /\ verified \in Int
        BY DEF AlignType, TypeOK, Fill, Time, NoTime, RunType
      <3>4. Due(f, watermark)
        BY <3>1, <3>2, <3>3, ParametersAssumption, AlignmentAssumption
           DEF MaxOf, Due, CheckpointInv, Overlapping
      <3>. QED  BY <3>4 DEF CheckpointInv, CoverInv, WatermarkCovers
    <2>. HIDE DEF r
    <2>. QED  BY <1>0, <2>1, <2>2, <2>3, <2>4, LaunchCover
  <1>. QED  BY <1>0, <1>1, <1>2, AlignMoves, MoveCover

(* What a run knows stays true while others move.  *)
LEMMA RunFrame ==
    ASSUME AlignType, AlignType', CheckpointInv, CoverInv',
           [AlignNext]_allVars,
           NEW p \in Procs, run'[p] = run[p], OwnChild(p)'
    PROVE  RunInv(p)'
  <1>1. /\ run[p].end \in Int /\ verified \in Int /\ verified' \in Int
        /\ watermark \in Int /\ watermark' \in Int /\ now \in Int
        /\ run[p].seen \in Int
    BY DEF AlignType, TypeOK, Time, NoTime, RunType
  <1>2. RunInv(p) /\ watermark =< now
    BY DEF CheckpointInv, CoverInv, ClockInv
  <1>3. ASSUME run[p].pc = "compare", NEW f \in fills',
               run[p].start =< f.t, Due(f, run[p].end)
        PROVE  f \in run[p].pg
    <2>1. CASE f \in fills
      BY <1>2, <1>3, <2>1 DEF RunInv
    <2>2. CASE f \notin fills
      BY <1>1, <1>2, <1>3, <2>2, Forward, ParametersAssumption DEF RunInv, Due
    <2>. QED  BY <2>1, <2>2
  <1>. QED  BY <1>1, <1>2, <1>3, Forward DEF RunInv, Due
(* A comparison of a whole interval tells that RocksDB holds its due fills. *)
LEMMA ComparedLocal ==
    ASSUME ~EqualSizes, Overlapping, AlignType, CheckpointInv,
           NEW p \in Procs, Compare(p), Aligned(p),
           NEW f \in fills, Due(f, run[p].end)
    PROVE  f \in local
  <1>1. /\ RunInv(p) /\ run[p].pc = "compare" /\ run[p].pg \subseteq Fill
        /\ f.t \in Int /\ f.sym \in Symbols
    BY DEF CheckpointInv, Compare, AlignType, TypeOK, RunType, Fill, Time
  <1>2. CASE run[p].start =< f.t
    <2>1. f \in run[p].pg
      BY <1>1, <1>2 DEF RunInv
    <2>2. {g \in run[p].pg : g.sym = f.sym}
            = {g \in Within(p, local) : g.sym = f.sym}
      BY <1>1 DEF Aligned, LocalQuantities, Quantities
    <2>. QED  BY <2>1, <2>2 DEF Within
  <1>3. CASE f.t < run[p].start
    <2>1. /\ run[p].seen \in Int /\ verified \in Int
          /\ StMs =< run[p].seen /\ run[p].seen =< verified
          /\ run[p].start = MaxOf(StMs, run[p].seen - AlignOverlap)
      BY <1>1 DEF RunInv, AlignType, RunType
    <2>2. Due(f, verified)
      BY <1>1, <1>3, <2>1, ParametersAssumption, AlignmentAssumption
         DEF Due, MaxOf, Overlapping
    <2>. QED  BY <2>2 DEF CheckpointInv
  <1>4. run[p].start \in Int
    BY DEF AlignType, RunType
  <1>. QED  BY <1>1, <1>2, <1>3, <1>4

(* The checkpoint moves over what was compared only, within the watermark.  *)
LEMMA VerifiedStep ==
    ASSUME ~EqualSizes, Overlapping, AlignType, AlignType', CheckpointInv,
           [AlignNext]_allVars
    PROVE  /\ verified' = StMs \/ verified' =< watermark'
           /\ \A f \in fills' : Due(f, verified') => f \in local'
  <1>1. /\ verified \in Int /\ watermark \in Int /\ watermark' \in Int
        /\ now \in Int /\ \A p \in Procs : run[p].end \in Int
        /\ \A f \in fills' : f.t \in Int
        /\ verified = StMs \/ verified =< watermark
        /\ watermark =< now
    BY DEF AlignType, TypeOK, Time, NoTime, RunType, Fill, CheckpointInv,
           CoverInv, ClockInv
  <1>2. CASE verified' = verified
    <2>1. ASSUME NEW f \in fills', Due(f, verified)
          PROVE  f \in fills
      BY <1>1, <2>1, Forward, ParametersAssumption DEF Due
    <2>. QED  BY <1>1, <1>2, <2>1, Forward DEF CheckpointInv
  <1>3. ASSUME NEW p \in Procs, Compare(p), verified' # verified
        PROVE  /\ verified' =< watermark'
               /\ \A f \in fills' : Due(f, verified') => f \in local'
    <2>1. Aligned(p) /\ verified' = run[p].end
      BY <1>1, <1>3 DEF Compare, Advance, MaxOf
    <2>2. UNCHANGED <<fills, watermark, local>>
      BY <1>3 DEF Compare, vars
    <2>3. run[p].end =< watermark
      BY <1>3 DEF Compare, CheckpointInv, RunInv
    <2>. QED  BY <1>3, <2>1, <2>2, <2>3, ComparedLocal
  <1>4. (\E p \in Procs : Compare(p)) \/ verified' = verified
    BY DEF AlignNext, allVars, alignVars, TradeSeen, TradeMissed, PublishFill,
           Clock, AdminSets, Slot, ScanDone, ScanFailed, TimesOut, Persist,
           PersistFails, Operate, RunStep, RunFails, FailureUnrecorded, Exits,
           Start, LoadCheckpoint,
           SyncStart, SyncRefused, SyncEnd, ChildWorks, Reload, ExportPg,
           Complete
  <1>. QED  BY <1>2, <1>3, <1>4

(* Which actions move a run to, or within, the reading of an interval. *)
LEMMA RunChanges ==
    ASSUME AlignType, [AlignNext]_allVars, NEW p \in Procs
    PROVE  \/ run'[p] = run[p]
           \/ /\ run'[p].pc \in {"idle", "scan", "start", "persist_mismatch",
                                 "persist_failed"}
              /\ run'[p].synced => run[p].pc = "scan" /\ run[p].synced
           \/ Start(p) \/ Compare(p)
           \/ LoadCheckpoint(p) \/ Reload(p) \/ ExportPg(p)
           \/ SyncStart(p) \/ SyncRefused(p) \/ SyncEnd(p)
  <1>. USE AlignmentAssumption
  <1>. DEFINE Away(q) ==
                /\ run'[q].pc \in {"idle", "scan", "start", "persist_mismatch",
                                   "persist_failed"}
                /\ run'[q].synced => run[q].pc = "scan" /\ run[q].synced
  <1>0. DOMAIN run = Procs /\ \A q \in Procs : run[q] \in RunType
    BY DEF AlignType
  <1>1. CASE Outside \/ \E on \in BOOLEAN : AdminSets(on)
    BY <1>1, OutsideFrame DEF AdminSets
  <1>2. CASE Slot \/ ScanDone \/ ScanFailed
    <2>1. \A q \in Procs : q # Worker => run'[q] = run[q]
      BY <1>0, <1>2 DEF Slot, ScanDone, ScanFailed
    <2>2. Away(Worker)
      <3>1. CASE Slot
        BY <1>0, <3>1 DEF Slot, NoRun
      <3>2. CASE ScanDone
        BY <1>0, <3>2 DEF ScanDone, NoRun, RunType
      <3>3. CASE ScanFailed
        BY <1>0, <3>3 DEF ScanFailed, NoRun
      <3>. QED  BY <1>2, <3>1, <3>2, <3>3
    <2>. QED  BY <2>1, <2>2
  <1>3. CASE TimesOut \/ Persist \/ PersistFails
    <2>1. \A q \in Procs : q # Worker => run'[q] = run[q]
      BY <1>0, <1>3 DEF TimesOut, Persist, PersistFails
    <2>2. Away(Worker)
      BY <1>0, <1>3 DEF TimesOut, Persist, PersistFails, NoRun
    <2>. QED  BY <2>1, <2>2
  <1>4. ASSUME NEW q \in Procs,
               \/ \E skip \in BOOLEAN : Operate(q, skip)
               \/ Complete(q) \/ RunFails(q) \/ FailureUnrecorded(q)
        PROVE  run'[p] = run[p] \/ Away(p)
    <2>1. p # q => run'[p] = run[p]
      BY <1>0, <1>4 DEF Operate, Complete, RunFails, FailureUnrecorded, Exits
    <2>2. CASE \E skip \in BOOLEAN : Operate(q, skip)
      BY <1>0, <2>1, <2>2 DEF Operate, NoRun
    <2>3. CASE Complete(q) \/ RunFails(q) \/ FailureUnrecorded(q)
      BY <1>0, <2>1, <2>3 DEF Complete, RunFails, FailureUnrecorded, Exits, NoRun
    <2>. QED  BY <1>4, <2>2, <2>3
  <1>5. ASSUME NEW q \in Procs, q # p,
               \/ Start(q) \/ Compare(q)
               \/ LoadCheckpoint(q) \/ Reload(q) \/ ExportPg(q)
               \/ SyncStart(q) \/ SyncRefused(q) \/ SyncEnd(q)
        PROVE  run'[p] = run[p]
    BY <1>0, <1>5 DEF Start, Compare, LoadCheckpoint, Reload, ExportPg, SyncStart,
                      SyncRefused, SyncEnd
  <1>. QED
    BY <1>1, <1>2, <1>3, <1>4, <1>5 DEF AlignNext, RunStep, Outside

(* Every step keeps what the runs know: one step per action. *)
LEMMA RunsStep ==
    ASSUME AlignType, AlignType', CheckpointInv, CoverInv',
           [AlignNext]_allVars, NEW p \in Procs
    PROVE  RunInv(p)'
  <1>. USE AlignmentAssumption
  <1>0. /\ OwnChild(p)' /\ RunInv(p)
        /\ run[p] \in RunType /\ DOMAIN run = Procs
    BY OwnChildStep DEF CheckpointInv, RunInv, AlignType
  <1>1. CASE run'[p] = run[p]
    BY <1>0, <1>1, RunFrame
  <1>2. CASE run'[p].pc \notin {"sync", "syncing", "reload", "pg", "compare"}
    BY <1>0, <1>2 DEF RunInv
  <1>3. CASE LoadCheckpoint(p)
    <2>1. /\ run'[p].pc \in {"reload", "sync"} /\ run'[p].seen = verified
          /\ run'[p].start = CompareFrom(verified, watermark)
          /\ verified' = verified
      BY <1>0, <1>3 DEF LoadCheckpoint, RunType
    <2>. QED  BY <1>0, <2>1 DEF RunInv, CompareFrom, AlignType
  <1>4. CASE SyncStart(p) \/ SyncRefused(p) \/ SyncEnd(p)
    <2>1. /\ run[p].pc \in {"sync", "syncing"}
          /\ run'[p].pc \in {"syncing", "reload"}
          /\ run'[p].seen = run[p].seen /\ run'[p].start = run[p].start
          /\ verified' = verified
      <3>1. CASE SyncStart(p)
        BY <1>0, <3>1 DEF SyncStart, RunType
      <3>2. CASE SyncRefused(p)
        BY <1>0, <3>2 DEF SyncRefused, RunType
      <3>3. CASE SyncEnd(p)
        BY <3>3, SyncEnded
      <3>. QED  BY <1>4, <3>1, <3>2, <3>3
    <2>. QED  BY <1>0, <2>1 DEF RunInv
  <1>5. CASE Reload(p)
    <2>1. /\ run[p].pc = "reload" /\ run'[p].pc = "pg"
          /\ run'[p].seen = run[p].seen /\ run'[p].start = run[p].start
          /\ run'[p].end = ActualEnd(p)
          /\ UNCHANGED <<verified, watermark>>
      BY <1>0, <1>5 DEF Reload, RunType, vars
    <2>2. ActualEnd(p) =< watermark
      BY <1>0 DEF ActualEnd, MinOf, AlignType, TypeOK, Time, NoTime, RunType
    <2>. QED  BY <1>0, <2>1, <2>2 DEF RunInv
  <1>6. CASE ExportPg(p)
    <2>1. /\ run[p].pc = "pg" /\ run'[p].pc = "compare"
          /\ run'[p].seen = run[p].seen /\ run'[p].start = run[p].start
          /\ run'[p].end = run[p].end /\ run'[p].pg = Within(p, rows)
          /\ UNCHANGED <<verified, watermark, fills>>
      BY <1>0, <1>6 DEF ExportPg, RunType, vars
    <2>2. /\ run[p].end \in Int /\ watermark \in Int
          /\ \A f \in fills : f.t \in Int
      BY DEF AlignType, TypeOK, Time, NoTime, RunType, Fill
    <2>3. run[p].end =< watermark
      BY <1>0, <2>1 DEF RunInv
    <2>4. ASSUME NEW f \in fills, run[p].start =< f.t, Due(f, run[p].end)
          PROVE  f \in Within(p, rows)
      <3>1. Due(f, watermark) /\ f.t =< run[p].end
        BY <2>2, <2>3, <2>4, ParametersAssumption DEF Due
      <3>. QED
        BY <2>4, <3>1 DEF CheckpointInv, CoverInv, WatermarkCovers, Within
    <2>. QED  BY <1>0, <2>1, <2>3, <2>4 DEF RunInv, Due
  <1>7. \/ run'[p] = run[p]
        \/ run'[p].pc \notin {"sync", "syncing", "reload", "pg", "compare"}
        \/ LoadCheckpoint(p) \/ Reload(p) \/ ExportPg(p)
        \/ SyncStart(p) \/ SyncRefused(p) \/ SyncEnd(p)
    <2>1. CASE Start(p)
      BY <1>0, <2>1 DEF Start, RunType
    <2>2. CASE Compare(p)
      BY <1>0, <2>2 DEF Compare, RunType
    <2>. QED  BY <2>1, <2>2, RunChanges
  <1>. QED  BY <1>1, <1>2, <1>3, <1>4, <1>5, <1>6, <1>7
LEMMA CheckpointStep ==
    ASSUME ~EqualSizes, Overlapping, AlignType, AlignType', CheckpointInv,
           [AlignNext]_allVars
    PROVE  CheckpointInv'
  <1>1. CoverInv'
    BY AlignCover
  <1>2. \A p \in Procs : RunInv(p)'
    BY <1>1, RunsStep
  <1>. QED  BY <1>1, <1>2, VerifiedStep DEF CheckpointInv, Due

(***************************************************************************)
(* Under Overlapping, the interval the checkpoint has passed reconciles,   *)
(* for any number of runs that overlap, load stale checkpoints, fail or    *)
(* are killed, and whatever scans move the watermark meanwhile; and it     *)
(* stays within what the scans have stored.                                *)
(***************************************************************************)
THEOREM CheckpointKeepsItsPromise ==
    ASSUME Overlapping, ~EqualSizes
    PROVE  AlignSpec => []VerifiedReconciles
  <1>1. AlignInit => CheckpointInv
    <2>1. AlignInit => CoverInv
      BY ParametersAssumption
         DEF AlignInit, Init, CoverInv, WatermarkCovers, ClockInv, FirstScanInv,
             ScanInv, Idle, NoTime
    <2>2. AlignInit => \A p \in Procs : RunInv(p)
      BY DEF AlignInit, Init, RunInv, OwnChild, Idle, NoRun
    <2>. QED  BY <2>1, <2>2 DEF AlignInit, Init, CheckpointInv
  <1>2. AlignType /\ AlignType' /\ CheckpointInv /\ [AlignNext]_allVars
          => CheckpointInv'
    BY CheckpointStep
  <1>3. AlignType /\ CheckpointInv => VerifiedReconciles
    <2>. SUFFICES ASSUME AlignType, CheckpointInv, NEW f \in fills,
                         StMs =< f.t, f.t + Lateness < verified
                  PROVE  f \in local /\ f \in rows
      BY DEF VerifiedReconciles, Reconciles, CheckpointInv
    <2>1. /\ f.t \in Int /\ verified \in Int /\ watermark \in Int
          /\ verified = StMs \/ verified =< watermark
      BY DEF AlignType, TypeOK, Fill, Time, NoTime, CheckpointInv
    <2>2. Due(f, verified) /\ Due(f, watermark)
      BY <2>1, ParametersAssumption DEF Due, Overlapping
    <2>. QED  BY <2>2 DEF CheckpointInv, CoverInv, WatermarkCovers
  <1>. QED  BY <1>1, <1>2, <1>3, AlignTypeCorrect, PTL DEF AlignSpec
-----------------------------------------------------------------------------
(* The verdict. *)

(* What was shown is stored, no more, and is shown in time. *)
ShownInTime ==
    /\ FetchedShown /\ rows \subseteq published
    /\ \A f \in fills : f.t =< now
    /\ \A f \in fills \ published : now - f.t =< Lateness

(* The fills of the interval that was to be synced.  *)
Asked(p) == {f \in fills : run[p].start =< f.t /\ f.t =< run[p].cand}

(* What a sync that is under way has of them.  *)
SyncingInv(p) ==
    /\ scan[p].req = SyncRequest(p) /\ scan[p].end = run[p].cand
    /\ run[p].start =< run[p].cand
    /\ scan[p].pc \in {"symbols", "fetch"} => scan[p].start = run[p].start
    /\ scan[p].pc = "fetch" =>
         \A f \in Asked(p) : f.sym \in scan[p].pending \/ f \in scan[p].fetched

(* What a run that synced its interval knows of it. *)
SyncInv(p) ==
    /\ run[p].pc \in {"scan", "start", "checkpoint", "sync", "syncing"}
          => ~run[p].synced
    /\ run[p].pc \in {"checkpoint", "sync", "syncing", "reload", "pg",
                      "compare", "complete"} => run[p].cand + Gap =< now
    /\ run[p].pc \in {"sync", "syncing"} => StMs =< run[p].start
    /\ run[p].pc = "syncing" => SyncingInv(p)
    /\ run[p].pc \in {"reload", "pg"} /\ run[p].synced => Asked(p) \subseteq rows
    /\ run[p].pc \in {"pg", "compare"} => run[p].end =< run[p].cand
    /\ run[p].pc = "compare" =>
          /\ run[p].pg \subseteq Within(p, rows)
          /\ run[p].synced => Within(p, fills) \subseteq run[p].pg

AlarmInv ==
    /\ ShownInTime
    /\ \A p \in Procs : OwnChild(p) /\ SyncInv(p)
    /\ NoFalseAlarm
(* RocksDB gets new fills only. *)
LEMMA LocalNew ==
    ASSUME AlignType, [AlignNext]_allVars
    PROVE  local' \cap fills \subseteq local
  <1>1. CASE \E s \in Symbols : TradeSeen(s)
    BY <1>1 DEF TradeSeen, Trade
  <1>2. CASE local' = local
    BY <1>2
  <1>. QED
    BY <1>1, <1>2
       DEF AlignNext, allVars, alignVars, TradeMissed, PublishFill, Clock,
           AdminSets, Slot, ScanDone, ScanFailed, TimesOut, Persist,
           PersistFails, Operate, RunStep, RunFails, FailureUnrecorded, Exits,
           Start, LoadCheckpoint,
           SyncStart, SyncRefused, SyncEnd, ChildWorks, Reload, ExportPg,
           Compare, Complete

(* The exchange shows a fill in time, and scans store what it showed. *)
LEMMA ShownStep ==
    ASSUME AlignType, ShownInTime, [AlignNext]_allVars
    PROVE  ShownInTime'
  <1>0. TypeOK /\ FetchedShown /\ DOMAIN scan = Procs
        /\ now \in Int /\ Lateness \in Nat /\ \A f \in fills : f.t \in Int
    BY ParametersAssumption DEF AlignType, TypeOK, ShownInTime, Fill, Time
  <1>1. FetchedShown'
    BY <1>0, AlignMoves, MoveFetched, LaunchFetched, AlignmentAssumption
       DEF Slot, SyncStart
  <1>2. CASE Tick
    BY <1>0, <1>1, <1>2 DEF Tick, ShownInTime
  <1>3. ASSUME NEW s \in Symbols, Trade(s)
        PROVE  ShownInTime'
    BY <1>0, <1>1, <1>3 DEF Trade, ShownInTime
  <1>4. ASSUME NEW f \in Fill, Publish(f)
        PROVE  ShownInTime'
    BY <1>0, <1>1, <1>4 DEF Publish, ShownInTime
  <1>5. ASSUME NEW p \in Procs, Commit(p)
        PROVE  ShownInTime'
    BY <1>0, <1>1, <1>5 DEF Commit, ShownInTime, FetchedShown
  <1>6. CASE UNCHANGED <<now, fills, published, rows>>
    BY <1>0, <1>1, <1>6 DEF ShownInTime
  <1>. QED
    BY <1>2, <1>3, <1>4, <1>5, <1>6, AlignMoves
       DEF Moves, vars, Slot, SyncStart, Launch, ScanStep, ReadLatest,
           ReadCursor, SkipBeyondEnd, NotInitialized, ResolveSymbols, Fetch,
           SkipSymbol, Fail

(* The steps of a sync that its run does not make itself. *)
LEMMA SyncingFrame ==
    ASSUME AlignType, [AlignNext]_allVars, NEW p \in Procs,
           run[p].pc = "syncing", run'[p] = run[p]
    PROVE  scan'[p] = scan[p] \/ ChildWorks(p)
  <1>. USE AlignmentAssumption
  <1>0. DOMAIN scan = Procs /\ DOMAIN run = Procs
    BY DEF AlignType, TypeOK
  <1>1. CASE \/ \E s \in Symbols : TradeSeen(s) \/ TradeMissed(s)
             \/ \E f \in Fill : PublishFill(f)
             \/ Clock
             \/ UNCHANGED allVars
             \/ \E on \in BOOLEAN : AdminSets(on)
    BY <1>1 DEF TradeSeen, TradeMissed, Trade, PublishFill, Publish, Clock,
                Tick, AdminSets, allVars, vars
  <1>2. ASSUME NEW q \in Procs, ChildWorks(q)
        PROVE  scan'[p] = scan[p] \/ ChildWorks(p)
    BY <1>2, ChildGoesOn
  <1>3. CASE Slot
    <2>1. run[Worker].pc = "idle" /\ \E r \in Requests : Launch(Worker, r, now)
      BY <1>3 DEF Slot
    <2>. QED  BY <1>0, <2>1 DEF Launch
  <1>4. CASE ScanDone \/ ScanFailed
    <2>1. run[Worker].pc = "scan" /\ scan' = [scan EXCEPT ![Worker] = Idle]
      BY <1>4, ScanEnds DEF ScanDone, ScanFailed
    <2>. QED  BY <1>0, <2>1
  <1>5. ASSUME NEW q \in Procs, SyncStart(q)
        PROVE  scan'[p] = scan[p]
    BY <1>0, <1>5 DEF SyncStart, Launch
  <1>6. ASSUME NEW q \in Procs, SyncEnd(q)
        PROVE  scan'[p] = scan[p]
    <2>1. scan' = [scan EXCEPT ![q] = Idle]
      BY <1>6, ScanEnds DEF SyncEnd
    <2>2. q # p
      BY <1>6, SyncEnded
    <2>. QED  BY <1>0, <2>1, <2>2
  <1>. QED
    BY <1>1, <1>2, <1>3, <1>4, <1>5, <1>6, ScansRest DEF AlignNext, RunStep

(* The settlement gap: what happens now is not in an interval asked for.   *)
LEMMA AskedStays ==
    ASSUME Lateness < Gap, AlignType, [AlignNext]_allVars, NEW p \in Procs,
           run[p].cand + Gap =< now, NEW f \in fills', f.t =< run[p].cand
    PROVE  f \in fills
  <1>1. now \in Int /\ run[p].cand \in Int /\ Gap \in Nat /\ Lateness \in Nat
    BY ParametersAssumption, AlignmentAssumption
       DEF AlignType, TypeOK, Time, RunType
  <1>2. now > run[p].cand
    BY <1>1
  <1>3. f \notin fills => f.t = now
    BY Forward
  <1>. QED  BY <1>1, <1>2, <1>3

(* What a run knows of its interval stays true while others move. *)
LEMMA SyncFrame ==
    ASSUME Lateness < Gap, AlignType, AlignType', [AlignNext]_allVars,
           NEW p \in Procs, SyncInv(p), run'[p] = run[p],
           run[p].pc = "syncing" => scan'[p] = scan[p]
    PROVE  SyncInv(p)'
  <1>1. /\ run[p].cand \in Int /\ Gap \in Int /\ now \in Int /\ now' \in Int
        /\ run[p].end \in Int /\ \A f \in fills' : f.t \in Int
    BY AlignmentAssumption DEF AlignType, TypeOK, Time, RunType, Fill
  <1>2. run[p].cand + Gap =< now => run[p].cand + Gap =< now'
    BY <1>1, Forward
  <1>3. run[p].cand + Gap =< now => Asked(p)' = Asked(p)
    BY AskedStays, Forward DEF Asked
  <1>4. run[p].pc = "syncing" => SyncingInv(p)'
    BY <1>3 DEF SyncInv, SyncingInv, SyncRequest
  <1>5. run[p].pc = "compare" =>
          /\ Within(p, rows) \subseteq Within(p, rows)'
          /\ Within(p, fills)' \subseteq Within(p, fills)
    <2>1. run[p].pc = "compare" => run[p].end =< run[p].cand
                                   /\ run[p].cand + Gap =< now
      BY DEF SyncInv
    <2>2. ASSUME run[p].pc = "compare", NEW f \in fills', f.t =< run[p].end
          PROVE  f \in fills
      BY <1>1, <2>1, <2>2, AskedStays
    <2>3. rows \subseteq rows'
      BY Forward
    <2>. QED  BY <2>2, <2>3 DEF Within
  <1>. QED  BY <1>2, <1>3, <1>4, <1>5, Forward DEF SyncInv

(* A sync reads its whole interval: the children of a reconciliation. *)
LEMMA SyncWorks ==
    ASSUME Lateness < Gap, Mode # "symbol", AlignType, ShownInTime,
           NEW p \in Procs, SyncInv(p), ChildWorks(p), run[p].pc = "syncing"
    PROVE  SyncInv(p)'
  <1>0. /\ scan[p] \in ScanType /\ DOMAIN scan = Procs
        /\ UNCHANGED <<now, fills, published, rows, watermark>>
        /\ run' = run
        /\ SyncingInv(p) /\ StMs =< run[p].start /\ run[p].cand + Gap =< now
        /\ run[p].start \in Int /\ run[p].cand \in Int /\ now \in Int
        /\ \A f \in fills : f.t \in Int /\ f.sym \in Symbols
    BY ChildGoesOn
       DEF AlignType, TypeOK, SyncInv, alignVars, RunType, Fill, Time
  <1>. SUFFICES SyncingInv(p)'
    BY <1>0 DEF SyncInv
  <1>1. scan[p].req.start = run[p].start /\ scan[p].req.symbols = {}
    BY <1>0 DEF SyncingInv, SyncRequest
  <1>2. CASE ReadLatest(p)
    BY <1>0, <1>2 DEF ReadLatest, ScanType, SyncingInv, SyncRequest
  <1>3. CASE ReadCursor(p)
    <2>1. ScanStart(scan[p].req, watermark, scan[p].latest) = run[p].start
      BY <1>0, <1>1, ParametersAssumption DEF ScanStart, NoTime
    <2>2. /\ scan'[p].pc = "symbols" /\ scan'[p].start = run[p].start
          /\ scan'[p].req = scan[p].req /\ scan'[p].end = scan[p].end
      BY <1>0, <1>3, <2>1 DEF ReadCursor, ScanType
    <2>. QED  BY <1>0, <2>2 DEF SyncingInv, SyncRequest
  <1>4. CASE ResolveSymbols(p)
    <2>1. Scopes(scan[p].req) = {Symbols} /\ Legs(scan[p].req) = Symbols
      BY <1>0, <1>1, ParametersAssumption
         DEF Scopes, Legs, SyncingInv, SyncRequest
    <2>2. /\ scan'[p].pc = "fetch" /\ scan'[p].start = scan[p].start
          /\ scan'[p].req = scan[p].req /\ scan'[p].end = scan[p].end
          /\ scan'[p].pending = Symbols /\ scan[p].pc = "symbols"
      BY <1>0, <1>4, <2>1 DEF ResolveSymbols, ScanType
    <2>. QED  BY <1>0, <2>2 DEF SyncingInv, SyncRequest, Asked
  <1>5. ASSUME NEW s \in Symbols, Fetch(p, s)
        PROVE  SyncingInv(p)'
    <2>1. /\ scan[p].pc = "fetch" /\ scan'[p].pc = "fetch"
          /\ scan'[p].req = scan[p].req /\ scan'[p].end = scan[p].end
          /\ scan'[p].start = scan[p].start
          /\ scan'[p].pending = scan[p].pending \ {s}
          /\ scan'[p].fetched = scan[p].fetched \cup Shown(p, s)
      BY <1>0, <1>5 DEF Fetch, ScanType
    <2>2. ASSUME NEW f \in Asked(p), f.sym = s
          PROVE  f \in Shown(p, s)
      <3>1. f \in published
        BY <1>0, <2>2, ParametersAssumption, AlignmentAssumption
           DEF ShownInTime, Asked
      <3>. QED  BY <1>0, <2>1, <2>2, <3>1 DEF Shown, Asked, SyncingInv
    <2>. QED  BY <1>0, <2>1, <2>2 DEF SyncingInv, SyncRequest, Asked
  <1>. QED  BY <1>2, <1>3, <1>4, <1>5 DEF ChildWorks
(* A sync that succeeded has stored its whole interval. *)
LEMMA SyncStores ==
    ASSUME AlignType, NEW p \in Procs, SyncInv(p), run[p].pc = "syncing",
           Commit(p) \/ SkipBeyondEnd(p)
    PROVE  Asked(p) \subseteq rows'
  <1>0. /\ SyncingInv(p) /\ StMs =< run[p].start
        /\ run[p].start \in Int /\ run[p].cand \in Int
    BY DEF SyncInv, AlignType, RunType
  <1>1. CASE Commit(p)
    <2>1. scan[p].pc = "fetch" /\ scan[p].pending = {}
          /\ rows' = rows \cup scan[p].fetched
      BY <1>1 DEF Commit
    <2>. QED  BY <1>0, <2>1 DEF SyncingInv
  <1>2. CASE SkipBeyondEnd(p)
    <2>1. ScanStart(scan[p].req, watermark, scan[p].latest) = run[p].start
      BY <1>0, ParametersAssumption
         DEF SyncingInv, SyncRequest, ScanStart, NoTime
    <2>. QED  BY <1>0, <1>2, <2>1 DEF SkipBeyondEnd, SyncingInv
  <1>. QED  BY <1>1, <1>2

(* Every step keeps what a run that synced its interval knows. *)
LEMMA SyncStep ==
    ASSUME Lateness < Gap, Mode # "symbol", AlignType, AlignType', ShownInTime,
           \A p \in Procs : OwnChild(p) /\ SyncInv(p),
           [AlignNext]_allVars, NEW p \in Procs
    PROVE  SyncInv(p)'
  <1>0. /\ SyncInv(p) /\ run[p] \in RunType /\ DOMAIN run = Procs
        /\ now \in Int /\ watermark \in Int /\ verified \in Int
        /\ StMs \in Int /\ Gap \in Int
    BY ParametersAssumption, AlignmentAssumption
       DEF AlignType, TypeOK, Time, NoTime
  <1>. USE DEF SyncInv
  <1>1. CASE run'[p] = run[p]
    <2>1. CASE run[p].pc = "syncing" /\ ChildWorks(p)
      BY <1>0, <2>1, SyncWorks
    <2>2. CASE run[p].pc = "syncing" => scan'[p] = scan[p]
      BY <1>0, <1>1, <2>2, SyncFrame
    <2>. QED  BY <1>1, <2>1, <2>2, SyncingFrame
  <1>2. CASE /\ run'[p].pc \in {"idle", "scan", "start", "persist_mismatch",
                                "persist_failed"}
             /\ run'[p].synced => run[p].pc = "scan" /\ run[p].synced
    BY <1>0, <1>2
  <1>3. CASE Start(p)
    <2>1. /\ run'[p].pc = "checkpoint" /\ run'[p].cand = now - Gap
          /\ run'[p].synced = run[p].synced /\ now' = now
          /\ run[p].pc = "start"
      BY <1>0, <1>3 DEF Start, RunType, vars, Settled
    <2>. QED  BY <1>0, <2>1
  <1>4. CASE LoadCheckpoint(p)
    <2>1. /\ run'[p].pc \in {"reload", "sync"} /\ run'[p].cand = run[p].cand
          /\ run'[p].start = CompareFrom(verified, watermark)
          /\ run'[p].synced = run[p].synced /\ now' = now
          /\ run[p].pc = "checkpoint"
      BY <1>0, <1>4 DEF LoadCheckpoint, RunType, vars
    <2>2. StMs =< CompareFrom(verified, watermark)
      BY <1>0, AlignmentAssumption DEF CompareFrom, MaxOf
    <2>. QED  BY <1>0, <2>1, <2>2
  <1>5. CASE SyncStart(p)
    <2>1. /\ run'[p].pc = "syncing" /\ run'[p].cand = run[p].cand
          /\ run'[p].start = run[p].start /\ run'[p].synced = run[p].synced
          /\ run[p].pc = "sync" /\ Launch(p, SyncRequest(p), run[p].cand)
      BY <1>0, <1>5 DEF SyncStart, RunType
    <2>2. /\ scan'[p].pc = "latest" /\ scan'[p].req = SyncRequest(p)
          /\ scan'[p].end = run[p].cand /\ now' = now
      BY <2>1 DEF Launch, Idle, AlignType, TypeOK
    <2>3. run[p].start =< run[p].cand
      <3>1. /\ SyncRequest(p).start = run[p].start
            /\ run[p].start \in Int /\ StMs =< run[p].start
        BY <1>0, <2>1 DEF SyncRequest, RunType
      <3>2. run[p].start # NoTime
        BY <3>1, ParametersAssumption DEF NoTime
      <3>. QED  BY <2>1, <3>1, <3>2 DEF Launch
    <2>4. SyncRequest(p)' = SyncRequest(p)
      BY <2>1 DEF SyncRequest
    <2>. QED  BY <1>0, <2>1, <2>2, <2>3, <2>4 DEF SyncingInv
  <1>6. CASE SyncRefused(p)
    <2>1. /\ run'[p].pc = "reload" /\ run'[p].cand = run[p].cand
          /\ run'[p].synced = run[p].synced /\ now' = now
          /\ run[p].pc = "sync"
      BY <1>0, <1>6 DEF SyncRefused, RunType, vars
    <2>. QED  BY <1>0, <2>1
  <1>7. CASE SyncEnd(p)
    <2>1. /\ run[p].pc = "syncing" /\ run'[p].pc = "reload"
          /\ run'[p].cand = run[p].cand /\ run'[p].start = run[p].start
          /\ run'[p].synced => Commit(p) \/ SkipBeyondEnd(p)
      BY <1>0, <1>7, SyncEnded
    <2>2. UNCHANGED <<now, fills>>
      BY <1>7 DEF SyncEnd, Commit, SkipBeyondEnd, Fail
    <2>3. Asked(p)' = Asked(p)
      BY <2>1, <2>2 DEF Asked
    <2>4. run'[p].synced => Asked(p) \subseteq rows'
      BY <1>0, <2>1, SyncStores
    <2>. QED  BY <1>0, <2>1, <2>2, <2>3, <2>4
  <1>8. CASE Reload(p)
    <2>1. /\ run[p].pc = "reload" /\ run'[p].pc = "pg"
          /\ run'[p].cand = run[p].cand /\ run'[p].start = run[p].start
          /\ run'[p].synced = run[p].synced /\ run'[p].end = ActualEnd(p)
          /\ UNCHANGED <<now, fills, rows>>
      BY <1>0, <1>8 DEF Reload, RunType, vars
    <2>2. ActualEnd(p) =< run[p].cand
      BY <1>0 DEF ActualEnd, MinOf, RunType
    <2>. QED  BY <1>0, <2>1, <2>2 DEF Asked
  <1>9. CASE ExportPg(p)
    <2>1. /\ run[p].pc = "pg" /\ run'[p].pc = "compare"
          /\ run'[p].cand = run[p].cand /\ run'[p].start = run[p].start
          /\ run'[p].end = run[p].end /\ run'[p].synced = run[p].synced
          /\ run'[p].pg = Within(p, rows)
          /\ UNCHANGED <<now, fills, rows>>
      BY <1>0, <1>9 DEF ExportPg, RunType, vars
    <2>2. run[p].synced => Within(p, fills) \subseteq Within(p, rows)
      <3>1. /\ run[p].end =< run[p].cand
            /\ run[p].end \in Int /\ run[p].cand \in Int
            /\ \A f \in fills : f.t \in Int
        BY <1>0, <2>1 DEF RunType, AlignType, TypeOK, Fill, Time
      <3>2. Within(p, fills) \subseteq Asked(p)
        BY <3>1 DEF Within, Asked
      <3>. QED  BY <1>0, <2>1, <3>2 DEF Within
    <2>. QED  BY <1>0, <2>1, <2>2 DEF Within
  <1>10. CASE Compare(p)
    <2>1. /\ run[p].pc = "compare" /\ run'[p].pc = "complete"
          /\ run'[p].cand = run[p].cand /\ now' = now
      BY <1>0, <1>10 DEF Compare, RunType, vars
    <2>. QED  BY <1>0, <2>1
  <1>. QED
    BY <1>1, <1>2, <1>3, <1>4, <1>5, <1>6, <1>7, <1>8, <1>9, <1>10, RunChanges

(* A mismatch of a whole interval is a fill that RocksDB lacks. *)
LEMMA AlarmStep ==
    ASSUME AlignType, AlignType', AlarmInv, [AlignNext]_allVars
    PROVE  NoFalseAlarm'
  <1>0. rows \subseteq fills
    BY DEF AlarmInv, ShownInTime, AlignType, TypeOK
  <1>. SUFFICES ASSUME NEW p \in Procs, run'[p].pc = "complete",
                       run'[p].synced, ~run'[p].aligned
                PROVE  \E f \in fills' \ local' : f \in rows'
    BY DEF NoFalseAlarm
  <1>1. /\ run[p] \in RunType /\ DOMAIN run = Procs /\ SyncInv(p)
    BY DEF AlignType, AlarmInv
  <1>2. CASE run'[p] = run[p]
    <2>1. NoFalseAlarm
      BY DEF AlarmInv
    <2>2. run[p].pc = "complete" /\ run[p].synced /\ ~run[p].aligned
      BY <1>2
    <2>3. PICK f \in fills \ local : f \in rows
      BY <2>1, <2>2 DEF NoFalseAlarm
    <2>4. fills \subseteq fills' /\ rows \subseteq rows'
      BY Forward
    <2>5. f \notin local'
      BY <2>3, LocalNew
    <2>. QED  BY <2>3, <2>4, <2>5
  <1>3. CASE Compare(p)
    <2>1. /\ run[p].pc = "compare" /\ run[p].synced /\ ~Aligned(p)
          /\ UNCHANGED <<fills, rows, local>>
      BY <1>1, <1>3 DEF Compare, RunType, vars
    <2>2. run[p].pg # Within(p, local)
      BY <2>1 DEF Aligned, LocalQuantities
    <2>3. /\ Within(p, local) \subseteq run[p].pg
          /\ run[p].pg \subseteq Within(p, rows)
      BY <1>1, <2>1 DEF SyncInv, AlignType, Within
    <2>4. PICK f \in run[p].pg : f \notin Within(p, local)
      BY <2>2, <2>3
    <2>5. f \in rows /\ f \notin local
      BY <2>3, <2>4 DEF Within
    <2>. QED  BY <1>0, <2>1, <2>5
  <1>4. CASE ~Compare(p) /\ run'[p] # run[p]
    <2>. SUFFICES run'[p].pc # "complete"
      OBVIOUS
    <2>1. CASE Start(p)
      BY <1>1, <2>1 DEF Start, RunType, NoRun
    <2>2. CASE LoadCheckpoint(p)
      BY <1>1, <2>2 DEF LoadCheckpoint, RunType, NoRun
    <2>3. CASE SyncStart(p)
      BY <1>1, <2>3 DEF SyncStart, RunType, NoRun
    <2>4. CASE SyncRefused(p)
      BY <1>1, <2>4 DEF SyncRefused, RunType, NoRun
    <2>5. CASE Reload(p)
      BY <1>1, <2>5 DEF Reload, RunType, NoRun
    <2>6. CASE ExportPg(p)
      BY <1>1, <2>6 DEF ExportPg, RunType, NoRun
    <2>7. CASE SyncEnd(p)
      BY <2>7, SyncEnded
    <2>. QED
      BY <1>4, <2>1, <2>2, <2>3, <2>4, <2>5, <2>6, <2>7, RunChanges
  <1>. QED  BY <1>2, <1>3, <1>4

(***************************************************************************)
(* A run that synced its own interval reports a mismatch only if RocksDB   *)
(* lacks a fill that PostgreSQL has, when the settlement gap exceeds the   *)
(* publication delay: no scan or run beside it takes away what it read.    *)
(***************************************************************************)
THEOREM MismatchMeansLoss ==
    ASSUME Lateness < Gap, Mode # "symbol"
    PROVE  AlignSpec => []NoFalseAlarm
  <1>1. AlignInit => AlarmInv
    BY DEF AlignInit, Init, AlarmInv, ShownInTime, FetchedShown, Idle, OwnChild,
           SyncInv, NoRun, NoFalseAlarm
  <1>2. AlignType /\ AlignType' /\ AlarmInv /\ [AlignNext]_allVars => AlarmInv'
    <2>. SUFFICES ASSUME AlignType, AlignType', AlarmInv, [AlignNext]_allVars
                  PROVE  AlarmInv'
      OBVIOUS
    <2>1. \A p \in Procs : OwnChild(p)'
      BY OwnChildStep DEF AlarmInv
    <2>2. \A p \in Procs : SyncInv(p)'
      BY SyncStep DEF AlarmInv
    <2>. QED  BY <2>1, <2>2, ShownStep, AlarmStep DEF AlarmInv
  <1>3. AlarmInv => NoFalseAlarm
    BY DEF AlarmInv
  <1>. QED  BY <1>1, <1>2, <1>3, AlignTypeCorrect, PTL DEF AlignSpec
=============================================================================
