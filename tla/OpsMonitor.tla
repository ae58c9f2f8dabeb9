----------------------------- MODULE OpsMonitor -----------------------------
(***************************************************************************)
(* The operations monitor (src/src/ops_monitor.rs) of one environment: a   *)
(* refresh loop reads the new bytes of every component's log, keeps recent *)
(* alerts and the orders and rejections that make up trading blocks, and   *)
(* publishes a snapshot.  The components write, rotate and truncate their  *)
(* logs at any moment, but not between the monitor's stat and open of one  *)
(* file.                                                                   *)
(*                                                                         *)
(* A log is a sequence of half lines: a line may be seen half written.     *)
(***************************************************************************)
EXTENDS Integers, Sequences, FiniteSets, SequencesExt, Absent

CONSTANTS
    Roles,         \* the scanned components, in the order of COMPONENT_ROLES
    Kinds,         \* [role -> kinds of lines it writes]
    Clients,       \* client order ids
    Window,        \* warning_window_secs
    OrderWindow,   \* ORDER_CONTEXT_WINDOW_MS
    InitialBytes,  \* INITIAL_LOG_BYTES, in half lines
    MaxRead,       \* MAX_LOG_READ_BYTES, in half lines
    MaxEvents,     \* MAX_EVENTS_PER_COMPONENT
    MaxLines,      \* bound: [role -> lines written]
    ProcessStates, \* bound: [role -> states its processes may get into]
    Halved,        \* bound: components whose lines are seen half written
    MonitorEnd,    \* bound: clock
    MaxFaults      \* bound: rotations, truncations, processes that change

ASSUME OpsAssumption ==
    /\ Window \in Nat /\ OrderWindow \in Nat /\ Window =< OrderWindow
    /\ InitialBytes \in Nat /\ MaxRead \in Nat /\ InitialBytes =< MaxRead
    /\ MaxEvents \in Nat \ {0}
    /\ \A role \in DOMAIN MaxLines : MaxLines[role] \in Nat
    /\ MonitorEnd \in Nat /\ MaxFaults \in Nat
    /\ \A role \in DOMAIN Kinds :
         Kinds[role] \subseteq {"order", "block", "alert", "expected", "odd"}
    /\ \A role \in DOMAIN ProcessStates :
         ProcessStates[role] \subseteq {"none", "one", "zombie", "stuck", "two"}

VARIABLES
    now, written, faults,
    log,        \* [role -> the file: exists, inode, bytes]
    generation, \* history: [role -> content of the file began anew so often]
    procs,      \* [role -> state of its processes]
    cursors,    \* LogMonitor::cursors
    events,     \* LogMonitor::events
    truncated,  \* LogMonitor::truncated
    orders,     \* LogMonitor::orders: when the order was last mentioned
    failures,   \* LogMonitor::trading_block_failures: when
    refresh,    \* the refresh under way
    snapshot,   \* the published OverviewResponse
    excused     \* history: lines the monitor cannot know or chose to skip

env == <<now, written, faults, log, generation, procs>>
monitor == <<cursors, events, truncated, orders, failures, excused>>
monitorVars == <<env, monitor, refresh, snapshot>>

RoleSet == {Roles[k] : k \in DOMAIN Roles}

NoCursor == [inode |-> 0, offset |-> 0, partial |-> <<>>, gen |-> 0, at |-> 0]
Asleep == [next |-> 0, at |-> 0, procs |-> procs, stat |-> None]

MonitorInit ==
    /\ now = 0 /\ faults = 0
    /\ written = [role \in RoleSet |-> 0]
    /\ log = [role \in RoleSet |->
                [exists |-> TRUE, inode |-> 1, bytes |-> <<>>]]
    /\ generation = [role \in RoleSet |-> 0]
    /\ procs = [role \in RoleSet |-> "one"]
    /\ cursors = [role \in RoleSet |-> NoCursor]
    /\ events = [role \in RoleSet |-> <<>>]
    /\ truncated = [role \in RoleSet |-> FALSE]
    /\ orders = [c \in Clients |-> None]
    /\ failures = [c \in Clients |-> None]
    /\ refresh = Asleep
    /\ snapshot = None
    /\ excused = {}
-----------------------------------------------------------------------------
(* The components. *)

Half(line, part) == [line |-> line, part |-> part]
Dangling(role) ==
    log[role].bytes # <<>> /\ Last(log[role].bytes).part = "head"

(* A line is written in one piece, or a reader sees its first half. *)
StartLine(role) ==
    /\ written[role] < MaxLines[role] /\ log[role].exists /\ ~Dangling(role)
    /\ \E kind \in Kinds[role], c \in Clients,
          whole \in (IF role \in Halved THEN BOOLEAN ELSE {TRUE}) :
          LET line == [id |-> <<role, written[role]>>, kind |-> kind, client |-> c,
                   at |-> now]
          IN  log' = [log EXCEPT ![role].bytes =
                        @ \o (IF whole
                              THEN <<Half(line, "head"), Half(line, "tail")>>
                              ELSE <<Half(line, "head")>>)]
    /\ written' = [written EXCEPT ![role] = @ + 1]
    /\ UNCHANGED <<now, faults, generation, procs, monitor,
                   refresh, snapshot>>

EndLine(role) ==
    /\ log[role].exists /\ Dangling(role)
    /\ log' = [log EXCEPT ![role].bytes =
                  Append(@, Half(Last(@).line, "tail"))]
    /\ UNCHANGED <<now, written, faults, generation, procs,
                   monitor, refresh, snapshot>>

(* No file changes identity between the monitor's stat and open. *)
Stable == refresh.stat = None

(* The log is renamed; the component creates a new one later. *)
Rotate(role) ==
    /\ Stable /\ log[role].exists /\ faults < MaxFaults
    /\ log' = [log EXCEPT ![role] =
                  [exists |-> FALSE, inode |-> @.inode + 1, bytes |-> <<>>]]
    /\ generation' = [generation EXCEPT ![role] = @ + 1]
    /\ faults' = faults + 1
    /\ UNCHANGED <<now, written, procs, monitor, refresh, snapshot>>

Recreate(role) ==
    /\ Stable /\ ~log[role].exists
    /\ log' = [log EXCEPT ![role].exists = TRUE]
    /\ UNCHANGED <<now, written, faults, generation, procs,
                   monitor, refresh, snapshot>>

(* The log is copied and truncated in place. *)
Truncate(role) ==
    /\ Stable /\ log[role].exists /\ log[role].bytes # <<>>
    /\ faults < MaxFaults
    /\ log' = [log EXCEPT ![role].bytes = <<>>]
    /\ generation' = [generation EXCEPT ![role] = @ + 1]
    /\ faults' = faults + 1
    /\ UNCHANGED <<now, written, procs, monitor, refresh, snapshot>>

ChangeProcess(role) ==
    /\ faults < MaxFaults
    /\ \E s \in ProcessStates[role] \ {procs[role]} :
          procs' = [procs EXCEPT ![role] = s]
    /\ faults' = faults + 1
    /\ UNCHANGED <<now, written, log, generation, monitor, refresh,
                   snapshot>>

MonitorTick ==
    /\ now < MonitorEnd
    /\ now' = now + 1
    /\ UNCHANGED <<written, faults, log, generation, procs,
                   monitor, refresh, snapshot>>
-----------------------------------------------------------------------------
(* Reading a log. *)

Larger(a, b) == IF a >= b THEN a ELSE b
Smaller(a, b) == IF a =< b THEN a ELSE b
OrZero(n) == IF n < 0 THEN 0 ELSE n

(* The complete lines of a text, each a sequence of halves, and the rest. *)
Split(bytes) ==
    FoldLeft(LAMBDA acc, half :
                 IF half.part = "tail"
                 THEN [lines |-> Append(acc.lines, Append(acc.rest, half)),
                       rest |-> <<>>]
                 ELSE [acc EXCEPT !.rest = Append(@, half)],
             [lines |-> <<>>, rest |-> <<>>], bytes)

(* The text without its first line. *)
AfterFirstLine(bytes) ==
    LET tails == {k \in DOMAIN bytes : bytes[k].part = "tail"}
    IN  IF tails = {} THEN <<>>
        ELSE SubSeq(bytes, 1 + (CHOOSE k \in tails : \A j \in tails : k =< j),
                    Len(bytes))

(* Where a scan starts, given the file it saw. *)
Reset(cursor, stat) ==
    cursor.inode # stat.inode \/ stat.len < cursor.offset

Start(cursor, stat) ==
    LET start == IF Reset(cursor, stat) THEN OrZero(stat.len - InitialBytes)
                 ELSE cursor.offset
    IN  IF stat.len - start > MaxRead THEN stat.len - MaxRead ELSE start

Skips(cursor, stat) ==
    stat.len - (IF Reset(cursor, stat) THEN OrZero(stat.len - InitialBytes)
                ELSE cursor.offset) > MaxRead

MidFile(cursor, stat) ==
    LET start == Start(cursor, stat)
    IN  start > 0 /\ (Reset(cursor, stat) \/ start # cursor.offset)

(* Mutant of Text: what was left of the last read is forgotten. *)
TextWithoutPartial(cursor, stat, bytes) ==
    LET start == Start(cursor, stat)
        read == SubSeq(bytes, start + 1, Smaller(start + MaxRead, Len(bytes)))
    IN  IF MidFile(cursor, stat) THEN AfterFirstLine(read) ELSE read

Text(cursor, stat, bytes) ==
    LET start == Start(cursor, stat)
        read == SubSeq(bytes, start + 1, Smaller(start + MaxRead, Len(bytes)))
    IN  IF MidFile(cursor, stat) THEN AfterFirstLine(read)
        ELSE cursor.partial \o read

(* The time of a line is the first one on it. *)
At(text) == text[1].line.at
HasTime(text) == text[1].part = "head"
Mentions(text, kinds) == \E k \in DOMAIN text : text[k].line.kind \in kinds

(***************************************************************************)
(* The filters: rejections near or at a configured limit, cancel races,    *)
(* unlocked account blocks and generic HTTP classifications.               *)
(***************************************************************************)
IsExpected(text) == Mentions(text, {"expected"})
IsOrder(text) == Mentions(text, {"order"})
IsFailure(text) == Mentions(text, {"block"})

(* parse_log_event: a rejection is an alert, too *)
IsAlert(text, at) ==
    /\ Mentions(text, {"block", "alert"}) /\ ~IsExpected(text)
    /\ HasTime(text) /\ at - At(text) =< Window

EventOf(text) == [id |-> Last(text).line.id, at |-> At(text)]

(* parse_log_timestamp panics where a Z stands before the first bracket. *)
Panics(text) == Mentions(text, {"odd"})
-----------------------------------------------------------------------------
(* LogMonitor. *)

(* observe_trading_line *)
Observed(state, text, at) ==
    LET c == Last(text).line.client
        age == at - At(text)
        newest == IF state.orders[c] = None THEN At(text)
                  ELSE Larger(state.orders[c], At(text))
    IN  IF ~HasTime(text) \/ age > OrderWindow THEN state
        ELSE [orders |-> IF IsOrder(text)
                         THEN [state.orders EXCEPT ![c] = newest]
                         ELSE state.orders,
              failures |-> IF IsFailure(text) /\ age =< Window
                           THEN [state.failures EXCEPT ![c] = At(text)]
                           ELSE state.failures]

(* Mutant of Pruned: orders go as soon as rejections do. *)
PrunedTogether(state, at) ==
    LET kept(f) == [c \in Clients |->
                      IF f[c] # None /\ at - f[c] > Window THEN None ELSE f[c]]
    IN  [orders |-> kept(state.orders), failures |-> kept(state.failures)]

(* prune_trading_state *)
Pruned(state, at) ==
    LET kept(f, window) ==
            [c \in Clients |->
                IF f[c] # None /\ at - f[c] > window THEN None ELSE f[c]]
    IN  [orders |-> kept(state.orders, OrderWindow),
         failures |-> kept(state.failures, Window)]

(* The front of the queue goes while it is too old. *)
Expired(queue, at) ==
    LET recent == {k \in DOMAIN queue : at - queue[k].at =< Window}
    IN  IF recent = {} THEN <<>>
        ELSE SubSeq(queue, CHOOSE k \in recent : \A j \in recent : k =< j,
                    Len(queue))

(* trading_blocks: rejections whose order is known *)
TradingBlocks ==
    {c \in Clients : failures[c] # None /\ orders[c] # None}

(***************************************************************************)
(* History: the lines a scan does not promise to report.  They lie at or   *)
(* before the position at which a new or replaced file is begun, or before *)
(* the cursor in a file that was truncated and has grown again since, or   *)
(* follow the unfinished line of another file.                             *)
(***************************************************************************)
Excused(role, cursor, stat, bytes) ==
    LET start == Start(cursor, stat)
        begun == Reset(cursor, stat) /\ start > 0
        foreign == ~Reset(cursor, stat) /\ cursor.gen # generation[role]
        glued == /\ cursor.partial # <<>>
                 /\ cursor.offset \notin DOMAIN bytes
                    \/ Last(cursor.partial) # bytes[cursor.offset]
    IN  IF begun \/ foreign \/ glued
        THEN {bytes[k].line.id : k \in 1..Smaller(start + 1, Len(bytes))}
        ELSE {}

Scanned(role, cursor, stat, bytes, at) ==
    LET text == Split(Text(cursor, stat, bytes))
        found == SelectSeq(text.lines, LAMBDA line : IsAlert(line, at))
        queue == Expired(events[role]
                         \o [k \in DOMAIN found |-> EventOf(found[k])], at)
        excess == OrZero(Len(queue) - MaxEvents)
        trading == Pruned(FoldLeft(LAMBDA state, line :
                                       Observed(state, line, at),
                                   [orders |-> orders, failures |-> failures],
                                   text.lines), at)
        start == Start(cursor, stat)
        end == Smaller(start + MaxRead, Len(bytes))
    IN  /\ events' = [events EXCEPT ![role] =
                         SubSeq(queue, excess + 1, Len(queue))]
        /\ truncated' = [truncated EXCEPT ![role] =
                            @ \/ Skips(cursor, stat) \/ excess > 0]
        /\ orders' = trading.orders
        /\ failures' = trading.failures
        /\ cursors' = [cursors EXCEPT ![role] =
                          [inode |-> stat.inode, offset |-> Larger(start, end),
                           partial |-> text.rest, gen |-> generation[role],
                           at |-> at]]
        /\ excused' = excused \cup Excused(role, cursor, stat, bytes)
-----------------------------------------------------------------------------
(* Monitor::refresh, run again and again by the refresh loop. *)

Begin ==
    /\ refresh.next = 0
    /\ refresh' = [next |-> 1, at |-> now, procs |-> procs, stat |-> None]
    /\ UNCHANGED <<env, monitor, snapshot>>

Scanning == refresh.next \in DOMAIN Roles

(* fs::metadata; without a file the scan returns at once. *)
Stat ==
    /\ Scanning /\ refresh.stat = None
    /\ LET file == log[Roles[refresh.next]]
       IN  refresh' =
             IF file.exists
             THEN [refresh EXCEPT !.stat = [inode |-> file.inode,
                                            len |-> Len(file.bytes)]]
             ELSE [refresh EXCEPT !.next = @ + 1]
    /\ UNCHANGED <<env, monitor, snapshot>>

Read ==
    /\ Scanning /\ refresh.stat # None
    /\ LET role == Roles[refresh.next]
           lines == Split(Text(cursors[role], refresh.stat,
                               log[role].bytes)).lines
       IN  /\ ~\E k \in DOMAIN lines : Panics(lines[k])
           /\ Scanned(role, cursors[role], refresh.stat, log[role].bytes,
                      refresh.at)
    /\ refresh' = [refresh EXCEPT !.next = @ + 1, !.stat = None]
    /\ UNCHANGED <<env, snapshot>>

(***************************************************************************)
(* The thread panics with the monitor locked: every later refresh fails at *)
(* the poisoned lock and the last snapshot stays.  What the scan did to    *)
(* the monitor's maps is never seen again.                                 *)
(***************************************************************************)
ReadPanics ==
    /\ Scanning /\ refresh.stat # None
    /\ LET role == Roles[refresh.next]
           lines == Split(Text(cursors[role], refresh.stat,
                               log[role].bytes)).lines
       IN  \E k \in DOMAIN lines : Panics(lines[k])
    /\ refresh' = [refresh EXCEPT !.next = -1, !.stat = None]
    /\ UNCHANGED <<env, monitor, snapshot>>

(* summary, without its samples *)
Alerts(role) == Len(events[role])

ComponentHealth(role) ==
    CASE refresh.procs[role] = "two" -> "duplicate"
      [] refresh.procs[role] = "zombie" -> "zombie"
      [] refresh.procs[role] = "none" -> "offline"
      [] refresh.procs[role] = "stuck" \/ Alerts(role) > 0 -> "warning"
      [] OTHER -> "online"

(* environment_health; the scanned roles are all critical *)
EnvironmentHealth ==
    LET health == {ComponentHealth(role) : role \in RoleSet}
    IN  IF health \cap {"offline", "duplicate", "zombie"} # {} THEN "critical"
        ELSE IF health = {"online"} THEN "healthy" ELSE "warning"

Publish ==
    /\ refresh.next = Len(Roles) + 1
    /\ snapshot' = [at |-> refresh.at, status |-> EnvironmentHealth,
                    blocks |-> TradingBlocks]
    /\ refresh' = Asleep
    /\ UNCHANGED <<env, monitor>>

MonitorNext ==
    \/ \E role \in RoleSet :
          \/ StartLine(role) \/ EndLine(role) \/ Rotate(role)
          \/ Recreate(role) \/ Truncate(role) \/ ChangeProcess(role)
    \/ MonitorTick \/ Begin \/ Stat \/ Read \/ ReadPanics \/ Publish

-----------------------------------------------------------------------------
(* Properties. *)

(* The lines of the current file that lie before the cursor. *)
Passed(role) ==
    LET cursor == cursors[role]
        bytes == log[role].bytes
    IN  IF cursor.inode = log[role].inode /\ cursor.gen = generation[role]
        THEN {bytes[k].line : k \in
                {j \in 1..Smaller(cursor.offset, Len(bytes)) :
                    bytes[j].part = "tail"}}
        ELSE {}

Due(role, kinds, window) ==
    {line \in Passed(role) :
        /\ line.kind \in kinds /\ line.id \notin excused
        /\ cursors[role].at - line.at =< window}

(***************************************************************************)
(* No recent alert is missed without the summary saying so, and none is    *)
(* counted twice or kept too long, however lines are split over reads,     *)
(* files grow between stat and read, and logs are rotated.                 *)
(***************************************************************************)
AlertsComplete ==
    \A role \in RoleSet :
        LET ids == {events[role][k].id : k \in DOMAIN events[role]}
        IN  /\ \A line \in Due(role, {"alert", "block"}, Window) :
                 line.id \in ids \/ truncated[role]
            /\ Cardinality(ids) = Len(events[role])
            /\ \A k \in DOMAIN events[role] :
                 cursors[role].at - events[role][k].at =< Window

(***************************************************************************)
(* A rejection is shown with its order: the order may have been created    *)
(* long before, in another component's log, and rotated away since the     *)
(* monitor read it.                                                        *)
(***************************************************************************)
BlocksCorrelated ==
    \A failed \in RoleSet, created \in RoleSet :
      \A f \in Due(failed, {"block"}, Window),
         o \in Due(created, {"order"}, OrderWindow) :
        /\ f.client = o.client
        /\ refresh.at - f.at =< Window /\ refresh.at - o.at =< OrderWindow
        /\ ~truncated[failed] /\ ~truncated[created]
        => f.client \in TradingBlocks

(***************************************************************************)
(* What is published is deserved: the blocks are correlated; an            *)
(* environment shown healthy had one process per component when the        *)
(* refresh began, not stuck in the kernel, and no recent alert in what was *)
(* read; one with no process, a zombie or two is critical                  *)
(* ("critical_component_offline_makes_environment_critical").              *)
(***************************************************************************)
PublishedIsDeserved ==
    refresh.next = Len(Roles) + 1 =>
        /\ BlocksCorrelated
        /\ EnvironmentHealth = "healthy" =>
              \A role \in RoleSet :
                /\ refresh.procs[role] = "one"
                /\ truncated[role]
                   \/ \A line \in Due(role, {"alert", "block"}, Window) :
                        refresh.at - line.at > Window
        /\ (\E role \in RoleSet : refresh.procs[role] \notin {"one", "stuck"}) =>
              EnvironmentHealth = "critical"
=============================================================================
