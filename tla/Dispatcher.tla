----------------------------- MODULE Dispatcher -----------------------------
(***************************************************************************)
(* The REST dispatcher (src/src/rest_dispatcher.rs): concurrent tasks      *)
(* share a pool of source IPs, each with a weight quota per window and a   *)
(* block after HTTP 429/418.  A caller reads the clock BEFORE it takes the *)
(* lock of the pool (reserve_client), and records the observed weight and  *)
(* the block in two more critical sections after the response, so other    *)
(* callers and the clock move in between.                                  *)
(***************************************************************************)
EXTENDS Integers, FiniteSets

CONSTANTS
    Callers,      \* tasks that share clones of one dispatcher
    NumIps,       \* config.local_ips.len()
    Limit,        \* config.max_weight_per_window
    Window,       \* config.window
    Retries,      \* config.max_rate_limit_retries
    Cooldown429,  \* config.cooldown_429
    Backoff418,   \* config.backoff_418
    Weights,      \* request weights
    Observed,     \* values of the used-weight response header
    RetryAfters,  \* values of the Retry-After header
    MaxTime       \* bound: the clock stops here

Absent == -1      \* a missing header, or blocked_until = None

(* DispatcherConfig::validate, and the types of the other parameters. *)
ASSUME ConfigAssumption ==
    /\ NumIps \in Nat \ {0} /\ Limit \in Nat \ {0} /\ Window \in Nat \ {0}
    /\ Retries \in Nat /\ Cooldown429 \in Nat /\ Backoff418 \in Nat
    /\ Weights \subseteq Nat /\ MaxTime \in Nat
    /\ Observed \subseteq Nat \cup {Absent}
    /\ RetryAfters \subseteq Nat \cup {Absent}

Ips == 0..(NumIps - 1)

Status == {200, 418, 429}

VARIABLES
    now,           \* Instant::now()
    used,          \* IpClient.used_weight
    windowStart,   \* IpClient.window_started_at
    blockedUntil,  \* IpClient.blocked_until
    tie,           \* PoolState.next_tie_break
    call,          \* the local state of each caller's dispatch
    spent,         \* history: weight reserved in the IP's current window
    banned         \* history: the latest end a Retry-After header asked for

pool == <<used, windowStart, blockedUntil, tie>>
vars == <<now, used, windowStart, blockedUntil, tie, call, spent, banned>>

(***************************************************************************)
(* A caller: stamp -> reserve -> sent -> limited, back to stamp for the    *)
(* next attempt.  seen is the clock value read in reserve_client, ip the   *)
(* reserved client, hint the retry_after of NoAvailableIp.                 *)
(***************************************************************************)
NoCall == [pc |-> "idle", weight |-> 0, attempt |-> 0, seen |-> 0, ip |-> 0,
           status |-> 200, hint |-> 0, result |-> "none"]

Init ==
    /\ now = 0
    /\ used = [i \in Ips |-> 0]
    /\ windowStart = [i \in Ips |-> 0]
    /\ blockedUntil = [i \in Ips |-> Absent]
    /\ tie = 0
    /\ call = [c \in Callers |-> NoCall]
    /\ spent = [i \in Ips |-> 0]
    /\ banned = [i \in Ips |-> 0]

Tick ==
    /\ now < MaxTime
    /\ now' = now + 1
    /\ UNCHANGED <<used, windowStart, blockedUntil, tie, call, spent, banned>>
-----------------------------------------------------------------------------
(* IpClient::refresh: duration_since saturates at zero, so a stale clock   *)
(* value never reopens a window.                                           *)

(* Mutant: the distance between the two instants, without saturation. *)
ExpiredByDistance(i, t) ==
    IF t >= windowStart[i] THEN t - windowStart[i] >= Window
                           ELSE windowStart[i] - t >= Window

Expired(i, t) == t - windowStart[i] >= Window

UsedAt(i, t) == IF Expired(i, t) THEN 0 ELSE used[i]

(* Mutant: a stale comparison that also clears a block that ends later. *)
BlockedEarly(i, t) == blockedUntil[i] # Absent /\ t + 1 < blockedUntil[i]

BlockedAt(i, t) == blockedUntil[i] # Absent /\ t < blockedUntil[i]

(* reserve_client: the clients that can take the weight. *)
Candidates(w, t) ==
    {i \in Ips : ~BlockedAt(i, t) /\ UsedAt(i, t) + w =< Limit}

(* The place of client i in the rotation that starts at next_tie_break. *)
Turn(i) == (i - tie + NumIps) % NumIps

(* min_by_key(used_weight) over the rotation: the first of the minima. *)
Selected(i, w, t) ==
    /\ i \in Candidates(w, t)
    /\ \A j \in Candidates(w, t) :
          \/ UsedAt(i, t) < UsedAt(j, t)
          \/ UsedAt(i, t) = UsedAt(j, t) /\ Turn(i) =< Turn(j)

MaxOf(a, b) == IF a >= b THEN a ELSE b

(* Mutant: the end of a block is not considered. *)
ReadyAtWindowOnly(i, w, t) ==
    IF UsedAt(i, t) + w > Limit
      THEN (IF Expired(i, t) THEN t ELSE windowStart[i]) + Window ELSE t

(* When client i could take the weight, as computed for NoAvailableIp. *)
ReadyAt(i, w, t) ==
    MaxOf(MaxOf(t, IF BlockedAt(i, t) THEN blockedUntil[i] ELSE t),
          IF UsedAt(i, t) + w > Limit
            THEN (IF Expired(i, t) THEN t ELSE windowStart[i]) + Window
            ELSE t)

(* next_tie_break after client i was reserved. *)
After(i) == (i + 1) % NumIps

(* The refresh of every client that starts reserve_client. *)
RefreshAll(t) ==
    /\ windowStart' = [i \in Ips |-> IF Expired(i, t) THEN t
                                                      ELSE windowStart[i]]
    /\ blockedUntil' = [i \in Ips |-> IF BlockedAt(i, t) THEN blockedUntil[i]
                                                         ELSE Absent]
-----------------------------------------------------------------------------
(* dispatch *)

Dispatch(c, w) ==
    /\ call[c].pc = "idle"
    /\ w =< Limit
    /\ call' = [call EXCEPT ![c] =
                  [NoCall EXCEPT !.pc = "stamp", !.weight = w, !.attempt = 1]]
    /\ UNCHANGED <<now, used, windowStart, blockedUntil, tie, spent, banned>>

(* WeightExceedsLimit *)
DispatchTooHeavy(c, w) ==
    /\ call[c].pc = "idle"
    /\ w > Limit
    /\ call' = [call EXCEPT ![c] = [NoCall EXCEPT !.result = "too_heavy"]]
    /\ UNCHANGED <<now, used, windowStart, blockedUntil, tie, spent, banned>>

(* let now = Instant::now(), before the lock *)
Stamp(c) ==
    /\ call[c].pc = "stamp"
    /\ call' = [call EXCEPT ![c] = [@ EXCEPT !.pc = "reserve", !.seen = now]]
    /\ UNCHANGED <<now, used, windowStart, blockedUntil, tie, spent, banned>>

Reserve(c) ==
    LET w == call[c].weight
        t == call[c].seen
    IN  /\ call[c].pc = "reserve"
        /\ \E i \in Ips :
              /\ Selected(i, w, t)
              /\ used' = [j \in Ips |->
                            IF j = i THEN UsedAt(j, t) + w ELSE UsedAt(j, t)]
              /\ spent' = [j \in Ips |->
                             (IF Expired(j, t) THEN 0 ELSE spent[j])
                             + (IF j = i THEN w ELSE 0)]
              /\ tie' = After(i)
              /\ call' = [call EXCEPT ![c] =
                            [@ EXCEPT !.pc = "sent", !.ip = i, !.seen = 0]]
        /\ RefreshAll(t)
        /\ UNCHANGED <<now, banned>>

(* The shortest wait over the clients. *)
IsHint(d, w, t) ==
    /\ \E i \in Ips : d = ReadyAt(i, w, t) - t
    /\ \A i \in Ips : d =< ReadyAt(i, w, t) - t

(* NoAvailableIp: the refresh stays, nothing is reserved. *)
NoAvailableIp(c) ==
    LET w == call[c].weight
        t == call[c].seen
    IN  /\ call[c].pc = "reserve"
        /\ Candidates(w, t) = {}
        /\ used' = [j \in Ips |-> UsedAt(j, t)]
        /\ spent' = [j \in Ips |-> IF Expired(j, t) THEN 0 ELSE spent[j]]
        /\ \E i \in Ips :
              /\ IsHint(ReadyAt(i, w, t) - t, w, t)
              /\ call' = [call EXCEPT ![c] =
                            [NoCall EXCEPT !.result = "no_ip",
                                           !.hint = ReadyAt(i, w, t) - t]]
        /\ RefreshAll(t)
        /\ UNCHANGED <<now, tie, banned>>

(* A transport error ends the dispatch: it is never retried. *)
TransportError(c) ==
    /\ call[c].pc = "sent"
    /\ call' = [call EXCEPT ![c] = [NoCall EXCEPT !.result = "transport"]]
    /\ UNCHANGED <<now, used, windowStart, blockedUntil, tie, spent, banned>>

(* Mutant: the header replaces the local estimate. *)
RaiseToReplace(i, observed) ==
    IF observed = Absent THEN used[i] ELSE observed

(* update_observed_weight: the header only raises the local estimate. *)
RaiseTo(i, observed) ==
    IF observed = Absent THEN used[i] ELSE MaxOf(used[i], observed)

(* The response arrives and its used-weight header is recorded. *)
Respond(c, status, observed) ==
    LET i == call[c].ip
    IN  /\ call[c].pc = "sent"
        /\ used' = [used EXCEPT ![i] = RaiseTo(i, observed)]
        /\ call' = [call EXCEPT ![c] =
                      IF status \in {418, 429}
                      THEN [@ EXCEPT !.pc = "limited", !.status = status]
                      ELSE [NoCall EXCEPT !.result = "ok"]]
        /\ UNCHANGED <<now, windowStart, blockedUntil, tie, spent, banned>>

(* Retry-After, or the configured pause for the status. *)
Pause(status, retryAfter) ==
    IF retryAfter # Absent THEN retryAfter
    ELSE IF status = 418 THEN Backoff418 ELSE Cooldown429

LastAttempt(c) == call[c].attempt = Retries + 1

(* Mutant: the attempt is not counted. *)
NextAttemptStuck(c) == call[c].attempt

NextAttempt(c) == call[c].attempt + 1

(* block_client, then RateLimited or the next attempt. *)
Block(c, retryAfter) ==
    LET i == call[c].ip
        until == now + Pause(call[c].status, retryAfter)
    IN  /\ call[c].pc = "limited"
        /\ blockedUntil' = [blockedUntil EXCEPT ![i] = until]
        /\ banned' = IF retryAfter = Absent THEN banned
                     ELSE [banned EXCEPT ![i] = MaxOf(@, until)]
        /\ call' = [call EXCEPT ![c] =
                      IF LastAttempt(c)
                      THEN [NoCall EXCEPT !.result = "rate_limited"]
                      ELSE [@ EXCEPT !.pc = "stamp", !.status = 200,
                                     !.attempt = NextAttempt(c)]]
        /\ UNCHANGED <<now, used, windowStart, tie, spent>>

CallStep(c) ==
    \/ Stamp(c)
    \/ Reserve(c)
    \/ NoAvailableIp(c)
    \/ TransportError(c)
    \/ \E s \in Status, o \in Observed : Respond(c, s, o)
    \/ \E d \in RetryAfters : Block(c, d)

Next ==
    \/ Tick
    \/ \E c \in Callers :
          \/ \E w \in Weights : Dispatch(c, w) \/ DispatchTooHeavy(c, w)
          \/ CallStep(c)

Spec == Init /\ [][Next]_vars

(***************************************************************************)
(* A caller that has started is scheduled until its dispatch returns: the  *)
(* runtime polls it, and request_timeout bounds the wait for the server.   *)
(***************************************************************************)
FairSpec == Spec /\ \A c \in Callers : WF_vars(CallStep(c))
-----------------------------------------------------------------------------
(* Properties. *)

CallType ==
    [pc: {"idle", "stamp", "reserve", "sent", "limited"}, weight: Nat,
     attempt: Nat, seen: Nat, ip: Ips, status: Status, hint: Int,
     result: {"none", "ok", "too_heavy", "no_ip", "transport",
              "rate_limited"}]

(* The types of the clock, the pool, the callers and the history. *)
TypeOK ==
    /\ now \in Nat
    /\ used \in [Ips -> Nat]
    /\ windowStart \in [Ips -> Nat]
    /\ blockedUntil \in [Ips -> Nat \cup {Absent}]
    /\ tie \in Ips
    /\ call \in [Callers -> CallType]
    /\ spent \in [Ips -> Nat]
    /\ banned \in [Ips -> Nat]

(***************************************************************************)
(* The weight reserved on an IP within one of its windows never exceeds    *)
(* the limit, whatever concurrent callers, late responses and stale clock  *)
(* values do ("Atomically reserves request weight before sending", README  *)
(* of the repository): the local estimate never falls below it.            *)
(***************************************************************************)
QuotaRespected ==
    \A i \in Ips : spent[i] =< Limit /\ spent[i] =< used[i]

(***************************************************************************)
(* A client is never reserved while its block is running in real time,     *)
(* although the reservation compares with an older clock value.            *)
(***************************************************************************)
BlockedIpNotReserved ==
    [][\A c \in Callers :
          call[c].pc = "reserve" /\ call'[c].pc = "sent"
             => blockedUntil[call'[c].ip] =< now]_vars

(***************************************************************************)
(* A caller with an old clock value never moves a window back: its weight  *)
(* would be counted in a window another caller has closed.                 *)
(***************************************************************************)
WindowNeverReopens ==
    [][\A i \in Ips : windowStart'[i] >= windowStart[i]]_vars

(* Could a request of weight w be reserved at time t in the pool as it is? *)
Reservable(w, t) == \E i \in Ips : ~BlockedAt(i, t) /\ UsedAt(i, t) + w =< Limit

(***************************************************************************)
(* The retry_after of NoAvailableIp is exact: a caller that waits that     *)
(* long finds a client if nobody else used the pool, and not earlier.      *)
(***************************************************************************)
HintIsExact ==
    [][\A c \in Callers :
          call[c].pc = "reserve" /\ call'[c].result = "no_ip"
             => /\ Reservable(call[c].weight, call[c].seen + call'[c].hint)
                /\ \A t \in call[c].seen .. call[c].seen + call'[c].hint - 1 :
                      ~Reservable(call[c].weight, t)]_vars

(***************************************************************************)
(* Every dispatch returns: with a response, an error, or NoAvailableIp.    *)
(***************************************************************************)
DispatchReturns ==
    \A c \in Callers : call[c].pc # "idle" ~> call[c].pc = "idle"

(***************************************************************************)
(* README: "On HTTP 429/418, honors numeric Retry-After, blocks that IP".  *)
(* A client is not reserved before the end of any pause a Retry-After      *)
(* header asked for on it; the configured pauses do not count.             *)
(***************************************************************************)
RetryAfterHonored ==
    [][\A c \in Callers :
          call[c].pc = "reserve" /\ call'[c].pc = "sent"
             => now >= banned[call'[c].ip]]_vars
=============================================================================
