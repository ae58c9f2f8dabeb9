--------------------------- MODULE RequestsProofs ---------------------------
(***************************************************************************)
(* Proofs about the requests to the exchanges.  Dispatcher, for every      *)
(* number of callers and source IPs: types, the quota of a window, the     *)
(* respect of a block, that a stale clock value never reopens a window,    *)
(* and the exactness of retry hints.  Pagination, for every range, window  *)
(* length and page size: how a download may end.                           *)
(***************************************************************************)
EXTENDS Dispatcher, Pagination, FiniteSetTheorems, WellFoundedInduction,
        SequenceTheorems, TLAPS

-----------------------------------------------------------------------------
(* Dispatcher.                                                             *)

(* The clock values a caller compares with are not in the future. *)
SeenByNow == \A c \in Callers : call[c].seen =< now

LEMMA IpsFacts == Ips \subseteq Nat /\ 0 \in Ips
BY ConfigAssumption DEF Ips

LEMMA NoCallType == NoCall \in CallType
BY IpsFacts DEF NoCall, CallType, Absent, Status

(* The rotation stays within the pool. *)
LEMMA NextTie == \A i \in Ips : After(i) \in Ips
BY ConfigAssumption DEF Ips, After

(* The usage counted at a clock value is a weight. *)
LEMMA UsedAtType ==
    ASSUME TypeOK, NEW i \in Ips, NEW t \in Nat
    PROVE  UsedAt(i, t) \in Nat
BY DEF UsedAt, TypeOK

(* refresh keeps the types of the windows and of the blocks. *)
LEMMA RefreshType ==
    ASSUME TypeOK, NEW t \in Nat, RefreshAll(t)
    PROVE  /\ windowStart' \in [Ips -> Nat]
           /\ blockedUntil' \in [Ips -> Nat \cup {Absent}]
BY DEF RefreshAll, TypeOK

LEMMA TypeStep ==
    ASSUME TypeOK, [Next]_vars
    PROVE  TypeOK'
  <1>. USE DEF TypeOK
  <1>1. CASE Tick
    BY <1>1 DEF Tick
  <1>2. ASSUME NEW c \in Callers, NEW w \in Weights,
               Dispatch(c, w) \/ DispatchTooHeavy(c, w)
        PROVE  TypeOK'
    <2>1. w \in Nat
      BY ConfigAssumption
    <2>2. /\ [NoCall EXCEPT !.pc = "stamp", !.weight = w, !.attempt = 1]
                \in CallType
          /\ [NoCall EXCEPT !.result = "too_heavy"] \in CallType
      BY <2>1, NoCallType DEF CallType
    <2>. QED  BY <1>2, <2>2 DEF Dispatch, DispatchTooHeavy
  <1>3. ASSUME NEW c \in Callers, Stamp(c)
        PROVE  TypeOK'
    <2>1. [call[c] EXCEPT !.pc = "reserve", !.seen = now] \in CallType
      BY DEF CallType
    <2>. QED  BY <1>3, <2>1 DEF Stamp
  <1>4. ASSUME NEW c \in Callers, Reserve(c)
        PROVE  TypeOK'
    <2>. DEFINE w == call[c].weight
                t == call[c].seen
    <2>1. w \in Nat /\ t \in Nat /\ call[c] \in CallType
      BY DEF CallType
    <2>2. PICK i \in Ips :
            /\ used' = [j \in Ips |->
                          IF j = i THEN UsedAt(j, t) + w ELSE UsedAt(j, t)]
            /\ spent' = [j \in Ips |->
                           (IF Expired(j, t) THEN 0 ELSE spent[j])
                           + (IF j = i THEN w ELSE 0)]
            /\ tie' = After(i)
            /\ call' = [call EXCEPT ![c] =
                          [@ EXCEPT !.pc = "sent", !.ip = i, !.seen = 0]]
      BY <1>4 DEF Reserve
    <2>3. RefreshAll(t) /\ UNCHANGED <<now, banned>>
      BY <1>4 DEF Reserve
    <2>4. used' \in [Ips -> Nat]
      BY <2>1, <2>2, UsedAtType
    <2>5. spent' \in [Ips -> Nat]
      BY <2>1, <2>2
    <2>6. tie' \in Ips
      BY <2>2, NextTie
    <2>7. call' \in [Callers -> CallType]
      BY <2>1, <2>2 DEF CallType
    <2>. QED  BY <2>1, <2>3, <2>4, <2>5, <2>6, <2>7, RefreshType
  <1>5. ASSUME NEW c \in Callers, NoAvailableIp(c)
        PROVE  TypeOK'
    <2>. DEFINE w == call[c].weight
                t == call[c].seen
    <2>1. w \in Nat /\ t \in Nat
      BY DEF CallType
    <2>2. PICK i \in Ips :
            call' = [call EXCEPT ![c] =
                       [NoCall EXCEPT !.result = "no_ip",
                                      !.hint = ReadyAt(i, w, t) - t]]
      BY <1>5 DEF NoAvailableIp
    <2>3. ReadyAt(i, w, t) - t \in Int
      BY <2>1, ConfigAssumption DEF ReadyAt, MaxOf, BlockedAt
    <2>4. call' \in [Callers -> CallType]
      BY <2>2, <2>3, NoCallType DEF CallType
    <2>5. used' \in [Ips -> Nat] /\ spent' \in [Ips -> Nat]
      BY <1>5, <2>1, UsedAtType DEF NoAvailableIp
    <2>. QED
      BY <1>5, <2>1, <2>4, <2>5, RefreshType DEF NoAvailableIp
  <1>6. ASSUME NEW c \in Callers, TransportError(c)
        PROVE  TypeOK'
    <2>1. [NoCall EXCEPT !.result = "transport"] \in CallType
      BY NoCallType DEF CallType
    <2>. QED  BY <1>6, <2>1 DEF TransportError
  <1>7. ASSUME NEW c \in Callers, NEW s \in Status, NEW o \in Observed,
               Respond(c, s, o)
        PROVE  TypeOK'
    <2>1. call[c].ip \in Ips /\ call[c] \in CallType
      BY DEF CallType
    <2>2. RaiseTo(call[c].ip, o) \in Nat
      BY <2>1, ConfigAssumption DEF RaiseTo, MaxOf, Absent
    <2>3. [NoCall EXCEPT !.result = "ok"] \in CallType
      BY NoCallType DEF CallType
    <2>4. [call[c] EXCEPT !.pc = "limited", !.status = s] \in CallType
      BY <2>1 DEF CallType
    <2>. QED  BY <1>7, <2>1, <2>2, <2>3, <2>4 DEF Respond
  <1>8. ASSUME NEW c \in Callers, NEW d \in RetryAfters, Block(c, d)
        PROVE  TypeOK'
    <2>1. call[c] \in CallType /\ call[c].ip \in Ips
          /\ call[c].attempt \in Nat
      BY DEF CallType
    <2>2. now + Pause(call[c].status, d) \in Nat
      BY ConfigAssumption DEF Pause, Absent
    <2>3. [NoCall EXCEPT !.result = "rate_limited"] \in CallType
      BY NoCallType DEF CallType
    <2>4. [call[c] EXCEPT !.pc = "stamp",
                          !.status = 200, !.attempt = NextAttempt(c)]
                \in CallType
      <3>1. NextAttempt(c) \in Nat /\ 200 \in Status
        BY <2>1 DEF NextAttempt, Status
      <3>. QED  BY <2>1, <3>1 DEF CallType
    <2>5. call' \in [Callers -> CallType]
      BY <1>8, <2>3, <2>4 DEF Block
    <2>6. blockedUntil' \in [Ips -> Nat \cup {Absent}]
      BY <1>8, <2>1, <2>2 DEF Block
    <2>7. banned' \in [Ips -> Nat]
      BY <1>8, <2>1, <2>2 DEF Block, MaxOf
    <2>. QED  BY <1>8, <2>5, <2>6, <2>7 DEF Block
  <1>9. CASE UNCHANGED vars
    BY <1>9 DEF vars
  <1>. QED
    BY <1>1, <1>2, <1>3, <1>4, <1>5, <1>6, <1>7, <1>8, <1>9
       DEF Next, CallStep

(* The pool, the callers and the history keep their types. *)
THEOREM TypeCorrect == Spec => []TypeOK
  <1>1. Init => TypeOK
    BY NoCallType, IpsFacts DEF Init, TypeOK, Absent
  <1>. QED  BY <1>1, TypeStep, PTL DEF Spec
-----------------------------------------------------------------------------
(* No step reserves more than the limit in a window. *)
LEMMA QuotaStep ==
    ASSUME TypeOK, QuotaRespected, [Next]_vars
    PROVE  QuotaRespected'
  <1>. USE DEF QuotaRespected
  <1>1. ASSUME NEW c \in Callers, Reserve(c)
        PROVE  QuotaRespected'
    <2>. DEFINE w == call[c].weight
                t == call[c].seen
    <2>1. w \in Nat /\ t \in Nat
      BY DEF TypeOK, CallType
    <2>2. PICK i \in Ips :
            /\ UsedAt(i, t) + w =< Limit
            /\ used' = [j \in Ips |->
                          IF j = i THEN UsedAt(j, t) + w ELSE UsedAt(j, t)]
            /\ spent' = [j \in Ips |->
                           (IF Expired(j, t) THEN 0 ELSE spent[j])
                           + (IF j = i THEN w ELSE 0)]
      BY <1>1 DEF Reserve, Selected, Candidates
    <2>. QED
      BY <2>1, <2>2, ConfigAssumption DEF UsedAt, TypeOK
  <1>2. ASSUME NEW c \in Callers, NoAvailableIp(c)
        PROVE  QuotaRespected'
    BY <1>2, ConfigAssumption DEF NoAvailableIp, UsedAt, TypeOK
  <1>3. ASSUME NEW c \in Callers, NEW s \in Status, NEW o \in Observed,
               Respond(c, s, o)
        PROVE  QuotaRespected'
    <2>1. call[c].ip \in Ips
      BY DEF TypeOK, CallType
    <2>2. RaiseTo(call[c].ip, o) \in Nat /\ RaiseTo(call[c].ip, o) >= used[call[c].ip]
      BY <2>1, ConfigAssumption DEF RaiseTo, MaxOf, Absent, TypeOK
    <2>. QED  BY <1>3, <2>1, <2>2 DEF Respond, TypeOK
  <1>4. CASE UNCHANGED <<used, spent>>
    BY <1>4
  <1>. QED
    BY <1>1, <1>2, <1>3, <1>4
       DEF Next, CallStep, Tick, Dispatch, DispatchTooHeavy, Stamp,
           TransportError, Block, vars

(***************************************************************************)
(* For any number of concurrent callers the weight reserved on an IP in    *)
(* one of its windows stays within the limit.                              *)
(***************************************************************************)
THEOREM QuotaHolds == Spec => []QuotaRespected
  <1>1. Init => QuotaRespected
    BY ConfigAssumption DEF Init, QuotaRespected
  <1>. QED  BY <1>1, QuotaStep, TypeCorrect, PTL DEF Spec
-----------------------------------------------------------------------------
(* The clock never runs behind a value a caller has read. *)
LEMMA SeenStep ==
    ASSUME TypeOK, SeenByNow, [Next]_vars
    PROVE  SeenByNow'
  <1>. USE DEF SeenByNow
  <1>0. \A c \in Callers : call[c].seen \in Nat /\ call[c] \in CallType
    BY DEF TypeOK, CallType
  <1>1. CASE Tick
    BY <1>0, <1>1 DEF Tick, TypeOK
  <1>2. ASSUME NEW c \in Callers, NEW r, UNCHANGED now,
               call' = [call EXCEPT ![c] = r],
               r.seen = 0 \/ r.seen = now \/ r.seen = call[c].seen
        PROVE  SeenByNow'
    BY <1>0, <1>2 DEF TypeOK
  <1>3. ASSUME NEW c \in Callers, NEW w \in Weights,
               Dispatch(c, w) \/ DispatchTooHeavy(c, w)
        PROVE  SeenByNow'
    <2>1. CASE Dispatch(c, w)
      BY <1>2, <2>1 DEF Dispatch, NoCall
    <2>2. CASE DispatchTooHeavy(c, w)
      BY <1>2, <2>2 DEF DispatchTooHeavy, NoCall
    <2>. QED  BY <1>3, <2>1, <2>2
  <1>4. ASSUME NEW c \in Callers, Stamp(c)
        PROVE  SeenByNow'
    <2>1. [call[c] EXCEPT !.pc = "reserve", !.seen = now].seen = now
      BY <1>0 DEF CallType
    <2>. QED  BY <1>2, <1>4, <2>1 DEF Stamp
  <1>5. ASSUME NEW c \in Callers, Reserve(c)
        PROVE  SeenByNow'
    <2>1. PICK i \in Ips :
            call' = [call EXCEPT ![c] =
                       [@ EXCEPT !.pc = "sent", !.ip = i, !.seen = 0]]
      BY <1>5 DEF Reserve
    <2>2. [call[c] EXCEPT !.pc = "sent", !.ip = i, !.seen = 0].seen = 0
      BY <1>0 DEF CallType
    <2>. QED  BY <1>2, <1>5, <2>1, <2>2 DEF Reserve
  <1>7. ASSUME NEW c \in Callers, NoAvailableIp(c)
        PROVE  SeenByNow'
    <2>1. PICK h : call' = [call EXCEPT ![c] =
                              [NoCall EXCEPT !.result = "no_ip", !.hint = h]]
      BY <1>7 DEF NoAvailableIp
    <2>2. [NoCall EXCEPT !.result = "no_ip", !.hint = h].seen = 0
      BY DEF NoCall
    <2>. QED  BY <1>2, <1>7, <2>1, <2>2 DEF NoAvailableIp
  <1>8. ASSUME NEW c \in Callers, TransportError(c)
        PROVE  SeenByNow'
    BY <1>2, <1>8 DEF TransportError, NoCall
  <1>9. ASSUME NEW c \in Callers, NEW s \in Status, NEW o \in Observed,
               Respond(c, s, o)
        PROVE  SeenByNow'
    <2>1. /\ [call[c] EXCEPT !.pc = "limited", !.status = s].seen
                = call[c].seen
          /\ [NoCall EXCEPT !.result = "ok"].seen = 0
      BY <1>0 DEF CallType, NoCall
    <2>2. CASE s \in {418, 429}
      BY <1>2, <1>9, <2>1, <2>2 DEF Respond
    <2>3. CASE s \notin {418, 429}
      BY <1>2, <1>9, <2>1, <2>3 DEF Respond
    <2>. QED  BY <2>2, <2>3
  <1>10. ASSUME NEW c \in Callers, NEW d \in RetryAfters, Block(c, d)
         PROVE  SeenByNow'
    <2>1. /\ [call[c] EXCEPT !.pc = "stamp",
                             !.status = 200, !.attempt = NextAttempt(c)].seen
                = call[c].seen
          /\ [NoCall EXCEPT !.result = "rate_limited"].seen = 0
      BY <1>0 DEF CallType, NoCall
    <2>. QED  BY <1>2, <1>10, <2>1 DEF Block
  <1>6. CASE UNCHANGED vars
    BY <1>6 DEF vars
  <1>. QED
    BY <1>1, <1>3, <1>4, <1>5, <1>6, <1>7, <1>8, <1>9, <1>10
       DEF Next, CallStep

THEOREM SeenIsPast == Spec => []SeenByNow
  <1>1. Init => SeenByNow
    BY DEF Init, SeenByNow, NoCall
  <1>. QED  BY <1>1, SeenStep, TypeCorrect, PTL DEF Spec

(***************************************************************************)
(* A client whose block has not ended in real time is never reserved, for  *)
(* any delay between reading the clock and taking the lock.                *)
(***************************************************************************)
THEOREM BlockRespected == Spec => BlockedIpNotReserved
  <1>. DEFINE Claim == \A c \in Callers :
                 call[c].pc = "reserve" /\ call'[c].pc = "sent"
                    => blockedUntil[call'[c].ip] =< now
  <1>1. ASSUME TypeOK, SeenByNow, [Next]_vars
        PROVE  Claim
    <2>1. SUFFICES ASSUME NEW c \in Callers, call[c].pc = "reserve",
                          call'[c].pc = "sent"
                   PROVE  blockedUntil[call'[c].ip] =< now
      OBVIOUS
    <2>2. call[c] \in CallType /\ call[c].seen \in Nat
      BY <1>1 DEF TypeOK, CallType
    <2>3. Reserve(c)
      <3>1. ASSUME NEW d \in Callers, d # c,
                   (\E w \in Weights : Dispatch(d, w) \/ DispatchTooHeavy(d, w))
                   \/ CallStep(d)
            PROVE  call'[c] = call[c]
        BY <1>1, <3>1 DEF TypeOK, CallStep, Dispatch, DispatchTooHeavy, Stamp,
           Reserve, NoAvailableIp, TransportError, Respond, Block
      <3>2. ~NoAvailableIp(c)
        BY <1>1, <2>1 DEF NoAvailableIp, NoCall, TypeOK
      <3>3. CASE UNCHANGED call
        BY <2>1, <3>3
      <3>. QED
        BY <1>1, <2>1, <3>1, <3>2, <3>3
           DEF Next, CallStep, Tick, Dispatch, DispatchTooHeavy, Stamp,
               TransportError, Respond, Block, vars
    <2>4. ~BlockedAt(call'[c].ip, call[c].seen) /\ call'[c].ip \in Ips
      BY <1>1, <2>2, <2>3 DEF Reserve, Selected, Candidates, TypeOK, CallType
    <2>. QED
      BY <1>1, <2>2, <2>4 DEF BlockedAt, SeenByNow, TypeOK, Absent
  <1>. QED
    BY <1>1, TypeCorrect, SeenIsPast, PTL DEF Spec, BlockedIpNotReserved

(***************************************************************************)
(* window_started_at never moves back, although a caller may refresh the   *)
(* pool with a clock value older than the one another caller used.         *)
(***************************************************************************)
THEOREM WindowsMoveForward == Spec => WindowNeverReopens
  <1>. DEFINE Claim == \A i \in Ips : windowStart'[i] >= windowStart[i]
  <1>1. ASSUME TypeOK, [Next]_vars
        PROVE  Claim
    <2>1. ASSUME NEW c \in Callers, RefreshAll(call[c].seen)
          PROVE  Claim
      <3>1. call[c].seen \in Nat
        BY <1>1 DEF TypeOK, CallType
      <3>. QED
        BY <1>1, <2>1, <3>1, ConfigAssumption DEF RefreshAll, Expired, TypeOK
    <2>2. CASE UNCHANGED windowStart
      BY <1>1, <2>2 DEF TypeOK
    <2>. QED
      BY <1>1, <2>1, <2>2
         DEF Next, CallStep, Tick, Dispatch, DispatchTooHeavy, Stamp, Reserve,
             NoAvailableIp, TransportError, Respond, Block, vars
  <1>. QED  BY <1>1, TypeCorrect, PTL DEF Spec, WindowNeverReopens
-----------------------------------------------------------------------------
(* A dispatch under way weighs no more than the limit and has no result. *)
CallsFit ==
    \A c \in Callers :
        call[c].pc # "idle" => call[c].weight =< Limit /\ call[c].result = "none"

LEMMA FitStep ==
    ASSUME TypeOK, CallsFit, [Next]_vars
    PROVE  CallsFit'
  <1>0. \A c \in Callers : call[c] \in CallType
    BY DEF TypeOK
  <1>1. ASSUME NEW c \in Callers, NEW r, call' = [call EXCEPT ![c] = r],
               r.pc # "idle" => r.weight =< Limit /\ r.result = "none"
        PROVE  CallsFit'
    BY <1>1 DEF TypeOK, CallsFit
  <1>2. ASSUME NEW c \in Callers, NEW w \in Weights, Dispatch(c, w)
        PROVE  CallsFit'
    <2>. DEFINE r == [NoCall EXCEPT !.pc = "stamp", !.weight = w, !.attempt = 1]
    <2>1. r.weight = w /\ r.result = "none"
      BY DEF NoCall
    <2>. QED  BY <1>1, <1>2, <2>1 DEF Dispatch
  <1>3. ASSUME NEW c \in Callers, NEW s, call' = [call EXCEPT ![c] = s], s.pc = "idle"
        PROVE  CallsFit'
    BY <1>1, <1>3
  <1>4. ASSUME NEW c \in Callers, NEW w \in Weights, DispatchTooHeavy(c, w)
        PROVE  CallsFit'
    BY <1>3, <1>4 DEF DispatchTooHeavy, NoCall
  <1>5. ASSUME NEW c \in Callers, NEW r, call' = [call EXCEPT ![c] = r],
               call[c].pc # "idle",
               r.weight = call[c].weight, r.result = call[c].result
        PROVE  CallsFit'
    BY <1>1, <1>5 DEF CallsFit
  <1>6. ASSUME NEW c \in Callers, Stamp(c)
        PROVE  CallsFit'
    <2>. DEFINE r == [call[c] EXCEPT !.pc = "reserve", !.seen = now]
    <2>1. r.weight = call[c].weight /\ r.result = call[c].result
      BY <1>0 DEF CallType
    <2>. QED  BY <1>5, <1>6, <2>1 DEF Stamp
  <1>7. ASSUME NEW c \in Callers, Reserve(c)
        PROVE  CallsFit'
    <2>1. PICK i \in Ips :
            call' = [call EXCEPT ![c] =
                       [@ EXCEPT !.pc = "sent", !.ip = i, !.seen = 0]]
      BY <1>7 DEF Reserve
    <2>. DEFINE r == [call[c] EXCEPT !.pc = "sent", !.ip = i, !.seen = 0]
    <2>2. r.weight = call[c].weight /\ r.result = call[c].result
      BY <1>0 DEF CallType
    <2>. QED  BY <1>5, <1>7, <2>1, <2>2 DEF Reserve
  <1>8. ASSUME NEW c \in Callers, NoAvailableIp(c)
        PROVE  CallsFit'
    <2>1. PICK h : call' = [call EXCEPT ![c] =
                              [NoCall EXCEPT !.result = "no_ip", !.hint = h]]
      BY <1>8 DEF NoAvailableIp
    <2>. QED  BY <1>3, <2>1 DEF NoCall
  <1>9. ASSUME NEW c \in Callers, TransportError(c)
        PROVE  CallsFit'
    BY <1>3, <1>9 DEF TransportError, NoCall
  <1>10. ASSUME NEW c \in Callers, NEW s \in Status, NEW o \in Observed, Respond(c, s, o)
         PROVE  CallsFit'
    <2>. DEFINE r == [call[c] EXCEPT !.pc = "limited", !.status = s]
    <2>1. r.weight = call[c].weight /\ r.result = call[c].result
      BY <1>0 DEF CallType
    <2>2. CASE s \in {418, 429}
      BY <1>5, <1>10, <2>1, <2>2 DEF Respond
    <2>3. CASE s \notin {418, 429}
      BY <1>3, <1>10, <2>3 DEF Respond, NoCall
    <2>. QED  BY <2>2, <2>3
  <1>11. ASSUME NEW c \in Callers, NEW d \in RetryAfters, Block(c, d)
         PROVE  CallsFit'
    <2>. DEFINE r == [call[c] EXCEPT !.pc = "stamp", !.status = 200,
                                     !.attempt = NextAttempt(c)]
    <2>1. r.weight = call[c].weight /\ r.result = call[c].result
      BY <1>0 DEF CallType
    <2>2. CASE LastAttempt(c)
      BY <1>3, <1>11, <2>2 DEF Block, NoCall
    <2>3. CASE ~LastAttempt(c)
      BY <1>5, <1>11, <2>1, <2>3 DEF Block
    <2>. QED  BY <2>2, <2>3
  <1>12. CASE UNCHANGED call
    BY <1>12 DEF CallsFit
  <1>. QED
    BY <1>2, <1>4, <1>6, <1>7, <1>8, <1>9, <1>10, <1>11, <1>12
       DEF Next, CallStep, Tick, vars

LEMMA CallsAlwaysFit == Spec => []CallsFit
  <1>1. Init => CallsFit
    BY DEF Init, CallsFit, NoCall
  <1>. QED  BY <1>1, FitStep, TypeCorrect, PTL DEF Spec

(* A client can take the weight at a later moment exactly from ReadyAt on. *)
LEMMA ReadyFrom ==
    ASSUME TypeOK, NEW i \in Ips, NEW w \in Nat, w =< Limit,
           NEW t \in Nat, NEW u \in Nat, t =< u
    PROVE  ~BlockedAt(i, u) /\ UsedAt(i, u) + w =< Limit <=> ReadyAt(i, w, t) =< u
  <1>1. /\ used[i] \in Nat /\ windowStart[i] \in Nat
        /\ blockedUntil[i] \in Nat \cup {Absent} /\ Absent \notin Nat
        /\ Window \in Nat /\ Limit \in Nat
    BY ConfigAssumption DEF TypeOK, Absent
  <1>. DEFINE open == IF BlockedAt(i, t) THEN blockedUntil[i] ELSE t
              free == IF UsedAt(i, t) + w > Limit
                        THEN (IF Expired(i, t) THEN t ELSE windowStart[i]) + Window
                        ELSE t
  <1>2. ~BlockedAt(i, u) <=> open =< u
    BY <1>1 DEF BlockedAt
  <1>3. UsedAt(i, u) + w =< Limit <=> free =< u
    <2>1. CASE UsedAt(i, t) + w =< Limit
      BY <1>1, <2>1 DEF UsedAt, Expired
    <2>2. CASE UsedAt(i, t) + w > Limit
      BY <1>1, <2>2 DEF UsedAt, Expired
    <2>3. UsedAt(i, t) \in Nat
      BY UsedAtType
    <2>. QED  BY <1>1, <2>1, <2>2, <2>3
  <1>4. open \in Nat /\ free \in Nat
    BY <1>1 DEF BlockedAt
  <1>5. ReadyAt(i, w, t) = MaxOf(MaxOf(t, open), free)
    BY DEF ReadyAt
  <1>. HIDE DEF open, free
  <1>. QED  BY <1>2, <1>3, <1>4, <1>5 DEF MaxOf

(* The end of the wait is a moment. *)
LEMMA ReadyType ==
    ASSUME TypeOK, NEW i \in Ips, NEW w \in Nat, NEW t \in Nat
    PROVE  ReadyAt(i, w, t) \in Nat /\ t =< ReadyAt(i, w, t)
  <1>1. /\ windowStart[i] \in Nat /\ Window \in Nat
        /\ blockedUntil[i] \in Nat \cup {Absent}
    BY ConfigAssumption DEF TypeOK
  <1>. QED  BY <1>1 DEF ReadyAt, MaxOf, BlockedAt

(***************************************************************************)
(* For any pool, blocks and stale clock values, a caller that waits as     *)
(* long as the retry_after of NoAvailableIp says finds a client in the     *)
(* pool as it was, and at no earlier moment.                               *)
(***************************************************************************)
THEOREM HintHolds == Spec => HintIsExact
  <1>. DEFINE Claim == \A c \in Callers :
                call[c].pc = "reserve" /\ call'[c].result = "no_ip"
                  => /\ Reservable(call[c].weight, call[c].seen + call'[c].hint)
                     /\ \A t \in call[c].seen .. call[c].seen + call'[c].hint - 1 :
                           ~Reservable(call[c].weight, t)
  <1>1. ASSUME TypeOK, CallsFit, [Next]_vars
        PROVE  Claim
    <2>. SUFFICES ASSUME NEW c \in Callers, call[c].pc = "reserve",
                         call'[c].result = "no_ip"
                  PROVE  /\ Reservable(call[c].weight, call[c].seen + call'[c].hint)
                         /\ \A t \in call[c].seen .. call[c].seen + call'[c].hint - 1 :
                               ~Reservable(call[c].weight, t)
      OBVIOUS
    <2>. DEFINE w == call[c].weight
                t == call[c].seen
    <2>1. /\ call[c] \in CallType /\ w \in Nat /\ w =< Limit /\ t \in Nat
          /\ call[c].result = "none"
      BY <1>1 DEF TypeOK, CallType, CallsFit
    <2>2. NoAvailableIp(c)
      <3>1. ASSUME NEW d \in Callers, d # c,
                   (\E v \in Weights : Dispatch(d, v) \/ DispatchTooHeavy(d, v))
                   \/ CallStep(d)
            PROVE  call'[c] = call[c]
        BY <1>1, <3>1 DEF TypeOK, CallStep, Dispatch, DispatchTooHeavy, Stamp,
           Reserve, NoAvailableIp, TransportError, Respond, Block
      <3>2. ~Reserve(c)
        <4>1. ASSUME NEW i \in Ips,
                     call' = [call EXCEPT ![c] =
                                [@ EXCEPT !.pc = "sent", !.ip = i, !.seen = 0]]
              PROVE  FALSE
          BY <1>1, <2>1, <4>1 DEF TypeOK, CallType
        <4>. QED  BY <4>1 DEF Reserve
      <3>3. CASE UNCHANGED call
        BY <2>1, <3>3
      <3>4. call'[c] # call[c]
        BY <2>1
      <3>5. PICK d \in Callers :
              (\E v \in Weights : Dispatch(d, v) \/ DispatchTooHeavy(d, v))
              \/ CallStep(d)
        BY <1>1, <3>3, <3>4 DEF Next, Tick, vars
      <3>6. d = c
        BY <3>1, <3>4, <3>5
      <3>. QED
        BY <3>2, <3>5, <3>6
           DEF CallStep, Dispatch, DispatchTooHeavy, Stamp, TransportError,
               Respond, Block
    <2>3. PICK i \in Ips :
            /\ IsHint(ReadyAt(i, w, t) - t, w, t)
            /\ call' = [call EXCEPT ![c] =
                          [NoCall EXCEPT !.result = "no_ip",
                                         !.hint = ReadyAt(i, w, t) - t]]
      BY <2>2 DEF NoAvailableIp
    <2>4. call'[c].hint = ReadyAt(i, w, t) - t
      BY <1>1, <2>3 DEF TypeOK, NoCall
    <2>5. /\ ReadyAt(i, w, t) \in Nat /\ t =< ReadyAt(i, w, t)
          /\ t + call'[c].hint = ReadyAt(i, w, t)
      <3>1. ReadyAt(i, w, t) \in Nat /\ t =< ReadyAt(i, w, t)
        BY <1>1, <2>1, ReadyType
      <3>. HIDE DEF w, t
      <3>. QED  BY <2>1, <2>4, <3>1
    <2>6. \A j \in Ips : ReadyAt(i, w, t) =< ReadyAt(j, w, t)
      <3>1. \A j \in Ips : ReadyAt(i, w, t) - t =< ReadyAt(j, w, t) - t
        BY <2>3 DEF IsHint
      <3>2. \A j \in Ips : ReadyAt(j, w, t) \in Nat
        BY <1>1, <2>1, ReadyType
      <3>. QED  BY <2>1, <3>1, <3>2
    <2>7. ASSUME NEW u \in Nat, t =< u
          PROVE  Reservable(w, u) <=> \E j \in Ips : ReadyAt(j, w, t) =< u
      BY <1>1, <2>1, <2>7, ReadyFrom DEF Reservable
    <2>8. Reservable(w, t + call'[c].hint)
      BY <2>5, <2>7
    <2>9. ASSUME NEW u \in t .. ReadyAt(i, w, t) - 1
          PROVE  ~Reservable(w, u)
      <3>. HIDE DEF w, t
      <3>1. u \in Nat /\ t =< u /\ u < ReadyAt(i, w, t)
        BY <2>1, <2>5
      <3>2. \A j \in Ips : ReadyAt(j, w, t) \in Nat
        BY <1>1, <2>1, ReadyType
      <3>. QED  BY <2>6, <2>7, <3>1, <3>2
    <2>10. t + (call'[c].hint - 1) = ReadyAt(i, w, t) - 1
      <3>. HIDE DEF w, t
      <3>. QED  BY <2>1, <2>4, <2>5
    <2>11. \A u \in t .. t + call'[c].hint - 1 : ~Reservable(w, u)
      <3>. HIDE DEF w, t
      <3>. QED  BY <2>9, <2>10, Zenon
    <2>. QED  BY <2>8, <2>11, Zenon
  <1>. QED
    BY <1>1, TypeCorrect, CallsAlwaysFit, PTL DEF Spec, HintIsExact

-----------------------------------------------------------------------------
(* Pagination.                                                             *)

(* Numbers.                                                                *)

LEMMA LeastOf ==
    ASSUME NEW T, T \subseteq Nat, T # {}
    PROVE  \E x \in T : \A y \in T : x =< y
  <1>1. \E R : /\ IsWellFoundedOn(R, Nat)
               /\ \A x, y \in Nat : y < x => <<y, x>> \in R
    <2>1. \A x, y \in Nat : y < x => <<y, x>> \in OpToRel(<, Nat)
      BY DEF OpToRel
    <2>2. IsWellFoundedOn(OpToRel(<, Nat), Nat)
      BY NatLessThanWellFounded
    <2>. QED  BY <2>1, <2>2, Zenon
  <1>2. PICK R : /\ IsWellFoundedOn(R, Nat)
                 /\ \A x, y \in Nat : y < x => <<y, x>> \in R
    BY <1>1
  <1>3. PICK x \in T : \A y \in T : ~ (<<y, x>> \in R)
    BY <1>2, WFMin
  <1>4. ASSUME NEW y \in T
        PROVE  x =< y
    <2>1. ~(y < x)
      BY <1>2, <1>3
    <2>. QED  BY <2>1
  <1>. QED  BY <1>4

LEMMA Scaled ==
    ASSUME NEW d \in Nat, NEW a \in Int, NEW b \in Int, a =< b
    PROVE  d * a =< d * b /\ d * a \in Int /\ d * b \in Int
  <1>1. d * (b - a) >= 0
    OBVIOUS
  <1>2. d * (b - a) = d * b - d * a
    OBVIOUS
  <1>. QED  BY <1>1, <1>2


(* What lies below a multiple of the divisor has a smaller quotient. *)
LEMMA Quotient ==
    ASSUME NEW d \in Nat \ {0}, NEW r \in Nat, NEW q \in Nat
    PROVE  /\ r \div d \in Nat
           /\ r < q * d <=> r \div d < q
  <1>. DEFINE p == r \div d
              s == r % d
  <1>1. p \in Nat /\ s \in 0..(d - 1) /\ r = d * p + s
    OBVIOUS
  <1>. HIDE DEF p, s
  <1>2. /\ d * p \in Int /\ q * d \in Int /\ q * d = d * q
        /\ d * (p + 1) = d * p + d /\ d * q \in Int
    BY <1>1
  <1>3. ASSUME p < q  PROVE r < q * d
    <2>1. d * (p + 1) =< d * q
      BY <1>1, <1>3, Scaled
    <2>. QED  BY <1>1, <1>2, <2>1
  <1>4. ASSUME q =< p  PROVE ~(r < q * d)
    <2>1. d * q =< d * p
      BY <1>1, <1>4, Scaled
    <2>. QED  BY <1>1, <1>2, <2>1
  <1>5. r \div d = p
    BY DEF p
  <1>. QED  BY <1>1, <1>3, <1>4, <1>5

(* Records and their places in a list. *)

LEMMA RecordSets ==
    ASSUME NEW S \in SUBSET Record
    PROVE  /\ IsFiniteSet(S) /\ Cardinality(S) \in Nat
           /\ \A T \in SUBSET S : /\ IsFiniteSet(T) /\ Cardinality(T) \in Nat
                                  /\ Cardinality(T) =< Cardinality(S)
                                  /\ Cardinality(T) = Cardinality(S) => T = S
  <1>1. IsFiniteSet(Record)
    BY PagesAssumption, FS_Interval DEF Record
  <1>2. IsFiniteSet(S)
    BY <1>1, FS_Subset
  <1>. QED  BY <1>2, FS_Subset, FS_CardinalityType

LEMMA PrecedesIsOrder ==
    ASSUME NEW down \in BOOLEAN
    PROVE  /\ \A i \in Record : ~Precedes(i, i, down)
           /\ \A i, j \in Record : i = j \/ Precedes(i, j, down)
                                         \/ Precedes(j, i, down)
           /\ \A i, j \in Record : ~(Precedes(i, j, down)
                                       /\ Precedes(j, i, down))
           /\ \A i, j, k \in Record :
                 Precedes(i, j, down) /\ Precedes(j, k, down)
                    => Precedes(i, k, down)
BY PagesAssumption DEF Record, Precedes

LEMMA RankType ==
    ASSUME NEW S \in SUBSET Record, NEW down \in BOOLEAN, NEW i \in Record
    PROVE  /\ Rank(i, S, down) \in Nat
           /\ i \in S => Rank(i, S, down) < Cardinality(S)
  <1>. DEFINE P == {j \in S : Precedes(j, i, down)}
  <1>1. P \in SUBSET S /\ Rank(i, S, down) = Cardinality(P)
    BY DEF Rank
  <1>2. i \in S => P # S
    BY PrecedesIsOrder
  <1>. QED  BY <1>1, <1>2, RecordSets

(* The rank of a record follows its place in the list. *)
LEMMA RankFollows ==
    ASSUME NEW S \in SUBSET Record, NEW down \in BOOLEAN,
           NEW i \in S, NEW j \in S, Precedes(i, j, down)
    PROVE  Rank(i, S, down) < Rank(j, S, down)
  <1>. DEFINE P(k) == {l \in S : Precedes(l, k, down)}
  <1>1. P(i) \in SUBSET P(j) /\ P(j) \in SUBSET Record
    BY PrecedesIsOrder
  <1>2. i \in P(j) /\ i \notin P(i)
    BY PrecedesIsOrder
  <1>3. /\ Cardinality(P(i)) \in Nat /\ Cardinality(P(j)) \in Nat
        /\ Cardinality(P(i)) =< Cardinality(P(j))
        /\ Cardinality(P(i)) # Cardinality(P(j))
    BY <1>1, <1>2, RecordSets
  <1>. QED  BY <1>3 DEF Rank

(* Publishing a record moves the others away from the head of the list. *)
LEMMA RankGrows ==
    ASSUME NEW T \in SUBSET Record, NEW S \in SUBSET T,
           NEW down \in BOOLEAN, NEW i \in Record
    PROVE  Rank(i, S, down) =< Rank(i, T, down)
  <1>. DEFINE P(R) == {l \in R : Precedes(l, i, down)}
  <1>1. P(S) \in SUBSET P(T) /\ P(T) \in SUBSET Record
    OBVIOUS
  <1>2. Cardinality(P(S)) =< Cardinality(P(T))
    BY <1>1, RecordSets
  <1>. QED  BY <1>2 DEF Rank

LEMMA FirstIsFirst ==
    ASSUME NEW S \in SUBSET Record, NEW down \in BOOLEAN, NEW n \in Nat,
           NEW i \in First(S, n, down), NEW j \in S \ First(S, n, down)
    PROVE  Precedes(i, j, down)
  <1>1. /\ i \in S /\ Rank(i, S, down) < n
        /\ j \in S /\ ~(Rank(j, S, down) < n)
    BY DEF First
  <1>2. ~Precedes(j, i, down)
    <2>. SUFFICES ASSUME Precedes(j, i, down)
                  PROVE  FALSE
      OBVIOUS
    <2>1. Rank(j, S, down) < Rank(i, S, down)
      BY <1>1, RankFollows
    <2>. QED  BY <1>1, <2>1, RankType
  <1>. QED  BY <1>1, <1>2, PrecedesIsOrder

(* A set of records has a first one. *)
LEMMA FirstOf ==
    ASSUME NEW S \in SUBSET Record, NEW T \in SUBSET S, T # {},
           NEW down \in BOOLEAN
    PROVE  \E i \in T : \A j \in T : i = j \/ Precedes(i, j, down)
  <1>. DEFINE ranks == {Rank(i, S, down) : i \in T}
  <1>1. ranks \subseteq Nat /\ ranks # {}
    BY RankType
  <1>2. PICK n \in ranks : \A m \in ranks : n =< m
    BY <1>1, LeastOf
  <1>3. PICK i \in T : n = Rank(i, S, down)
    OBVIOUS
  <1>4. ASSUME NEW j \in T, Precedes(j, i, down)
        PROVE  FALSE
    <2>1. Rank(j, S, down) < Rank(i, S, down)
      BY <1>4, RankFollows
    <2>2. Rank(j, S, down) \in ranks
      OBVIOUS
    <2>. QED  BY <1>1, <1>2, <1>3, <2>1, <2>2
  <1>. QED  BY <1>4, PrecedesIsOrder

LEMMA FirstNone ==
    ASSUME NEW S \in SUBSET Record, NEW down \in BOOLEAN
    PROVE  First(S, 0, down) = {}
BY RankType DEF First

(* One more place of a list holds one more record. *)
LEMMA FirstGrows ==
    ASSUME NEW S \in SUBSET Record, NEW down \in BOOLEAN, NEW n \in Nat,
           Cardinality(First(S, n, down)) = n, n < Cardinality(S)
    PROVE  Cardinality(First(S, n + 1, down)) = n + 1
  <1>. DEFINE F == First(S, n, down)
  <1>1. F \in SUBSET S /\ S \ F # {}
    <2>1. F \in SUBSET S
      BY DEF First
    <2>2. F # S
      BY RecordSets
    <2>. QED  BY <2>1, <2>2
  <1>2. PICK i \in S \ F : \A j \in S \ F : i = j \/ Precedes(i, j, down)
    BY <1>1, FirstOf
  <1>3. {j \in S : Precedes(j, i, down)} = F
    BY <1>1, <1>2, FirstIsFirst, PrecedesIsOrder
  <1>4. Rank(i, S, down) = n
    BY <1>3 DEF Rank
  <1>5. ASSUME NEW j \in S \ F, j # i
        PROVE  ~(Rank(j, S, down) < n + 1)
    <2>1. Rank(i, S, down) < Rank(j, S, down)
      BY <1>2, <1>5, RankFollows
    <2>. QED  BY <1>4, <2>1, RankType
  <1>6. First(S, n + 1, down) = F \cup {i}
    <2>1. \A j \in F : j \in S /\ Rank(j, S, down) < n + 1
      BY RankType DEF First
    <2>. QED  BY <1>2, <1>4, <1>5, <2>1 DEF First
  <1>. QED  BY <1>1, <1>2, <1>6, RecordSets, FS_AddElement

LEMMA FirstCount ==
    ASSUME NEW S \in SUBSET Record, NEW down \in BOOLEAN, NEW n \in Nat,
           n =< Cardinality(S)
    PROVE  Cardinality(First(S, n, down)) = n
  <1>. DEFINE wrong == {k \in Nat : /\ k =< Cardinality(S)
                                    /\ Cardinality(First(S, k, down)) # k}
  <1>. SUFFICES ASSUME wrong # {}
                PROVE  FALSE
    OBVIOUS
  <1>1. PICK k \in wrong : \A m \in wrong : k =< m
    BY LeastOf
  <1>2. k # 0
    BY FirstNone, FS_EmptySet
  <1>3. k - 1 \in Nat /\ k - 1 \notin wrong /\ k - 1 < Cardinality(S)
    BY <1>1, <1>2, RecordSets
  <1>4. Cardinality(First(S, k - 1, down)) = k - 1
    BY <1>3, RecordSets
  <1>5. Cardinality(First(S, (k - 1) + 1, down)) = (k - 1) + 1
    BY <1>3, <1>4, FirstGrows
  <1>6. (k - 1) + 1 = k
    OBVIOUS
  <1>. QED  BY <1>1, <1>5, <1>6

LEMMA FirstAll ==
    ASSUME NEW S \in SUBSET Record, NEW down \in BOOLEAN, NEW n \in Nat
    PROVE  /\ First(S, n, down) \in SUBSET S
           /\ Cardinality(First(S, n, down)) =< n
           /\ Cardinality(First(S, n, down)) < n => First(S, n, down) = S
  <1>1. First(S, n, down) \in SUBSET S
    BY DEF First
  <1>2. CASE n =< Cardinality(S)
    BY <1>1, <1>2, FirstCount
  <1>3. CASE n > Cardinality(S)
    <2>1. First(S, n, down) = S
      BY <1>3, RankType, RecordSets DEF First
    <2>. QED  BY <1>3, <2>1, RecordSets
  <1>. QED  BY <1>2, <1>3, RecordSets

(* After a page that is not full there is nothing. *)
LEMMA ShortPage ==
    ASSUME NEW S \in SUBSET Record, newest \in BOOLEAN, NEW k \in Nat \ {0},
           Cardinality(PageOf(S, k)) < PageSize, NEW i \in S
    PROVE  Rank(i, S, newest) \div PageSize < k
  <1>. DEFINE low == (k - 1) * PageSize
              high == k * PageSize
              A == First(S, low, newest)
              B == First(S, high, newest)
  <1>0. PageSize \in Nat \ {0}
    BY PagesAssumption
  <1>1. low \in Nat /\ high \in Nat /\ high = low + PageSize
    BY <1>0
  <1>2. \A j \in S : /\ Rank(j, S, newest) \in Nat
                     /\ Rank(j, S, newest) \div PageSize \in Nat
                     /\ Rank(j, S, newest) < low
                           <=> Rank(j, S, newest) \div PageSize < k - 1
                     /\ Rank(j, S, newest) < high
                           <=> Rank(j, S, newest) \div PageSize < k
    <2>. TAKE j \in S
    <2>1. Rank(j, S, newest) \in Nat
      BY RankType
    <2>2. k - 1 \in Nat /\ k \in Nat
      OBVIOUS
    <2>. HIDE DEF low, high
    <2>3. Rank(j, S, newest) < (k - 1) * PageSize
              <=> Rank(j, S, newest) \div PageSize < k - 1
      BY <1>0, <2>1, <2>2, Quotient
    <2>4. /\ Rank(j, S, newest) \div PageSize \in Nat
          /\ Rank(j, S, newest) < k * PageSize
                <=> Rank(j, S, newest) \div PageSize < k
      BY <1>0, <2>1, <2>2, Quotient
    <2>. QED  BY <2>1, <2>3, <2>4 DEF low, high
  <1>. SUFFICES ASSUME ~(Rank(i, S, newest) \div PageSize < k)
                PROVE  FALSE
    OBVIOUS
  <1>. HIDE DEF low, high
  <1>3. high < Cardinality(S)
    BY <1>1, <1>2, RankType, RecordSets
  <1>4. Cardinality(A) = low /\ Cardinality(B) = high
    <2>1. low =< Cardinality(S) /\ high =< Cardinality(S)
      BY <1>0, <1>1, <1>3, RecordSets
    <2>. QED  BY <1>1, <2>1, FirstCount
  <1>5. PageOf(S, k) = B \ A
    BY <1>2 DEF PageOf, First
  <1>6. A \in SUBSET B /\ B \in SUBSET S
    BY <1>1, <1>2 DEF First
  <1>7. B \cap A = A /\ IsFiniteSet(B)
    BY <1>6, RecordSets
  <1>. HIDE DEF A, B
  <1>8. Cardinality(B \ A) = high - low
    BY <1>4, <1>7, FS_Difference
  <1>. QED  BY <1>0, <1>1, <1>5, <1>8

LEMMA Extremes ==
    ASSUME NEW S \in SUBSET Record, S # {}
    PROVE  /\ OldestOf(S) \in S /\ \A j \in S : OldestOf(S) =< j
           /\ NewestOf(S) \in S /\ \A j \in S : j =< NewestOf(S)
  <1>1. \E i \in S : \A j \in S : i =< j
    <2>1. PICK i \in S : \A j \in S : i = j \/ Precedes(i, j, FALSE)
      BY FirstOf
    <2>2. \A j \in S : i =< j
      BY <2>1, PagesAssumption DEF Precedes, Record
    <2>. QED  BY <2>2
  <1>2. \E i \in S : \A j \in S : j =< i
    <2>1. PICK i \in S : \A j \in S : i = j \/ Precedes(i, j, TRUE)
      BY FirstOf
    <2>2. \A j \in S : j =< i
      BY <2>1, PagesAssumption DEF Precedes, Record
    <2>. QED  BY <2>2
  <1>. QED  BY <1>1, <1>2 DEF OldestOf, NewestOf

LEMMA QuotientGrows ==
    ASSUME NEW d \in Nat \ {0}, NEW a \in Nat, NEW b \in Nat, a =< b
    PROVE  a \div d =< b \div d
  <1>1. /\ a \div d \in Nat /\ b \div d \in Nat
        /\ a < (a \div d) * d <=> a \div d < a \div d
        /\ b < (a \div d) * d <=> b \div d < a \div d
    BY Quotient
  <1>2. (a \div d) * d \in Int
    BY <1>1
  <1>. QED  BY <1>1, <1>2

(* The windows of a download are parts of the range. *)
WindowType == {w \in [start : Int, end : Int] :
              From =< w.start /\ w.start =< w.end /\ w.end =< To}

FetchType == [pc : {"run", "ok", "error"}, windows : Seq(WindowType),
              cursor : Int, got : SUBSET Record, inWindow : SUBSET Record,
              total : Nat]

PagesType ==
    /\ newest \in BOOLEAN
    /\ time \in [Record -> 0..LastTime]
    /\ \A i, j \in Record : i < j =>
          time[i] =< time[j] /\ (style = "after_time" => time[i] # time[j])
    /\ pub \in SUBSET Record /\ atStart \in SUBSET pub
    /\ fetch \in FetchType
    /\ fetch.pc = "run" => fetch.windows # <<>>
    /\ fetch.pc = "ok" => fetch.windows = <<>>
    /\ style \in {"page", "checked"} => fetch.cursor \in Nat \ {0}

(* The page of a record in a list of S, counted from zero. *)
PageIndex(i, S) == Rank(i, S, newest) \div PageSize

(* The requests that follow in the open window will reach record i. *)
Ahead(i) ==
    /\ style = "from_id" => fetch.cursor = NoCursor \/ i >= fetch.cursor
    /\ style \in {"next_cursor", "full_page", "after_id"} =>
          fetch.cursor = NoCursor \/ i < fetch.cursor
    /\ style = "after_time" => time[i] < fetch.cursor
    /\ style \in {"page", "checked"} =>
          PageIndex(i, Shown(OpenWindow)) >= fetch.cursor - 1

(* Every record that is wanted is there, or will be reached in the open    *)
(* window, or lies in a later one.                                         *)
Covered ==
    \A i \in Wanted(atStart) :
        \/ i \in fetch.got
        \/ \E k \in 1..Len(fetch.windows) :
              InRange(i, fetch.windows[k]) /\ (k = 1 => Ahead(i))

(* As long as nothing is published a list that is checked is consistent:   *)
(* its total stands, and the ids seen are those of the pages read.         *)
TotalsAgree ==
    style = "checked" /\ fetch.pc = "run" /\ pub = atStart =>
        /\ fetch.cursor > 1 => fetch.total = Cardinality(Shown(OpenWindow))
        /\ fetch.inWindow = {i \in Shown(OpenWindow) :
                PageIndex(i, Shown(OpenWindow)) < fetch.cursor - 1}

PagesInv == PagesType /\ Covered /\ TotalsAgree /\ ErrorsJustified

LEMMA ShownType ==
    ASSUME PagesType, NEW w
    PROVE  /\ Shown(w) \in SUBSET Record
           /\ \A i \in Shown(w) : /\ PageIndex(i, Shown(w)) \in Nat
                                  /\ InRange(i, w)
           /\ \A i \in Wanted(atStart) : InRange(i, w) => i \in Shown(w)
  <1>1. PageSize \in Nat \ {0}
    BY PagesAssumption
  <1>2. Shown(w) \in SUBSET Record
    BY DEF PagesType, Shown
  <1>3. ASSUME NEW i \in Shown(w)
        PROVE  PageIndex(i, Shown(w)) \in Nat
    <2>1. Rank(i, Shown(w), newest) \in Nat
      BY <1>2, RankType DEF PagesType
    <2>. QED  BY <1>1, <2>1, Quotient DEF PageIndex
  <1>. QED  BY <1>2, <1>3 DEF PagesType, Shown, Wanted

LEMMA EmptyLen ==
    ASSUME NEW S, NEW s \in Seq(S)
    PROVE  Len(s) \in Nat /\ (Len(s) = 0 <=> s = <<>>)
BY EmptySeq

LEMMA OpenWindowFacts ==
    ASSUME PagesType, fetch.pc = "run"
    PROVE  /\ OpenWindow \in WindowType /\ OpenWindow = fetch.windows[1]
           /\ Len(fetch.windows) \in Nat \ {0}
           /\ Tail(fetch.windows) \in Seq(WindowType)
           /\ Len(Tail(fetch.windows)) = Len(fetch.windows) - 1
           /\ \A k \in 1..Len(Tail(fetch.windows)) :
                 Tail(fetch.windows)[k] = fetch.windows[k + 1]
  <1>1. fetch.windows \in Seq(WindowType) /\ fetch.windows # <<>>
    BY DEF PagesType, FetchType
  <1>. QED  BY <1>1, HeadTailProperties DEF OpenWindow

(* A window may be closed when the records it still holds are in the rows. *)
LEMMA EndsWindow ==
    ASSUME PagesType, Covered, fetch.pc = "run",
           NEW rows \in SUBSET Record, EndWindow(rows),
           UNCHANGED <<style, newest, time, pub, atStart>>,
           \A i \in Wanted(atStart) :
              InRange(i, OpenWindow) /\ Ahead(i) => i \in rows
    PROVE  /\ PagesType' /\ Covered' /\ fetch'.pc # "error"
           /\ fetch'.cursor = FirstCursor(style) /\ fetch'.inWindow = {}
  <1>1. FirstCursor(style) \in Int
        /\ (style \in {"page", "checked"} => FirstCursor(style) = 1)
    BY PagesAssumption DEF FirstCursor, NoCursor
  <1>2. /\ fetch' \in FetchType
        /\ fetch'.windows = Tail(fetch.windows)
        /\ fetch'.got = fetch.got \cup rows
        /\ fetch'.cursor = FirstCursor(style)
        /\ fetch'.inWindow = {}
        /\ fetch'.pc = IF Len(fetch.windows) = 1 THEN "ok" ELSE "run"
    BY <1>1, OpenWindowFacts DEF PagesType, FetchType, EndWindow, Keep
  <1>3. PagesType'
    <2>1. /\ Len(fetch.windows) = 1 => Tail(fetch.windows) = <<>>
          /\ Len(fetch.windows) # 1 => Tail(fetch.windows) # <<>>
      <3>1. Len(Tail(fetch.windows)) = 0 <=> Tail(fetch.windows) = <<>>
        BY OpenWindowFacts, EmptyLen
      <3>. QED  BY <3>1, OpenWindowFacts
    <2>2. /\ style' = style /\ newest' = newest /\ time' = time
          /\ pub' = pub /\ atStart' = atStart
      OBVIOUS
    <2>. QED  BY <1>1, <1>2, <2>1, <2>2 DEF PagesType
  <1>4. ASSUME NEW i \in Wanted(atStart), i \notin fetch'.got
        PROVE  \E k \in 1..Len(fetch'.windows) :
                  InRange(i, fetch'.windows[k]) /\ (k = 1 => Ahead(i)')
    <2>1. PICK k \in 1..Len(fetch.windows) :
             InRange(i, fetch.windows[k]) /\ (k = 1 => Ahead(i))
      BY <1>2, <1>4 DEF Covered
    <2>2. k # 1
      BY <1>2, <1>4, <2>1, OpenWindowFacts
    <2>3. /\ k - 1 \in 1..Len(fetch'.windows)
          /\ fetch'.windows[k - 1] = fetch.windows[k]
      BY <1>2, <2>2, OpenWindowFacts
    <2>4. k - 1 = 1 => Ahead(i)'
      <3>. SUFFICES ASSUME k - 1 = 1
                    PROVE  Ahead(i)'
        OBVIOUS
      <3>. DEFINE shown == Shown(OpenWindow)'
      <3>1. i \in Record /\ newest' \in BOOLEAN /\ shown \in SUBSET Record
        BY DEF Shown, PagesType, Wanted
      <3>2. Rank(i, shown, newest') \in Nat
        BY <3>1, RankType
      <3>3. PageIndex(i, Shown(OpenWindow))' \in Nat
        BY <3>2, PagesAssumption, Quotient DEF PageIndex
      <3>4. time[i] < To + 1
        BY <3>1, PagesAssumption DEF Wanted, PagesType
      <3>. QED  BY <1>2, <3>3, <3>4 DEF Ahead, FirstCursor, NoCursor
    <2>. QED  BY <2>1, <2>3, <2>4
  <1>5. Covered'
    BY <1>4 DEF Covered, Wanted, InRange
  <1>. QED  BY <1>2, <1>3, <1>5

(* The loop may go on when what is not in the rows stays ahead.            *)
LEMMA Continues ==
    ASSUME PagesType, Covered, fetch.pc = "run",
           NEW rows \in SUBSET Record, fetch' \in FetchType,
           fetch'.pc = "run", fetch'.windows = fetch.windows,
           fetch'.got = fetch.got \cup rows,
           style \in {"page", "checked"} => fetch'.cursor \in Nat \ {0},
           UNCHANGED <<style, newest, time, pub, atStart>>,
           \A i \in Wanted(atStart) :
              InRange(i, OpenWindow) /\ Ahead(i) => i \in rows \/ Ahead(i)'
    PROVE  PagesType' /\ Covered'
  <1>1. PagesType'
    BY DEF PagesType
  <1>2. ASSUME NEW i \in Wanted(atStart), i \notin fetch'.got
        PROVE  \E k \in 1..Len(fetch'.windows) :
                  InRange(i, fetch'.windows[k]) /\ (k = 1 => Ahead(i)')
    <2>1. PICK k \in 1..Len(fetch.windows) :
             InRange(i, fetch.windows[k]) /\ (k = 1 => Ahead(i))
      BY <1>2 DEF Covered
    <2>. QED  BY <1>2, <2>1, OpenWindowFacts
  <1>3. Covered'
    BY <1>2 DEF Covered, Wanted, InRange
  <1>. QED  BY <1>1, <1>3

LEMMA FullIsNotEmpty ==
    ASSUME NEW S, ~(Cardinality(S) < PageSize)
    PROVE  S # {}
BY PagesAssumption, FS_EmptySet

LEMMA ShownStays ==
    ASSUME UNCHANGED <<style, newest, time, pub, atStart>>,
           fetch'.windows = fetch.windows
    PROVE  /\ Shown(OpenWindow)' = Shown(OpenWindow)
           /\ \A i : PageIndex(i, Shown(OpenWindow))'
                       = PageIndex(i, Shown(OpenWindow))
BY DEF Shown, OpenWindow, InRange, PageIndex, Rank, Precedes

(* One loop after the other: a request keeps the download covered.         *)

LEMMA FromIdKeeps ==
    ASSUME PagesType, Covered, fetch.pc = "run", style = "from_id", FromId,
           UNCHANGED <<style, newest, time, pub, atStart>>
    PROVE  PagesType' /\ Covered' /\ fetch'.pc # "error"
  <1>. DEFINE base == IF fetch.cursor = NoCursor THEN Shown(OpenWindow)
                      ELSE {i \in pub : i >= fetch.cursor}
              page == Smallest(base, PageSize)
              rows == {i \in page : InRange(i, OpenWindow)}
  <1>1. PageSize \in Nat \ {0}
    BY PagesAssumption
  <1>2. base \in SUBSET Record
    BY ShownType DEF PagesType
  <1>3. \A i \in Wanted(atStart) :
           InRange(i, OpenWindow) /\ Ahead(i) => i \in base
    BY ShownType DEF Ahead, Wanted, PagesType
  <1>4. /\ page \in SUBSET base /\ Cardinality(page) =< PageSize
        /\ Cardinality(page) < PageSize => page = base
    BY <1>1, <1>2, FirstAll DEF Smallest
  <1>5. \A i \in page, j \in base \ page : i < j
    <2>1. \A i \in page, j \in base \ page : Precedes(i, j, FALSE)
      BY <1>1, <1>2, FirstIsFirst DEF Smallest
    <2>. QED  BY <2>1 DEF Precedes
  <1>6. ~(Cardinality(page) < PageSize)
           => /\ NewestOf(page) \in page
              /\ \A j \in base \ page : /\ NewestOf(page) < j
                                        /\ time[NewestOf(page)] =< time[j]
    <2>1. ~(Cardinality(page) < PageSize) => page # {}
      BY FullIsNotEmpty
    <2>. QED  BY <1>2, <1>4, <1>5, <2>1, Extremes DEF PagesType
  <1>7. rows \in SUBSET Record
    BY <1>2, <1>4
  <1>. HIDE DEF base, page
  <1>8. CASE EndWindow(rows) /\ Cardinality(page) < PageSize
    <2>1. \A i \in Wanted(atStart) :
             InRange(i, OpenWindow) /\ Ahead(i) => i \in rows
      BY <1>3, <1>4, <1>8
    <2>. QED  BY <1>7, <1>8, <2>1, EndsWindow
  <1>9. CASE /\ EndWindow(rows) /\ ~(Cardinality(page) < PageSize)
             /\ time[NewestOf(page)] > OpenWindow.end
    <2>1. ASSUME NEW i \in Wanted(atStart),
                 InRange(i, OpenWindow) /\ Ahead(i), i \notin page
          PROVE  FALSE
      <3>1. i \in base \ page
        BY <1>3, <2>1
      <3>2. /\ time[NewestOf(page)] =< time[i] /\ time[i] =< OpenWindow.end
            /\ NewestOf(page) \in Record /\ i \in Record
        BY <1>2, <1>4, <1>6, <1>9, <2>1, <3>1 DEF InRange
      <3>. QED  BY <1>9, <3>2, OpenWindowFacts DEF PagesType, WindowType
    <2>2. \A i \in Wanted(atStart) :
             InRange(i, OpenWindow) /\ Ahead(i) => i \in rows
      BY <2>1
    <2>. QED  BY <1>7, <1>9, <2>2, EndsWindow
  <1>10. CASE /\ Continue(rows, FromIdNext(page))
              /\ ~(Cardinality(page) < PageSize)
              /\ ~(time[NewestOf(page)] > OpenWindow.end)
    <2>0. NewestOf(page) \in Record
      BY <1>2, <1>4, <1>6, <1>10
    <2>1. NewestOf(page) \in Int /\ NewestOf(page) + 1 \in Int
      BY <2>0, PagesAssumption DEF Record
    <2>2. /\ fetch' \in FetchType /\ fetch'.pc = "run"
          /\ fetch'.windows = fetch.windows
          /\ fetch'.got = fetch.got \cup rows
          /\ fetch'.cursor = NewestOf(page) + 1
      BY <1>7, <1>10, <2>1
      DEF Continue, Keep, FromIdNext, PagesType, FetchType
    <2>3. ASSUME NEW i \in Wanted(atStart),
                 InRange(i, OpenWindow) /\ Ahead(i), i \notin rows
          PROVE  Ahead(i)'
      <3>1. i \in base \ page
        BY <1>3, <2>3
      <3>2. NewestOf(page) < i
        BY <1>6, <1>10, <3>1
      <3>3. i \in Record
        BY <1>2, <3>1
      <3>4. i \in Int
        BY <3>3, PagesAssumption DEF Record
      <3>. QED  BY <2>1, <2>2, <3>2, <3>4 DEF Ahead
    <2>. QED  BY <1>7, <2>2, <2>3, Continues
  <1>. QED
    BY <1>8, <1>9, <1>10 DEF FromId, base, page

LEMMA PageNumberKeeps ==
    ASSUME PagesType, Covered, fetch.pc = "run", style = "page", PageNumber,
           UNCHANGED <<style, newest, time, pub, atStart>>
    PROVE  PagesType' /\ Covered' /\ fetch'.pc # "error"
  <1>. DEFINE shown == Shown(OpenWindow)
              page == PageOf(shown, fetch.cursor)
  <1>1. /\ shown \in SUBSET Record /\ page \in SUBSET shown
        /\ \A i \in shown : PageIndex(i, shown) \in Nat
        /\ \A i \in Wanted(atStart) : InRange(i, OpenWindow) => i \in shown
        /\ fetch.cursor \in Nat \ {0} /\ newest \in BOOLEAN
    BY ShownType DEF PageOf, PagesType
  <1>2. page = {i \in shown : PageIndex(i, shown) = fetch.cursor - 1}
    BY DEF PageOf, PageIndex
  <1>3. Cardinality(page) < PageSize
           => \A i \in shown : PageIndex(i, shown) < fetch.cursor
    BY <1>1, ShortPage DEF PageIndex
  <1>4. \A i \in Wanted(atStart) :
           InRange(i, OpenWindow) /\ Ahead(i)
              => i \in shown /\ PageIndex(i, shown) >= fetch.cursor - 1
    BY <1>1 DEF Ahead
  <1>5. page \in SUBSET Record
    BY <1>1
  <1>. HIDE DEF shown, page
  <1>6. CASE EndWindow(page) /\ Cardinality(page) < PageSize
    <2>1. \A i \in Wanted(atStart) :
             InRange(i, OpenWindow) /\ Ahead(i) => i \in page
      BY <1>1, <1>2, <1>3, <1>4, <1>6
    <2>. QED  BY <1>5, <1>6, <2>1, EndsWindow
  <1>7. CASE Continue(page, PageNext(fetch.cursor))
    <2>1. /\ fetch' \in FetchType /\ fetch'.pc = "run"
          /\ fetch'.windows = fetch.windows
          /\ fetch'.got = fetch.got \cup page
          /\ fetch'.cursor = fetch.cursor + 1
      <3>1. fetch \in FetchType /\ fetch.cursor + 1 \in Int
        BY <1>1 DEF PagesType
      <3>2. fetch' = [fetch EXCEPT !.cursor = fetch.cursor + 1,
                                   !.got = fetch.got \cup page]
        BY <1>7 DEF Continue, Keep, PageNext
      <3>. QED  BY <1>5, <3>1, <3>2 DEF FetchType
    <2>2. ASSUME NEW i \in Wanted(atStart),
                 InRange(i, OpenWindow) /\ Ahead(i), i \notin page
          PROVE  Ahead(i)'
      <3>1. PageIndex(i, shown) >= fetch.cursor
        BY <1>1, <1>2, <1>4, <2>2
      <3>2. PageIndex(i, Shown(OpenWindow))' = PageIndex(i, shown)
        BY <2>1, ShownStays DEF shown
      <3>. QED  BY <1>1, <2>1, <3>1, <3>2 DEF Ahead
    <2>. QED  BY <1>1, <1>5, <2>1, <2>2, Continues
  <1>. QED
    BY <1>6, <1>7 DEF PageNumber, shown, page

(* Rows older than a cursor: the page holds the newest of them.            *)
LEMMA BeforeFacts ==
    ASSUME PagesType,
           style \in {"next_cursor", "full_page", "after_id"},
           NEW page, page = Before(Shown(OpenWindow), fetch.cursor)
    PROVE  /\ page \in SUBSET Shown(OpenWindow) /\ page \in SUBSET Record
           /\ page # {} => /\ OldestOf(page) \in page
                           /\ OldestOf(page) \in Int
           /\ \A i \in Wanted(atStart) :
                 InRange(i, OpenWindow) /\ Ahead(i) /\ i \notin page
                    => /\ ~(Cardinality(page) < PageSize) /\ page # {}
                       /\ i \in Shown(OpenWindow) /\ i < OldestOf(page)
  <1>. DEFINE shown == Shown(OpenWindow)
              base == {i \in shown : fetch.cursor = NoCursor
                                       \/ i < fetch.cursor}
  <1>1. PageSize \in Nat \ {0} /\ page = First(base, PageSize, TRUE)
    BY PagesAssumption DEF Before, Largest
  <1>2. shown \in SUBSET Record /\ base \in SUBSET shown
    BY ShownType
  <1>3. base \in SUBSET Record
    BY <1>2
  <1>4. \A i \in Wanted(atStart) :
           InRange(i, OpenWindow) /\ Ahead(i) => i \in base
    BY ShownType DEF Ahead
  <1>. HIDE DEF base
  <1>5. /\ page \in SUBSET base
        /\ Cardinality(page) < PageSize => page = base
    BY <1>1, <1>3, FirstAll
  <1>6. page # {} => OldestOf(page) \in page /\ OldestOf(page) \in Record
    BY <1>3, <1>5, Extremes
  <1>7. \A i \in Record : i \in Int
    BY PagesAssumption DEF Record
  <1>8. ASSUME NEW i \in base \ page
        PROVE  ~(Cardinality(page) < PageSize) /\ page # {}
               /\ i < OldestOf(page)
    <2>1. ~(Cardinality(page) < PageSize)
      BY <1>5, <1>8
    <2>2. page # {}
      BY <2>1, FullIsNotEmpty
    <2>3. Precedes(OldestOf(page), i, TRUE)
      BY <1>1, <1>3, <1>6, <1>8, <2>2, FirstIsFirst
    <2>. QED  BY <2>1, <2>2, <2>3 DEF Precedes
  <1>9. page \in SUBSET shown /\ page \in SUBSET Record
    BY <1>2, <1>5
  <1>10. ASSUME NEW i \in Wanted(atStart),
                InRange(i, OpenWindow) /\ Ahead(i) /\ i \notin page
         PROVE  /\ ~(Cardinality(page) < PageSize) /\ page # {}
                /\ i \in shown /\ i < OldestOf(page)
    BY <1>2, <1>4, <1>8, <1>10
  <1>. QED  BY <1>6, <1>7, <1>9, <1>10

LEMMA OlderLeft ==
    ASSUME PagesType, Covered, fetch.pc = "run",
           style \in {"next_cursor", "full_page", "after_id"},
           NEW page, page = Before(Shown(OpenWindow), fetch.cursor),
           page # {}, Continue(page, OldestOf(page)),
           UNCHANGED <<style, newest, time, pub, atStart>>
    PROVE  PagesType' /\ Covered' /\ fetch'.pc # "error"
  <1>1. page \in SUBSET Record /\ OldestOf(page) \in Int
    BY BeforeFacts
  <1>2. /\ fetch' \in FetchType /\ fetch'.pc = "run"
        /\ fetch'.windows = fetch.windows
        /\ fetch'.got = fetch.got \cup page
        /\ fetch'.cursor = OldestOf(page)
    <2>1. fetch \in FetchType
      BY DEF PagesType
    <2>2. fetch' = [fetch EXCEPT !.cursor = OldestOf(page),
                                 !.got = fetch.got \cup page]
      BY DEF Continue, Keep
    <2>. QED  BY <1>1, <2>1, <2>2 DEF FetchType
  <1>3. ASSUME NEW i \in Wanted(atStart),
               InRange(i, OpenWindow) /\ Ahead(i), i \notin page
        PROVE  Ahead(i)'
    BY <1>2, <1>3, BeforeFacts DEF Ahead
  <1>. QED  BY <1>1, <1>2, <1>3, Continues

LEMMA NextCursorKeeps ==
    ASSUME PagesType, Covered, fetch.pc = "run",
           style \in {"next_cursor", "full_page"},
           NEW more \in BOOLEAN, NextCursor(more),
           UNCHANGED <<style, newest, time, pub, atStart>>
    PROVE  PagesType' /\ Covered' /\ fetch'.pc # "error"
  <1>. DEFINE page == Before(Shown(OpenWindow), fetch.cursor)
              left == \E i \in Shown(OpenWindow) \ page : i < OldestOf(page)
  <1>1. page \in SUBSET Record
    BY BeforeFacts
  <1>2. CASE /\ EndWindow(page)
             /\ \/ page = {}
                \/ ~left /\ ~more
                \/ style = "full_page" /\ Cardinality(page) < PageSize
    <2>1. \A i \in Wanted(atStart) :
             InRange(i, OpenWindow) /\ Ahead(i) => i \in page
      BY <1>2, BeforeFacts
    <2>. HIDE DEF page
    <2>. QED  BY <1>1, <1>2, <2>1, EndsWindow
  <1>3. CASE page # {} /\ Continue(page, OldestOf(page))
    BY <1>3, OlderLeft
  <1>. QED  BY <1>2, <1>3 DEF NextCursor

LEMMA AfterIdKeeps ==
    ASSUME PagesType, Covered, fetch.pc = "run", style = "after_id", AfterId,
           UNCHANGED <<style, newest, time, pub, atStart>>
    PROVE  PagesType' /\ Covered' /\ fetch'.pc # "error"
  <1>. DEFINE page == Before(Shown(OpenWindow), fetch.cursor)
  <1>1. page \in SUBSET Record
    BY BeforeFacts
  <1>2. CASE EndWindow(page) /\ Cardinality(page) < PageSize
    <2>1. \A i \in Wanted(atStart) :
             InRange(i, OpenWindow) /\ Ahead(i) => i \in page
      BY <1>2, BeforeFacts
    <2>. HIDE DEF page
    <2>. QED  BY <1>1, <1>2, <2>1, EndsWindow
  <1>3. CASE Continue(page, OldestOf(page))
             /\ ~(Cardinality(page) < PageSize)
    <2>1. page # {}
      BY <1>3, FullIsNotEmpty
    <2>. QED  BY <1>3, <2>1, OlderLeft
  <1>. QED  BY <1>2, <1>3 DEF AfterId

(* Times that are told apart order the records like their ids.             *)
LEMMA AfterTimeKeeps ==
    ASSUME PagesType, Covered, fetch.pc = "run", style = "after_time",
           AfterTime, UNCHANGED <<style, newest, time, pub, atStart>>
    PROVE  PagesType' /\ Covered' /\ fetch'.pc # "error"
  <1>. DEFINE base == {i \in pub : time[i] < fetch.cursor}
              page == Largest(base, PageSize)
              rows == {i \in page : InRange(i, OpenWindow)}
              last == time[OldestOf(page)]
  <1>1. /\ PageSize \in Nat \ {0} /\ base \in SUBSET Record
        /\ page = First(base, PageSize, TRUE)
    BY PagesAssumption DEF Largest, PagesType
  <1>2. \A i \in Wanted(atStart) :
           InRange(i, OpenWindow) /\ Ahead(i) => i \in base
    BY DEF Ahead, Wanted, PagesType
  <1>3. \A i \in Record : /\ i \in Int /\ time[i] \in Nat
                          /\ i \in base => time[i] < fetch.cursor
    BY PagesAssumption DEF Record, PagesType
  <1>. HIDE DEF base, page
  <1>4. /\ page \in SUBSET base
        /\ Cardinality(page) < PageSize => page = base
    BY <1>1, FirstAll
  <1>5. rows \in SUBSET Record
    BY <1>1, <1>4
  <1>6. ASSUME ~(Cardinality(page) < PageSize)
        PROVE  OldestOf(page) \in page
    <2>1. page # {}
      BY <1>6, FullIsNotEmpty
    <2>. QED  BY <1>1, <1>4, <2>1, Extremes
  <1>7. ASSUME ~(Cardinality(page) < PageSize), NEW i \in base \ page
        PROVE  time[i] < last
    <2>1. /\ OldestOf(page) \in page /\ OldestOf(page) \in Record
          /\ i \in Record
      BY <1>1, <1>4, <1>6, <1>7
    <2>2. Precedes(OldestOf(page), i, TRUE)
      BY <1>1, <1>7, <2>1, FirstIsFirst
    <2>3. i < OldestOf(page)
      BY <2>2 DEF Precedes
    <2>4. time[i] =< last /\ time[i] # last
      BY <2>1, <2>3 DEF PagesType
    <2>. QED  BY <1>3, <2>1, <2>4
  <1>8. ASSUME ~(Cardinality(page) < PageSize)
        PROVE  last < fetch.cursor /\ last \in Int /\ fetch.cursor \in Int
    <2>1. OldestOf(page) \in base /\ OldestOf(page) \in Record
      BY <1>1, <1>4, <1>6, <1>8
    <2>2. fetch.cursor \in Int
      BY DEF PagesType, FetchType
    <2>. QED  BY <1>3, <2>1, <2>2
  <1>9. CASE EndWindow(rows) /\ Cardinality(page) < PageSize
    <2>1. \A i \in Wanted(atStart) :
             InRange(i, OpenWindow) /\ Ahead(i) => i \in rows
      BY <1>2, <1>4, <1>9
    <2>. QED  BY <1>5, <1>9, <2>1, EndsWindow
  <1>10. CASE /\ EndWindow(rows) /\ ~(Cardinality(page) < PageSize)
              /\ last < OpenWindow.start \/ last = fetch.cursor
    <2>1. last < OpenWindow.start
      BY <1>8, <1>10
    <2>2. ASSUME NEW i \in Wanted(atStart),
                 InRange(i, OpenWindow) /\ Ahead(i), i \notin page
          PROVE  FALSE
      <3>1. i \in base /\ i \in Record
        BY <1>1, <1>2, <2>2
      <3>2. time[i] < last /\ time[i] \in Int
        BY <1>3, <1>7, <1>10, <2>2, <3>1
      <3>3. OpenWindow.start =< time[i] /\ OpenWindow.start \in Int
        BY <2>2, OpenWindowFacts DEF InRange, WindowType
      <3>. QED  BY <1>8, <1>10, <2>1, <3>2, <3>3
    <2>3. \A i \in Wanted(atStart) :
             InRange(i, OpenWindow) /\ Ahead(i) => i \in rows
      BY <2>2
    <2>. QED  BY <1>5, <1>10, <2>3, EndsWindow
  <1>11. CASE Continue(rows, last) /\ ~(Cardinality(page) < PageSize)
    <2>1. /\ fetch' \in FetchType /\ fetch'.pc = "run"
          /\ fetch'.windows = fetch.windows
          /\ fetch'.got = fetch.got \cup rows
          /\ fetch'.cursor = last
      <3>1. fetch \in FetchType /\ last \in Int
        BY <1>8, <1>11 DEF PagesType
      <3>2. fetch' = [fetch EXCEPT !.cursor = last,
                                   !.got = fetch.got \cup rows]
        BY <1>11 DEF Continue, Keep
      <3>. HIDE DEF last, rows
      <3>. QED  BY <1>5, <3>1, <3>2 DEF FetchType
    <2>2. ASSUME NEW i \in Wanted(atStart),
                 InRange(i, OpenWindow) /\ Ahead(i), i \notin rows
          PROVE  Ahead(i)'
      <3>1. time[i] < last
        BY <1>2, <1>7, <1>11, <2>2
      <3>. QED  BY <2>1, <3>1 DEF Ahead
    <2>. QED  BY <1>5, <2>1, <2>2, Continues
  <1>. QED
    BY <1>9, <1>10, <1>11 DEF AfterTime, base, page

(* The halves of a window are windows, and between them they are all of it. *)
LEMMA HalvesCover ==
    ASSUME NEW w \in WindowType, w.start # w.end
    PROVE  /\ Halves(w) \in Seq(WindowType) /\ Len(Halves(w)) = 2
           /\ \A i : time[i] \in Int /\ InRange(i, w) =>
                 InRange(i, Halves(w)[1]) \/ InRange(i, Halves(w)[2])
  <1>. DEFINE half == (w.end - w.start) \div 2
  <1>1. /\ w.start \in Int /\ w.end \in Int /\ w.start < w.end
        /\ From =< w.start /\ w.end =< To
    BY PagesAssumption DEF WindowType
  <1>2. half \in Nat /\ w.start + half < w.end
    BY <1>1
  <1>. HIDE DEF half
  <1>3. /\ [start |-> w.start, end |-> w.start + half] \in WindowType
        /\ [start |-> w.start + half + 1, end |-> w.end] \in WindowType
    BY <1>1, <1>2, PagesAssumption DEF WindowType
  <1>4. Halves(w) = <<[start |-> w.start, end |-> w.start + half],
                      [start |-> w.start + half + 1, end |-> w.end]>>
    BY DEF Halves, half
  <1>. QED  BY <1>1, <1>2, <1>3, <1>4 DEF InRange

LEMMA HalveKeeps ==
    ASSUME PagesType, Covered, fetch.pc = "run",
           style \in {"halve", "halve_total"}, Halve,
           UNCHANGED <<style, newest, time, pub, atStart>>
    PROVE  PagesType' /\ Covered' /\ ErrorsJustified'
  <1>. DEFINE shown == Shown(OpenWindow)
              page == Largest(shown, PageSize)
              sat == Saturated(page, Cardinality(shown))
  <1>1. shown \in SUBSET Record /\ Cardinality(shown) \in Nat
    BY ShownType, RecordSets
  <1>2. /\ PageSize \in Nat \ {0} /\ page = First(shown, PageSize, TRUE)
        /\ \A i \in Wanted(atStart) : InRange(i, OpenWindow) => i \in shown
    BY PagesAssumption, ShownType DEF Largest
  <1>. HIDE DEF shown, page
  <1>3. /\ page \in SUBSET shown /\ Cardinality(page) =< PageSize
        /\ Cardinality(page) < PageSize => page = shown
        /\ Cardinality(page) \in Nat /\ Cardinality(page) =< Cardinality(shown)
        /\ Cardinality(page) = Cardinality(shown) => page = shown
    BY <1>1, <1>2, FirstAll, RecordSets
  <1>4. page \in SUBSET Record
    BY <1>1, <1>3
  <1>5. /\ ~sat => page = shown
        /\ sat => ~(Cardinality(page) < PageSize)
    <2>1. /\ Cardinality(page) \in Nat /\ Cardinality(page) =< PageSize
          /\ Cardinality(page) < PageSize => page = shown
          /\ Cardinality(page) =< Cardinality(shown)
          /\ Cardinality(page) = Cardinality(shown) => page = shown
          /\ Cardinality(shown) \in Nat /\ PageSize \in Nat
      BY <1>1, <1>2, <1>3
    <2>2. CASE style = "halve"
      <3>1. sat <=> Cardinality(page) = PageSize
        BY <2>2 DEF Saturated
      <3>. QED  BY <2>1, <3>1
    <2>3. CASE style = "halve_total"
      <3>1. sat <=> Cardinality(shown) > Cardinality(page)
        BY <2>3 DEF Saturated
      <3>. QED  BY <2>1, <3>1
    <2>. QED  BY <2>2, <2>3
  <1>6. CASE ~sat /\ EndWindow(page)
    <2>1. \A i \in Wanted(atStart) :
             InRange(i, OpenWindow) /\ Ahead(i) => i \in page
      BY <1>2, <1>5, <1>6
    <2>2. PagesType' /\ Covered' /\ fetch'.pc # "error"
      BY <1>4, <1>6, <2>1, EndsWindow
    <2>. QED  BY <2>2 DEF ErrorsJustified
  <1>7. CASE sat /\ OpenWindow.start = OpenWindow.end /\ Abort
    <2>1. /\ fetch' \in FetchType /\ fetch'.pc = "error"
          /\ fetch'.windows = fetch.windows /\ fetch'.got = fetch.got
          /\ fetch'.cursor = fetch.cursor
      BY <1>7 DEF Abort, PagesType, FetchType
    <2>2. PagesType'
      BY <2>1 DEF PagesType
    <2>3. Covered'
      BY <2>1 DEF Covered, Wanted, InRange, Ahead
    <2>4. PICK i \in shown : TRUE
      BY <1>3, <1>5, <1>7, FullIsNotEmpty
    <2>. DEFINE t == time[i]
    <2>5. i \in Record /\ t \in 0..LastTime
      BY <1>1 DEF PagesType
    <2>6. shown = {j \in pub : time[j] = t}
      <3>1. OpenWindow.start \in Int
        BY OpenWindowFacts DEF WindowType
      <3>2. \A j \in pub : time[j] \in Int
        BY PagesAssumption DEF PagesType
      <3>. QED  BY <1>7, <2>4, <3>1, <3>2 DEF shown, Shown, InRange
    <2>7. Cardinality(shown) >= PageSize
      <3>1. Cardinality(page) =< Cardinality(shown)
        BY <1>3
      <3>2. ~(Cardinality(page) < PageSize) /\ PageSize \in Nat
        BY <1>2, <1>5, <1>7
      <3>3. Cardinality(page) \in Nat /\ Cardinality(shown) \in Nat
        BY <1>1, <1>3
      <3>. QED  BY <3>1, <3>2, <3>3
    <2>8. Cardinality({j \in pub' : time'[j] = t}) >= PageSize
      BY <2>6, <2>7
    <2>. QED  BY <2>2, <2>3, <2>5, <2>8 DEF ErrorsJustified
  <1>8. CASE /\ sat /\ OpenWindow.start # OpenWindow.end
             /\ fetch' = [fetch EXCEPT
                    !.windows = Halves(OpenWindow) \o Tail(fetch.windows)]
    <2>. DEFINE halves == Halves(OpenWindow)
                others == Tail(fetch.windows)
    <2>1. /\ halves \in Seq(WindowType) /\ Len(halves) = 2
          /\ others \in Seq(WindowType)
          /\ Len(others) = Len(fetch.windows) - 1
          /\ Len(fetch.windows) \in Nat \ {0}
          /\ \A k \in 1..Len(others) : others[k] = fetch.windows[k + 1]
      BY <1>8, OpenWindowFacts, HalvesCover
    <2>2. \A i \in Wanted(atStart) : InRange(i, OpenWindow) =>
             InRange(i, halves[1]) \/ InRange(i, halves[2])
      <3>1. \A i \in Wanted(atStart) : time[i] \in Int
        BY PagesAssumption DEF Wanted, PagesType
      <3>. QED  BY <1>8, <3>1, OpenWindowFacts, HalvesCover
    <2>. HIDE DEF halves, others
    <2>3. /\ halves \o others \in Seq(WindowType)
          /\ Len(halves \o others) = Len(fetch.windows) + 1
          /\ \A k \in 1..Len(fetch.windows) + 1 : (halves \o others)[k] =
                IF k =< 2 THEN halves[k] ELSE fetch.windows[k - 1]
      <3>1. /\ halves \o others \in Seq(WindowType)
            /\ Len(halves \o others) = Len(fetch.windows) + 1
        <4>1. /\ halves \o others \in Seq(WindowType)
              /\ Len(halves \o others) = Len(halves) + Len(others)
          BY <2>1, ConcatProperties
        <4>. QED  BY <2>1, <4>1
      <3>2. ASSUME NEW k \in 1..Len(fetch.windows) + 1
            PROVE  (halves \o others)[k] =
                       IF k =< 2 THEN halves[k] ELSE fetch.windows[k - 1]
        <4>1. (halves \o others)[k] =
                  IF k =< 2 THEN halves[k] ELSE others[k - 2]
          <5>1. k \in 1..Len(halves) + Len(others)
            BY <2>1
          <5>2. (halves \o others)[k] = IF k =< Len(halves) THEN halves[k]
                                        ELSE others[k - Len(halves)]
            BY <2>1, <5>1, ConcatProperties
          <5>. QED  BY <2>1, <5>2
        <4>2. k > 2 => others[k - 2] = fetch.windows[k - 1]
          BY <2>1, <3>2
        <4>. QED  BY <4>1, <4>2
      <3>. QED  BY <3>1, <3>2
    <2>4. /\ fetch' \in FetchType /\ fetch'.pc = "run"
          /\ fetch'.windows = halves \o others /\ fetch'.got = fetch.got
      BY <1>8, <2>3 DEF halves, others, PagesType, FetchType
    <2>5. Len(fetch.windows) \in Nat \ {0} /\ OpenWindow = fetch.windows[1]
      BY OpenWindowFacts
    <2>6. PagesType'
      <3>1. fetch'.windows # <<>>
        BY <2>3, <2>4, <2>5, EmptySeq
      <3>. QED  BY <2>4, <3>1 DEF PagesType
    <2>7. ASSUME NEW i \in Wanted(atStart), i \notin fetch'.got
          PROVE  \E k \in 1..Len(fetch'.windows) :
                    InRange(i, fetch'.windows[k])
      <3>1. PICK k \in 1..Len(fetch.windows) : InRange(i, fetch.windows[k])
        BY <2>4, <2>7 DEF Covered
      <3>2. CASE k = 1
        <4>1. PICK half \in 1..2 : InRange(i, halves[half])
          BY <2>2, <2>5, <3>1, <3>2
        <4>2. /\ half \in 1..Len(fetch'.windows)
              /\ fetch'.windows[half] = halves[half]
          <5>1. half \in 1..Len(fetch.windows) + 1 /\ half =< 2
            BY <2>5
          <5>2. (halves \o others)[half] = halves[half]
            BY <2>3, <5>1
          <5>. QED  BY <2>3, <2>4, <5>1, <5>2
        <4>. QED  BY <4>1, <4>2
      <3>3. CASE k # 1
        <4>1. /\ k + 1 \in 1..Len(fetch'.windows)
              /\ fetch'.windows[k + 1] = fetch.windows[k]
          BY <2>3, <2>4, <2>5, <3>3
        <4>. QED  BY <3>1, <4>1
      <3>. QED  BY <3>2, <3>3
    <2>8. \A i : Ahead(i)'
      BY DEF Ahead
    <2>9. Covered'
      BY <2>7, <2>8 DEF Covered, Wanted, InRange
    <2>. QED  BY <2>4, <2>6, <2>9 DEF ErrorsJustified
  <1>. QED
    BY <1>6, <1>7, <1>8 DEF Halve, shown, page

(* The pages of a list with n records. *)
LEMMA PageCount ==
    ASSUME NEW d \in Nat \ {0}, NEW n \in Nat
    PROVE  LET pages == (n + d - 1) \div d
           IN  /\ pages \in Nat /\ n =< pages * d
               /\ \A m \in Nat : pages > m => n > m * d
  <1>. DEFINE pages == (n + d - 1) \div d
  <1>1. n + d - 1 \in Nat
    OBVIOUS
  <1>2. pages \in Nat
    BY <1>1, Quotient
  <1>3. \A m \in Nat : /\ m * d \in Int /\ (m + 1) * d = m * d + d
                       /\ n + d - 1 < (m + 1) * d <=> pages < m + 1
    <2>1. \A m \in Nat : m + 1 \in Nat
      OBVIOUS
    <2>2. \A m \in Nat : n + d - 1 < (m + 1) * d <=> pages < m + 1
      BY <1>1, <2>1, Quotient
    <2>3. \A m \in Nat : m * d \in Int /\ (m + 1) * d = m * d + d
      OBVIOUS
    <2>. QED  BY <2>2, <2>3
  <1>. HIDE DEF pages
  <1>4. n =< pages * d
    BY <1>2, <1>3
  <1>5. \A m \in Nat : pages > m => n > m * d
    BY <1>2, <1>3
  <1>. QED  BY <1>2, <1>4, <1>5 DEF pages

LEMMA ShownIsWanted ==
    ASSUME PagesType, NEW w \in WindowType
    PROVE  Cardinality(Shown(w)) =< Cardinality(Wanted(pub))
  <1>1. Wanted(pub) \in SUBSET Record
    BY DEF PagesType, Wanted
  <1>2. Shown(w) \in SUBSET Wanted(pub)
    BY PagesAssumption DEF PagesType, Shown, Wanted, InRange, WindowType
  <1>. QED  BY <1>1, <1>2, RecordSets

LEMMA CheckedKeeps ==
    ASSUME PagesType, Covered, TotalsAgree, fetch.pc = "run",
           style = "checked", Checked,
           UNCHANGED <<style, newest, time, pub, atStart>>
    PROVE  PagesType' /\ Covered' /\ TotalsAgree' /\ ErrorsJustified'
  <1>. DEFINE shown == Shown(OpenWindow)
              page == PageOf(shown, fetch.cursor)
              total == Cardinality(shown)
              pages == (total + PageSize - 1) \div PageSize
              seen == fetch.inWindow \cup page
  <1>1. /\ shown \in SUBSET Record /\ page \in SUBSET shown
        /\ \A i \in shown : PageIndex(i, shown) \in Nat
        /\ \A i \in Wanted(atStart) : InRange(i, OpenWindow) => i \in shown
        /\ fetch.cursor \in Nat \ {0} /\ newest \in BOOLEAN
        /\ total \in Nat
    BY ShownType, RecordSets DEF PageOf, PagesType
  <1>2. page = {i \in shown : PageIndex(i, shown) = fetch.cursor - 1}
    BY DEF PageOf, PageIndex
  <1>3. /\ pages \in Nat /\ total =< pages * PageSize
        /\ \A m \in Nat : pages > m => total > m * PageSize
    BY <1>1, PagesAssumption, PageCount
  <1>4. \A i \in shown : PageIndex(i, shown) < pages
    <2>. TAKE i \in shown
    <2>. DEFINE r == Rank(i, shown, newest)
    <2>1. r \in Nat /\ r < total
      BY <1>1, RankType
    <2>. HIDE DEF r, pages, total
    <2>2. r < pages * PageSize
      BY <1>1, <1>3, <2>1, PagesAssumption
    <2>3. r \div PageSize < pages
      BY <1>3, <2>1, <2>2, PagesAssumption, Quotient
    <2>. QED  BY <2>3 DEF r, PageIndex
  <1>5. \A i \in Wanted(atStart) :
           InRange(i, OpenWindow) /\ Ahead(i)
              => i \in shown /\ PageIndex(i, shown) >= fetch.cursor - 1
    BY <1>1 DEF Ahead
  <1>6. page \in SUBSET Record /\ fetch.inWindow \in SUBSET Record
    BY <1>1 DEF PagesType, FetchType
  <1>7. pub = atStart =>
           /\ fetch.cursor > 1 => fetch.total = total
           /\ fetch.inWindow = {i \in shown :
                                   PageIndex(i, shown) < fetch.cursor - 1}
    BY DEF TotalsAgree
  <1>. HIDE DEF shown, page, total, pages
  <1>8. ASSUME Abort
        PROVE  PagesType' /\ Covered' /\ TotalsAgree'
    <2>1. /\ fetch' \in FetchType /\ fetch'.pc = "error"
          /\ fetch'.windows = fetch.windows /\ fetch'.got = fetch.got
          /\ fetch'.cursor = fetch.cursor
      BY <1>8 DEF Abort, PagesType, FetchType
    <2>2. PagesType'
      BY <2>1 DEF PagesType
    <2>3. \A i : Ahead(i)' <=> Ahead(i)
      BY <2>1, ShownStays DEF Ahead
    <2>4. Covered'
      BY <2>1, <2>3 DEF Covered, Wanted, InRange
    <2>. QED  BY <2>1, <2>2, <2>4 DEF TotalsAgree
  <1>9. CASE ~ValidPage(page, total, pages) /\ Abort
    <2>1. pub # atStart \/ Cardinality(Wanted(pub)) > MaxPages * PageSize
      <3>1. CASE pages > MaxPages
        <4>1. total > MaxPages * PageSize /\ MaxPages * PageSize \in Int
          BY <1>3, <3>1, PagesAssumption
        <4>2. total =< Cardinality(Wanted(pub))
          BY OpenWindowFacts, ShownIsWanted DEF total, shown
        <4>3. Cardinality(Wanted(pub)) \in Nat
          BY RecordSets DEF PagesType, Wanted
        <4>. QED  BY <1>1, <4>1, <4>2, <4>3
      <3>2. CASE fetch.cursor > 1 /\ fetch.total # total
        BY <1>7, <3>2
      <3>3. CASE page \cap fetch.inWindow # {}
        BY <1>1, <1>2, <1>7, <3>3
      <3>4. pages =< MaxPages \/ pages > MaxPages
        BY <1>3, PagesAssumption
      <3>. QED  BY <1>9, <3>1, <3>2, <3>3, <3>4 DEF ValidPage
    <2>2. pub' = pub /\ atStart' = atStart /\ time' = time /\ style' = style
      OBVIOUS
    <2>. QED  BY <1>8, <1>9, <2>1, <2>2 DEF ErrorsJustified, Wanted
  <1>10. CASE /\ fetch.cursor < pages
              /\ fetch' = [fetch EXCEPT
                    !.cursor = @ + 1, !.got = Keep(page),
                    !.inWindow = seen, !.total = total]
    <2>1. /\ fetch' \in FetchType /\ fetch'.pc = "run"
          /\ fetch'.windows = fetch.windows
          /\ fetch'.got = fetch.got \cup page
          /\ fetch'.cursor = fetch.cursor + 1
          /\ fetch'.inWindow = seen /\ fetch'.total = total
      <3>1. fetch \in FetchType /\ fetch.cursor + 1 \in Int
        BY <1>1 DEF PagesType
      <3>2. seen \in SUBSET Record
        BY <1>6
      <3>3. fetch' = [fetch EXCEPT !.cursor = fetch.cursor + 1,
                                   !.got = fetch.got \cup page,
                                   !.inWindow = seen, !.total = total]
        BY <1>10 DEF Keep
      <3>. HIDE DEF seen
      <3>. QED  BY <1>1, <1>6, <3>1, <3>2, <3>3 DEF FetchType
    <2>2. \A i : PageIndex(i, Shown(OpenWindow))' = PageIndex(i, shown)
      BY <2>1, ShownStays DEF shown
    <2>3. ASSUME NEW i \in Wanted(atStart),
                 InRange(i, OpenWindow) /\ Ahead(i), i \notin page
          PROVE  Ahead(i)'
      <3>1. PageIndex(i, shown) >= fetch.cursor
        BY <1>1, <1>2, <1>5, <2>3
      <3>. QED  BY <1>1, <2>1, <2>2, <3>1 DEF Ahead
    <2>4. PagesType' /\ Covered'
      BY <1>1, <1>6, <2>1, <2>3, Continues
    <2>5. TotalsAgree'
      <3>. SUFFICES ASSUME pub = atStart
                    PROVE  /\ total = Cardinality(shown)
                           /\ seen = {i \in shown :
                                 PageIndex(i, shown) < fetch.cursor}
        BY <1>1, <2>1, <2>2, ShownStays DEF TotalsAgree, shown
      <3>1. seen = {i \in shown : PageIndex(i, shown) < fetch.cursor}
        BY <1>1, <1>2, <1>7
      <3>. QED  BY <3>1 DEF total
    <2>. QED  BY <2>1, <2>4, <2>5 DEF ErrorsJustified
  <1>11. CASE /\ ~(fetch.cursor < pages) /\ Cardinality(seen) # total
              /\ Abort
    <2>1. pub # atStart
      <3>. SUFFICES ASSUME pub = atStart
                    PROVE  FALSE
        OBVIOUS
      <3>1. \A i \in shown : PageIndex(i, shown) < fetch.cursor
        BY <1>1, <1>3, <1>4, <1>11
      <3>2. seen = shown
        BY <1>1, <1>2, <1>7, <3>1
      <3>. QED  BY <1>11, <3>2 DEF total
    <2>. QED  BY <1>8, <1>11, <2>1 DEF ErrorsJustified
  <1>12. CASE ~(fetch.cursor < pages) /\ EndWindow(page)
    <2>1. \A i \in Wanted(atStart) :
             InRange(i, OpenWindow) /\ Ahead(i) => i \in page
      BY <1>1, <1>2, <1>3, <1>4, <1>5, <1>12
    <2>2. /\ PagesType' /\ Covered' /\ fetch'.pc # "error"
          /\ fetch'.cursor = 1 /\ fetch'.inWindow = {}
      BY <1>6, <1>12, <2>1, EndsWindow DEF FirstCursor
    <2>3. \A i \in Shown(OpenWindow)' :
             PageIndex(i, Shown(OpenWindow))' \in Nat
      <3>. DEFINE after == Shown(OpenWindow)'
      <3>1. after \in SUBSET Record /\ newest' \in BOOLEAN
        BY DEF Shown, PagesType
      <3>2. \A i \in after : Rank(i, after, newest') \in Nat
        BY <3>1, RankType
      <3>. QED  BY <3>2, PagesAssumption, Quotient DEF PageIndex
    <2>4. TotalsAgree'
      BY <2>2, <2>3 DEF TotalsAgree
    <2>. QED  BY <2>2, <2>4 DEF ErrorsJustified
  <1>. QED
    BY <1>9, <1>10, <1>11, <1>12 DEF Checked, shown, page, total, pages

(* What is published stays clear of the records that are still ahead: in a *)
(* list it can only move them further from its head.                       *)
LEMMA PublishKeeps ==
    ASSUME PagesInv, NEW j \in Record, Publish(j)
    PROVE  PagesInv'
  <1>1. /\ pub' = pub \cup {j} /\ j \notin pub /\ fetch.pc = "run"
        /\ UNCHANGED <<style, newest, time, atStart, fetch>>
    BY DEF Publish
  <1>2. PagesType'
    BY <1>1 DEF PagesInv, PagesType
  <1>3. ASSUME NEW i \in Wanted(atStart), Ahead(i)
        PROVE  Ahead(i)'
    <2>. DEFINE before == Shown(OpenWindow)
                after == Shown(OpenWindow)'
    <2>1. /\ after \in SUBSET Record /\ before \in SUBSET after
          /\ newest \in BOOLEAN /\ i \in Record
      BY <1>1 DEF Shown, InRange, OpenWindow, PagesInv, PagesType, Wanted
    <2>2. before \in SUBSET Record
      BY <2>1
    <2>3. /\ Rank(i, before, newest) \in Nat /\ Rank(i, after, newest) \in Nat
          /\ Rank(i, before, newest) =< Rank(i, after, newest)
      BY <2>1, <2>2, RankType, RankGrows
    <2>4. /\ PageIndex(i, before) \in Nat
          /\ PageIndex(i, Shown(OpenWindow))' \in Nat
          /\ PageIndex(i, before) =< PageIndex(i, Shown(OpenWindow))'
      <3>1. Rank(i, after, newest)
                = Rank(i, after, newest') /\ PageSize \in Nat \ {0}
        BY <1>1, PagesAssumption
      <3>. HIDE DEF before
      <3>. QED  BY <1>1, <2>3, <3>1, Quotient, QuotientGrows DEF PageIndex
    <2>5. fetch.cursor \in Int
      BY DEF PagesInv, PagesType, FetchType
    <2>. QED  BY <1>1, <1>3, <2>4, <2>5 DEF Ahead
  <1>4. Covered'
    BY <1>1, <1>3 DEF PagesInv, Covered, Wanted, InRange
  <1>5. pub' # atStart'
    BY <1>1 DEF PagesInv, PagesType
  <1>. QED
    BY <1>1, <1>2, <1>4, <1>5 DEF PagesInv, TotalsAgree, ErrorsJustified

(* The windows of a download leave nothing of the range out.               *)
LEMMA ChunksCover ==
    /\ Chunks \in Seq(WindowType) /\ Chunks # <<>>
    /\ \A t \in Int : From =< t /\ t =< To =>
          \E k \in 1..Len(Chunks) : Chunks[k].start =< t /\ t =< Chunks[k].end
  <1>. DEFINE last == (To - From) \div Span
              chunk(k) == [start |-> From + (k - 1) * Span,
                           end |-> Least(From + k * Span - 1, To)]
  <1>1. /\ Span \in Nat \ {0} /\ To - From \in Nat
        /\ From \in Int /\ To \in Int
    BY PagesAssumption
  <1>2. last \in Nat
    BY <1>1, Quotient
  <1>3. ASSUME NEW k \in 1..last + 1
        PROVE  chunk(k) \in WindowType
    <2>1. k - 1 \in Nat /\ k - 1 =< last
      BY <1>2
    <2>2. To - From < (k - 1) * Span <=> last < k - 1
      BY <1>1, <2>1, Quotient
    <2>3. /\ (k - 1) * Span \in Nat /\ k * Span \in Nat
          /\ k * Span = (k - 1) * Span + Span
      BY <1>1, <2>1
    <2>4. (k - 1) * Span =< To - From
      BY <1>1, <1>2, <2>1, <2>2, <2>3
    <2>. HIDE DEF last
    <2>. QED  BY <1>1, <2>3, <2>4 DEF WindowType, Least
  <1>4. Chunks = [k \in 1..last + 1 |-> chunk(k)]
    BY DEF Chunks
  <1>5. Chunks \in [1..last + 1 -> WindowType]
    BY <1>3, <1>4
  <1>6. Chunks \in Seq(WindowType) /\ Len(Chunks) = last + 1
    <2>1. last + 1 \in Nat
      BY <1>2
    <2>. HIDE DEF last
    <2>. QED  BY <1>5, <2>1
  <1>7. ASSUME NEW t \in Int, From =< t, t =< To
        PROVE  \E k \in 1..Len(Chunks) :
                  Chunks[k].start =< t /\ t =< Chunks[k].end
    <2>. DEFINE q == (t - From) \div Span
    <2>1. t - From \in Nat /\ t - From =< To - From
      BY <1>1, <1>7
    <2>2. q \in Nat /\ q =< last
      BY <1>1, <2>1, Quotient, QuotientGrows
    <2>3. /\ t - From < q * Span <=> q < q
          /\ t - From < (q + 1) * Span <=> q < q + 1
      BY <1>1, <2>1, <2>2, Quotient
    <2>4. q * Span \in Int /\ (q + 1) * Span \in Int
      BY <1>1, <2>2
    <2>. HIDE DEF q, last
    <2>5. q + 1 \in 1..Len(Chunks) /\ q + 1 \in 1..last + 1
      BY <1>2, <1>6, <2>2
    <2>6. /\ Chunks[q + 1].start = From + q * Span
          /\ Chunks[q + 1].end = Least(From + (q + 1) * Span - 1, To)
      BY <1>4, <2>2, <2>5
    <2>7. From + q * Span =< t /\ t =< Least(From + (q + 1) * Span - 1, To)
      BY <1>1, <1>7, <2>2, <2>3, <2>4 DEF Least
    <2>. QED  BY <2>5, <2>6, <2>7
  <1>8. Chunks # <<>>
    BY <1>2, <1>6, EmptySeq
  <1>. QED  BY <1>6, <1>7, <1>8

LEMMA RecentCovers ==
    /\ ArchiveThenRecent \in Seq(WindowType) /\ ArchiveThenRecent # <<>>
    /\ \A t \in Int : From =< t /\ t =< To =>
          \E k \in 1..Len(ArchiveThenRecent) :
             /\ ArchiveThenRecent[k].start =< t
             /\ t =< ArchiveThenRecent[k].end
  <1>0. From \in Int /\ To \in Int /\ Cutoff \in Int /\ From =< To
    BY PagesAssumption
  <1>1. CASE From < Cutoff /\ To >= Cutoff
    <2>. DEFINE archive == [start |-> From, end |-> Cutoff]
                recent == [start |-> Cutoff, end |-> To]
    <2>1. ArchiveThenRecent = <<archive>> \o <<recent>>
      BY <1>0, <1>1 DEF ArchiveThenRecent, Least
    <2>2. archive \in WindowType /\ recent \in WindowType
      BY <1>0, <1>1 DEF WindowType
    <2>3. /\ <<archive>> \in Seq(WindowType) /\ Len(<<archive>>) = 1
          /\ <<recent>> \in Seq(WindowType) /\ Len(<<recent>>) = 1
          /\ <<archive>>[1] = archive /\ <<recent>>[1] = recent
      BY <2>2
    <2>. HIDE DEF archive, recent
    <2>4. /\ ArchiveThenRecent \in Seq(WindowType)
          /\ Len(ArchiveThenRecent) = 1 + 1
          /\ \A k \in 1..(1 + 1) : ArchiveThenRecent[k] =
                IF k =< 1 THEN <<archive>>[k] ELSE <<recent>>[k - 1]
      BY <2>1, <2>3, ConcatProperties
    <2>5. /\ Len(ArchiveThenRecent) = 2 /\ ArchiveThenRecent # <<>>
          /\ ArchiveThenRecent[1] = archive /\ ArchiveThenRecent[2] = recent
      <3>1. Len(ArchiveThenRecent) = 2
        BY <2>4
      <3>2. ArchiveThenRecent # <<>>
        <4>1. Len(ArchiveThenRecent) = 0 <=> ArchiveThenRecent = <<>>
          BY <2>4, EmptyLen
        <4>. QED  BY <3>1, <4>1
      <3>3. 1 \in 1..(1 + 1) /\ 2 \in 1..(1 + 1) /\ ~(2 =< 1) /\ 2 - 1 = 1
        OBVIOUS
      <3>4. ArchiveThenRecent[1] = <<archive>>[1]
        BY <2>4, <3>3
      <3>5. ArchiveThenRecent[2] = <<recent>>[1]
        BY <2>4, <3>3
      <3>. QED  BY <2>3, <3>1, <3>2, <3>4, <3>5
    <2>6. \A t \in Int : From =< t /\ t =< To =>
             \/ archive.start =< t /\ t =< archive.end
             \/ recent.start =< t /\ t =< recent.end
      BY <1>0 DEF archive, recent
    <2>. QED  BY <2>4, <2>5, <2>6
  <1>2. CASE From < Cutoff /\ ~(To >= Cutoff)
    <2>1. ArchiveThenRecent = <<[start |-> From, end |-> To]>>
      BY <1>0, <1>2 DEF ArchiveThenRecent, Least
    <2>. QED  BY <1>0, <1>2, <2>1 DEF WindowType
  <1>3. CASE ~(From < Cutoff)
    <2>1. ArchiveThenRecent = <<[start |-> From, end |-> To]>>
      BY <1>0, <1>3 DEF ArchiveThenRecent
    <2>. QED  BY <1>0, <1>3, <2>1 DEF WindowType
  <1>. QED  BY <1>1, <1>2, <1>3

LEMMA WindowsCover ==
    /\ Windows(style) \in Seq(WindowType) /\ Windows(style) # <<>>
    /\ \A t \in Int : From =< t /\ t =< To =>
          \E k \in 1..Len(Windows(style)) :
             Windows(style)[k].start =< t /\ t =< Windows(style)[k].end
  <1>1. CASE style \in {"after_id", "after_time"}
    <2>1. Windows(style) = <<[start |-> From, end |-> To]>>
      BY <1>1 DEF Windows
    <2>. QED  BY <2>1, PagesAssumption DEF WindowType
  <1>2. CASE style = "checked"
    BY <1>2, RecentCovers DEF Windows
  <1>3. CASE style \notin {"after_id", "after_time", "checked"}
    BY <1>3, ChunksCover DEF Windows
  <1>. QED  BY <1>1, <1>2, <1>3

LEMMA PagesStart ==
    ASSUME PagesInit, "after_time" \notin TiesIn
    PROVE  PagesInv
  <1>1. FirstCursor(style) \in Int
        /\ (style \in {"page", "checked"} => FirstCursor(style) = 1)
    BY PagesAssumption DEF FirstCursor, NoCursor
  <1>2. /\ fetch.pc = "run" /\ fetch.windows = Windows(style)
        /\ fetch.cursor = FirstCursor(style) /\ fetch.inWindow = {}
        /\ fetch \in FetchType
    BY <1>1, WindowsCover DEF PagesInit, FetchType
  <1>3. PagesType
    BY <1>1, <1>2, WindowsCover DEF PagesInit, PagesType
  <1>4. ASSUME NEW i \in Wanted(atStart)
        PROVE  Ahead(i)
    <2>1. i \in Record /\ time[i] < To + 1
      BY <1>3, PagesAssumption DEF Wanted, PagesType
    <2>2. PageIndex(i, Shown(OpenWindow)) \in Nat
      <3>1. Rank(i, Shown(OpenWindow), newest) \in Nat
        BY <1>3, <2>1, ShownType, RankType DEF PagesType
      <3>. QED  BY <3>1, PagesAssumption, Quotient DEF PageIndex
    <2>. QED  BY <1>2, <2>1, <2>2 DEF Ahead, FirstCursor, NoCursor
  <1>5. Covered
    <2>. SUFFICES ASSUME NEW i \in Wanted(atStart)
                  PROVE  \E k \in 1..Len(fetch.windows) :
                            InRange(i, fetch.windows[k])
      BY <1>4 DEF Covered
    <2>1. time[i] \in Int /\ From =< time[i] /\ time[i] =< To
      BY <1>3, PagesAssumption DEF Wanted, PagesType
    <2>. QED  BY <1>2, <2>1, WindowsCover DEF InRange
  <1>6. TotalsAgree
    BY <1>2, <1>3, ShownType DEF TotalsAgree, FirstCursor
  <1>. QED  BY <1>2, <1>3, <1>5, <1>6 DEF PagesInv, ErrorsJustified

LEMMA RequestKeeps ==
    ASSUME PagesInv, Request
    PROVE  PagesInv'
  <1>0. /\ PagesType /\ Covered /\ TotalsAgree /\ fetch.pc = "run"
        /\ UNCHANGED <<style, newest, time, pub, atStart>>
    BY DEF PagesInv, Request
  <1>. SUFFICES /\ PagesType' /\ Covered' /\ TotalsAgree' /\ ErrorsJustified'
    BY DEF PagesInv
  <1>1. CASE /\ PagesType' /\ Covered' /\ fetch'.pc # "error"
             /\ style # "checked"
    BY <1>0, <1>1 DEF TotalsAgree, ErrorsJustified
  <1>2. CASE style = "from_id" /\ FromId
    BY <1>0, <1>1, <1>2, FromIdKeeps
  <1>3. CASE style = "page" /\ PageNumber
    BY <1>0, <1>1, <1>3, PageNumberKeeps
  <1>4. CASE /\ style \in {"next_cursor", "full_page"}
             /\ \E more \in BOOLEAN : NextCursor(more)
    BY <1>0, <1>1, <1>4, NextCursorKeeps
  <1>5. CASE style = "after_id" /\ AfterId
    BY <1>0, <1>1, <1>5, AfterIdKeeps
  <1>6. CASE style = "after_time" /\ AfterTime
    BY <1>0, <1>1, <1>6, AfterTimeKeeps
  <1>7. CASE style = "checked" /\ Checked
    BY <1>0, <1>7, CheckedKeeps
  <1>8. CASE style \in {"halve", "halve_total"} /\ Halve
    BY <1>0, <1>8, HalveKeeps DEF TotalsAgree
  <1>. QED
    BY <1>2, <1>3, <1>4, <1>5, <1>6, <1>7, <1>8 DEF Request

(***************************************************************************)
(* A download ends with every record of its range that was published when  *)
(* it began, or with an error that is justified, for every range, window   *)
(* length, page size and number of records and whatever is published       *)
(* between two requests.  The loops that page by the event time need times *)
(* that differ.                                                            *)
(***************************************************************************)
THEOREM DownloadsEndRight ==
    ASSUME "after_time" \notin TiesIn
    PROVE  PagesSpec => []FetchEndsRight
  <1>1. PagesInit => PagesInv
    BY PagesStart
  <1>2. PagesInv /\ [PagesNext]_pageVars => PagesInv'
    <2>. SUFFICES ASSUME PagesInv, [PagesNext]_pageVars
                  PROVE  PagesInv'
      OBVIOUS
    <2>1. CASE Request
      BY <2>1, RequestKeeps
    <2>2. CASE \E j \in Record : Publish(j)
      BY <2>2, PublishKeeps
    <2>3. CASE UNCHANGED pageVars
      <3>1. UNCHANGED <<style, newest, time, pub, atStart, fetch>>
        BY <2>3 DEF pageVars
      <3>2. PagesType' /\ ErrorsJustified'
        BY <3>1 DEF PagesInv, PagesType, ErrorsJustified, Wanted
      <3>3. \A i : Ahead(i)' <=> Ahead(i)
        BY <3>1, ShownStays DEF Ahead
      <3>4. Covered'
        BY <3>1, <3>3 DEF PagesInv, Covered, Wanted, InRange
      <3>5. TotalsAgree'
        BY <3>1, ShownStays DEF PagesInv, TotalsAgree
      <3>. QED  BY <3>2, <3>4, <3>5 DEF PagesInv
    <2>. QED  BY <2>1, <2>2, <2>3 DEF PagesNext
  <1>3. PagesInv => FetchEndsRight
    <2>. SUFFICES ASSUME PagesInv
                  PROVE  FetchEndsRight
      OBVIOUS
    <2>1. fetch.pc = "ok" => Len(fetch.windows) = 0
      BY EmptySeq DEF PagesInv, PagesType
    <2>. QED
      BY <2>1 DEF PagesInv, Covered, FetchEndsRight, FetchComplete
  <1>. QED  BY <1>1, <1>2, <1>3, PTL DEF PagesSpec
=============================================================================
