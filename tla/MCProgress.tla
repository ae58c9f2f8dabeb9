----------------------------- MODULE MCProgress -----------------------------
(***************************************************************************)
(* What must happen in the end, for TLC: dispatches return, fills and      *)
(* premium-index candles are stored.  The three components do not share    *)
(* state, so part says which of them moves in a behaviour.                 *)
(***************************************************************************)
EXTENDS LiveHistory, PremiumIndex

CONSTANTS
    Callers, NumIps, Limit, Window, Retries, Cooldown429, Backoff418, Weights,
    Observed, RetryAfters, LastTime \* of Dispatcher

VARIABLES
    part,
    seconds, used, windowStart, blockedUntil, tie, call, spent, banned

dispatchVars ==
    <<seconds, used, windowStart, blockedUntil, tie, call, spent, banned>>

D == INSTANCE Dispatcher WITH now <- seconds, MaxTime <- LastTime

(* Headers: none (D!Absent, as a number: a constant of D cannot name it),  *)
(* or a Retry-After of zero.                                               *)
NoHeader == {-1}
ZeroOrAbsent == {-1, 0}
NoRequests == {}

Only(p) == part = p /\ UNCHANGED part

InLive == Only("live") /\ UNCHANGED <<dispatchVars, premiumVars>>
InDispatch == Only("dispatch") /\ UNCHANGED <<allVars, premiumVars>>
InPremium == Only("premium") /\ UNCHANGED <<allVars, dispatchVars>>

MCInit ==
    /\ part \in {"live", "dispatch", "premium"}
    /\ LiveInit /\ D!Init /\ PremiumInit

MCNext ==
    \/ InLive /\ LiveNext
    \/ InDispatch /\ D!Next
    \/ InPremium /\ PremiumNext

MCVars == <<part, allVars, dispatchVars, premiumVars>>

(* The fairness of LiveHistory: the worker loops, time passes and the      *)
(* exchange publishes.                                                     *)
FairLive ==
    /\ WF_MCVars(InLive /\ CycleStep)
    /\ WF_MCVars(InLive /\ LiveTick)
    /\ WF_MCVars(InLive /\ \E f \in Fill : PublishFill(f))

(* The fairness of Dispatcher: the runtime polls every call. *)
FairDispatch == \A c \in Callers : WF_MCVars(InDispatch /\ D!CallStep(c))

(* The collector's loop goes on, its requests are answered, time passes.   *)
FairPremium ==
    /\ WF_MCVars(InPremium /\ BeginPass)
    /\ WF_MCVars(InPremium /\ (StorePage \/ EmptyPage))
    /\ WF_MCVars(InPremium /\ MinuteTick)

MCSpec == MCInit /\ [][MCNext]_MCVars /\ FairLive /\ FairDispatch /\ FairPremium

(* Every dispatch returns (Dispatcher). *)
DispatchReturns == D!DispatchReturns
=============================================================================
