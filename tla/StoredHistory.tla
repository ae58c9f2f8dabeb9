--------------------------- MODULE StoredHistory ---------------------------
(***************************************************************************)
(* What the stored history of a dataset promises, without the scans that   *)
(* write it: records happen, the exchange shows them, and whoever stores   *)
(* some of those shown may move the boundary up to which the history is    *)
(* complete (history_sync_watermarks, migration 0020).                     *)
(***************************************************************************)
EXTENDS Integers

CONSTANTS
    Refused,    \* symbols no promise is made about
    From,       \* where the history starts
    Delay,      \* how late a record may be shown
    NoBoundary  \* nothing was promised so far

VARIABLES happened, shown, stored, boundary

vars == <<happened, shown, stored, boundary>>

(* A boundary promises the records that were due before it. *)
Promised(f, b) == f.sym \notin Refused /\ From =< f.t /\ f.t + Delay < b

Init ==
    /\ happened = {} /\ shown = {} /\ stored = {}
    /\ boundary = NoBoundary

(* A record never happens behind the boundary. *)
Happen ==
    /\ happened \subseteq happened'
    /\ \A f \in happened' \ happened : ~Promised(f, boundary)
    /\ UNCHANGED <<shown, stored, boundary>>

Show ==
    /\ shown \subseteq shown' /\ shown' \subseteq happened
    /\ UNCHANGED <<happened, stored, boundary>>

(* One transaction: only shown records are added, none is taken away, and  *)
(* the boundary moves only forward and only over records that are stored.  *)
Store ==
    /\ stored \subseteq stored' /\ stored' \subseteq stored \cup shown
    /\ boundary' >= boundary
    /\ \A f \in happened : Promised(f, boundary') => f \in stored'
    /\ UNCHANGED <<happened, shown>>

Next == Happen \/ Show \/ Store

Spec == Init /\ [][Next]_vars
=============================================================================
