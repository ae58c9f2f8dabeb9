----------------------------- MODULE MCOverview -----------------------------
(* Instances of Overview for TLC. *)
EXTENDS Overview

TwoAccounts == <<"fr", "mm">>
TheirOpenings == [fr |-> 2, mm |-> 5]

(* Every tick has an event: gains, losses and what only floats. *)
Swinging ==
    [t \in 2 .. 13 |->
       [realized |-> IF t % 3 = 0 THEN 2 ELSE IF t % 3 = 1 THEN -1 ELSE 0,
        total |-> IF t % 4 = 0 THEN 3 ELSE IF t % 4 = 1 THEN -2 ELSE 1]]

(* What the theorems about the histories assume holds here. *)
ASSUME HistoryDiscipline == QuietOpenings
ASSUME TurnDiscipline == OneFollowed
=============================================================================
