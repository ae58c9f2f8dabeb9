---------------------------- MODULE MCAlignment ----------------------------
(* Instances of Alignment for TLC. *)
EXTENDS Alignment

(* The worker's incremental scan and its bootstrap. *)
WorkerRequests ==
    {[full |-> full, start |-> NoTime, ends |-> "now", symbols |-> {},
      derivatives |-> FALSE, advance |-> TRUE, gated |-> FALSE] : full \in BOOLEAN}

(* A last write that fails; a failure and an admin who reacts; or a child   *)
(* that is killed, or fails, and writes that fail.                          *)
LostOrOff ==
    {[until |-> 3, kills |-> 0, lost |-> 1, toggles |-> 0],
     [until |-> 1, kills |-> 1, lost |-> 0, toggles |-> 2],
     [until |-> 1, kills |-> 1, lost |-> 2, toggles |-> 1]}

(* What the theorems about Alignment assume holds here. *)
ASSUME AlignmentDiscipline == Overlapping /\ Lateness < Gap
=============================================================================
