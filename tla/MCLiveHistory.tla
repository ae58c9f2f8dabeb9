--------------------------- MODULE MCLiveHistory ---------------------------
(* Instances of LiveHistory for TLC. *)
EXTENDS LiveHistory, TLC

(* An operator repairs from the start without touching the watermark. *)
OperatorRepair ==
    {[full |-> FALSE, start |-> 1, ends |-> "now", symbols |-> Symbols,
      derivatives |-> FALSE, advance |-> FALSE, gated |-> TRUE]}

(* An operator scans a first symbol from the start. *)
OperatorSeed ==
    {[full |-> TRUE, start |-> NoTime, ends |-> "now",
      symbols |-> {CHOOSE s \in Symbols : TRUE},
      derivatives |-> FALSE, advance |-> TRUE, gated |-> FALSE]}

(* The instance keeps the discipline its property needs. *)
ASSUME LiveDiscipline == WithinReach

(* Sound for safety, where no request singles out a symbol. *)
Symmetry == Permutations(Symbols)
=============================================================================
