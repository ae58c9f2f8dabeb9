--------------------------- MODULE MCHistorySync ---------------------------
(* Instances of HistorySync for TLC: the command lines of each run. *)
EXTENDS HistorySync, TLC

Req(full, start, ends, symbols, advance, gated) ==
    [full |-> full, start |-> start, ends |-> ends, symbols |-> symbols,
     derivatives |-> FALSE, advance |-> advance, gated |-> gated]

(* The recurring scan, with or without an explicit end ("past" includes    *)
(* now), its bootstrap, and a repair of the derivatives that leaves the    *)
(* watermark alone.                                                        *)
DisciplinedRequests ==
    {Req(FALSE, NoTime, "past", Symbols, TRUE, FALSE),
     Req(TRUE, NoTime, "now", Symbols, TRUE, FALSE),
     [Req(FALSE, 1, "now", Symbols, FALSE, TRUE) EXCEPT !.derivatives = TRUE]}

(* A symbol-restricted repair with --no-advance-watermark, not gated.      *)
RepairFirstRequests ==
    {Req(FALSE, NoTime, "now", Symbols, TRUE, FALSE)}
    \cup {Req(TRUE, NoTime, "now", {s}, FALSE, FALSE) : s \in Symbols}

(* The bootstrap, and a recurring scan of the derivatives that advances    *)
(* the watermark of both legs.                                             *)
DerivativesRequests ==
    {Req(TRUE, NoTime, "now", Symbols, TRUE, FALSE),
     [Req(FALSE, NoTime, "now", Symbols, TRUE, FALSE) EXCEPT !.derivatives = TRUE]}

ASSUME DisciplineAssumption ==
    Requests = DisciplinedRequests => Contiguous

Symmetry == Permutations(Procs)
=============================================================================
