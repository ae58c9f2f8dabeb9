----------------------------- MODULE MCRequests -----------------------------
(***************************************************************************)
(* Requests to the exchanges for TLC: the dispatcher, which sends one, and *)
(* the loops of the exchange clients, which ask for page after page.  A    *)
(* loop sees of the dispatcher only answers or an error, so part says      *)
(* which of the two moves in a behaviour.                                  *)
(***************************************************************************)
EXTENDS Dispatcher, Pagination, TLC

VARIABLE part

(* Without a download its inputs are of no interest. *)
MCInit ==
    /\ part \in {"dispatcher", "pages"} /\ Init /\ PagesInit
    /\ part = "dispatcher" => /\ style = "page" /\ newest
                             /\ time = [i \in Record |-> i - 1]
                             /\ pub = {}

MCNext ==
    \/ part = "dispatcher" /\ UNCHANGED <<part, pageVars>> /\ Next
    \/ part = "pages" /\ UNCHANGED <<part, vars>> /\ PagesNext

MCSpec == MCInit /\ [][MCNext]_<<part, vars, pageVars>>
-----------------------------------------------------------------------------
NoHeader == {Absent}
ObservedValues == {Absent, 1, 3}

Symmetry == Permutations(Callers)

AllStyles == {"from_id", "page", "next_cursor", "full_page", "after_id",
              "after_time", "checked", "halve", "halve_total"}

(* In the loops that compare times; not where the cursor is an event time. *)
TiesElsewhere == {"from_id", "checked", "halve", "halve_total"}
=============================================================================
