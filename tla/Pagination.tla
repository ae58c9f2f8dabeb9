----------------------------- MODULE Pagination -----------------------------
(***************************************************************************)
(* One paged download of a REST history: the request loops of the exchange *)
(* clients (src/src/exchange), which HistorySync takes as a single step.   *)
(* The exchange goes on publishing records, in any order, between the      *)
(* requests of the loop.  style names the loop:                            *)
(*   from_id     Binance trades: first by time, then by id, oldest first   *)
(*   page        Gate, Binance income and interest: page number or offset  *)
(*   next_cursor Bybit: the cursor of the answer, until there is none      *)
(*   full_page   Bitget: the cursor of the answer, while pages are full    *)
(*   after_id    OKX fills and bills: records older than the last bill id  *)
(*   after_time  OKX interest and positions: records before the last time  *)
(*   checked     RapidX: page numbers, with totals that may not change     *)
(*   halve       Binance force orders: a full window is split in two       *)
(*   halve_total Binance dividends: split while the total exceeds the page *)
(* Records are numbered in the order of their exchange ids, which is an    *)
(* order of time; time gives the event time of each.                       *)
(***************************************************************************)
EXTENDS Integers, FiniteSets, Sequences

CONSTANTS
    Styles,    \* the loops to explore
    TiesIn,    \* the loops whose records may share an event time
    Records,   \* bound: number of records
    LastTime,  \* bound: event times are 0..LastTime
    From, To,  \* the range asked for
    Span,      \* the longest window the exchange accepts
    Cutoff,    \* the boundary between RapidX's archive and its recent list
    PageSize,  \* rows per page
    MaxPages   \* MAX_PAGES of RapidX

(* TimeRange::new refuses a range that ends before it starts; the spans *)
(* and page sizes are positive constants of the code.                      *)
ASSUME PagesAssumption ==
    /\ Records \in Nat /\ LastTime \in Nat /\ MaxPages \in Nat
    /\ From \in Nat /\ To \in Nat /\ From =< To /\ Cutoff \in Int
    /\ Span \in Nat \ {0} /\ PageSize \in Nat \ {0}

VARIABLES
    style,    \* the loop
    newest,   \* page-numbered lists start with the newest record
    time,     \* event time of each record
    pub,      \* the records the exchange shows
    atStart,  \* history: those it showed when the download started
    fetch     \* the loop's memory

pageVars == <<style, newest, time, pub, atStart, fetch>>

Record == 1..Records

NoCursor == 0

Least(a, b) == IF a =< b THEN a ELSE b

(* TimeRange::chunks *)
Chunks ==
    [k \in 1..((To - From) \div Span + 1) |->
        [start |-> From + (k - 1) * Span,
         end |-> Least(From + k * Span - 1, To)]]

(* execution_ranges: the archive, then the recent list. *)
ArchiveThenRecent ==
    (IF From < Cutoff THEN <<[start |-> From, end |-> Least(To, Cutoff)]>>
                      ELSE <<>>)
    \o (IF To >= Cutoff
        THEN <<[start |-> IF From < Cutoff THEN Cutoff ELSE From, end |-> To]>>
        ELSE <<>>)

Windows(s) ==
    CASE s \in {"after_id", "after_time"} -> <<[start |-> From, end |-> To]>>
      [] s = "checked" -> ArchiveThenRecent
      [] OTHER -> Chunks

(* cursor is the page number, id or time the next request carries.  *)
FirstCursor(s) ==
    CASE s \in {"page", "checked"} -> 1
      [] s = "after_time" -> To + 1
      [] OTHER -> NoCursor

PagesInit ==
    /\ style \in Styles
    /\ newest \in BOOLEAN
    /\ newest => style \in {"page", "checked"}
    /\ time \in [Record -> 0..LastTime]
    /\ \A i, j \in Record : i < j =>
          time[i] =< time[j] /\ (style \notin TiesIn => time[i] # time[j])
    /\ pub \in SUBSET Record
    /\ atStart = pub
    /\ fetch = [pc |-> "run", windows |-> Windows(style),
                cursor |-> FirstCursor(style), got |-> {},
                inWindow |-> {}, total |-> 0]

Publish(i) ==
    /\ i \notin pub
    /\ fetch.pc = "run"
    /\ pub' = pub \cup {i}
    /\ UNCHANGED <<style, newest, time, atStart, fetch>>
-----------------------------------------------------------------------------
(* The exchange's answers. *)

InRange(i, w) == w.start =< time[i] /\ time[i] =< w.end

Shown(w) == {i \in pub : InRange(i, w)}

(* A list of records goes down from the largest id, or up. *)
Precedes(j, i, down) == IF down THEN j > i ELSE j < i

(* The number of records before i in a list of S. *)
Rank(i, S, down) == Cardinality({j \in S : Precedes(j, i, down)})

First(S, n, down) == {i \in S : Rank(i, S, down) < n}

Smallest(S, n) == First(S, n, FALSE)

Largest(S, n) == First(S, n, TRUE)

OldestOf(S) == CHOOSE i \in S : \A j \in S : i =< j

NewestOf(S) == CHOOSE i \in S : \A j \in S : j =< i

(* Page k of a list ordered by id. *)
PageOf(S, k) == {i \in S : Rank(i, S, newest) \div PageSize = k - 1}

(* Rows older than a cursor, newest first. *)
Before(S, cursor) ==
    Largest({i \in S : cursor = NoCursor \/ i < cursor}, PageSize)
-----------------------------------------------------------------------------
(* The loops. *)

OpenWindow == Head(fetch.windows)

Keep(rows) == fetch.got \cup rows

(* The window is done: on to the next, or the download has ended. *)
EndWindow(rows) ==
    fetch' = [fetch EXCEPT
        !.pc = IF Len(fetch.windows) = 1 THEN "ok" ELSE "run",
        !.windows = Tail(fetch.windows),
        !.cursor = FirstCursor(style),
        !.got = Keep(rows), !.inWindow = {}, !.total = 0]

Continue(rows, cursor) ==
    fetch' = [fetch EXCEPT !.cursor = cursor, !.got = Keep(rows)]

Abort == fetch' = [fetch EXCEPT !.pc = "error"]

(* Mutant of FromIdNext: a record is stepped over. *)
FromIdNextSkips(page) == NewestOf(page) + 2

(* from_id = last_id + 1 *)
FromIdNext(page) == NewestOf(page) + 1

(* paged_trades *)
FromId ==
    LET page == Smallest(IF fetch.cursor = NoCursor THEN Shown(OpenWindow)
                         ELSE {i \in pub : i >= fetch.cursor}, PageSize)
        rows == {i \in page : InRange(i, OpenWindow)}
    IN  IF \/ Cardinality(page) < PageSize
           \/ time[NewestOf(page)] > OpenWindow.end
        THEN EndWindow(rows)
        ELSE Continue(rows, FromIdNext(page))

PageNext(k) == k + 1

(* Gate's lists, usdm_funding_fees, margin_interest *)
PageNumber ==
    LET page == PageOf(Shown(OpenWindow), fetch.cursor)
    IN  IF Cardinality(page) < PageSize THEN EndWindow(page)
        ELSE Continue(page, PageNext(fetch.cursor))

(***************************************************************************)
(* paged_rows of Bybit and fills of Bitget.  The answer carries a cursor   *)
(* when records remain, and may carry one when none do (more).             *)
(***************************************************************************)
NextCursor(more) ==
    LET page == Before(Shown(OpenWindow), fetch.cursor)
        left == \E i \in Shown(OpenWindow) \ page : i < OldestOf(page)
    IN  IF \/ page = {}
           \/ ~left /\ ~more
           \/ style = "full_page" /\ Cardinality(page) < PageSize
        THEN EndWindow(page)
        ELSE Continue(page, OldestOf(page))

(* fills and bills of OKX *)
AfterId ==
    LET page == Before(Shown(OpenWindow), fetch.cursor)
    IN  IF Cardinality(page) < PageSize THEN EndWindow(page)
        ELSE Continue(page, OldestOf(page))

(* interest_accrued, position_history_by_close_type *)
AfterTime ==
    LET page == Largest({i \in pub : time[i] < fetch.cursor}, PageSize)
        rows == {i \in page : InRange(i, OpenWindow)}
        last == time[OldestOf(page)]
    IN  IF Cardinality(page) < PageSize \/ last < OpenWindow.start
           \/ last = fetch.cursor
        THEN EndWindow(rows)
        ELSE Continue(rows, last)

(* validate_statement_page, validate_execution_page: the totals and the    *)
(* ids of a page against those of the earlier ones.                        *)
ValidPage(page, total, pages) ==
    /\ pages =< MaxPages
    /\ fetch.cursor > 1 => fetch.total = total
    /\ page \cap fetch.inWindow = {}

(* execution_window, statement_history *)
Checked ==
    LET shown == Shown(OpenWindow)
        page == PageOf(shown, fetch.cursor)
        total == Cardinality(shown)
        pages == (total + PageSize - 1) \div PageSize
        seen == fetch.inWindow \cup page
    IN  IF ~ValidPage(page, total, pages) THEN Abort
        ELSE IF fetch.cursor < pages
        THEN fetch' = [fetch EXCEPT !.cursor = @ + 1, !.got = Keep(page),
                                    !.inWindow = seen, !.total = total]
        ELSE IF Cardinality(seen) # total THEN Abort ELSE EndWindow(page)

(* page.len() == LIMIT, asset_dividend_page_is_saturated *)
Saturated(page, total) ==
    IF style = "halve" THEN Cardinality(page) = PageSize
    ELSE total > Cardinality(page)

(* split_force_order_range: the older half is asked for first. *)
Halves(w) ==
    LET middle == w.start + (w.end - w.start) \div 2
    IN  <<[start |-> w.start, end |-> middle],
          [start |-> middle + 1, end |-> w.end]>>

(* paged_force_orders, asset_dividends: no cursor; which rows of a full    *)
(* window the answer holds does not matter.                                *)
Halve ==
    LET shown == Shown(OpenWindow)
        page == Largest(shown, PageSize)
    IN  IF ~Saturated(page, Cardinality(shown)) THEN EndWindow(page)
        ELSE IF OpenWindow.start = OpenWindow.end THEN Abort
        ELSE fetch' = [fetch EXCEPT
                 !.windows = Halves(OpenWindow) \o Tail(fetch.windows)]

Request ==
    /\ fetch.pc = "run"
    /\ \/ style = "from_id" /\ FromId
       \/ style = "page" /\ PageNumber
       \/ /\ style \in {"next_cursor", "full_page"}
          /\ \E more \in BOOLEAN : NextCursor(more)
       \/ style = "after_id" /\ AfterId
       \/ style = "after_time" /\ AfterTime
       \/ style = "checked" /\ Checked
       \/ style \in {"halve", "halve_total"} /\ Halve
    /\ UNCHANGED <<style, newest, time, pub, atStart>>

PagesNext == Request \/ \E i \in Record : Publish(i)

PagesSpec == PagesInit /\ [][PagesNext]_pageVars
-----------------------------------------------------------------------------
(* Properties. *)

Wanted(S) == {i \in S : From =< time[i] /\ time[i] =< To}

(***************************************************************************)
(* A download that succeeds holds every record of its range that was       *)
(* published when it started, whatever is published between its requests   *)
(* and wherever the pages, windows and equal event times fall: this is     *)
(* what a scan relies on when it advances the watermark.                   *)
(***************************************************************************)
FetchComplete == fetch.pc = "ok" => Wanted(atStart) \subseteq fetch.got

(***************************************************************************)
(* A download fails only for a reason that cannot be paged around: the     *)
(* RapidX list changed or is too long, or as many records as fit a page    *)
(* share one millisecond.                                                  *)
(***************************************************************************)
ErrorsJustified ==
    fetch.pc = "error" =>
        \/ /\ style = "checked"
           /\ \/ pub # atStart
              \/ Cardinality(Wanted(pub)) > MaxPages * PageSize
        \/ /\ style \in {"halve", "halve_total"}
           /\ \E t \in 0..LastTime :
                 Cardinality({i \in pub : time[i] = t}) >= PageSize

(***************************************************************************)
(* How a download may end: complete, or with an error that is justified.   *)
(* A caller that takes the end of the loop for the end of the history is   *)
(* right to do so.                                                         *)
(***************************************************************************)
FetchEndsRight == FetchComplete /\ ErrorsJustified
=============================================================================
