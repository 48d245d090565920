----------------------------- MODULE Dashboard ------------------------------
(***************************************************************************)
(* The table of troves in the browser, TrovesCtrl of public/src/index.js,  *)
(* and listTroves of monitor.js that fills it with two queries, for a page *)
(* of the list and for the total.  The table changes between them, and     *)
(* several requests are in progress: one every 30 seconds, and one for     *)
(* every page or filter that the user chooses.  The queries run in         *)
(* parallel, in any order.                                                 *)
(***************************************************************************)
EXTENDS Integers, Sequences

CONSTANTS
    PageSize,   \* limit (100)
    MaxRows,    \* bound: rows of the table
    MaxChanges, \* bound: changes of the table
    MaxRequests \* bound: requests

ASSUME PageAssumption ==
    PageSize \in Nat \ {0} /\ {MaxRows, MaxChanges, MaxRequests} \subseteq Nat

VARIABLES
    rows,       \* how many rows of the table have a status
    table,      \* the client's table: what it shows, its page and its filter
    requests,   \* requests in progress, in the order in which they were made
    chosen,     \* history: the page that the user chose last
    lost,       \* history: was a choice overwritten, or a later request answered first
    changes, made

tableVars == <<rows, table, requests, chosen, lost, changes, made>>
tableBounds == <<changes, made>>

\* The filters: all rows, those liquidated by anybody, those liquidated by the bot.
Status == {"open", "liquidated", "closedByLiquidation"}
StatusFilter == {"", "open", "liquidated"}

\* listTroves of monitor.js widens one of the filters.
Matching(filter) ==
    CASE filter = "" -> rows["open"] + rows["liquidated"] + rows["closedByLiquidation"]
      [] filter = "liquidated" -> rows["liquidated"] + rows["closedByLiquidation"]
      [] filter = "open" -> rows["open"]

Fewer(x, y) == IF x < y THEN x ELSE y
Rest(total, offset) == IF offset <= 0 THEN total ELSE IF offset < total THEN total - offset ELSE 0

\* Page p begins at this offset; page zero, which the first request asks for,
\* before the first row, where the query ignores it.
Offset(page) == (page - 1) * PageSize

NewRequest(page, filter) ==
    [offset |-> Offset(page), status |-> filter, count |-> 0, listed |-> FALSE,
     total |-> 0, counted |-> FALSE, moved |-> FALSE]
NoTable == [page |-> 1, status |-> "", count |-> 0, offset |-> 0, total |-> 0, shows |-> "",
            moved |-> TRUE]

TableInit ==
    /\ rows = [s \in Status |-> 0]
    /\ table = NoTable
    /\ requests = <<NewRequest(0, "")>>
    /\ chosen = 0 /\ lost = FALSE /\ changes = 0 /\ made = 1

\* listTroves of the client.
Ask(page, filter) ==
    /\ made < MaxRequests /\ made' = made + 1
    /\ requests' = Append(requests, NewRequest(page, filter))

\* Every 30 seconds.
Interval ==
    /\ Ask(table.page, table.status)
    /\ lost' = (lost \/ table.page # chosen)
    /\ UNCHANGED <<rows, table, chosen, changes>>

\* The user chooses a page, or a filter, which keeps the page.
Turn(page) ==
    /\ Ask(page, table.status)
    /\ table' = [table EXCEPT !.page = page]
    /\ chosen' = page /\ UNCHANGED <<rows, lost, changes>>
Select(filter) ==
    /\ Ask(table.page, filter)
    /\ table' = [table EXCEPT !.status = filter]
    /\ lost' = (lost \/ table.page # chosen)
    /\ UNCHANGED <<rows, chosen, changes>>

\* find: the page, and as many rows as it has.
ListRows(k) ==
    /\ ~requests[k].listed
    /\ requests' = [requests EXCEPT
          ![k].listed = TRUE, ![k].moved = FALSE,
          ![k].count = Fewer(PageSize, Rest(Matching(requests[k].status), requests[k].offset))]
    /\ UNCHANGED <<rows, table, chosen, lost, tableBounds>>

\* Wrong variant: all rows are counted, whatever the filter.
TotalOfAll(filter) == Matching("")
Total(filter) == Matching(filter)

\* count, which is asked for once the list is there.
CountRows(k) ==
    /\ requests[k].listed /\ ~requests[k].counted
    /\ requests' = [requests EXCEPT ![k].counted = TRUE, ![k].total = Total(requests[k].status)]
    /\ UNCHANGED <<rows, table, chosen, lost, tableBounds>>

\* Wrong variant: pages are counted from zero.
PageOfZero(offset) == offset \div PageSize
PageOf(offset) == (offset \div PageSize) + 1

\* The answer arrives and also sets the page, not the filter.
Reply(k) ==
    LET r == requests[k] IN
    /\ r.counted
    /\ table' = [table EXCEPT !.count = r.count, !.total = r.total, !.page = PageOf(r.offset),
                              !.shows = r.status, !.offset = r.offset, !.moved = r.moved]
    /\ requests' = [i \in 1..(Len(requests) - 1) |-> requests[IF i < k THEN i ELSE i + 1]]
    /\ lost' = (lost \/ k # 1)
    /\ UNCHANGED <<rows, chosen, tableBounds>>

\* A trove is added, or its row changes to another status.
TableChanges ==
    /\ changes < MaxChanges /\ changes' = changes + 1
    /\ \/ /\ Matching("") < MaxRows /\ rows' = [rows EXCEPT !["open"] = @ + 1]
       \/ \E s \in {"liquidated", "closedByLiquidation"} :
             /\ rows["open"] > 0 /\ rows' = [rows EXCEPT !["open"] = @ - 1, ![s] = @ + 1]
    /\ requests' = [k \in DOMAIN requests |->
                      [requests[k] EXCEPT !.moved = @ \/ (requests[k].listed /\ ~requests[k].counted)]]
    /\ UNCHANGED <<table, chosen, lost, made>>

TableNext ==
    \/ Interval \/ TableChanges
    \/ \E page \in 1..2 : Turn(page)
    \/ \E filter \in StatusFilter : Select(filter)
    \/ \E k \in DOMAIN requests : ListRows(k) \/ CountRows(k) \/ Reply(k)

TableSpec == TableInit /\ [][TableNext]_tableVars

-----------------------------------------------------------------------------
(* Properties *)

\* monitor.js:59-73: the list that is shown has as many rows as the total that
\* is shown allows on its page, unless the table changed between the two
\* queries; page zero shows what page one does.
TotalFitsList == ~table.moved => table.count = Fewer(PageSize, Rest(table.total, table.offset))

\* index.js:117-133: once all requests are answered, the page is the one that
\* the user chose last and the rows are those of the chosen filter, unless an
\* answer came before that of an earlier request, or a request went out for a
\* page that an older answer had put back.
ChoiceKept ==
    requests = <<>> /\ ~lost => table.page = chosen /\ table.shows = table.status
=============================================================================
