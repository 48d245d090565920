----------------------------- MODULE TroveTable -----------------------------
(***************************************************************************)
(* The SQLite table "troves" and the statements the bot runs on it         *)
(* (src/models/baseModel.js, troveModel.js, src/controllers/db.js).        *)
(* A table is a sequence of rows: the position of a row is its id (INTEGER *)
(* PRIMARY KEY, no row is ever deleted).  Amounts, dates, hashes and the   *)
(* profit are left out: only the owner and the status steer the bot.       *)
(***************************************************************************)
EXTENDS Naturals, Sequences

CONSTANT Owner      \* addresses of the borrowers

\* Chain statuses of a trove (lib-base Trove.ts) and the subset the bot
\* treats as closed.
ClosedStatus == {"closedByOwner", "closedByLiquidation", "closedByRedemption"}
ChainStatus == ClosedStatus \cup {"nonExistent", "open"}

\* Values of the status column; "null" is SQL NULL.
ActiveStatus == {"open", "liquidating"}
RowStatus == ActiveStatus \cup ClosedStatus \cup {"liquidated", "failed", "null"}

Row == [owner : Owner, status : RowStatus]

\* SELECT * FROM troves WHERE owner = o AND status IN (S), first row: db.get
\* returns the matching row of least id, or nothing (0).
IsFirst(rows, o, S, i) ==
    LET hits == {k \in DOMAIN rows : rows[k].owner = o /\ rows[k].status \in S}
    IN  \/ i = 0 /\ hits = {}
        \/ i \in hits /\ \A k \in hits : i <= k

\* INSERT INTO troves: the status of a trove read with getTroves is "open".
Insert(rows, o) == Append(rows, [owner |-> o, status |-> "open"])

\* UPDATE troves SET status = s WHERE id = i.
SetStatus(rows, i, s) == [rows EXCEPT ![i] = [owner |-> rows[i].owner, status |-> s]]

\* Rows the bot still works on.
ActiveRows(rows, o) ==
    {i \in DOMAIN rows : rows[i].owner = o /\ rows[i].status \in ActiveStatus}
=============================================================================
