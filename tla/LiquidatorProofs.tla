-------------------------- MODULE LiquidatorProofs --------------------------
(***************************************************************************)
(* Theorems about Liquidator, for any sets of owners and task slots and    *)
(* any bounds.                                                             *)
(***************************************************************************)
EXTENDS Liquidator, FiniteSetTheorems, SequenceTheorems, TLAPS

-----------------------------------------------------------------------------
(* The statements on the table *)

\* UPDATE keeps the number of rows and their owners and changes one status.
LEMMA SetStatusFacts ==
    ASSUME NEW tbl \in Seq(Row), NEW i \in DOMAIN tbl, NEW s \in RowStatus
    PROVE  /\ SetStatus(tbl, i, s) \in Seq(Row)
           /\ Len(SetStatus(tbl, i, s)) = Len(tbl)
           /\ DOMAIN SetStatus(tbl, i, s) = DOMAIN tbl
           /\ \A k \in DOMAIN tbl :
                 /\ SetStatus(tbl, i, s)[k].owner = tbl[k].owner
                 /\ SetStatus(tbl, i, s)[k].status = IF k = i THEN s ELSE tbl[k].status
<1> DEFINE row == [owner |-> tbl[i].owner, status |-> s]
           new == [tbl EXCEPT ![i] = row]
<1>1. row \in Row
  <2>1. tbl[i] \in Row
    OBVIOUS
  <2>. QED  BY <2>1 DEF Row
<1>2. new \in Seq(Row) /\ Len(new) = Len(tbl) /\ DOMAIN new = DOMAIN tbl
  BY <1>1
<1>3. \A k \in DOMAIN tbl : new[k] = IF k = i THEN row ELSE tbl[k]
  OBVIOUS
<1>. QED  BY <1>2, <1>3 DEF SetStatus

\* INSERT adds one open row of the owner at the end.
LEMMA InsertFacts ==
    ASSUME NEW tbl \in Seq(Row), NEW o \in Owner
    PROVE  /\ Insert(tbl, o) \in Seq(Row)
           /\ Len(Insert(tbl, o)) = Len(tbl) + 1
           /\ DOMAIN Insert(tbl, o) = DOMAIN tbl \cup {Len(tbl) + 1}
           /\ \A k \in DOMAIN tbl : Insert(tbl, o)[k] = tbl[k]
           /\ Insert(tbl, o)[Len(tbl) + 1] = [owner |-> o, status |-> "open"]
  BY DEF Insert, Row, RowStatus, ActiveStatus

\* What SELECT returns is a matching row, or 0.
LEMMA IsFirstFacts ==
    ASSUME NEW tbl \in Seq(Row), NEW o \in Owner, NEW S, NEW i, IsFirst(tbl, o, S, i)
    PROVE  /\ i # 0 => i \in DOMAIN tbl /\ tbl[i].owner = o /\ tbl[i].status \in S
           /\ i = 0 => \A k \in DOMAIN tbl : ~(tbl[k].owner = o /\ tbl[k].status \in S)
  BY DEF IsFirst

-----------------------------------------------------------------------------
(* Type correctness *)

\* The job a task may hold for owner o.
GoodJob(j, o) ==
    /\ j \in [op : Op, row : Nat, was : ActiveStatus]
    /\ j.row # 0 => OwnRow(j.row, o)
    /\ j.op \in {"picked", "mark", "failSave"} => j.row # 0

\* A statement keeps the rows that are there, and their owners.
RowsKept ==
    /\ rows' \in Seq(Row)
    /\ \A i \in DOMAIN rows : i \in DOMAIN rows' /\ rows'[i].owner = rows[i].owner

LEMMA JobTyped ==
    ASSUME TaskType, NEW t \in Task, NEW o \in Owner
    PROVE  GoodJob(job[t][o], o)
  BY DEF TaskType, GoodJob

\* Row ids that tasks, passes and handlers remember stay good while the rows do.
LEMMA JobKept ==
    ASSUME RowsKept, NEW j, NEW o \in Owner, GoodJob(j, o)
    PROVE  GoodJob(j, o)'
  BY DEF RowsKept, GoodJob, OwnRow

LEMMA TaskTypeStep ==
    ASSUME TaskType, RowsKept, alive' \in BOOLEAN, step' \in [Task -> Step],
           job' \in [Task -> [Owner -> [op : Op, row : Nat, was : ActiveStatus]]],
           \A t \in Task, o \in Owner :
              job'[t][o] = job[t][o] \/ GoodJob(job'[t][o], o)
    PROVE  TaskType'
<1> SUFFICES ASSUME NEW t \in Task, NEW o \in Owner PROVE GoodJob(job[t][o], o)'
  BY DEF TaskType, GoodJob
<1>1. GoodJob(job'[t][o], o)
  BY JobTyped
<1>. QED  BY <1>1, JobKept

\* One task replaces one of its jobs.
LEMMA OneJob ==
    ASSUME TaskType, RowsKept, UNCHANGED <<alive, step>>,
           NEW t \in Task, NEW o \in Owner, NEW j, GoodJob(j, o),
           job' = [job EXCEPT ![t][o] = j]
    PROVE  TaskType'
<1>1. job' \in [Task -> [Owner -> [op : Op, row : Nat, was : ActiveStatus]]]
  BY DEF TaskType, GoodJob
<1>2. \A u \in Task, q \in Owner :
          job'[u][q] = job[u][q] \/ GoodJob(job'[u][q], q)
  BY DEF TaskType
<1>. QED  BY <1>1, <1>2, TaskTypeStep DEF TaskType

\* One task moves on and replaces all its jobs.
LEMMA AllJobs ==
    ASSUME TaskType, rows' = rows, TableType, alive' = alive,
           NEW t \in Task, NEW s \in Step, NEW f,
           f = [o \in Owner |-> f[o]],
           \A o \in Owner : GoodJob(f[o], o),
           step' = [step EXCEPT ![t] = s],
           job' = [job EXCEPT ![t] = f]
    PROVE  TaskType'
<1>0. f \in [Owner -> [op : Op, row : Nat, was : ActiveStatus]]
  BY DEF GoodJob
<1>1. job' \in [Task -> [Owner -> [op : Op, row : Nat, was : ActiveStatus]]]
  BY <1>0 DEF TaskType
<1>2. \A u \in Task, q \in Owner :
          job'[u][q] = job[u][q] \/ GoodJob(job'[u][q], q)
  BY DEF TaskType
<1>3. RowsKept
  BY DEF RowsKept, TableType
<1>. QED  BY <1>1, <1>2, <1>3, TaskTypeStep DEF TaskType

LEMMA NoJobGood == \A o \in Owner : GoodJob(NoJob, o)
  BY DEF GoodJob, NoJob, Job, Op, ActiveStatus

LEMMA StopType ==
    ASSUME TaskType, rows' = rows, TableType, alive' = alive,
           NEW t \in Run, Stop(t)
    PROVE  TaskType'
<1>1. /\ NoJobs = [o \in Owner |-> NoJobs[o]]
      /\ \A o \in Owner : GoodJob(NoJobs[o], o)
  BY NoJobGood DEF NoJobs
<1>2. t \in Task /\ "idle" \in Step
  BY DEF Task, Step
<1>. QED  BY <1>1, <1>2, AllJobs DEF Stop

LEMMA ExitType ==
    ASSUME rows' = rows, Exit
    PROVE  TaskType' /\ PassType' /\ WatchType'
  BY DEF Exit, TaskType, PassType, WatchType, NoJobs, NoJob, Job, NoRow, Step, Op,
         ActiveStatus, ClosedStatus

\* What passes and handlers remember.
LEMMA RefsKept ==
    ASSUME PassType, WatchType, TableType, RowsKept, UNCHANGED <<todo, cur, watchers>>
    PROVE  PassType' /\ WatchType'
  BY DEF PassType, WatchType, RowsKept, OwnRow, TableType

\* UPDATE of the status of a row.
LEMMA UpdateType ==
    ASSUME TableType, NEW i \in DOMAIN rows, NEW s \in RowStatus,
           rows' = SetStatus(rows, i, s), lived' = lived
    PROVE  TableType' /\ RowsKept
<1>1. rows \in Seq(Row)
  BY DEF TableType
<1>2. /\ rows' \in Seq(Row) /\ Len(rows') = Len(rows) /\ DOMAIN rows' = DOMAIN rows
      /\ \A k \in DOMAIN rows : rows'[k].owner = rows[k].owner
  BY <1>1, SetStatusFacts
<1>. QED  BY <1>2 DEF TableType, RowsKept

\* INSERT of a row.
LEMMA InsertType ==
    ASSUME TableType, NEW o \in Owner, NEW S \in SUBSET ChainStatus,
           rows' = Insert(rows, o), lived' = Append(lived, S)
    PROVE  TableType' /\ RowsKept
<1>1. lived' \in Seq(SUBSET ChainStatus) /\ Len(lived') = Len(rows) + 1
  BY AppendProperties DEF TableType
<1>2. rows' \in Seq(Row) /\ Len(rows') = Len(rows) + 1
  BY InsertFacts DEF TableType
<1>3. RowsKept
  BY InsertFacts DEF TableType, RowsKept
<1>. QED  BY <1>1, <1>2, <1>3 DEF TableType

\* The chain moves: every row's history grows by the owner's new status.
LEMMA LiveType ==
    ASSUME TableType, ChainType', rows' = rows, lived' = Live(trove')
    PROVE  /\ TableType'
           /\ \A i \in DOMAIN rows : lived'[i] = lived[i] \cup {trove'[rows[i].owner]}
<1>1. DOMAIN lived = 1..Len(rows) /\ DOMAIN rows = 1..Len(rows) /\ Len(rows) \in Nat
  BY DEF TableType
<1>2. \A i \in DOMAIN rows : lived[i] \cup {trove'[rows[i].owner]} \in SUBSET ChainStatus
  <2>1. ASSUME NEW i \in DOMAIN rows
        PROVE  lived[i] \cup {trove'[rows[i].owner]} \in SUBSET ChainStatus
    <3>1. rows[i] \in Row /\ lived[i] \in SUBSET ChainStatus
      BY <1>1 DEF TableType
    <3>. QED  BY <3>1 DEF Row, ChainType
  <2>. QED  BY <2>1
<1>3. lived' = [i \in 1..Len(rows) |-> lived[i] \cup {trove'[rows[i].owner]}]
  BY <1>1 DEF Live
<1>4. lived' \in Seq(SUBSET ChainStatus) /\ Len(lived') = Len(rows)
  BY <1>1, <1>2, <1>3, IsASeq
<1>. QED  BY <1>1, <1>3, <1>4 DEF TableType

LEMMA InitType == Init => TypeOK
  BY DEF Init, TypeOK, ChainType, TableType, TaskType, PassType, WatchType, HistoryType,
         NoTx, NoJobs, NoJob, Job, NoRow, ChainStatus, ClosedStatus, ActiveStatus, Op, Step

LEMMA NextType == TypeOK /\ [Next]_vars => TypeOK'
<1> SUFFICES ASSUME TypeOK, [Next]_vars PROVE TypeOK'
  OBVIOUS
<1> USE DEF TypeOK
<1>0. rows' = rows => RowsKept
  BY DEF TableType, RowsKept
<1>1. ASSUME NEW t \in Task, NEW o \in Owner, AddFind(t, o) PROVE TypeOK'
  <2>1. PICK i \in 0..Len(rows) :
          /\ IsFirst(rows, o, ActiveStatus, i)
          /\ job' = [job EXCEPT ![t][o] =
                Job("addSave", i, IF i = 0 THEN "open" ELSE rows[i].status)]
    BY <1>1 DEF AddFind
  <2>2. GoodJob(Job("addSave", i, IF i = 0 THEN "open" ELSE rows[i].status), o)
    BY <2>1, IsFirstFacts DEF GoodJob, Job, Op, ActiveStatus, OwnRow, TableType
  <2>3. TaskType'
    BY <1>0, <1>1, <2>1, <2>2, OneJob DEF AddFind
  <2>. QED
    BY <1>1, <2>3 DEF AddFind, ChainType, TableType, PassType, WatchType, HistoryType,
                      OwnRow, chain, history, counters
<1>2. ASSUME NEW t \in Task, NEW o \in Owner, AddSave(t, o) PROVE TypeOK'
  <2>1. TableType' /\ RowsKept
    <3>1. CASE job[t][o].row # 0
      <4>1. job[t][o].row \in DOMAIN rows /\ job[t][o].was \in RowStatus
        BY <3>1 DEF TaskType, OwnRow, RowStatus
      <4>. QED  BY <1>2, <3>1, <4>1, UpdateType DEF AddSave
    <3>2. CASE job[t][o].row = 0
      BY <1>2, <3>2, InsertType DEF AddSave, ChainType
    <3>. QED  BY <3>1, <3>2
  <2>2. GoodJob(Job("added", 0, "open"), o)
    BY DEF GoodJob, Job, Op, ActiveStatus
  <2>3. TaskType'
    BY <1>2, <2>1, <2>2, OneJob DEF AddSave
  <2>4. PassType' /\ WatchType'
    BY <1>2, <2>1, RefsKept DEF AddSave
  <2>. QED  BY <1>2, <2>1, <2>3, <2>4 DEF AddSave, ChainType, HistoryType, chain, counters
<1>3. ASSUME NEW t \in Task, FetchTroves(t), rows' = rows, alive' = alive PROVE TaskType'
  <2>1. PICK P \in SUBSET OpenTroves :
          job' = [job EXCEPT ![t] = [o \in Owner |->
                        IF o \in P THEN Job("addFind", 0, "open") ELSE NoJob]]
    BY <1>3 DEF FetchTroves
  <2> DEFINE f == [o \in Owner |-> IF o \in P THEN Job("addFind", 0, "open") ELSE NoJob]
  <2>2. \A o \in Owner : GoodJob(f[o], o)
    BY DEF GoodJob, Job, NoJob, Op, ActiveStatus
  <2>3. f = [o \in Owner |-> f[o]] /\ "adding" \in Step
    BY DEF Step
  <2>. QED  BY <1>3, <2>1, <2>2, <2>3, AllJobs DEF FetchTroves
<1>4. ASSUME NEW p \in Pass, PassStart(p) PROVE TypeOK'
  <2>1. TaskType'
    BY <1>3, <1>4 DEF PassStart, Task
  <2>. QED
    BY <1>4, <2>1 DEF PassStart, ChainType, TableType, PassType, WatchType, HistoryType,
                      OwnRow, chain, history, counters
<1>5. ASSUME NEW p \in Pass, PassList(p) PROVE TypeOK'
  <2>1. /\ NoJobs = [o \in Owner |-> NoJobs[o]]
        /\ \A o \in Owner : GoodJob(NoJobs[o], o)
        /\ "visiting" \in Step /\ p \in Task
    BY NoJobGood DEF NoJobs, Step, Task
  <2>2. TaskType'
    BY <1>5, <2>1, AllJobs DEF PassList
  <2> DEFINE active == UNION {ActiveRows(rows, o) : o \in Owner}
  <2>3. PICK L \in SUBSET active : todo' = [todo EXCEPT ![p] = L]
    BY <1>5 DEF PassList
  <2>4. L \subseteq DOMAIN rows
    BY DEF ActiveRows
  <2>5. PassType'
    BY <1>5, <2>3, <2>4 DEF PassList, PassType
  <2>. QED
    BY <1>5, <2>2, <2>5 DEF PassList, ChainType, TableType, WatchType, HistoryType,
                            OwnRow, chain, history, counters
<1>6. ASSUME NEW p \in Pass, NEW i \in todo[p], PassVisit(p, i) PROVE TypeOK'
  BY <1>6 DEF PassVisit, ChainType, TableType, TaskType, PassType, WatchType, HistoryType,
              OwnRow, chain, history, counters
<1>7. ASSUME NEW p \in Pass, PassClose(p) PROVE TypeOK'
  <2>1. TableType' /\ RowsKept
    <3>1. cur[p].row \in DOMAIN rows /\ cur[p].status \in RowStatus
      BY <1>7 DEF PassClose, PassType, RowStatus
    <3>. QED  BY <1>7, <3>1, UpdateType DEF PassClose, history
  <2>2. TaskType'
    BY <1>7, <2>1, TaskTypeStep DEF PassClose, TaskType
  <2>3. PassType' /\ WatchType'
    BY <1>7, <2>1 DEF PassClose, PassType, WatchType, NoRow, ClosedStatus, RowsKept, OwnRow
  <2>. QED
    BY <1>7, <2>1, <2>2, <2>3 DEF PassClose, ChainType, HistoryType, chain, history, counters
<1>8. ASSUME NEW p \in Pass, PassEnd(p) PROVE TypeOK'
  BY <1>8 DEF PassEnd, ChainType, TableType, TaskType, PassType, WatchType, HistoryType,
              OwnRow, Step, Task, chain, history, counters
<1>9. ASSUME NEW r \in Run, RunStart(r) PROVE TypeOK'
  <2>1. TaskType'
    BY <1>3, <1>9 DEF RunStart, Task
  <2>. QED
    BY <1>9, <2>1 DEF RunStart, ChainType, TableType, PassType, WatchType, HistoryType,
                      OwnRow, NoTx, history
<1>10. ASSUME NEW r \in Run, NEW f, NEW s \in Step,
              f = [o \in Owner |-> f[o]], \A o \in Owner : GoodJob(f[o], o),
              step' = [step EXCEPT ![r] = s], job' = [job EXCEPT ![r] = f],
              UNCHANGED <<rows, lived, alive, todo, cur, watchers>>
       PROVE  TableType' /\ TaskType' /\ PassType' /\ WatchType'
  <2>1. TaskType'
    BY <1>10, AllJobs DEF Task
  <2>. QED  BY <1>10, <2>1 DEF TableType, PassType, WatchType, OwnRow
<1>11. ASSUME NEW r \in Run, Stop(r), UNCHANGED <<rows, lived, alive, todo, cur, watchers>>
       PROVE  TableType' /\ TaskType' /\ PassType' /\ WatchType'
  <2>1. /\ NoJobs = [o \in Owner |-> NoJobs[o]]
        /\ \A o \in Owner : GoodJob(NoJobs[o], o)
        /\ "idle" \in Step
    BY NoJobGood DEF NoJobs, Step
  <2>. QED  BY <1>10, <1>11, <2>1 DEF Stop
<1>12. ASSUME NEW r \in Run, RunFilter(r) PROVE TypeOK'
  <2>1. PICK under \in SUBSET At(r, "added") :
          job' = [job EXCEPT ![r] = [o \in Owner |->
                     IF o \in under THEN Job("openFind", 0, "open") ELSE NoJob]]
    BY <1>12 DEF RunFilter
  <2> DEFINE f == [o \in Owner |-> IF o \in under THEN Job("openFind", 0, "open") ELSE NoJob]
  <2>2. /\ f = [o \in Owner |-> f[o]]
        /\ \A o \in Owner : GoodJob(f[o], o)
        /\ "filtering" \in Step
    BY DEF GoodJob, Job, NoJob, Op, ActiveStatus, Step
  <2>3. TableType' /\ TaskType' /\ PassType' /\ WatchType'
    BY <1>10, <1>12, <2>1, <2>2 DEF RunFilter, history
  <2>. QED  BY <1>12, <2>3 DEF RunFilter, ChainType, HistoryType, chain, history, counters
<1>13. ASSUME NEW r \in Run, NEW o \in Owner, FilterFind(r, o) PROVE TypeOK'
  <2>1. PICK i \in 0..Len(rows) :
          /\ IsFirst(rows, o, {"open"}, i)
          /\ job' = [job EXCEPT ![r][o] =
                IF i = 0 THEN Job("dropped", 0, "open") ELSE Job("picked", i, "open")]
    BY <1>13 DEF FilterFind
  <2>2. GoodJob(IF i = 0 THEN Job("dropped", 0, "open") ELSE Job("picked", i, "open"), o)
    BY <2>1, IsFirstFacts DEF GoodJob, Job, Op, ActiveStatus, OwnRow, TableType
  <2>3. TaskType'
    BY <1>0, <1>13, <2>1, <2>2, OneJob DEF FilterFind, Task
  <2>. QED
    BY <1>13, <2>3 DEF FilterFind, ChainType, TableType, PassType, WatchType, HistoryType,
                       OwnRow, chain, history, counters
<1>14. ASSUME NEW r \in Run, RunBatch(r) PROVE TypeOK'
  <2>1. CASE Stop(r)
    BY <1>11, <1>14, <2>1 DEF RunBatch, ChainType, HistoryType, chain, history, counters
  <2>2. CASE ~Stop(r)
    <3>1. PICK B \in SUBSET At(r, "picked") :
            /\ job' = [job EXCEPT ![r] = [o \in Owner |->
                           IF o \in B THEN job[r][o] ELSE NoJob]]
            /\ step' = [step EXCEPT ![r] = "pricing"]
      BY <1>14, <2>2 DEF RunBatch
    <3> DEFINE f == [o \in Owner |-> IF o \in B THEN job[r][o] ELSE NoJob]
    <3>2. /\ f = [o \in Owner |-> f[o]]
          /\ \A o \in Owner : GoodJob(f[o], o)
          /\ "pricing" \in Step
      BY JobTyped, NoJobGood DEF Step, Task
    <3>3. TableType' /\ TaskType' /\ PassType' /\ WatchType'
      BY <1>10, <1>14, <3>1, <3>2 DEF RunBatch, history
    <3>. QED  BY <1>14, <3>3 DEF RunBatch, ChainType, HistoryType, chain, history, counters
  <2>. QED  BY <2>1, <2>2
<1>15. ASSUME NEW r \in Run, RunPopulateFails(r) PROVE TypeOK'
  BY <1>11, <1>15 DEF RunPopulateFails, ChainType, HistoryType, chain, history, counters
<1>16. ASSUME NEW r \in Run, RunPriced(r) PROVE TypeOK'
  <2> DEFINE f == [o \in Owner |-> IF job[r][o].op = "picked"
                     THEN Job("mark", job[r][o].row, "open") ELSE job[r][o]]
  <2>1. /\ f = [o \in Owner |-> f[o]]
        /\ "marking" \in Step
    BY DEF Step
  <2>2. ASSUME NEW o \in Owner PROVE GoodJob(f[o], o)
    <3>1. GoodJob(job[r][o], o)
      BY JobTyped DEF Task
    <3>. QED  BY <3>1 DEF GoodJob, Job, Op, ActiveStatus
  <2>3. TableType' /\ TaskType' /\ PassType' /\ WatchType'
    BY <1>10, <1>16, <2>1, <2>2 DEF RunPriced, history
  <2>. QED  BY <1>16, <2>3 DEF RunPriced, ChainType, HistoryType, chain, history, counters
<1>17. ASSUME NEW r \in Run, NEW o \in Owner, MarkRow(r, o) PROVE TypeOK'
  <2>1. job[r][o].row \in DOMAIN rows /\ "liquidating" \in RowStatus
    BY <1>17 DEF MarkRow, TaskType, OwnRow, RowStatus, ActiveStatus, Task
  <2>2. TableType' /\ RowsKept
    BY <1>17, <2>1, UpdateType DEF MarkRow, history
  <2>3. GoodJob(Job("marked", 0, "open"), o)
    BY DEF GoodJob, Job, Op, ActiveStatus
  <2>4. TaskType'
    BY <1>17, <2>2, <2>3, OneJob DEF MarkRow, Task
  <2>5. PassType' /\ WatchType'
    BY <1>17, <2>2, RefsKept DEF MarkRow
  <2>. QED
    BY <1>17, <2>2, <2>4, <2>5 DEF MarkRow, ChainType, HistoryType, chain, history, counters
<1>18. ASSUME NEW r \in Run, RunSkip(r) PROVE TypeOK'
  BY <1>11, <1>18 DEF RunSkip, ChainType, HistoryType, chain, history, counters
<1>19. ASSUME NEW r \in Run, RunSend(r) PROVE TypeOK'
  <2>1. At(r, "marked") \subseteq Owner
    BY DEF At
  <2>2. ChainType' /\ TableType' /\ HistoryType'
    BY <1>19, <2>1 DEF RunSend, ChainType, TableType, HistoryType, counters
  <2>3. CASE Exit
    BY <1>19, <2>2, <2>3, ExitType DEF RunSend
  <2>4. CASE ~Exit
    BY <1>0, <1>19, <2>2, <2>4, TaskTypeStep DEF RunSend, TaskType, PassType, WatchType,
                                                 OwnRow, Step, Task
  <2>. QED  BY <2>3, <2>4
<1>20. ASSUME NEW r \in Run, FailBatch(r), UNCHANGED <<rows, lived, alive, todo, cur, watchers>>
       PROVE  TableType' /\ TaskType' /\ PassType' /\ WatchType'
  <2> DEFINE f == [o \in Owner |-> IF job[r][o].op = "marked"
                     THEN Job("failFind", 0, "open") ELSE NoJob]
  <2>1. /\ f = [o \in Owner |-> f[o]]
        /\ \A o \in Owner : GoodJob(f[o], o)
        /\ "failing" \in Step
    BY DEF GoodJob, Job, NoJob, Op, ActiveStatus, Step
  <2>. QED  BY <1>10, <1>20, <2>1 DEF FailBatch
<1>21. ASSUME NEW r \in Run, RunSendFails(r) PROVE TypeOK'
  BY <1>20, <1>21 DEF RunSendFails, ChainType, HistoryType, chain, counters, At
<1>22. ASSUME NEW r \in Run, RunReverted(r) PROVE TypeOK'
  BY <1>20, <1>22 DEF RunReverted, ChainType, HistoryType, chain, history, counters
<1>23. ASSUME NEW r \in Run, NEW o \in Owner, FailFind(r, o) PROVE TypeOK'
  <2>1. PICK i \in 0..Len(rows) :
          /\ IsFirst(rows, o, {"liquidating"}, i)
          /\ job' = [job EXCEPT ![r][o] =
                IF i = 0 THEN NoJob ELSE Job("failSave", i, "open")]
    BY <1>23 DEF FailFind
  <2>2. GoodJob(IF i = 0 THEN NoJob ELSE Job("failSave", i, "open"), o)
    BY <2>1, IsFirstFacts, NoJobGood DEF GoodJob, Job, Op, ActiveStatus, OwnRow, TableType
  <2>3. TaskType'
    BY <1>0, <1>23, <2>1, <2>2, OneJob DEF FailFind, Task
  <2>. QED
    BY <1>23, <2>3 DEF FailFind, ChainType, TableType, PassType, WatchType, HistoryType,
                       OwnRow, chain, history, counters
<1>24. ASSUME NEW r \in Run, NEW o \in Owner, FailSave(r, o) PROVE TypeOK'
  <2>1. job[r][o].row \in DOMAIN rows /\ "failed" \in RowStatus
    BY <1>24 DEF FailSave, TaskType, OwnRow, RowStatus, Task
  <2>2. TableType' /\ RowsKept
    BY <1>24, <2>1, UpdateType DEF FailSave, history
  <2>4. TaskType'
    BY <1>24, <2>2, NoJobGood, OneJob DEF FailSave, Task
  <2>5. PassType' /\ WatchType'
    BY <1>24, <2>2, RefsKept DEF FailSave
  <2>. QED
    BY <1>24, <2>2, <2>4, <2>5 DEF FailSave, ChainType, HistoryType, chain, history, counters
<1>25. ASSUME NEW r \in Run, RunFailed(r) PROVE TypeOK'
  BY <1>11, <1>25 DEF RunFailed, ChainType, HistoryType, chain, history, counters
<1>26. ASSUME NEW r \in Run, Reject(r), UNCHANGED <<rows, lived>>
       PROVE  TableType' /\ TaskType' /\ PassType' /\ WatchType'
  <2>1. CASE Exit
    BY <1>26, <2>1, ExitType DEF TableType
  <2>2. CASE Stop(r) /\ UNCHANGED <<alive, todo, cur, watchers>>
    BY <1>11, <1>26, <2>2
  <2>. QED  BY <1>26, <2>1, <2>2 DEF Reject
<1>27. ASSUME NEW r \in Run, RunSucceeded(r) \/ RunGivesUp(r) PROVE TypeOK'
  BY <1>26, <1>27 DEF RunSucceeded, RunGivesUp, ChainType, HistoryType, chain, history, counters
<1>28. ASSUME NEW w \in watchers, WatchFind(w) PROVE TypeOK'
  <2>1. PICK i \in 0..Len(rows) :
          /\ IsFirst(rows, w.owner, RowStatus, i)
          /\ watchers' = (watchers \ {w}) \cup
                (IF i = 0 THEN {} ELSE {[ev |-> w.ev, owner |-> w.owner, row |-> i]})
    BY <1>28 DEF WatchFind
  <2>2. WatchType'
    BY <1>28, <2>1, IsFirstFacts DEF WatchFind, WatchType, TableType, OwnRow
  <2>. QED
    BY <1>28, <2>2 DEF WatchFind, ChainType, TableType, TaskType, PassType, HistoryType,
                       OwnRow, chain, tasks, history, counters
<1>29. ASSUME NEW w \in watchers, WatchSave(w) PROVE TypeOK'
  <2>1. w.row \in DOMAIN rows /\ "null" \in RowStatus
    BY <1>29 DEF WatchSave, WatchType, OwnRow, RowStatus
  <2>2. TableType' /\ RowsKept
    <3>1. CASE rows' = rows
      BY <1>0, <1>29, <3>1 DEF WatchSave, TableType, history
    <3>2. CASE rows' = SetStatus(rows, w.row, "null")
      BY <1>29, <2>1, <3>2, UpdateType DEF WatchSave, history
    <3>. QED  BY <1>29, <3>1, <3>2 DEF WatchSave
  <2>3. TaskType'
    BY <1>29, <2>2, TaskTypeStep DEF WatchSave, TaskType, tasks
  <2>4. PassType' /\ WatchType'
    BY <1>29, <2>2 DEF WatchSave, PassType, WatchType, RowsKept, OwnRow, tasks
  <2>. QED
    BY <1>29, <2>2, <2>3, <2>4 DEF WatchSave, ChainType, HistoryType, chain, history, counters
<1>30. ASSUME NEW S \in SUBSET Owner, watchers' = watchers \cup Notified(S), rows' = rows
       PROVE  WatchType'
  BY <1>30 DEF WatchType, Notified, OwnRow, HistoryType
<1>31. ASSUME NEW o \in Owner, NEW s \in ChainStatus, ChainStep(o, s) PROVE TypeOK'
  <2>1. ChainType'
    BY <1>31 DEF ChainStep, ChainType
  <2>2. TableType'
    BY <1>31, <2>1, LiveType DEF ChainStep
  <2>3. WatchType'
    BY <1>30, <1>31 DEF ChainStep
  <2>. QED
    BY <1>31, <2>1, <2>2, <2>3 DEF ChainStep, TaskType, PassType, HistoryType, OwnRow, tasks
<1>32. ASSUME NEW r \in Run, Mine(r) PROVE TypeOK'
  <2>1. PICK H \in SUBSET (tx[r].batch \cap OpenTroves) :
          /\ tx' = [tx EXCEPT ![r] =
                       [st |-> IF H = {} THEN "failed" ELSE "success",
                        batch |-> tx[r].batch, hits |-> H]]
          /\ trove' = [o \in Owner |->
                          IF o \in H THEN "closedByLiquidation" ELSE trove[o]]
          /\ lived' = Live(trove')
          /\ liquidated' = liquidated \cup H
          /\ watchers' = watchers \cup Notified(H)
    BY <1>32 DEF Mine
  <2>2. H \in SUBSET Owner /\ tx[r].batch \in SUBSET Owner
    BY DEF ChainType, OpenTroves
  <2>3. ChainType'
    BY <2>1, <2>2 DEF ChainType, ChainStatus, ClosedStatus
  <2>4. TableType'
    BY <1>32, <2>1, <2>3, LiveType DEF Mine
  <2>5. WatchType'
    BY <1>30, <1>32, <2>1, <2>2 DEF Mine
  <2>. QED
    BY <1>32, <2>1, <2>2, <2>3, <2>4, <2>5
    DEF Mine, TaskType, PassType, HistoryType, OwnRow, tasks
<1>33. ASSUME NEW r \in Run, DropTx(r) PROVE TypeOK'
  BY <1>33 DEF DropTx, NoTx, ChainType, TableType, TaskType, PassType, WatchType,
               HistoryType, OwnRow, tasks, history, counters
<1>34. CASE Crash
  BY <1>34, ExitType DEF Crash, ChainType, TableType, HistoryType, chain, history
<1>35. CASE Restart
  BY <1>35 DEF Restart, ChainType, TableType, TaskType, PassType, WatchType, HistoryType,
               OwnRow, chain, tasks, history, counters
<1>36. CASE UNCHANGED vars
  BY <1>36 DEF vars, ChainType, TableType, TaskType, PassType, WatchType, HistoryType, OwnRow
<1>. QED
  BY <1>1, <1>2, <1>4, <1>5, <1>6, <1>7, <1>8, <1>9, <1>12, <1>13, <1>14, <1>15, <1>16,
     <1>17, <1>18, <1>19, <1>21, <1>22, <1>23, <1>24, <1>25, <1>27, <1>28, <1>29, <1>31,
     <1>32, <1>33, <1>34, <1>35, <1>36
  DEF Next, Adding, PassNext, RunNext, Watching, Environment

\* Type correctness of every reachable state, for any constants.
THEOREM TypeCorrect == Spec => []TypeOK
  BY InitType, NextType, PTL DEF Spec

-----------------------------------------------------------------------------
(* What a step can do to the table *)

\* Every step leaves the table alone, updates the status of one row, or
\* inserts an open row; which statuses are written, and when, is listed here
\* once and used by every invariant below.
Update(i, s) == /\ i \in DOMAIN rows /\ s \in RowStatus
                /\ rows' = SetStatus(rows, i, s) /\ lived' = lived
                /\ UNCHANGED <<trove, liquidated, tried>>

LEMMA SaveKinds ==
    ASSUME TypeOK, NEW t \in Task, NEW o \in Owner, AddSave(t, o)
    PROVE  \/ Update(job[t][o].row, job[t][o].was) /\ job[t][o].row # 0
           \/ job[t][o].row = 0 /\ rows' = Insert(rows, o)
                                /\ lived' = Append(lived, {trove[o]})
<1>1. CASE job[t][o].row # 0
  <2>1. job[t][o].row \in DOMAIN rows /\ job[t][o].was \in RowStatus
    BY <1>1 DEF TypeOK, TaskType, OwnRow, RowStatus
  <2>. QED  BY <1>1, <2>1 DEF AddSave, Update, chain
<1>2. CASE job[t][o].row = 0
  BY <1>2 DEF AddSave
<1>. QED  BY <1>1, <1>2

LEMMA UpdateFacts ==
    ASSUME TypeOK, NEW i, NEW s, Update(i, s)
    PROVE  /\ DOMAIN rows' = DOMAIN rows
           /\ \A k \in DOMAIN rows :
                 /\ rows'[k].owner = rows[k].owner
                 /\ rows'[k].status = IF k = i THEN s ELSE rows[k].status
<1>1. rows \in Seq(Row) /\ i \in DOMAIN rows /\ s \in RowStatus
  BY DEF Update, TypeOK, TableType
<1>. QED  BY <1>1, SetStatusFacts DEF Update

LEMMA WriteKinds ==
    ASSUME TypeOK
    PROVE  /\ \A p \in Pass : PassClose(p) => Update(cur[p].row, cur[p].status)
           /\ \A r \in Run, o \in Owner : MarkRow(r, o) => Update(job[r][o].row, "liquidating")
           /\ \A r \in Run, o \in Owner : FailSave(r, o) => Update(job[r][o].row, "failed")
           /\ \A w \in watchers : WatchSave(w) => Update(w.row, "null") \/
                 UNCHANGED <<rows, lived, trove, liquidated, tried, cur, job, step>>
<1>1. ASSUME NEW p \in Pass, PassClose(p) PROVE Update(cur[p].row, cur[p].status)
  BY <1>1 DEF PassClose, Update, TypeOK, PassType, RowStatus, chain, history
<1>2. ASSUME NEW r \in Run, NEW o \in Owner, MarkRow(r, o)
      PROVE  Update(job[r][o].row, "liquidating")
  BY <1>2 DEF MarkRow, Update, TypeOK, TaskType, Task, OwnRow, RowStatus, ActiveStatus,
              chain, history
<1>3. ASSUME NEW r \in Run, NEW o \in Owner, FailSave(r, o)
      PROVE  Update(job[r][o].row, "failed")
  BY <1>3 DEF FailSave, Update, TypeOK, TaskType, Task, OwnRow, RowStatus, chain, history
<1>4. ASSUME NEW w \in watchers, WatchSave(w)
      PROVE  \/ Update(w.row, "null")
             \/ UNCHANGED <<rows, lived, trove, liquidated, tried, cur, job, step>>
  BY <1>4 DEF WatchSave, Update, TypeOK, WatchType, OwnRow, RowStatus, chain, history, tasks
<1>. QED  BY <1>1, <1>2, <1>3, <1>4

\* The steps that leave the table, the chain and the verdicts alone.
Quiet == UNCHANGED <<trove, rows, lived, liquidated, tried, cur, watchers>>

LEMMA QuietSteps ==
    /\ \A t \in Task, o \in Owner : AddFind(t, o) => Quiet
    /\ \A p \in Pass : PassStart(p) \/ PassList(p) \/ PassEnd(p) => Quiet
    /\ \A r \in Run :
          RunStart(r) \/ RunFilter(r) \/ RunBatch(r) \/ RunPopulateFails(r)
             \/ RunPriced(r) \/ RunSkip(r) \/ RunReverted(r) \/ RunFailed(r) \/ DropTx(r)
          => Quiet
    /\ \A r \in Run, o \in Owner : FilterFind(r, o) \/ FailFind(r, o) => Quiet
    /\ Restart \/ UNCHANGED vars => Quiet
  BY DEF Quiet, AddFind, PassStart, PassList, PassEnd, RunStart, RunFilter, FilterFind,
         RunBatch, RunPopulateFails, RunPriced, RunSkip, RunReverted, FailFind, RunFailed,
         DropTx, Restart, chain, history, tasks, vars

-----------------------------------------------------------------------------
(* ClosedAfterTracked *)

LEMMA VerdictUpdate ==
    ASSUME TypeOK, VerdictInv, NEW i, NEW s, Update(i, s),
           s \in ClosedStatus => s \in lived[i],
           \A p \in Pass : cur'[p] = cur[p] \/ cur'[p].row = 0
    PROVE  VerdictInv'
  BY UpdateFacts DEF VerdictInv, ClosedAfterTracked, Update

LEMMA VerdictLive ==
    ASSUME TypeOK, VerdictInv, ChainType', rows' = rows, cur' = cur, lived' = Live(trove')
    PROVE  VerdictInv'
<1>1. \A i \in DOMAIN rows : lived'[i] = lived[i] \cup {trove'[rows[i].owner]}
  BY LiveType DEF TypeOK
<1>. QED  BY <1>1 DEF VerdictInv, ClosedAfterTracked, TypeOK, PassType

LEMMA NextVerdict == TypeOK /\ VerdictInv /\ [Next]_vars => VerdictInv'
<1> SUFFICES ASSUME TypeOK, VerdictInv, [Next]_vars PROVE VerdictInv'
  OBVIOUS
<1>1. TypeOK'
  BY NextType
<1>2. ASSUME UNCHANGED <<trove, rows, lived>>,
             \A p \in Pass : cur'[p] = cur[p] \/ cur'[p].row = 0
      PROVE  VerdictInv'
  BY <1>2 DEF VerdictInv, ClosedAfterTracked
<1>3. ASSUME NEW t \in Task, NEW o \in Owner, AddSave(t, o) PROVE VerdictInv'
  <2>1. CASE job[t][o].row # 0
    <3>1. Update(job[t][o].row, job[t][o].was) /\ job[t][o].was \notin ClosedStatus
      BY <1>3, <2>1, SaveKinds DEF TypeOK, TaskType, ActiveStatus, ClosedStatus
    <3>. QED  BY <1>3, <3>1, VerdictUpdate DEF AddSave
  <2>2. CASE job[t][o].row = 0
    <3>1. rows' = Insert(rows, o) /\ lived' = Append(lived, {trove[o]})
      BY <1>3, <2>2, SaveKinds
    <3>2. /\ DOMAIN rows' = DOMAIN rows \cup {Len(rows) + 1}
          /\ \A k \in DOMAIN rows : rows'[k] = rows[k]
          /\ rows'[Len(rows) + 1] = [owner |-> o, status |-> "open"]
      BY <3>1, InsertFacts DEF TypeOK, TableType
    <3>4. lived \in Seq(SUBSET ChainStatus) /\ {trove[o]} \in SUBSET ChainStatus
      BY DEF TypeOK, TableType, ChainType
    <3>5. /\ \A k \in 1..Len(lived) : lived'[k] = lived[k]
          /\ lived'[Len(lived) + 1] = {trove[o]}
      BY <3>1, <3>4, AppendProperties
    <3>6. Len(lived) = Len(rows) /\ DOMAIN rows = 1..Len(rows)
      BY DEF TypeOK, TableType
    <3>3. trove' = trove /\ cur' = cur
      BY <1>3 DEF AddSave, chain
    <3>7. /\ \A k \in DOMAIN rows : rows'[k] = rows[k] /\ lived'[k] = lived[k]
          /\ rows'[Len(rows) + 1].owner = o /\ rows'[Len(rows) + 1].status = "open"
          /\ lived'[Len(rows) + 1] = {trove[o]}
      BY <3>2, <3>5, <3>6
    <3>8. ClosedAfterTracked'
      BY <3>2, <3>7 DEF VerdictInv, ClosedAfterTracked, ClosedStatus
    <3>9. \A k \in DOMAIN rows' : trove'[rows'[k].owner] \in lived'[k]
      BY <3>2, <3>3, <3>7 DEF VerdictInv
    <3>10. \A p \in Pass : cur'[p].row # 0 => cur'[p].status \in lived'[cur'[p].row]
      <4>1. \A p \in Pass : cur[p].row # 0 => cur[p].row \in DOMAIN rows
        BY DEF TypeOK, PassType
      <4>. QED  BY <4>1, <3>3, <3>7 DEF VerdictInv
    <3>. QED  BY <3>8, <3>9, <3>10 DEF VerdictInv
  <2>. QED  BY <2>1, <2>2
<1>4. ASSUME NEW p \in Pass, NEW i \in todo[p], PassVisit(p, i) PROVE VerdictInv'
  <2>1. i \in DOMAIN rows /\ UNCHANGED <<trove, rows, lived>>
    BY <1>4 DEF PassVisit, TypeOK, PassType, chain, history
  <2>2. cur' = cur \/ cur' = [cur EXCEPT ![p] = [row |-> i, status |-> trove[rows[i].owner]]]
    BY <1>4 DEF PassVisit
  <2>. QED  BY <2>1, <2>2 DEF VerdictInv, ClosedAfterTracked, TypeOK, PassType
<1>5. ASSUME NEW p \in Pass, PassClose(p) PROVE VerdictInv'
  <2>1. Update(cur[p].row, cur[p].status)
    BY <1>5, WriteKinds
  <2>2. cur[p].status \in lived[cur[p].row]
    BY <1>5 DEF PassClose, VerdictInv
  <2>3. \A q \in Pass : cur'[q] = cur[q] \/ cur'[q].row = 0
    BY <1>5 DEF PassClose, NoRow, TypeOK, PassType
  <2>. QED  BY <2>1, <2>2, <2>3, VerdictUpdate
<1>6. ASSUME NEW r \in Run, NEW o \in Owner, MarkRow(r, o) \/ FailSave(r, o)
      PROVE  VerdictInv'
  <2>1. \E s \in {"liquidating", "failed"} : Update(job[r][o].row, s)
    BY <1>6, WriteKinds
  <2>. QED  BY <1>6, <2>1, VerdictUpdate DEF MarkRow, FailSave, ClosedStatus
<1>7. ASSUME NEW w \in watchers, WatchFind(w) \/ WatchSave(w) PROVE VerdictInv'
  <2>1. cur' = cur
    BY <1>7 DEF WatchFind, WatchSave, tasks
  <2>2. CASE Update(w.row, "null")
    BY <2>1, <2>2, VerdictUpdate DEF ClosedStatus
  <2>3. CASE ~Update(w.row, "null")
    BY <1>2, <1>7, <2>1, <2>3, WriteKinds DEF WatchFind, chain, history
  <2>. QED  BY <2>2, <2>3
<1>8. ASSUME NEW o \in Owner, NEW s \in ChainStatus, ChainStep(o, s) PROVE VerdictInv'
  BY <1>1, <1>8, VerdictLive DEF ChainStep, tasks, TypeOK
<1>9. ASSUME NEW r \in Run, Mine(r) PROVE VerdictInv'
  BY <1>1, <1>9, VerdictLive DEF Mine, tasks, TypeOK
<1>10. Quiet => VerdictInv'
  BY <1>2 DEF Quiet
<1>11. ASSUME NEW r \in Run, RunSend(r) \/ RunSendFails(r) \/ RunSucceeded(r) \/ RunGivesUp(r)
       PROVE  VerdictInv'
  BY <1>2, <1>11 DEF RunSend, RunSendFails, RunSucceeded, RunGivesUp, Reject, Exit,
                     NoRow, chain, history
<1>12. CASE Crash
  BY <1>2, <1>12 DEF Crash, Exit, NoRow, chain, history
<1>. QED
  BY <1>3, <1>4, <1>5, <1>6, <1>7, <1>8, <1>9, <1>10, <1>11, <1>12, QuietSteps
  DEF Next, Adding, PassNext, RunNext, Watching, Environment

\* No row is closed with a verdict its owner's trove did not have while the row
\* existed.
THEOREM ClosedTruthful == Spec => []ClosedAfterTracked
<1>1. Init => VerdictInv
  BY DEF Init, VerdictInv, ClosedAfterTracked, NoRow
<1>2. VerdictInv => ClosedAfterTracked
  BY DEF VerdictInv
<1>. QED  BY <1>1, <1>2, TypeCorrect, NextVerdict, PTL DEF Spec

-----------------------------------------------------------------------------
(* LostOnlyIfLiquidated *)

\* A status other than NULL is written.
LEMMA LossUpdate ==
    ASSUME TypeOK, LossInv, NEW i, NEW s, Update(i, s), watchers' \subseteq watchers,
           s = "null" => rows[i].owner \in liquidated
    PROVE  LossInv'
  BY UpdateFacts DEF LossInv, LostOnlyIfLiquidated, Update

\* The table stays; whoever is notified was liquidated.
LEMMA LossKept ==
    ASSUME LossInv, rows' = rows, liquidated \subseteq liquidated',
           \A w \in watchers' : w \in watchers \/ w.owner \in liquidated'
    PROVE  LossInv'
  BY DEF LossInv, LostOnlyIfLiquidated

LEMMA NextLoss == TypeOK /\ LossInv /\ [Next]_vars => LossInv'
<1> SUFFICES ASSUME TypeOK, LossInv, [Next]_vars PROVE LossInv'
  OBVIOUS
<1>1. Quiet => LossInv'
  BY LossKept DEF Quiet
<1>2. ASSUME NEW t \in Task, NEW o \in Owner, AddSave(t, o) PROVE LossInv'
  <2>0. UNCHANGED <<watchers, liquidated>>
    BY <1>2 DEF AddSave
  <2>1. CASE job[t][o].row # 0
    <3>1. Update(job[t][o].row, job[t][o].was) /\ job[t][o].was # "null"
      BY <1>2, <2>1, SaveKinds DEF TypeOK, TaskType, ActiveStatus
    <3>. QED  BY <2>0, <3>1, LossUpdate
  <2>2. CASE job[t][o].row = 0
    <3>1. rows' = Insert(rows, o)
      BY <1>2, <2>2, SaveKinds
    <3>2. /\ DOMAIN rows' = DOMAIN rows \cup {Len(rows) + 1}
          /\ \A k \in DOMAIN rows : rows'[k] = rows[k]
          /\ rows'[Len(rows) + 1] = [owner |-> o, status |-> "open"]
      BY <3>1, InsertFacts DEF TypeOK, TableType
    <3>. QED  BY <2>0, <3>2 DEF LossInv, LostOnlyIfLiquidated
  <2>. QED  BY <2>1, <2>2
<1>3. ASSUME NEW p \in Pass, NEW i \in todo[p], PassVisit(p, i) PROVE LossInv'
  BY <1>3, LossKept DEF PassVisit, history
<1>4. ASSUME NEW p \in Pass, PassClose(p) PROVE LossInv'
  <2>1. Update(cur[p].row, cur[p].status) /\ cur[p].status # "null"
    BY <1>4, WriteKinds DEF TypeOK, PassType, ClosedStatus
  <2>. QED  BY <1>4, <2>1, LossUpdate DEF PassClose
<1>5. ASSUME NEW r \in Run, NEW o \in Owner, MarkRow(r, o) \/ FailSave(r, o) PROVE LossInv'
  <2>1. \E s \in {"liquidating", "failed"} : Update(job[r][o].row, s)
    BY <1>5, WriteKinds
  <2>. QED  BY <1>5, <2>1, LossUpdate DEF MarkRow, FailSave
<1>6. ASSUME NEW w \in watchers, WatchSave(w) PROVE LossInv'
  <2>1. watchers' \subseteq watchers /\ rows[w.row].owner \in liquidated
    BY <1>6 DEF WatchSave, LossInv, TypeOK, WatchType, OwnRow
  <2>2. CASE Update(w.row, "null")
    BY <2>1, <2>2, LossUpdate
  <2>3. CASE ~Update(w.row, "null")
    BY <1>6, <2>1, <2>3, WriteKinds, LossKept
  <2>. QED  BY <2>2, <2>3
<1>7. ASSUME NEW w \in watchers, WatchFind(w) PROVE LossInv'
  <2>1. \A v \in watchers' : v \in watchers \/ v.owner = w.owner
    BY <1>7 DEF WatchFind
  <2>. QED  BY <1>7, <2>1, LossKept DEF WatchFind, LossInv, history
<1>8. ASSUME NEW o \in Owner, NEW s \in ChainStatus, ChainStep(o, s) PROVE LossInv'
  BY <1>8, LossKept DEF ChainStep, Notified
<1>9. ASSUME NEW r \in Run, Mine(r) PROVE LossInv'
  BY <1>9, LossKept DEF Mine, Notified
<1>10. ASSUME NEW r \in Run, RunSend(r) \/ RunSendFails(r) \/ RunSucceeded(r) \/ RunGivesUp(r)
       PROVE  LossInv'
  BY <1>10, LossKept DEF RunSend, RunSendFails, RunSucceeded, RunGivesUp, Reject, Exit, history
<1>11. CASE Crash
  BY <1>11, LossKept DEF Crash, Exit, history
<1>. QED
  BY <1>1, <1>2, <1>3, <1>4, <1>5, <1>6, <1>7, <1>8, <1>9, <1>10, <1>11, QuietSteps
  DEF Next, Adding, PassNext, RunNext, Watching, Environment

\* No row loses its status unless its owner was liquidated on chain.
THEOREM LossJustified == Spec => []LostOnlyIfLiquidated
<1>1. Init => LossInv
  BY DEF Init, LossInv, LostOnlyIfLiquidated
<1>2. LossInv => LostOnlyIfLiquidated
  BY DEF LossInv
<1>. QED  BY <1>1, <1>2, TypeCorrect, NextLoss, PTL DEF Spec

-----------------------------------------------------------------------------
(* FailedOnlyIfTried *)

\* A run that has sent its transaction, or reports a failure, for owner o.
Reporting(r, o) ==
    \/ job[r][o].op \in {"failFind", "failSave"}
    \/ step[r] = "listening" /\ job[r][o].op \in {"mark", "marked"}

\* The two halves of the invariant: what is written, and who may report.
LEMMA FailUpdate ==
    ASSUME TypeOK, FailInv, NEW i, NEW s, Update(i, s),
           s = "failed" => rows[i].owner \in tried
    PROVE  FailedOnlyIfTried'
  BY UpdateFacts DEF FailInv, FailedOnlyIfTried, Update

LEMMA FailKept ==
    ASSUME FailInv, rows' = rows, tried \subseteq tried'
    PROVE  FailedOnlyIfTried'
  BY DEF FailInv, FailedOnlyIfTried

LEMMA FailSplit ==
    ASSUME FailInv, FailedOnlyIfTried', tried \subseteq tried',
           \A r \in Run, o \in Owner :
              Reporting(r, o)' => Reporting(r, o) \/ o \in tried'
    PROVE  FailInv'
  BY DEF FailInv, Reporting

LEMMA NextFail == TypeOK /\ FailInv /\ [Next]_vars => FailInv'
<1> SUFFICES ASSUME TypeOK, FailInv, [Next]_vars PROVE FailInv'
  OBVIOUS
<1>0. /\ step \in [Task -> Step] /\ Run \subseteq Task
      /\ job \in [Task -> [Owner -> [op : Op, row : Nat, was : ActiveStatus]]]
  BY DEF TypeOK, TaskType, Task
<1>1. ASSUME FailedOnlyIfTried', tried' = tried, UNCHANGED <<step, job>> PROVE FailInv'
  BY <1>1, FailSplit DEF Reporting
<1>2. ASSUME NEW t \in Task, NEW o \in Owner, NEW op \in Op \ {"failFind", "failSave", "mark", "marked"},
             NEW i, NEW s, job' = [job EXCEPT ![t][o] = Job(op, i, s)],
             FailedOnlyIfTried', UNCHANGED <<step, tried>>
      PROVE  FailInv'
  BY <1>0, <1>2, FailSplit DEF Reporting, Job
<1>3. ASSUME NEW t \in Task, NEW o \in Owner, AddFind(t, o) PROVE FailInv'
  <2>1. FailedOnlyIfTried'
    BY <1>3, FailKept DEF AddFind, history
  <2>2. PICK i, s : job' = [job EXCEPT ![t][o] = Job("addSave", i, s)]
    BY <1>3 DEF AddFind
  <2>3. UNCHANGED <<step, tried>>
    BY <1>3 DEF AddFind, history
  <2>4. "addSave" \in Op \ {"failFind", "failSave", "mark", "marked"}
    BY DEF Op
  <2>. QED  BY <1>2, <2>1, <2>2, <2>3, <2>4
<1>4. ASSUME NEW t \in Task, NEW o \in Owner, AddSave(t, o) PROVE FailInv'
  <2>1. CASE job[t][o].row # 0
    <3>1. Update(job[t][o].row, job[t][o].was) /\ job[t][o].was # "failed"
      BY <1>4, <2>1, SaveKinds DEF TypeOK, TaskType, ActiveStatus
    <3>2. FailedOnlyIfTried'
      BY <3>1, FailUpdate
    <3>. QED  BY <1>2, <1>4, <3>2 DEF AddSave, Op
  <2>2. CASE job[t][o].row = 0
    <3>1. rows' = Insert(rows, o) /\ tried' = tried
      BY <1>4, <2>2, SaveKinds DEF AddSave
    <3>2. /\ DOMAIN rows' = DOMAIN rows \cup {Len(rows) + 1}
          /\ \A k \in DOMAIN rows : rows'[k] = rows[k]
          /\ rows'[Len(rows) + 1] = [owner |-> o, status |-> "open"]
      BY <3>1, InsertFacts DEF TypeOK, TableType
    <3>3. FailedOnlyIfTried'
      BY <3>1, <3>2 DEF FailInv, FailedOnlyIfTried
    <3>. QED  BY <1>2, <1>4, <3>3 DEF AddSave, Op
  <2>. QED  BY <2>1, <2>2
<1>5. ASSUME NEW t \in Task, FetchTroves(t), rows' = rows, tried' = tried PROVE FailInv'
  <2>1. FailedOnlyIfTried'
    BY <1>5, FailKept
  <2>2. \A r \in Run, o \in Owner : Reporting(r, o)' => Reporting(r, o)
    BY <1>0, <1>5 DEF FetchTroves, Reporting, Job, NoJob
  <2>. QED  BY <1>5, <2>1, <2>2, FailSplit
<1>6. ASSUME NEW p \in Pass,
             PassStart(p) \/ PassList(p) \/ PassEnd(p) \/ (\E i \in todo[p] : PassVisit(p, i))
      PROVE  FailInv'
  <2>1. FailedOnlyIfTried' /\ tried' = tried
    BY <1>6, FailKept DEF PassStart, PassList, PassEnd, PassVisit, history
  <2>2. CASE PassStart(p)
    BY <1>5, <2>2 DEF PassStart, Task, history
  <2>3. \A r \in Run : p # r
    BY SlotsAssumption
  <2>4. CASE ~PassStart(p)
    <3>1. \A r \in Run, o \in Owner : Reporting(r, o)' => Reporting(r, o)
      BY <1>0, <1>6, <2>3, <2>4 DEF PassList, PassEnd, PassVisit, Reporting
    <3>. QED  BY <2>1, <3>1, FailSplit
  <2>. QED  BY <2>2, <2>4
<1>7. ASSUME NEW p \in Pass, PassClose(p) PROVE FailInv'
  <2>1. Update(cur[p].row, cur[p].status) /\ cur[p].status # "failed"
    BY <1>7, WriteKinds DEF TypeOK, PassType, ClosedStatus
  <2>2. FailedOnlyIfTried'
    BY <2>1, FailUpdate
  <2>. QED  BY <1>1, <1>7, <2>2 DEF PassClose, history
<1>8. ASSUME NEW r \in Run, Stop(r), rows' = rows, tried' = tried PROVE FailInv'
  <2>1. FailedOnlyIfTried'
    BY <1>8, FailKept
  <2>2. \A q \in Run, o \in Owner : Reporting(q, o)' => Reporting(q, o)
    BY <1>0, <1>8 DEF Stop, Reporting, Job, NoJobs, NoJob
  <2>. QED  BY <1>8, <2>1, <2>2, FailSplit
<1>9. ASSUME rows' = rows, tried' = tried, Exit PROVE FailInv'
  <2>1. FailedOnlyIfTried'
    BY <1>9, FailKept
  <2>2. \A q \in Run, o \in Owner : ~Reporting(q, o)'
    BY <1>0, <1>9 DEF Exit, Reporting, Job, NoJobs, NoJob
  <2>. QED  BY <1>9, <2>1, <2>2, FailSplit
<1>10. ASSUME NEW r \in Run,
              \/ RunFilter(r) \/ RunBatch(r) \/ RunPriced(r)
       PROVE  FailInv'
  <2>1. FailedOnlyIfTried' /\ tried' = tried
    BY <1>10, FailKept DEF RunFilter, RunBatch, RunPriced, history
  <2>2. \A q \in Run, o \in Owner : Reporting(q, o)' => Reporting(q, o)
    <3>1. CASE RunFilter(r)
      BY <1>0, <3>1 DEF RunFilter, Reporting, Job, NoJob
    <3>2. CASE RunBatch(r)
      <4>1. CASE Stop(r)
        BY <1>0, <4>1 DEF Reporting, Job, NoJob, NoJobs, Stop
      <4>2. CASE ~Stop(r)
        <5>1. PICK B : /\ job' = [job EXCEPT ![r] = [o \in Owner |->
                                     IF o \in B THEN job[r][o] ELSE NoJob]]
                       /\ step' = [step EXCEPT ![r] = "pricing"]
          BY <3>2, <4>2 DEF RunBatch
        <5>. QED  BY <1>0, <5>1 DEF Reporting, Job, NoJob
      <4>. QED  BY <4>1, <4>2
    <3>3. CASE RunPriced(r)
      BY <1>0, <3>3 DEF RunPriced, Reporting, Job
    <3>. QED  BY <1>10, <3>1, <3>2, <3>3
  <2>. QED  BY <2>1, <2>2, FailSplit
<1>11. ASSUME NEW r \in Run, NEW o \in Owner, FilterFind(r, o) PROVE FailInv'
  <2>1. FailedOnlyIfTried' /\ tried' = tried
    BY <1>11, FailKept DEF FilterFind, history
  <2>2. \A q \in Run, x \in Owner : Reporting(q, x)' => Reporting(q, x)
    BY <1>0, <1>11 DEF FilterFind, Reporting, Job
  <2>. QED  BY <2>1, <2>2, FailSplit
<1>12. ASSUME NEW r \in Run, NEW o \in Owner, MarkRow(r, o) PROVE FailInv'
  <2>1. FailedOnlyIfTried' /\ tried' = tried
    BY <1>12, WriteKinds, FailUpdate DEF MarkRow, history
  <2>2. \A q \in Run, x \in Owner : Reporting(q, x)' => Reporting(q, x)
    BY <1>0, <1>12 DEF MarkRow, Reporting, Job
  <2>. QED  BY <2>1, <2>2, FailSplit
<1>13. ASSUME NEW r \in Run, NEW o \in Owner, FailFind(r, o) PROVE FailInv'
  <2>1. FailedOnlyIfTried' /\ tried' = tried
    BY <1>13, FailKept DEF FailFind, history
  <2>2. \A q \in Run, x \in Owner : Reporting(q, x)' => Reporting(q, x)
    BY <1>0, <1>13 DEF FailFind, Reporting, Job, NoJob
  <2>. QED  BY <2>1, <2>2, FailSplit
<1>14. ASSUME NEW r \in Run, NEW o \in Owner, FailSave(r, o) PROVE FailInv'
  <2>1. rows[job[r][o].row].owner = o /\ o \in tried
    BY <1>0, <1>14 DEF FailSave, TypeOK, TaskType, OwnRow, FailInv
  <2>2. FailedOnlyIfTried' /\ tried' = tried
    <3>1. Update(job[r][o].row, "failed")
      BY <1>14, WriteKinds
    <3>. QED  BY <1>14, <2>1, <3>1, FailUpdate DEF FailSave, history
  <2>3. \A q \in Run, x \in Owner : Reporting(q, x)' => Reporting(q, x)
    BY <1>0, <1>14 DEF FailSave, Reporting, Job, NoJob
  <2>. QED  BY <2>2, <2>3, FailSplit
<1>15. ASSUME NEW r \in Run, RunSend(r) PROVE FailInv'
  <2>1. FailedOnlyIfTried' /\ tried' = tried \cup At(r, "marked")
    BY <1>15, FailKept DEF RunSend
  <2>2. CASE Exit
    <3>1. \A q \in Run, o \in Owner : ~Reporting(q, o)'
      BY <1>0, <2>2 DEF Exit, Reporting, Job, NoJobs, NoJob
    <3>. QED  BY <2>1, <3>1, FailSplit
  <2>3. CASE ~Exit
    <3>1. \A q \in Run, o \in Owner : Reporting(q, o)' => Reporting(q, o) \/ o \in tried'
      BY <1>0, <1>15, <2>1, <2>3 DEF RunSend, AllMarked, At, Reporting
    <3>. QED  BY <2>1, <3>1, FailSplit
  <2>. QED  BY <2>2, <2>3
<1>16. ASSUME NEW r \in Run, RunSendFails(r) \/ RunReverted(r) PROVE FailInv'
  <2>1. FailedOnlyIfTried' /\ tried \subseteq tried'
    BY <1>16, FailKept DEF RunSendFails, RunReverted, history
  <2>2. \A o \in Owner : job[r][o].op = "marked" => o \in tried'
    BY <1>0, <1>16 DEF RunSendFails, RunReverted, At, FailInv, history
  <2>3. \A q \in Run, o \in Owner : Reporting(q, o)' => Reporting(q, o) \/ o \in tried'
    <3>1. FailBatch(r)
      BY <1>16 DEF RunSendFails, RunReverted
    <3>2. /\ \A o \in Owner : job'[r][o].op =
                IF job[r][o].op = "marked" THEN "failFind" ELSE "none"
          /\ step'[r] = "failing"
          /\ \A q \in Run \ {r} : job'[q] = job[q] /\ step'[q] = step[q]
      BY <1>0, <3>1 DEF FailBatch, Job, NoJob
    <3>. QED  BY <2>2, <3>2 DEF Reporting
  <2>. QED  BY <2>1, <2>3, FailSplit
<1>17. ASSUME NEW r \in Run, RunSucceeded(r) \/ RunGivesUp(r) PROVE FailInv'
  BY <1>8, <1>9, <1>17 DEF RunSucceeded, RunGivesUp, Reject, history
<1>18. ASSUME NEW w \in watchers, WatchFind(w) \/ WatchSave(w) PROVE FailInv'
  <2>1. UNCHANGED <<step, job, tried>>
    BY <1>18 DEF WatchFind, WatchSave, tasks, history
  <2>2. CASE Update(w.row, "null")
    BY <1>1, <2>1, <2>2, FailUpdate
  <2>3. CASE rows' = rows
    BY <1>1, <2>1, <2>3, FailKept
  <2>4. Update(w.row, "null") \/ rows' = rows
    BY <1>18, WriteKinds DEF WatchFind
  <2>. QED  BY <2>2, <2>3, <2>4
<1>19. ASSUME UNCHANGED <<rows, step, job, tried>> PROVE FailInv'
  BY <1>1, <1>19, FailKept
<1>20. ASSUME NEW r \in Run, Mine(r) \/ DropTx(r) PROVE FailInv'
  BY <1>19, <1>20 DEF Mine, DropTx, tasks, history
<1>21. ASSUME NEW o \in Owner, NEW s \in ChainStatus, ChainStep(o, s) PROVE FailInv'
  BY <1>19, <1>21 DEF ChainStep, tasks
<1>22. CASE Restart \/ UNCHANGED vars
  BY <1>19, <1>22 DEF Restart, vars, tasks, history, chain
<1>23. CASE Crash
  BY <1>9, <1>23 DEF Crash, history
<1>24. ASSUME NEW r \in Run, RunStart(r) PROVE FailInv'
  BY <1>5, <1>24 DEF RunStart, Task, history
<1>25. ASSUME NEW r \in Run, RunPopulateFails(r) \/ RunSkip(r) \/ RunFailed(r) PROVE FailInv'
  BY <1>8, <1>25 DEF RunPopulateFails, RunSkip, RunFailed, history
<1>. QED
  BY <1>3, <1>4, <1>6, <1>7, <1>10, <1>11, <1>12, <1>13, <1>14, <1>15, <1>16, <1>17, <1>18,
     <1>20, <1>21, <1>22, <1>23, <1>24, <1>25
  DEF Next, Adding, PassNext, RunNext, Watching, Environment

\* No row is marked failed unless the bot tried a transaction for its owner.
THEOREM FailureJustified == Spec => []FailedOnlyIfTried
<1>1. Init => FailInv
  BY DEF Init, FailInv, FailedOnlyIfTried, NoJobs, NoJob, Job, Task
<1>2. FailInv => FailedOnlyIfTried
  BY DEF FailInv
<1>. QED  BY <1>1, <1>2, TypeCorrect, NextFail, PTL DEF Spec

-----------------------------------------------------------------------------
(***************************************************************************)
(* DuplicatesBounded: however the overlapping tasks interleave their       *)
(* check-then-insert, an owner never has more active rows than there are   *)
(* tasks.  The argument counts, per owner, the rows that are active or     *)
(* remembered by a statement that may make them active again (Held) and    *)
(* the tasks that found no row and have yet to insert one (Missing).       *)
(***************************************************************************)
Room(o) == Cardinality(Held(o)) + Cardinality(Missing(o)) <= Cardinality(Task)

\* Tasks whose unfinished statement remembers a row of owner o.
Holders(o) == {u \in Task : Pending(u, o) /\ job[u][o].row # 0}

-----------------------------------------------------------------------------
(* The two sets are finite *)

LEMMA HeldRows ==
    ASSUME TypeOK, NEW o \in Owner
    PROVE  Held(o) \subseteq DOMAIN rows /\ Missing(o) \subseteq Task
  BY DEF Held, Missing, ActiveRows, TypeOK, TaskType, OwnRow

LEMMA FiniteSets ==
    ASSUME TypeOK, NEW o \in Owner
    PROVE  /\ IsFiniteSet(Held(o)) /\ Cardinality(Held(o)) \in Nat
           /\ IsFiniteSet(Missing(o)) /\ Cardinality(Missing(o)) \in Nat
           /\ IsFiniteSet(Task) /\ Cardinality(Task) \in Nat
<1>1. IsFiniteSet(DOMAIN rows)
  <2>1. DOMAIN rows = 1..Len(rows) /\ Len(rows) \in Int
    BY DEF TypeOK, TableType
  <2>. QED  BY <2>1, FS_Interval
<1>2. IsFiniteSet(Held(o)) /\ IsFiniteSet(Missing(o)) /\ IsFiniteSet(Task)
  BY <1>1, HeldRows, SlotsAssumption, FS_Subset
<1>. QED  BY <1>2, FS_CardinalityType

-----------------------------------------------------------------------------
(* How the two sets change *)

\* A step that makes nothing active but what was held, and whose statements
\* remember nothing but what was held, leaves the bound as it is.
LEMMA Shrink ==
    ASSUME TypeOK, NEW o \in Owner, Room(o),
           ActiveRows(rows', o) \subseteq Held(o),
           \A t \in Task : Pending(t, o)' =>
              \/ Pending(t, o) /\ job'[t][o].row = job[t][o].row
              \/ job'[t][o].row # 0 /\ job'[t][o].row \in Held(o)
    PROVE  Room(o)'
<1>1. Held(o)' \subseteq Held(o)
  BY DEF Held
<1>2. Missing(o)' \subseteq Missing(o)
  BY DEF Missing
<1>3. /\ Cardinality(Held(o)') <= Cardinality(Held(o)) /\ Cardinality(Held(o)') \in Nat
      /\ Cardinality(Missing(o)') <= Cardinality(Missing(o))
      /\ Cardinality(Missing(o)') \in Nat
  BY <1>1, <1>2, FiniteSets, FS_Subset, FS_CardinalityType
<1>. QED  BY <1>3, FiniteSets DEF Room

\* UPDATE makes a row active only if it already counts.
LEMMA ActiveUpdate ==
    ASSUME TypeOK, NEW i, NEW s, Update(i, s), NEW o \in Owner,
           s \in ActiveStatus /\ rows[i].owner = o => i \in Held(o)
    PROVE  ActiveRows(rows', o) \subseteq Held(o)
<1>1. ActiveRows(rows', o) \subseteq ActiveRows(rows, o) \cup {i}
  BY UpdateFacts DEF ActiveRows
<1>2. i \in ActiveRows(rows', o) => s \in ActiveStatus /\ rows[i].owner = o
  BY UpdateFacts DEF ActiveRows, Update
<1>. QED  BY <1>1, <1>2 DEF Held

\* A task that found no active row joins Missing: every row held is then held
\* by some other task, and those tasks are not in Missing.
LEMMA Join ==
    ASSUME NEW o \in Owner, ActiveRows(rows', o) = {}
    PROVE  Room(o)'
<1> DEFINE P == Holders(o)'
           f == [t \in P |-> job'[t][o].row]
           T == {f[t] : t \in P}
<1>1. Held(o)' = T
  BY DEF Held, Holders
<1>2. P \subseteq Task /\ Missing(o)' \subseteq Task /\ P \cap Missing(o)' = {}
  BY DEF Holders, Missing
<1>3. IsFiniteSet(P) /\ IsFiniteSet(Missing(o)')
  BY <1>2, SlotsAssumption, FS_Subset
<1>4. IsFiniteSet(T) /\ Cardinality(T) <= Cardinality(P)
  <2>1. f \in Surjection(P, T)
    BY DEF Surjection
  <2>. HIDE DEF P, f, T
  <2>. QED  BY <1>3, <2>1, FS_Surjection
<1>5. Cardinality(P \cup Missing(o)') = Cardinality(P) + Cardinality(Missing(o)')
  <2>. HIDE DEF P
  <2>1. Cardinality(P \cap Missing(o)') = 0
    BY <1>2, FS_EmptySet
  <2>2. Cardinality(P) \in Nat /\ Cardinality(Missing(o)') \in Nat
    BY <1>3, FS_CardinalityType
  <2>3. Cardinality(P \cup Missing(o)')
           = Cardinality(P) + Cardinality(Missing(o)') - Cardinality(P \cap Missing(o)')
    BY <1>3, FS_Union
  <2>. QED  BY <2>1, <2>2, <2>3
<1>6. Cardinality(P \cup Missing(o)') <= Cardinality(Task)
  BY <1>2, SlotsAssumption, FS_Subset
<1>7. Cardinality(T) \in Nat
  <2>. HIDE DEF T
  <2>. QED  BY <1>4, FS_CardinalityType
<1>. QED
  <2>. HIDE DEF P, T
  <2>1. Cardinality(P) \in Nat /\ Cardinality(Missing(o)') \in Nat /\ Cardinality(Task) \in Nat
    BY <1>3, SlotsAssumption, FS_CardinalityType
  <2>. QED  BY <1>1, <1>4, <1>5, <1>6, <1>7, <2>1 DEF Room
-----------------------------------------------------------------------------
(* Every step *)

\* What an action does to the jobs of the tasks, seen from HeldBounded.
Keeps(o) ==
    \A t \in Task : Pending(t, o)' =>
       \/ Pending(t, o) /\ job'[t][o].row = job[t][o].row
       \/ job'[t][o].row # 0 /\ job'[t][o].row \in Held(o)

LEMMA Same ==
    ASSUME TypeOK, HeldBounded, rows' = rows, \A o \in Owner : Keeps(o)
    PROVE  HeldBounded'
<1> SUFFICES ASSUME NEW o \in Owner PROVE Room(o)'
  BY DEF HeldBounded, Room
<1>1. ActiveRows(rows', o) \subseteq Held(o)
  BY DEF Held
<1>. QED  BY <1>1, Shrink DEF HeldBounded, Room, Keeps

LEMMA Updated ==
    ASSUME TypeOK, HeldBounded, NEW i, NEW s, Update(i, s),
           s \in ActiveStatus => i \in Held(rows[i].owner),
           \A o \in Owner : Keeps(o)
    PROVE  HeldBounded'
<1> SUFFICES ASSUME NEW o \in Owner PROVE Room(o)'
  BY DEF HeldBounded, Room
<1>1. ActiveRows(rows', o) \subseteq Held(o)
  BY ActiveUpdate
<1>. QED  BY <1>1, Shrink DEF HeldBounded, Room, Keeps

\* addTrove's findOne.
LEMMA NextFind ==
    ASSUME TypeOK, HeldBounded, NEW t \in Task, NEW x \in Owner, AddFind(t, x)
    PROVE  HeldBounded'
<1> SUFFICES ASSUME NEW o \in Owner PROVE Room(o)'
  BY DEF HeldBounded, Room
<1>0. job \in [Task -> [Owner -> [op : Op, row : Nat, was : ActiveStatus]]]
  BY DEF TypeOK, TaskType
<1>1. PICK i \in 0..Len(rows) :
        /\ IsFirst(rows, x, ActiveStatus, i)
        /\ job' = [job EXCEPT ![t][x] =
              Job("addSave", i, IF i = 0 THEN "open" ELSE rows[i].status)]
  BY DEF AddFind
<1>2. rows' = rows /\ rows \in Seq(Row)
  BY DEF AddFind, TypeOK, TableType
<1>3. CASE i = 0 /\ o = x
  <2>1. ActiveRows(rows', o) = {}
    BY <1>1, <1>2, <1>3, IsFirstFacts DEF ActiveRows
  <2>. QED  BY <2>1, Join
<1>4. CASE ~(i = 0 /\ o = x)
  <2>1. ActiveRows(rows', o) \subseteq Held(o)
    BY <1>2 DEF Held
  <2>2. o = x => i # 0 /\ i \in Held(o)
    BY <1>1, <1>2, <1>4, IsFirstFacts DEF Held, ActiveRows
  <2>3. Keeps(o)
    BY <1>0, <1>1, <2>2 DEF Keeps, Pending, Job
  <2>. QED  BY <2>1, <2>3, Shrink DEF HeldBounded, Room, Keeps
<1>. QED  BY <1>3, <1>4

\* addTrove's update or insert.
LEMMA NextSave ==
    ASSUME TypeOK, HeldBounded, NEW t \in Task, NEW x \in Owner, AddSave(t, x)
    PROVE  HeldBounded'
<1>0. job \in [Task -> [Owner -> [op : Op, row : Nat, was : ActiveStatus]]]
  BY DEF TypeOK, TaskType
<1>1. job' = [job EXCEPT ![t][x] = Job("added", 0, "open")] /\ job[t][x].op = "addSave"
  BY DEF AddSave
<1>2. \A o \in Owner : Keeps(o)
  BY <1>0, <1>1 DEF Keeps, Pending, Job, Writing
<1>3. CASE job[t][x].row # 0
  <2>1. Update(job[t][x].row, job[t][x].was)
    BY <1>3, SaveKinds
  <2>2. job[t][x].row \in Held(x)
    BY <1>1, <1>3 DEF Held, Pending, Writing
  <2>3. rows[job[t][x].row].owner = x
    BY <1>3 DEF TypeOK, TaskType, OwnRow
  <2>. QED  BY <1>2, <2>1, <2>2, <2>3, Updated
<1>4. CASE job[t][x].row = 0
  <2> SUFFICES ASSUME NEW o \in Owner PROVE Room(o)'
    BY DEF HeldBounded, Room
  <2>1. /\ rows' = Insert(rows, x)
        /\ rows \in Seq(Row)
    BY <1>4, SaveKinds DEF TypeOK, TableType
  <2> DEFINE n == Len(rows) + 1
  <2>2. /\ DOMAIN rows' = DOMAIN rows \cup {n}
        /\ \A k \in DOMAIN rows : rows'[k] = rows[k]
        /\ rows'[n] = [owner |-> x, status |-> "open"]
    BY <2>1, InsertFacts
  <2>3. CASE o # x
    <3>1. ActiveRows(rows', o) \subseteq Held(o)
      BY <2>2, <2>3 DEF ActiveRows, Held
    <3>. QED  BY <1>2, <3>1, Shrink DEF HeldBounded, Room, Keeps
  <2>4. CASE o = x
    <3>1. Held(o)' \subseteq Held(o) \cup {n}
      <4>1. ActiveRows(rows', o) \subseteq ActiveRows(rows, o) \cup {n}
        BY <2>2 DEF ActiveRows
      <4>. QED  BY <1>2, <4>1 DEF Held, Keeps
    <3>2. t \in Missing(o) /\ Missing(o)' \subseteq Missing(o) \ {t}
      BY <1>0, <1>1, <1>4, <2>4 DEF Missing, Pending, Job, Writing
    <3>3. /\ Cardinality(Held(o)') <= Cardinality(Held(o)) + 1
          /\ Cardinality(Held(o)') \in Nat
      <4>1. /\ IsFiniteSet(Held(o) \cup {n})
            /\ Cardinality(Held(o) \cup {n}) <= Cardinality(Held(o)) + 1
            /\ Cardinality(Held(o) \cup {n}) \in Nat
        <5>. HIDE DEF n
        <5>1. /\ IsFiniteSet(Held(o) \cup {n})
              /\ Cardinality(Held(o) \cup {n}) =
                    IF n \in Held(o) THEN Cardinality(Held(o)) ELSE Cardinality(Held(o)) + 1
          BY FiniteSets, FS_AddElement
        <5>. QED  BY <5>1, FiniteSets
      <4>. HIDE DEF n
      <4>2. /\ IsFiniteSet(Held(o)')
            /\ Cardinality(Held(o)') <= Cardinality(Held(o) \cup {n})
        BY <3>1, <4>1, FS_Subset
      <4>. QED  BY <4>1, <4>2, FiniteSets, FS_CardinalityType
    <3>4. /\ Cardinality(Missing(o)') <= Cardinality(Missing(o)) - 1
          /\ Cardinality(Missing(o)') \in Nat
      <4>1. /\ IsFiniteSet(Missing(o) \ {t})
            /\ Cardinality(Missing(o) \ {t}) = Cardinality(Missing(o)) - 1
        BY <3>2, FiniteSets, FS_RemoveElement
      <4>2. /\ IsFiniteSet(Missing(o)')
            /\ Cardinality(Missing(o)') <= Cardinality(Missing(o) \ {t})
        BY <3>2, <4>1, FS_Subset
      <4>. QED  BY <4>1, <4>2, FS_CardinalityType
    <3>. QED  BY <3>3, <3>4, FiniteSets DEF HeldBounded, Room
  <2>. QED  BY <2>3, <2>4
<1>. QED  BY <1>0, <1>3, <1>4

\* Task t alone moves on, to jobs that write no row they have not held before.
Replaced(t) ==
    /\ \A u \in Task \ {t} : job'[u] = job[u]
    /\ \A o \in Owner :
          job'[t][o].op \in Writing => Pending(t, o) /\ job'[t][o].row = job[t][o].row

LEMMA NextHeld == TypeOK /\ HeldBounded /\ [Next]_vars => HeldBounded'
<1> SUFFICES ASSUME TypeOK, HeldBounded, [Next]_vars PROVE HeldBounded'
  OBVIOUS
<1>0. /\ job \in [Task -> [Owner -> [op : Op, row : Nat, was : ActiveStatus]]]
      /\ Run \subseteq Task /\ Pass \subseteq Task
  BY DEF TypeOK, TaskType, Task
<1>1. ASSUME UNCHANGED <<rows, job>> PROVE HeldBounded'
  BY <1>1, Same DEF Keeps, Pending
<1>2. ASSUME NEW t \in Task, Replaced(t), rows' = rows PROVE HeldBounded'
  BY <1>0, <1>2, Same DEF Replaced, Keeps, Pending
<1>3. ASSUME NEW t \in Task, FetchTroves(t), rows' = rows PROVE HeldBounded'
  <2>1. PICK P : job' = [job EXCEPT ![t] = [o \in Owner |->
                    IF o \in P THEN Job("addFind", 0, "open") ELSE NoJob]]
    BY <1>3 DEF FetchTroves
  <2>2. Replaced(t)
    BY <1>0, <2>1 DEF Replaced, Job, NoJob, Writing
  <2>. QED  BY <1>2, <1>3, <2>2
<1>4. ASSUME NEW p \in Pass,
             PassStart(p) \/ PassList(p) \/ PassEnd(p) \/ (\E i \in todo[p] : PassVisit(p, i))
      PROVE  HeldBounded'
  <2>1. CASE PassStart(p)
    BY <1>0, <1>3, <2>1 DEF PassStart
  <2>2. CASE PassList(p)
    <3>1. rows' = rows /\ job' = [job EXCEPT ![p] = NoJobs]
      BY <2>2 DEF PassList
    <3>2. Replaced(p)
      BY <1>0, <3>1 DEF Replaced, NoJobs, NoJob, Job, Writing
    <3>. QED  BY <1>0, <1>2, <3>1, <3>2
  <2>3. CASE PassEnd(p) \/ (\E i \in todo[p] : PassVisit(p, i))
    BY <1>1, <2>3 DEF PassEnd, PassVisit
  <2>. QED  BY <1>4, <2>1, <2>2, <2>3
<1>5. ASSUME NEW p \in Pass, PassClose(p) PROVE HeldBounded'
  <2>1. Update(cur[p].row, cur[p].status) /\ cur[p].status \notin ActiveStatus
    BY <1>5, WriteKinds DEF TypeOK, PassType, ClosedStatus, ActiveStatus
  <2>2. \A o \in Owner : Keeps(o)
    BY <1>5 DEF PassClose, Keeps, Pending
  <2>. QED  BY <2>1, <2>2, Updated
<1>6. ASSUME NEW r \in Run, Stop(r), rows' = rows PROVE HeldBounded'
  <2>1. Replaced(r)
    BY <1>0, <1>6 DEF Replaced, Stop, NoJobs, NoJob, Job, Writing
  <2>. QED  BY <1>0, <1>2, <1>6, <2>1
<1>7. ASSUME Exit, rows' = rows PROVE HeldBounded'
  <2>1. \A o \in Owner : Keeps(o)
    BY <1>7 DEF Exit, Keeps, Pending, NoJobs, NoJob, Job, Writing
  <2>. QED  BY <1>7, <2>1, Same
<1>8. ASSUME NEW r \in Run, RunFilter(r) PROVE HeldBounded'
  <2>1. PICK under : job' = [job EXCEPT ![r] = [o \in Owner |->
                     IF o \in under THEN Job("openFind", 0, "open") ELSE NoJob]]
    BY <1>8 DEF RunFilter
  <2>2. rows' = rows
    BY <1>8 DEF RunFilter
  <2>3. Replaced(r)
    BY <1>0, <2>1 DEF Replaced, Job, NoJob, Writing
  <2>. QED  BY <1>0, <1>2, <2>2, <2>3
<1>9. ASSUME NEW r \in Run, NEW x \in Owner, FilterFind(r, x) PROVE HeldBounded'
  <2>1. PICK i \in 0..Len(rows) :
        /\ IsFirst(rows, x, {"open"}, i)
        /\ job' = [job EXCEPT ![r][x] =
              IF i = 0 THEN Job("dropped", 0, "open") ELSE Job("picked", i, "open")]
    BY <1>9 DEF FilterFind
  <2>2. rows' = rows /\ rows \in Seq(Row)
    BY <1>9 DEF FilterFind, TypeOK, TableType
  <2>3. i # 0 => i \in Held(x)
    BY <2>1, <2>2, IsFirstFacts DEF Held, ActiveRows, ActiveStatus
  <2>4. \A o \in Owner : Keeps(o)
    BY <1>0, <2>1, <2>3 DEF Keeps, Pending, Job, Writing
  <2>. QED  BY <2>2, <2>4, Same
<1>10. ASSUME NEW r \in Run, RunBatch(r) PROVE HeldBounded'
  <2>1. rows' = rows
    BY <1>10 DEF RunBatch
  <2>2. CASE Stop(r)
    BY <1>6, <2>1, <2>2
  <2>3. CASE ~Stop(r)
    <3>1. PICK B : job' = [job EXCEPT ![r] = [o \in Owner |->
                           IF o \in B THEN job[r][o] ELSE NoJob]]
      BY <1>10, <2>3 DEF RunBatch
    <3>2. Replaced(r)
      BY <1>0, <3>1 DEF Replaced, Job, NoJob, Writing, Pending
    <3>. QED  BY <1>0, <1>2, <2>1, <3>2
  <2>. QED  BY <2>2, <2>3
<1>11. ASSUME NEW r \in Run, RunPriced(r) PROVE HeldBounded'
  <2>1. /\ rows' = rows
        /\ job' = [job EXCEPT ![r] = [o \in Owner |->
                  IF job[r][o].op = "picked"
                  THEN Job("mark", job[r][o].row, "open") ELSE job[r][o]]]
    BY <1>11 DEF RunPriced
  <2>2. Replaced(r)
    BY <1>0, <2>1 DEF Replaced, Job, Writing, Pending
  <2>. QED  BY <1>0, <1>2, <2>1, <2>2
<1>12. ASSUME NEW r \in Run, NEW x \in Owner, MarkRow(r, x) PROVE HeldBounded'
  <2>1. Update(job[r][x].row, "liquidating") /\ job[r][x].op = "mark"
    BY <1>12, WriteKinds DEF MarkRow
  <2>2. job[r][x].row # 0 /\ rows[job[r][x].row].owner = x
    BY <1>0, <2>1 DEF TypeOK, TaskType, OwnRow
  <2>3. job[r][x].row \in Held(x)
    BY <1>0, <2>1, <2>2 DEF Held, Pending, Writing
  <2>4. \A o \in Owner : Keeps(o)
    BY <1>0, <1>12 DEF MarkRow, Keeps, Pending, Job, Writing
  <2>. QED  BY <2>1, <2>2, <2>3, <2>4, Updated
<1>13. ASSUME NEW r \in Run, RunSend(r) \/ RunSucceeded(r) \/ RunGivesUp(r) PROVE HeldBounded'
  BY <1>1, <1>6, <1>7, <1>13 DEF RunSend, RunSucceeded, RunGivesUp, Reject
<1>14. ASSUME NEW r \in Run, RunSendFails(r) \/ RunReverted(r) PROVE HeldBounded'
  <2>1. rows' = rows /\ job' = [job EXCEPT ![r] = [o \in Owner |->
                  IF job[r][o].op = "marked"
                  THEN Job("failFind", 0, "open") ELSE NoJob]]
    BY <1>14 DEF RunSendFails, RunReverted, FailBatch
  <2>2. Replaced(r)
    BY <1>0, <2>1 DEF Replaced, Job, NoJob, Writing
  <2>. QED  BY <1>0, <1>2, <2>1, <2>2
<1>15. ASSUME NEW r \in Run, NEW x \in Owner, FailFind(r, x) PROVE HeldBounded'
  <2>1. \A o \in Owner : Keeps(o)
    BY <1>0, <1>15 DEF FailFind, Keeps, Pending, Job, NoJob, Writing
  <2>. QED  BY <1>15, <2>1, Same DEF FailFind
<1>16. ASSUME NEW r \in Run, NEW x \in Owner, FailSave(r, x) PROVE HeldBounded'
  <2>1. Update(job[r][x].row, "failed")
    BY <1>16, WriteKinds
  <2>2. \A o \in Owner : Keeps(o)
    BY <1>0, <1>16 DEF FailSave, Keeps, Pending, Job, NoJob, Writing
  <2>. QED  BY <2>1, <2>2, Updated DEF ActiveStatus
<1>17. ASSUME NEW w \in watchers, WatchFind(w) \/ WatchSave(w) PROVE HeldBounded'
  <2>1. job' = job
    BY <1>17 DEF WatchFind, WatchSave, tasks
  <2>2. CASE rows' = rows
    BY <1>1, <2>1, <2>2
  <2>3. CASE Update(w.row, "null")
    <3>1. \A o \in Owner : Keeps(o)
      BY <2>1 DEF Keeps, Pending
    <3>. QED  BY <2>3, <3>1, Updated DEF ActiveStatus
  <2>4. Update(w.row, "null") \/ rows' = rows
    BY <1>17, WriteKinds DEF WatchFind
  <2>. QED  BY <2>2, <2>3, <2>4
<1>18. ASSUME NEW r \in Run, Mine(r) \/ DropTx(r) PROVE HeldBounded'
  BY <1>1, <1>18 DEF Mine, DropTx, tasks
<1>19. ASSUME NEW o \in Owner, NEW s \in ChainStatus, ChainStep(o, s) PROVE HeldBounded'
  BY <1>1, <1>19 DEF ChainStep, tasks
<1>20. CASE Restart \/ UNCHANGED vars
  BY <1>1, <1>20 DEF Restart, vars, tasks
<1>21. CASE Crash
  BY <1>7, <1>21 DEF Crash
<1>22. ASSUME NEW r \in Run, RunStart(r) PROVE HeldBounded'
  BY <1>0, <1>3, <1>22 DEF RunStart
<1>23. ASSUME NEW r \in Run, RunPopulateFails(r) \/ RunSkip(r) \/ RunFailed(r) PROVE HeldBounded'
  BY <1>6, <1>23 DEF RunPopulateFails, RunSkip, RunFailed
<1>. QED
  BY <1>4, <1>5, <1>8, <1>9, <1>10, <1>11, <1>12, <1>13, <1>14, <1>15, <1>16, <1>17, <1>18,
     <1>19, <1>20, <1>21, <1>22, <1>23, NextFind, NextSave
  DEF Next, Adding, PassNext, RunNext, Watching, Environment

\* Initially nothing is held or missing.
LEMMA InitHeld == Init => HeldBounded
<1> SUFFICES ASSUME Init, NEW o \in Owner
             PROVE  Cardinality(Held(o)) + Cardinality(Missing(o)) <= Cardinality(Task)
  BY DEF HeldBounded
<1>1. Held(o) = {} /\ Missing(o) = {}
  BY DEF Init, Held, Missing, Pending, Writing, ActiveRows, NoJobs, NoJob, Job
<1>. QED
  BY <1>1, FS_EmptySet, FS_CardinalityType, SlotsAssumption

\* An owner never has more open or liquidating rows than tasks can overlap:
\* with one task there are no duplicates at all.
THEOREM DuplicatesLimited == Spec => []DuplicatesBounded
<1>1. ASSUME TypeOK, HeldBounded, NEW o \in Owner
      PROVE  Cardinality(ActiveRows(rows, o)) <= Cardinality(Task)
  <2>1. /\ Cardinality(ActiveRows(rows, o)) <= Cardinality(Held(o))
        /\ Cardinality(ActiveRows(rows, o)) \in Nat
    <3>1. ActiveRows(rows, o) \subseteq Held(o)
      BY DEF Held
    <3>. QED  BY <1>1, <3>1, FiniteSets, FS_Subset, FS_CardinalityType
  <2>. QED  BY <1>1, <2>1, FiniteSets DEF HeldBounded
<1>2. TypeOK /\ HeldBounded => DuplicatesBounded
  BY <1>1 DEF DuplicatesBounded
<1>. QED  BY <1>2, InitHeld, NextHeld, TypeCorrect, PTL DEF Spec
=============================================================================
