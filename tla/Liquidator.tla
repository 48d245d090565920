----------------------------- MODULE Liquidator -----------------------------
(***************************************************************************)
(* The liquidation bot of src/controllers/main.js around its table of      *)
(* troves.  JavaScript runs one callback at a time, so every interleaving  *)
(* happens at an await: an action below is the code between two awaits,    *)
(* and each SQL statement is one step.  Two kinds of task overlap:         *)
(*   Pass - updateTrovesStatus, fired un-awaited on every block;           *)
(*   Run  - tryToLiquidate, fired on load and on price drops, with         *)
(*          liquidate, listenHigherGasPriceTx, handleSuccessfulLiquidation.*)
(* A third kind, the TroveLiquidated event handlers, is the set watchers.  *)
(* Inside a task Promise.all runs one chain of awaits per trove: job[t][o] *)
(* names the next statement of that chain and what it remembers.           *)
(* The chain, the mempool and the process supervisor are external.         *)
(***************************************************************************)
EXTENDS TroveTable, FiniteSets

CONSTANTS
    Pass, Run,       \* slots: how many calls of each kind may overlap
    PageSize,        \* "first" of getTroves and "limit" of listTroves (1000)
    MaxBatch,        \* max of tryToLiquidate (100)
    ExitOnRejection, \* does an unhandled rejection end the process (Node >= 15)
    MaxEvents,       \* bound: spontaneous changes of troves on chain
    MaxStarts,       \* bound: calls of tryToLiquidate
    MaxFaults        \* bound: crashes and failed RPC calls

Task == Pass \cup Run

ASSUME SlotsAssumption == Pass \cap Run = {} /\ IsFiniteSet(Task)
ASSUME OwnerAssumption == IsFiniteSet(Owner)
ASSUME LimitsAssumption == PageSize \in Nat \ {0} /\ MaxBatch \in Nat \ {0}
ASSUME NodeAssumption == ExitOnRejection \in BOOLEAN
ASSUME BoundsAssumption == MaxEvents \in Nat /\ MaxStarts \in Nat /\ MaxFaults \in Nat

VARIABLES
    trove,      \* chain: status of each owner's trove
    tx,         \* chain: the liquidation transaction sent by each run
    rows,       \* the troves table
    alive,      \* is the process up
    step,       \* where each task waits
    job,        \* the per-trove chain of awaits inside each task
    todo,       \* ids still to visit in the loop of a pass
    cur,        \* row and closed status a pass is about to write
    watchers,   \* TroveLiquidated handlers in progress
    lived,      \* history: chain statuses of the owner since a row was inserted
    liquidated, \* history: owners liquidated at least once
    tried,      \* history: owners a transaction was tried for
    events, starts, faults    \* bounded counters

chain == <<trove, tx>>
tasks == <<step, job, todo, cur>>
history == <<lived, liquidated, tried>>
counters == <<events, starts, faults>>
vars == <<trove, tx, rows, alive, step, job, todo, cur, watchers,
          lived, liquidated, tried, events, starts, faults>>

Op == {"none", "addFind", "addSave", "added", "openFind", "dropped", "picked",
       "mark", "marked", "failFind", "failSave"}
Step == {"idle", "adding", "visiting", "filtering", "pricing", "marking",
         "listening", "failing"}

Job(op, row, was) == [op |-> op, row |-> row, was |-> was]
NoJob == Job("none", 0, "open")
NoJobs == [o \in Owner |-> NoJob]
NoRow == [row |-> 0, status |-> "closedByOwner"]
NoTx == [st |-> "none", batch |-> {}, hits |-> {}]

\* Owners whose chain of awaits in task t stands at op.
At(t, op) == {o \in Owner : job[t][o].op = op}
OpenTroves == {o \in Owner : trove[o] = "open"}

\* At most n elements of S, and all of them when S is that small.
IsPage(P, S, n) ==
    /\ P \subseteq S
    /\ Cardinality(P) <= n
    /\ P = S \/ Cardinality(P) = n

Init ==
    /\ trove = [o \in Owner |-> "nonExistent"]
    /\ tx = [r \in Run |-> NoTx]
    /\ rows = << >>
    /\ alive = TRUE
    /\ step = [t \in Task |-> "idle"]
    /\ job = [t \in Task |-> NoJobs]
    /\ todo = [p \in Pass |-> {}]
    /\ cur = [p \in Pass |-> NoRow]
    /\ watchers = {}
    /\ lived = << >>
    /\ liquidated = {}
    /\ tried = {}
    /\ events = 0 /\ starts = 0 /\ faults = 0

-----------------------------------------------------------------------------
(* addTrove for every trove of a page of getTroves, in either kind of task. *)

\* getTroves resolves: the troves are read from the chain at one instant, and
\* Promise.all starts one addTrove per trove.
FetchTroves(t) ==
    /\ alive /\ step[t] = "idle"
    /\ \E P \in SUBSET OpenTroves :
          /\ IsPage(P, OpenTroves, PageSize)
          /\ job' = [job EXCEPT ![t] = [o \in Owner |->
                        IF o \in P THEN Job("addFind", 0, "open") ELSE NoJob]]
    /\ step' = [step EXCEPT ![t] = "adding"]

\* Wrong variant: does not remember that the row belongs to this owner.
AddFindAnyOwner(t, o) ==
    /\ job[t][o].op = "addFind"
    /\ \E i \in 0..Len(rows) :
          /\ i # 0 => rows[i].status \in ActiveStatus
          /\ job' = [job EXCEPT ![t][o] =
                Job("addSave", i, IF i = 0 THEN "open" ELSE rows[i].status)]
    /\ UNCHANGED <<chain, rows, alive, step, todo, cur, watchers, history, counters>>

\* findOne of the owner's open or liquidating row.  addTrove will write back
\* "liquidating" if it saw that, and the status of the fetched trove otherwise.
AddFind(t, o) ==
    /\ job[t][o].op = "addFind"
    /\ \E i \in 0..Len(rows) :
          /\ IsFirst(rows, o, ActiveStatus, i)
          /\ job' = [job EXCEPT ![t][o] =
                Job("addSave", i, IF i = 0 THEN "open" ELSE rows[i].status)]
    /\ UNCHANGED <<chain, rows, alive, step, todo, cur, watchers, history, counters>>

\* Wrong variant: an owner that already has a row, in whatever status, gets no
\* new one.
AddSaveOncePerOwner(t, o) ==
    /\ job[t][o].op = "addSave"
    /\ LET j == job[t][o] IN
          \/ /\ j.row # 0
             /\ rows' = SetStatus(rows, j.row, j.was)
             /\ UNCHANGED lived
          \/ /\ j.row = 0 /\ \E i \in DOMAIN rows : rows[i].owner = o
             /\ UNCHANGED <<rows, lived>>
          \/ /\ j.row = 0 /\ \A i \in DOMAIN rows : rows[i].owner # o
             /\ rows' = Insert(rows, o)
             /\ lived' = Append(lived, {trove[o]})
    /\ job' = [job EXCEPT ![t][o] = Job("added", 0, "open")]
    /\ UNCHANGED <<chain, alive, step, todo, cur, watchers,
                   liquidated, tried, counters>>

\* Wrong variant: the update of a row that exists does not return, and the
\* insert follows.
AddSaveNoReturn(t, o) ==
    /\ job[t][o].op = "addSave"
    /\ LET j == job[t][o] IN
          rows' = Insert(IF j.row = 0 THEN rows ELSE SetStatus(rows, j.row, j.was), o)
    /\ lived' = Append(lived, {trove[o]})
    /\ job' = [job EXCEPT ![t][o] = Job("added", 0, "open")]
    /\ UNCHANGED <<chain, alive, step, todo, cur, watchers,
                   liquidated, tried, counters>>

\* The update or insert that follows, on what findOne saw.
AddSave(t, o) ==
    /\ job[t][o].op = "addSave"
    /\ LET j == job[t][o] IN
          \/ /\ j.row # 0
             /\ rows' = SetStatus(rows, j.row, j.was)
             /\ UNCHANGED lived
          \/ /\ j.row = 0
             /\ rows' = Insert(rows, o)
             /\ lived' = Append(lived, {trove[o]})
    /\ job' = [job EXCEPT ![t][o] = Job("added", 0, "open")]
    /\ UNCHANGED <<chain, alive, step, todo, cur, watchers,
                   liquidated, tried, counters>>

\* Promise.all of the addTrove calls has resolved.
AllAdded(t) == step[t] = "adding" /\ At(t, "addFind") = {} /\ At(t, "addSave") = {}

-----------------------------------------------------------------------------
(* updateTrovesStatus *)

PassStart(p) ==
    /\ FetchTroves(p)
    /\ UNCHANGED <<chain, rows, alive, todo, cur, watchers, history, counters>>

\* Wrong variant: rows marked liquidating are not listed.
PassListOpenOnly(p) ==
    /\ AllAdded(p)
    /\ todo' = [todo EXCEPT ![p] = {i \in DOMAIN rows : rows[i].status = "open"}]
    /\ step' = [step EXCEPT ![p] = "visiting"]
    /\ job' = [job EXCEPT ![p] = NoJobs]
    /\ UNCHANGED <<chain, rows, alive, cur, watchers, history, counters>>

\* listTroves of the open and liquidating rows, ordered by status descending:
\* when the limit cuts the list, open rows come before liquidating ones.
PassList(p) ==
    /\ AllAdded(p)
    /\ LET active == UNION {ActiveRows(rows, o) : o \in Owner}
       IN  \E L \in SUBSET active :
              /\ IsPage(L, active, PageSize)
              /\ (\E i \in L : rows[i].status = "liquidating") =>
                    \A k \in active : rows[k].status = "open" => k \in L
              /\ todo' = [todo EXCEPT ![p] = L]
    /\ step' = [step EXCEPT ![p] = "visiting"]
    /\ job' = [job EXCEPT ![p] = NoJobs]
    /\ UNCHANGED <<chain, rows, alive, cur, watchers, history, counters>>

\* One turn of the loop up to its awaits: getTrove answers with the status on
\* chain, and only a closed one leads to an update.
PassVisit(p, i) ==
    /\ step[p] = "visiting" /\ cur[p].row = 0 /\ i \in todo[p]
    /\ todo' = [todo EXCEPT ![p] = @ \ {i}]
    /\ LET s == trove[rows[i].owner] IN
          cur' = IF s \in ClosedStatus
                 THEN [cur EXCEPT ![p] = [row |-> i, status |-> s]]
                 ELSE cur
    /\ UNCHANGED <<chain, rows, alive, step, job, watchers, history, counters>>

\* Wrong variant: the status is left out of the update, like the handler does.
PassCloseNoStatus(p) ==
    /\ cur[p].row # 0
    /\ rows' = SetStatus(rows, cur[p].row, "null")
    /\ cur' = [cur EXCEPT ![p] = NoRow]
    /\ UNCHANGED <<chain, alive, step, job, todo, watchers, history, counters>>

\* Wrong variant: the verdict goes to the owner's newest row instead of the row
\* that was listed.
PassCloseNewest(p) ==
    /\ cur[p].row # 0
    /\ \E i \in DOMAIN rows :
          /\ rows[i].owner = rows[cur[p].row].owner
          /\ \A k \in DOMAIN rows : rows[k].owner = rows[i].owner => k <= i
          /\ rows' = SetStatus(rows, i, cur[p].status)
    /\ cur' = [cur EXCEPT ![p] = NoRow]
    /\ UNCHANGED <<chain, alive, step, job, todo, watchers, history, counters>>

\* updateTrove(trove.id, { status: netTrove.status }).
PassClose(p) ==
    /\ cur[p].row # 0
    /\ rows' = SetStatus(rows, cur[p].row, cur[p].status)
    /\ cur' = [cur EXCEPT ![p] = NoRow]
    /\ UNCHANGED <<chain, alive, step, job, todo, watchers, history, counters>>

\* The loop is over, or getTrove rejected and the catch block ended the pass.
PassEnd(p) ==
    /\ step[p] = "visiting" /\ cur[p].row = 0
    /\ \/ todo[p] = {} /\ UNCHANGED faults
       \/ todo[p] # {} /\ faults < MaxFaults /\ faults' = faults + 1
    /\ todo' = [todo EXCEPT ![p] = {}]
    /\ step' = [step EXCEPT ![p] = "idle"]
    /\ UNCHANGED <<chain, rows, alive, job, cur, watchers, history, events, starts>>

-----------------------------------------------------------------------------
(* tryToLiquidate up to the transaction *)

\* A slot whose transaction is still pending after its run ended is not reused.
RunStart(r) ==
    /\ starts < MaxStarts
    /\ tx[r].st # "pending"
    /\ FetchTroves(r)
    /\ starts' = starts + 1
    /\ tx' = [tx EXCEPT ![r] = NoTx]
    /\ UNCHANGED <<trove, rows, alive, todo, cur, watchers, history, events, faults>>

\* filterLiquidateTroves starts: which of the fetched troves are below the
\* minimum ratio at the price of the store is left open.
RunFilter(r) ==
    /\ AllAdded(r)
    /\ \E under \in SUBSET At(r, "added") :
          job' = [job EXCEPT ![r] = [o \in Owner |->
                     IF o \in under THEN Job("openFind", 0, "open") ELSE NoJob]]
    /\ step' = [step EXCEPT ![r] = "filtering"]
    /\ UNCHANGED <<chain, rows, alive, todo, cur, watchers, history, counters>>

\* db.getTrove(owner, open): the row found becomes trove.dbId.
FilterFind(r, o) ==
    /\ job[r][o].op = "openFind"
    /\ \E i \in 0..Len(rows) :
          /\ IsFirst(rows, o, {"open"}, i)
          /\ job' = [job EXCEPT ![r][o] =
                IF i = 0 THEN Job("dropped", 0, "open") ELSE Job("picked", i, "open")]
    /\ UNCHANGED <<chain, rows, alive, step, todo, cur, watchers, history, counters>>

\* The run is over: its closures are gone.
Stop(r) ==
    /\ step' = [step EXCEPT ![r] = "idle"]
    /\ job' = [job EXCEPT ![r] = NoJobs]

\* Sort by collateral and slice; with nothing to liquidate the run returns.
RunBatch(r) ==
    /\ step[r] = "filtering" /\ At(r, "openFind") = {}
    /\ \/ At(r, "picked") = {} /\ Stop(r)
       \/ \E B \in SUBSET At(r, "picked") :
             /\ B # {} /\ IsPage(B, At(r, "picked"), MaxBatch)
             /\ job' = [job EXCEPT ![r] = [o \in Owner |->
                           IF o \in B THEN job[r][o] ELSE NoJob]]
             /\ step' = [step EXCEPT ![r] = "pricing"]
    /\ UNCHANGED <<chain, rows, alive, todo, cur, watchers, history, counters>>

\* populate.liquidate or a price query rejects: the outer catch returns {}.
RunPopulateFails(r) ==
    /\ step[r] = "pricing"
    /\ Stop(r)
    /\ UNCHANGED <<chain, rows, alive, todo, cur, watchers, history, counters>>

\* The gas price is chosen; the batch is marked before the cost check.
RunPriced(r) ==
    /\ step[r] = "pricing"
    /\ job' = [job EXCEPT ![r] = [o \in Owner |->
                  IF job[r][o].op = "picked"
                  THEN Job("mark", job[r][o].row, "open") ELSE job[r][o]]]
    /\ step' = [step EXCEPT ![r] = "marking"]
    /\ UNCHANGED <<chain, rows, alive, todo, cur, watchers, history, counters>>

\* updateTrove(trove.dbId, { status: liquidating }), whatever the row holds now.
MarkRow(r, o) ==
    /\ job[r][o].op = "mark"
    /\ rows' = SetStatus(rows, job[r][o].row, "liquidating")
    /\ job' = [job EXCEPT ![r][o] = Job("marked", 0, "open")]
    /\ UNCHANGED <<chain, alive, step, todo, cur, watchers, history, counters>>

AllMarked(r) == step[r] = "marking" /\ At(r, "mark") = {}

\* Wrong variant: a skipped batch is reported as failed.
RunSkipFails(r) ==
    /\ AllMarked(r)
    /\ job' = [job EXCEPT ![r] = [o \in Owner |->
                  IF job[r][o].op = "marked"
                  THEN Job("failFind", 0, "open") ELSE NoJob]]
    /\ step' = [step EXCEPT ![r] = "failing"]
    /\ UNCHANGED <<chain, rows, alive, todo, cur, watchers, history, counters>>

\* "Skipping liquidation due to high TX cost": the rows keep their mark.
RunSkip(r) ==
    /\ AllMarked(r)
    /\ Stop(r)
    /\ UNCHANGED <<chain, rows, alive, todo, cur, watchers, history, counters>>

-----------------------------------------------------------------------------
(* The transaction *)

\* The process ends: every task, closure and event handler is gone.
Exit ==
    /\ alive' = FALSE
    /\ step' = [t \in Task |-> "idle"]
    /\ job' = [t \in Task |-> NoJobs]
    /\ todo' = [p \in Pass |-> {}]
    /\ cur' = [p \in Pass |-> NoRow]
    /\ watchers' = {}

\* A rejection nobody handles in run r: fatal on new versions of Node, and
\* otherwise only the end of the run.
Reject(r) ==
    \/ ExitOnRejection /\ Exit
    \/ /\ ~ExitOnRejection
       /\ Stop(r)
       /\ UNCHANGED <<alive, todo, cur, watchers>>

\* liquidation.send resolves and listenHigherGasPriceTx begins; its first call,
\* this.liquity.liquidate() without an address, rejects with no handler.
RunSend(r) ==
    /\ AllMarked(r)
    /\ tx' = [tx EXCEPT ![r] =
                 [st |-> "pending", batch |-> At(r, "marked"), hits |-> {}]]
    /\ tried' = tried \cup At(r, "marked")
    /\ \/ ExitOnRejection /\ Exit
       \/ /\ ~ExitOnRejection
          /\ step' = [step EXCEPT ![r] = "listening"]
          /\ UNCHANGED <<alive, job, todo, cur, watchers>>
    /\ UNCHANGED <<trove, rows, lived, liquidated, counters>>

\* Every trove of the batch is about to go through updateLiquidatingTrove
\* with status failed.
FailBatch(r) ==
    /\ job' = [job EXCEPT ![r] = [o \in Owner |->
                  IF job[r][o].op = "marked"
                  THEN Job("failFind", 0, "open") ELSE NoJob]]
    /\ step' = [step EXCEPT ![r] = "failing"]

\* liquidation.send rejects: "An error occured when sending ...".
RunSendFails(r) ==
    /\ AllMarked(r)
    /\ tried' = tried \cup At(r, "marked")
    /\ FailBatch(r)
    /\ UNCHANGED <<chain, rows, alive, todo, cur, watchers, lived, liquidated, counters>>

\* The listener saw the transaction confirmed; its receipt says "failed".
RunReverted(r) ==
    /\ step[r] = "listening" /\ tx[r].st = "failed"
    /\ FailBatch(r)
    /\ UNCHANGED <<chain, rows, alive, todo, cur, watchers, history, counters>>

\* updateLiquidatingTrove: find the owner's liquidating row, then write it.
FailFind(r, o) ==
    /\ job[r][o].op = "failFind"
    /\ \E i \in 0..Len(rows) :
          /\ IsFirst(rows, o, {"liquidating"}, i)
          /\ job' = [job EXCEPT ![r][o] =
                IF i = 0 THEN NoJob ELSE Job("failSave", i, "open")]
    /\ UNCHANGED <<chain, rows, alive, step, todo, cur, watchers, history, counters>>

FailSave(r, o) ==
    /\ job[r][o].op = "failSave"
    /\ rows' = SetStatus(rows, job[r][o].row, "failed")
    /\ job' = [job EXCEPT ![r][o] = NoJob]
    /\ UNCHANGED <<chain, alive, step, todo, cur, watchers, history, counters>>

RunFailed(r) ==
    /\ step[r] = "failing" /\ At(r, "failFind") = {} /\ At(r, "failSave") = {}
    /\ Stop(r)
    /\ UNCHANGED <<chain, rows, alive, todo, cur, watchers, history, counters>>

\* The receipt says "succeeded": the gas cost is computed with the undeclared
\* name store, so handleSuccessfulLiquidation throws before it writes a row.
RunSucceeded(r) ==
    /\ step[r] = "listening" /\ tx[r].st = "success"
    /\ Reject(r)
    /\ UNCHANGED <<chain, rows, history, counters>>

\* Timeout or no tries left before the listener sees a confirmation, even of a
\* transaction mined meanwhile: resolve(null), and null.waitForReceipt throws.
RunGivesUp(r) ==
    /\ step[r] = "listening"
    /\ Reject(r)
    /\ UNCHANGED <<chain, rows, history, counters>>

-----------------------------------------------------------------------------
(* watchTroveLiquidated *)

\* db.getTrove(owner) with no status, one second after the event: the oldest
\* row of the owner.
WatchFind(w) ==
    /\ w \in watchers /\ w.row = 0
    /\ \E i \in 0..Len(rows) :
          /\ IsFirst(rows, w.owner, RowStatus, i)
          /\ watchers' = (watchers \ {w}) \cup
                (IF i = 0 THEN {}
                 ELSE {[ev |-> w.ev, owner |-> w.owner, row |-> i]})
    /\ UNCHANGED <<chain, rows, alive, tasks, history, counters>>

\* getLogs looks at the latest block only: either it still finds the event and
\* updateTrove binds the missing status as NULL, or it finds nothing.
WatchSave(w) ==
    /\ w \in watchers /\ w.row # 0
    /\ rows' = SetStatus(rows, w.row, "null") \/ rows' = rows
    /\ watchers' = watchers \ {w}
    /\ UNCHANGED <<chain, alive, tasks, history, counters>>

-----------------------------------------------------------------------------
(* Environment: chain, other users, crashes and the supervisor (pm2) *)

\* The statuses that owners have had since each row was inserted.
Live(status) == [i \in DOMAIN lived |-> lived[i] \cup {status[rows[i].owner]}]

\* TroveLiquidated handlers for the owners in S, numbered by the event.
Notified(S) ==
    IF alive THEN {[ev |-> events, owner |-> o, row |-> 0] : o \in S} ELSE {}

\* A borrower opens a trove, or it is closed by its owner, by a redemption or
\* by another liquidator.
ChainStep(o, s) ==
    /\ events < MaxEvents
    /\ IF trove[o] = "open" THEN s \in ClosedStatus ELSE s = "open"
    /\ trove' = [trove EXCEPT ![o] = s]
    /\ lived' = Live(trove')
    /\ LET S == IF s = "closedByLiquidation" THEN {o} ELSE {}
       IN  /\ liquidated' = liquidated \cup S
           /\ watchers' = watchers \cup Notified(S)
    /\ events' = events + 1
    /\ UNCHANGED <<tx, rows, alive, tasks, tried, starts, faults>>

\* The transaction of run r is mined: it liquidates the troves of its batch
\* that are open and below the minimum, and reverts if there is none.
Mine(r) ==
    /\ tx[r].st = "pending"
    /\ \E H \in SUBSET (tx[r].batch \cap OpenTroves) :
          /\ tx' = [tx EXCEPT ![r] =
                       [st |-> IF H = {} THEN "failed" ELSE "success",
                        batch |-> tx[r].batch, hits |-> H]]
          /\ trove' = [o \in Owner |->
                          IF o \in H THEN "closedByLiquidation" ELSE trove[o]]
          /\ lived' = Live(trove')
          /\ liquidated' = liquidated \cup H
          /\ watchers' = watchers \cup Notified(H)
    /\ events' = events + 1
    /\ UNCHANGED <<rows, alive, tasks, tried, starts, faults>>

\* The transaction leaves the mempool unmined.
DropTx(r) ==
    /\ tx[r].st = "pending"
    /\ tx' = [tx EXCEPT ![r] = NoTx]
    /\ UNCHANGED <<trove, rows, alive, tasks, watchers, history, counters>>

Crash ==
    /\ alive /\ faults < MaxFaults
    /\ faults' = faults + 1
    /\ Exit
    /\ UNCHANGED <<chain, rows, history, events, starts>>

\* start(): the tasks start over and only the table is remembered.
Restart ==
    /\ ~alive
    /\ alive' = TRUE
    /\ UNCHANGED <<chain, rows, tasks, watchers, history, counters>>

-----------------------------------------------------------------------------
Adding(t) == \E o \in Owner : AddFind(t, o) \/ AddSave(t, o)

PassNext(p) ==
    \/ PassStart(p) \/ PassList(p) \/ PassClose(p) \/ PassEnd(p)
    \/ \E i \in todo[p] : PassVisit(p, i)

RunNext(r) ==
    \/ RunFilter(r) \/ RunBatch(r) \/ RunPopulateFails(r) \/ RunPriced(r)
    \/ RunSkip(r) \/ RunSend(r) \/ RunSendFails(r) \/ RunReverted(r)
    \/ RunFailed(r) \/ RunSucceeded(r) \/ RunGivesUp(r)
    \/ \E o \in Owner : FilterFind(r, o) \/ MarkRow(r, o) \/ FailFind(r, o) \/ FailSave(r, o)

Watching == \E w \in watchers : WatchFind(w) \/ WatchSave(w)

Environment ==
    \/ \E o \in Owner, s \in ChainStatus : ChainStep(o, s)
    \/ \E r \in Run : DropTx(r)
    \/ Crash

Next ==
    \/ \E t \in Task : Adding(t)
    \/ \E p \in Pass : PassNext(p)
    \/ \E r \in Run : RunStart(r) \/ RunNext(r) \/ Mine(r)
    \/ Watching
    \/ Environment
    \/ Restart

Spec == Init /\ [][Next]_vars

\* Every callback that is due runs, a pass is started by every block, pm2
\* restarts the process, and a pending transaction is mined or dropped.
\* Nothing forces a run to start, a borrower to act or a fault to happen.
Fairness ==
    /\ \A t \in Task : WF_vars(Adding(t))
    /\ \A p \in Pass : WF_vars(PassNext(p))
    /\ \A r \in Run : WF_vars(RunNext(r)) /\ WF_vars(Mine(r))
    /\ WF_vars(Watching)
    /\ WF_vars(Restart)

FairSpec == Spec /\ Fairness

-----------------------------------------------------------------------------
(* Properties *)

ChainType ==
    /\ trove \in [Owner -> ChainStatus]
    /\ tx \in [Run -> [st : {"none", "pending", "success", "failed"},
                        batch : SUBSET Owner, hits : SUBSET Owner]]
TableType ==
    /\ rows \in Seq(Row)
    /\ lived \in Seq(SUBSET ChainStatus)
    /\ Len(lived) = Len(rows)
\* Row i of the table exists and belongs to o.
OwnRow(i, o) == i \in DOMAIN rows /\ rows[i].owner = o
TaskType ==
    /\ alive \in BOOLEAN
    /\ step \in [Task -> Step]
    /\ job \in [Task -> [Owner -> [op : Op, row : Nat, was : ActiveStatus]]]
    /\ \A t \in Task, o \in Owner :
          /\ job[t][o].row # 0 => OwnRow(job[t][o].row, o)
          /\ job[t][o].op \in {"picked", "mark", "failSave"} => job[t][o].row # 0
PassType ==
    /\ todo \in [Pass -> SUBSET DOMAIN rows]
    /\ cur \in [Pass -> [row : Nat, status : ClosedStatus]]
    /\ \A p \in Pass : cur[p].row # 0 => cur[p].row \in DOMAIN rows
WatchType ==
    /\ watchers \subseteq [ev : Nat, owner : Owner, row : Nat]
    /\ \A w \in watchers : w.row # 0 => OwnRow(w.row, w.owner)
HistoryType ==
    /\ liquidated \subseteq Owner /\ tried \subseteq Owner
    /\ events \in Nat /\ starts \in Nat /\ faults \in Nat

\* Type correctness, with the ownership the code never checks again: a row id
\* that a task, a pass or an event handler remembers is a row of the table, and
\* the one kept for owner o (exists.id, trove.dbId, liquidating.id) is o's.
TypeOK ==
    ChainType /\ TableType /\ TaskType /\ PassType /\ WatchType /\ HistoryType

\* A row is closed only with a status its trove has had on chain while the row
\* existed: updateTrovesStatus never gives a reopened trove's new row the
\* verdict on the trove's previous life, whatever else runs between the read
\* of the chain and the write.
ClosedAfterTracked ==
    \A i \in DOMAIN rows :
        rows[i].status \in ClosedStatus => rows[i].status \in lived[i]

\* Its inductive form: the history of a row includes the present, and the
\* verdict a pass is about to write belongs to the history of the row it listed.
VerdictInv ==
    /\ ClosedAfterTracked
    /\ \A i \in DOMAIN rows : trove[rows[i].owner] \in lived[i]
    /\ \A p \in Pass : cur[p].row # 0 => cur[p].status \in lived[cur[p].row]

\* The status of a row is lost (NULL) only for an owner that was liquidated:
\* of all writers, only the TroveLiquidated handler leaves the status out.
LostOnlyIfLiquidated ==
    \A i \in DOMAIN rows : rows[i].status = "null" => rows[i].owner \in liquidated

\* Its inductive form.
LossInv ==
    /\ LostOnlyIfLiquidated
    /\ \A w \in watchers : w.owner \in liquidated

\* A row says "failed" only for an owner the bot tried to liquidate: the failed
\* count of getTotals has no entry for a batch that was skipped or never sent.
FailedOnlyIfTried ==
    \A i \in DOMAIN rows : rows[i].status = "failed" => rows[i].owner \in tried

\* Its inductive form: a run that listens or reports a failure has tried.
FailInv ==
    /\ FailedOnlyIfTried
    /\ \A r \in Run, o \in Owner :
          \/ job[r][o].op \in {"failFind", "failSave"}
          \/ step[r] = "listening" /\ job[r][o].op \in {"mark", "marked"}
          => o \in tried

\* What an owner's rows may still become active through: the active rows and
\* the rows an unfinished addTrove or marking remembers, and the unfinished
\* addTrove calls that found no row and will insert one.
Writing == {"addSave", "picked", "mark"}
Pending(t, o) == job[t][o].op \in Writing
Held(o) == ActiveRows(rows, o) \cup
    {job[t][o].row : t \in {u \in Task : Pending(u, o) /\ job[u][o].row # 0}}
Missing(o) == {t \in Task : Pending(t, o) /\ job[t][o].row = 0}

\* addTrove checks and then inserts without a transaction, so overlapping
\* tasks do leave an owner with several open or liquidating rows.  But never
\* more than tasks that can overlap; one row if tasks never overlap.
DuplicatesBounded ==
    \A o \in Owner : Cardinality(ActiveRows(rows, o)) <= Cardinality(Task)

\* The inductive form: rows that are or may become active.
HeldBounded ==
    \A o \in Owner :
        Cardinality(Held(o)) + Cardinality(Missing(o)) <= Cardinality(Task)

\* A trove that stays open is tracked again for good, also after its row was
\* marked failed, lost its status or was closed by a late pass: the passes of
\* later blocks re-insert it.
TrackedEventually ==
    \A o \in Owner : <>[](trove[o] = "open") => <>[](ActiveRows(rows, o) # {})

\* No row of a trove that stays closed is kept open or liquidating for ever,
\* whatever duplicates and stale writes the overlapping tasks left behind.
ClosedEventually ==
    \A o \in Owner : <>[](trove[o] # "open") => <>[](ActiveRows(rows, o) = {})

\* README.md:13-14: whenever the price drops, the troves below 110% are listed
\* and can be liquidated.  So a trove that is open and below the minimum is
\* left out of a batch only while another attempt on it is under way.
Attempting(o) ==
    \E r \in Run :
        \/ tx[r].st = "pending" /\ o \in tx[r].batch
        \/ job[r][o].op \in {"picked", "mark", "marked", "failFind", "failSave"}
DroppedOnlyIfAttempting ==
    \A r \in Run, o \in Owner :
        job[r][o].op = "dropped" /\ trove[o] = "open" => Attempting(o)

\* README.md:4: the frontend displays the profit and loss of liquidations, read
\* from the rows with status liquidated.  So a run that ends with a successful
\* receipt leaves a row "liquidated" for every trove it liquidated.
SuccessRecorded ==
    [][\A r \in Run :
          RunSucceeded(r) => \A o \in tx[r].hits :
              \E i \in DOMAIN rows' :
                  rows'[i].owner = o /\ rows'[i].status = "liquidated"]_vars
=============================================================================
