----------------------------- MODULE PriceWatch -----------------------------
(***************************************************************************)
(* The callbacks that start() of src/controllers/main.js installs once the *)
(* store is loaded: the block handler re-arms an interval timer, and every *)
(* firing of the timer compares the price of the store with the one of an  *)
(* earlier firing and calls tryToLiquidate when it is lower.  timer and    *)
(* oldState are shared by all block handlers; newState belongs to one      *)
(* handler and its timer.  A firing awaits its run, and the interval goes  *)
(* on firing meanwhile, as does the next block.                            *)
(* tryToLiquidate itself is the module Liquidator: here it is an await     *)
(* that returns or rejects.  The feed of prices is external.               *)
(* A rejected await is modelled as it is where an unhandled rejection does *)
(* not end the process.  The run made on load touches none of these.       *)
(***************************************************************************)
EXTENDS Naturals, FiniteSets

CONSTANTS
    Handler,    \* slots: block handlers whose awaits, timer or runs are alive
    None,       \* null
    MaxPrice,   \* prices are 1..MaxPrice
    MaxRuns,    \* bound: runs of one handler in progress
    MaxRejections   \* bound: rejected calls

ASSUME HandlerAssumption == None \notin Handler
ASSUME BoundsAssumption == MaxPrice \in Nat /\ MaxRuns \in Nat /\ MaxRejections \in Nat

VARIABLES
    price,      \* external: store.state.price
    waiting,    \* handlers between the block event and the end of their awaits
    timer,      \* the variable timer: the handler that set it
    live,       \* handlers whose interval is scheduled
    new,        \* newState.price of each handler
    old,        \* oldState.price, 0 for undefined
    runs,       \* awaited calls of tryToLiquidate of each handler's firings
    rejections, \* counter of rejected calls
    seen,       \* history: the price the latest firing read, 0 at first
    missed,     \* history: a firing read less than the one before and did nothing
    outlived    \* history: a run ended after its timer was cleared

watchHistory == <<seen, missed, outlived>>
watchVars == <<price, waiting, timer, live, new, old, runs, rejections, seen, missed, outlived>>

WatchInit ==
    /\ price \in 1..MaxPrice
    /\ waiting = {} /\ timer = None /\ live = {}
    /\ new = [h \in Handler |-> 0] /\ old = 0
    /\ runs = [h \in Handler |-> 0]
    /\ rejections = 0
    /\ seen = 0 /\ missed = FALSE /\ outlived = FALSE

\* A block arrives: the handler reads the store and awaits three calls.
Block(h) ==
    /\ h \notin waiting \cup live /\ runs[h] = 0
    /\ waiting' = waiting \cup {h}
    /\ new' = [new EXCEPT ![h] = price]
    /\ UNCHANGED <<price, timer, live, old, runs, rejections, watchHistory>>

\* One of them rejects: the handler ends before it touches the timer.
BlockFails(h) ==
    /\ h \in waiting /\ rejections < MaxRejections
    /\ waiting' = waiting \ {h}
    /\ rejections' = rejections + 1
    /\ UNCHANGED <<price, timer, live, new, old, runs, watchHistory>>

\* clearInterval(timer); nothing to clear if it is null.
Cleared == live \ {timer}

\* Wrong variant: the interval of the previous block is not cleared.
ArmKeepsTimer(h) ==
    /\ h \in waiting
    /\ waiting' = waiting \ {h}
    /\ timer' = h /\ live' = live \cup {h}
    /\ UNCHANGED <<price, new, old, runs, rejections, watchHistory>>

\* The interval of an earlier block is cleared and this block's is scheduled;
\* a pass (updateTrovesStatus) starts and is not awaited.
Arm(h) ==
    /\ h \in waiting
    /\ waiting' = waiting \ {h}
    /\ timer' = h /\ live' = Cleared \cup {h}
    /\ UNCHANGED <<price, new, old, runs, rejections, watchHistory>>

\* Wrong variant: oldState is set before the comparison, too.
IntervalFiresForgets(h) ==
    /\ h \in live
    /\ new' = [new EXCEPT ![h] = price]
    /\ seen' = price /\ old' = price
    /\ missed' = (missed \/ price < seen)
    /\ UNCHANGED <<price, waiting, timer, live, runs, rejections, outlived>>

\* The interval fires: a run, if the price is below that of oldState, which
\* stays as it is until the run has returned.
IntervalFires(h) ==
    /\ h \in live
    /\ new' = [new EXCEPT ![h] = price]
    /\ seen' = price
    /\ \/ /\ price < old /\ runs[h] < MaxRuns
          /\ runs' = [runs EXCEPT ![h] = @ + 1]
          /\ UNCHANGED <<old, missed>>
       \/ /\ price >= old
          /\ old' = price
          /\ missed' = (missed \/ price < seen)
          /\ UNCHANGED runs
    /\ UNCHANGED <<price, waiting, timer, live, rejections, outlived>>

\* Wrong variant: a returned run leaves oldState alone.
RunReturnsKeepsOld(h) ==
    /\ runs[h] > 0
    /\ runs' = [runs EXCEPT ![h] = @ - 1]
    /\ timer' = None /\ live' = Cleared
    /\ outlived' = (outlived \/ timer # h)
    /\ UNCHANGED <<price, waiting, new, old, rejections, seen, missed>>

\* tryToLiquidate returns to the firing that awaits it.  It clears whatever
\* timer is set by now, and takes the newState its handler has by now.
RunReturns(h) ==
    /\ runs[h] > 0
    /\ runs' = [runs EXCEPT ![h] = @ - 1]
    /\ timer' = None /\ live' = Cleared
    /\ old' = new[h]
    /\ outlived' = (outlived \/ timer # h)
    /\ UNCHANGED <<price, waiting, new, rejections, seen, missed>>

\* It rejects: the firing ends at its await.
RunRejects(h) ==
    /\ runs[h] > 0 /\ rejections < MaxRejections
    /\ runs' = [runs EXCEPT ![h] = @ - 1]
    /\ rejections' = rejections + 1
    /\ UNCHANGED <<price, waiting, timer, live, new, old, watchHistory>>

PriceMoves ==
    /\ price' \in (1..MaxPrice) \ {price}
    /\ UNCHANGED <<waiting, timer, live, new, old, runs, rejections, watchHistory>>

WatchNext ==
    \/ \E h \in Handler :
          \/ Block(h) \/ BlockFails(h) \/ Arm(h)
          \/ IntervalFires(h) \/ RunReturns(h) \/ RunRejects(h)
    \/ PriceMoves

WatchSpec == WatchInit /\ [][WatchNext]_watchVars

\* Blocks keep coming, not so fast that no interval ever fires between two of
\* them, and runs return (those that reject are bounded by MaxFaults).
WatchFairness ==
    /\ WF_watchVars(\E h \in Handler : Block(h))
    /\ \A h \in Handler : WF_watchVars(Arm(h)) /\ WF_watchVars(RunReturns(h))
    /\ SF_watchVars(\E h \in Handler : IntervalFires(h))
WatchFairSpec == WatchSpec /\ WatchFairness

-----------------------------------------------------------------------------
(* Properties *)

\* Type correctness: timer is null or a handler, prices and run counts stay
\* within their bounds.
WatchTypeOK ==
    /\ price \in 1..MaxPrice
    /\ waiting \subseteq Handler /\ live \subseteq Handler
    /\ timer \in Handler \cup {None}
    /\ new \in [Handler -> 0..MaxPrice] /\ old \in 0..MaxPrice
    /\ runs \in [Handler -> 0..MaxRuns]
    /\ rejections \in Nat
    /\ seen \in 0..MaxPrice /\ missed \in BOOLEAN /\ outlived \in BOOLEAN

\* However block handlers and returning runs interleave, the interval that
\* timer refers to is the only one scheduled, so the price is never polled by
\* two intervals at once and no interval is out of clearInterval's reach.
OneInterval == live = (IF timer = None THEN {} ELSE {timer})

\* README.md:13, "whenever the price drops", with the exception the code makes:
\* a firing that reads a lower price than the firing before it starts a run,
\* unless a run has returned after its timer was cleared by a later block or
\* by another run, and has put back an oldState that was out of date.
MissedOnlyIfOutlived == missed => outlived

\* Its inductive form: until that happens oldState is no lower than the latest
\* price read, and a handler whose timer is set and whose run is in progress
\* remembers that price; a handler has neither timer nor run while it awaits.
WatchInv ==
    /\ OneInterval
    /\ MissedOnlyIfOutlived
    /\ \A h \in waiting : runs[h] = 0 /\ h \notin live
    /\ ~outlived =>
          /\ seen <= old
          /\ \A h \in Handler : timer = h /\ runs[h] > 0 => new[h] = seen

\* Once the price stands still, the watch settles on it: no oldState from a
\* late run survives and no run is started over and over for the same drop.
Settles ==
    \A p \in 1..MaxPrice :
        <>[](price = p) => <>[](old = p /\ \A h \in Handler : runs[h] = 0)

\* README.md:13: "Whenever the price drops the bot retrieves a list of troves",
\* that is a firing that reads less than the firing before it starts a run.
EveryDropActedOn == ~missed
=============================================================================
