----------------------------- MODULE Borrowing ------------------------------
(***************************************************************************)
(* The trove transactions of PopulatableEthersLiquity, from the call to    *)
(* the mined transaction: openTrove, adjustTrove (with depositCollateral,  *)
(* withdrawCollateral, borrowZUSD and repayZUSD) and closeTrove, and their *)
(* variants for NUE.  A call normalizes its parameters, asks the chain for *)
(* the trove and the fees in several calls at once, predicts the trove it  *)
(* will lead to (for the hints), sets the highest acceptable rate, and has *)
(* the gas estimated; the transaction is mined later, and the chain moves  *)
(* between all of these.                                                   *)
(* The contracts are external: what they do with a transaction is modelled *)
(* as far as the library relies on it.  Rules about collateral ratios and  *)
(* balances are left out.                                                  *)
(***************************************************************************)
EXTENDS TroveMath, Fees, FiniteSets

CONSTANTS
    Call,           \* identities of calls in progress
    Request,        \* inputs: what users ask for
    Initial,        \* inputs: the user's trove before, with its stake
    Wanted,         \* inputs: troves that users plan to reach
    Tolerance,      \* defaultBorrowingRateSlippageTolerance
    MinimumNetDebt, \* ZUSD_MINIMUM_NET_DEBT
    RaisedRate,     \* external: the base rate after a redemption
    Share,          \* external: what a liquidation redistributes to a unit of stake
    MaxTicks,       \* bound: ticks of the chain's clock
    MaxEvents,      \* bound: events of the chain other than ticks
    MaxCalls        \* bound: calls of the user

Op == {"open", "adjust", "close"}
\* "limit" is maxBorrowingRate.
ASSUME RequestAssumption ==
    /\ Request \subseteq [op : Op, params : Params, limit : Nat \cup {NoLimit}]
    /\ \A r \in Request : r.op = "close" => r.params = NoParams
    /\ Initial \subseteq [open : BOOLEAN, collateral : Nat, debt : Nat, stake : Nat]
    /\ Wanted \subseteq Trove
    /\ Tolerance \in Nat /\ MinimumNetDebt \in Nat
    /\ MaxTicks \in Nat /\ MaxEvents \in Nat /\ MaxCalls \in Nat /\ RaisedRate \in Nat /\ Share \in Trove
    /\ DecaysUpTo(MaxTicks \div TicksPerMinute)

VARIABLES
    chain,      \* external: what the library reads of the chain, by parts
    call,       \* the calls
    events, calls

borrowingVars == <<chain, call, events, calls>>
bounds == <<events, calls>>

-----------------------------------------------------------------------------
(* What is read *)

\* The parts that are read by separate calls to the contracts.
TrovePart == {"trove", "snapshot", "redistributed"}
FeePart == {"base", "last", "now", "recovery"}
Part == TrovePart \cup FeePart

Closed == [open |-> FALSE, collateral |-> 0, debt |-> 0, stake |-> 0]
AsTrove(r) == [collateral |-> r.collateral, debt |-> r.debt]

\* getTrove: a trove that is not open is read as empty.
ReadTrove(v) ==
    IF v["trove"].open
    THEN ApplyRedistribution(AsTrove(v["trove"]), v["trove"].stake, v["snapshot"], v["redistributed"])
    ELSE EmptyTrove

\* Wrong variant: the time of the last operation is taken for milliseconds.
ReadFeesUnconverted(v) ==
    [base |-> v["base"], last |-> 0, now |-> v["now"], recovery |-> v["recovery"]]

\* getFees: the rate of the latest block, from parts read separately.
ReadFees(v) ==
    [base |-> v["base"], last |-> v["last"], now |-> v["now"], recovery |-> v["recovery"]]
Rate(v) == BorrowingRate(ReadFees(v))

Borrows(r) == r.params.borrowZUSD > 0

\* Which parts a request needs: openTrove reads the fees, adjustTrove the trove
\* and, to borrow, the fees, closeTrove nothing.
Needed(r) ==
    CASE r.op = "open" -> FeePart
      [] r.op = "adjust" -> TrovePart \cup IF Borrows(r) THEN FeePart ELSE {}
      [] r.op = "close" -> {}

\* _normalizeTroveCreation and _normalizeTroveAdjustment throw otherwise.
Normal(r) ==
    CASE r.op = "open" -> IsCreation(r.params)
      [] r.op = "adjust" -> IsAdjustment(r.params)
      [] r.op = "close" -> TRUE

Phase == {"idle", "reading", "sent", "mined", "refused", "reverted", "outOfGas"}
NoView == [p \in Part |->
    CASE p = "trove" -> Closed [] p \in {"snapshot", "redistributed"} -> EmptyTrove
      [] p = "recovery" -> FALSE [] OTHER -> 0]
NoRequest == [op |-> "close", params |-> NoParams, limit |-> NoLimit]
\* "final", "limit" and "paid": the predicted trove, the highest acceptable rate
\* and whether the gas limit covers an update of the fee time.  "result" is the
\* mined trove.  History: the kinds of events since the first answer ("since"),
\* and between the answers ("torn").
Idle == [phase |-> "idle", request |-> NoRequest, got |-> {}, view |-> NoView,
         final |-> EmptyTrove, limit |-> 0, paid |-> FALSE, result |-> EmptyTrove,
         since |-> {}, torn |-> {}]

BorrowingInit ==
    \* There has been a liquidation and perhaps a redemption before.
    /\ \E trove \in Initial, base \in {0, RaisedRate} :
          chain = [NoView EXCEPT !["trove"] = trove, !["base"] = base,
                                 !["snapshot"] = Share, !["redistributed"] = Share]
    /\ call = [c \in Call |-> Idle]
    /\ events = 0 /\ calls = 0

-----------------------------------------------------------------------------
(* The contracts: is a transaction accepted, and what does it lead to *)

CurrentTrove ==
    LET t == chain["trove"]
        gained(k) == Mul(chain["redistributed"][k] - chain["snapshot"][k], t.stake)
    IN [collateral |-> t.collateral + gained("collateral"), debt |-> t.debt + gained("debt")]
CurrentFees ==
    [base |-> chain["base"], last |-> chain["last"], now |-> chain["now"],
     recovery |-> chain["recovery"]]
CurrentRate == BorrowingRate(CurrentFees)

\* Is the fee that is charged, as a share of the amount, within the limit: the
\* check is skipped in recovery mode, when there is no fee.
FeeAccepted(r, limit) ==
    \/ ~Borrows(r) \/ chain["recovery"]
    \/ /\ limit >= MinimumRate
       /\ MulDiv(Mul(r.params.borrowZUSD, CurrentRate), Digits, r.params.borrowZUSD) <= limit

After(r) ==
    CASE r.op = "open" -> Create(r.params, CurrentRate)
      [] r.op = "adjust" -> Adjust(CurrentTrove, r.params, CurrentRate)
      [] r.op = "close" -> EmptyTrove

Accepted(r) ==
    LET now == CurrentTrove IN
    /\ chain["trove"].open = (r.op # "open")
    /\ r.op = "close" \/ After(r).debt >= LiquidationReserve + MinimumNetDebt
    /\ r.params.withdrawCollateral <= now.collateral /\ r.params.repayZUSD <= now.debt

MinutePassed == Minus(chain["now"], chain["last"]) >= TicksPerMinute
UpdatesFeeTime(r) == Borrows(r) /\ MinutePassed

\* A fee operation decays the base rate and, after a full minute, notes the time.
FeeNoted(base) ==
    [chain EXCEPT !["base"] = base,
                  !["last"] = IF MinutePassed THEN chain["now"] ELSE chain["last"]]
Decayed == BaseRate(CurrentFees)

Executed(r) ==
    LET t == After(r)
        paid == IF Borrows(r) THEN FeeNoted(Decayed) ELSE chain
    IN [paid EXCEPT
          !["trove"] = [open |-> r.op # "close", collateral |-> t.collateral, debt |-> t.debt,
                        stake |-> t.collateral],
          !["snapshot"] = chain["redistributed"]]

-----------------------------------------------------------------------------
(* The library *)

InProgress(k) == k.phase \in {"reading", "sent"}

\* An event of one of these kinds happens: what the calls in progress note.
Noted(kinds) ==
    [c \in Call |->
       IF ~InProgress(call[c]) \/ call[c].got = {} THEN call[c]
       ELSE [call[c] EXCEPT
               !.since = @ \cup kinds,
               !.torn = IF call[c].phase = "reading" /\ call[c].got # Needed(call[c].request)
                        THEN @ \cup kinds ELSE @]]

\* A user calls a function, which throws at once if the parameters are wrong.
Begin(c, r) ==
    /\ ~InProgress(call[c]) /\ calls < MaxCalls
    /\ calls' = calls + 1
    /\ call' = [call EXCEPT ![c] =
                  IF Normal(r) THEN [Idle EXCEPT !.phase = "reading", !.request = r] ELSE Idle]
    /\ UNCHANGED <<chain, events>>

\* One of the calls to the contracts is answered, for the latest block.
Answer(c, p) ==
    /\ call[c].phase = "reading" /\ p \notin call[c].got
    /\ call' = [call EXCEPT ![c].got = @ \cup {p}, ![c].view[p] = chain[p]]
    /\ UNCHANGED <<chain, bounds>>

\* The trove that the call predicts, and the rate it accepts: the user's, or the
\* rate read and the tolerance, or zero if nothing is borrowed.
Predicted(k) ==
    CASE k.request.op = "open" -> Create(k.request.params, Rate(k.view))
      [] k.request.op = "adjust" -> Adjust(ReadTrove(k.view), k.request.params, Rate(k.view))
      [] k.request.op = "close" -> EmptyTrove

RateLimit(k) ==
    IF k.request.limit # NoLimit THEN k.request.limit
    ELSE IF k.request.op = "open" \/ Borrows(k.request) THEN Rate(k.view) + Tolerance ELSE 0

\* Wrong variant: the gas limit is the estimate.
HeadroomNone(r) == UpdatesFeeTime(r)

\* Does the gas limit cover the update of the fee time: it is part of the
\* estimate, or addGasForPotentialLastFeeOperationTimeUpdate adds it.
Headroom(r) == UpdatesFeeTime(r) \/ r.op = "open" \/ Borrows(r)

\* All is answered: the estimate, for the latest block, rejects what would not
\* be accepted now; otherwise the transaction is sent.
Populate(c) ==
    LET k == call[c]
        populated == [k EXCEPT !.final = Predicted(k), !.limit = RateLimit(k),
                               !.paid = Headroom(k.request), !.view = NoView]
    IN
    /\ k.phase = "reading" /\ k.got = Needed(k.request)
    /\ \/ ~Accepted(k.request) /\ call' = [call EXCEPT ![c] = Idle]
       \/ /\ Accepted(k.request) /\ ~FeeAccepted(k.request, RateLimit(k))
          /\ call' = [call EXCEPT ![c] = [populated EXCEPT !.phase = "refused"]]
       \/ /\ Accepted(k.request) /\ FeeAccepted(k.request, RateLimit(k))
          /\ call' = [call EXCEPT ![c] = [populated EXCEPT !.phase = "sent"]]
    /\ UNCHANGED <<chain, bounds>>

\* The transaction is mined; what the wrapper parses from its events is the
\* trove it has led to.
Mine(c) ==
    LET r == call[c].request
        over(phase) == [call EXCEPT ![c] = [@ EXCEPT !.phase = phase]]
    IN
    /\ call[c].phase = "sent"
    /\ \/ UpdatesFeeTime(r) /\ ~call[c].paid /\ call' = over("outOfGas") /\ UNCHANGED chain
       \/ ~Accepted(r) /\ call' = over("reverted") /\ UNCHANGED chain
       \/ Accepted(r) /\ ~FeeAccepted(r, call[c].limit) /\ call' = over("refused") /\ UNCHANGED chain
       \/ /\ Accepted(r) /\ FeeAccepted(r, call[c].limit)
          /\ UpdatesFeeTime(r) => call[c].paid
          /\ chain' = Executed(r)
          /\ call' = [Noted({"own"} \cup IF Borrows(r) THEN {"decay"} ELSE {}) EXCEPT
                        ![c] = [call[c] EXCEPT !.phase = "mined", !.result = After(r)]]
    /\ UNCHANGED bounds

-----------------------------------------------------------------------------
(* The chain *)

Happens(kind, after) ==
    /\ events < MaxEvents /\ events' = events + 1
    /\ chain' = after
    /\ call' = Noted({kind})
    /\ UNCHANGED calls

Tick ==
    /\ chain["now"] < MaxTicks
    /\ chain' = [chain EXCEPT !["now"] = @ + 1]
    /\ call' = Noted({"tick"})
    /\ UNCHANGED bounds

\* Somebody redeems or borrows, a trove is liquidated and its collateral and
\* debt redistributed, the user's trove is liquidated, recovery mode changes.
Redeemed == Happens("raise", [FeeNoted(RaisedRate) EXCEPT !["last"] = chain["now"]])
Borrowed == Happens("decay", FeeNoted(Decayed))
Redistributed ==
    Happens("redistribute", [chain EXCEPT !["redistributed"] = Add(@, Share)])
Liquidated ==
    chain["trove"].open /\ Happens("own", [chain EXCEPT !["trove"] = Closed])
ModeChanges == Happens("recovery", [chain EXCEPT !["recovery"] = ~@])

ChainMoves == Tick \/ Redeemed \/ Borrowed \/ Redistributed \/ Liquidated \/ ModeChanges

BorrowingNext ==
    \/ \E c \in Call :
          \/ \E r \in Request : Begin(c, r)
          \/ \E p \in Needed(call[c].request) : Answer(c, p)
          \/ Populate(c) \/ Mine(c)
    \/ ChainMoves

BorrowingSpec == BorrowingInit /\ [][BorrowingNext]_borrowingVars

-----------------------------------------------------------------------------
(* Properties *)

\* PopulatableEthersLiquity.ts:726-727: the trove for which adjustTrove searches
\* hints is the one the transaction leads to, although trove, snapshot, total
\* and fees are read apart, unless the trove was changed or received a
\* redistribution since or, if it borrows, the rate changed or another fee
\* operation happened between the answers.
Spoilers(k) ==
    {"own", "redistribute"} \cup IF Borrows(k.request) THEN {"raise", "recovery", "tick"} ELSE {}
PredictionExact ==
    \A c \in Call :
       LET k == call[c] IN
       /\ k.phase = "mined" /\ k.since \cap Spoilers(k) = {}
       /\ Borrows(k.request) => "decay" \notin k.torn
       => k.final = k.result

\* PopulatableEthersLiquity.ts:605-608: with the default limit a borrowing is
\* refused for its rate only if the base rate was raised or recovery mode
\* changed since the fees were read, or if another fee operation happened while
\* they were: never because time has passed.
RefusedOnlyIfRaised ==
    \A c \in Call :
       LET k == call[c] IN
       k.phase = "refused" /\ k.request.limit = NoLimit =>
           {"raise", "recovery"} \cap k.since # {} \/ "decay" \in k.torn

\* PopulatableEthersLiquity.ts:70-71: no transaction runs out of gas because a
\* minute has passed, since its estimate, after the last fee operation.
NeverOutOfGas == \A c \in Call : call[c].phase # "outOfGas"

\* Trove.ts:701-703, Trove.test.ts:90: the change that leads from the user's
\* trove to a wanted one has exactly that effect, except that the debt may be
\* one unit higher; a creation and an adjustment keep this through their
\* parameters alone (recreate, adjustTo).
Reaches(t, u) == t.collateral = u.collateral /\ t.debt \in {u.debt, u.debt + 1}
PlanReaches ==
    \A u \in Wanted :
       LET t == CurrentTrove
           change == WhatChanged(t, u, CurrentRate)
       IN t # u /\ (CanClose(t) \/ IsEmpty(t)) /\ change.type # "invalidCreation" =>
          /\ Reaches(Apply(t, change, CurrentRate), u)
          /\ change.type = "creation" => Reaches(Create(change.params, CurrentRate), u)
          /\ change.type = "adjustment" =>
                IsAdjustment(change.params) /\ Reaches(Adjust(t, change.params, CurrentRate), u)
=============================================================================
