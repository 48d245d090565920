# Zero liquidator: formal models

TLA+ models of the Zero liquidation bot and of the library it is built on: what
the bot does to its table of troves, to its pending transaction, to its gas price
and to its price timer; how the store of chain state under it behaves; how the
library plans, populates and sends transactions on troves, deposits, stakes and
redemptions while the chain moves; how its observers, the dashboard and the
deployment behave.  TLC checks the models on small instances; TLAPS proves the
main invariants for every value of the constants.  Paths below are relative to
the repository.

## The system

`start.js` starts an HTTP server with a socket for the dashboard and the bot,
`src/controllers/main.js`.  JavaScript runs one callback at a time, so the
concurrency of the system is that of callbacks: an interleaving can happen at an
`await` and nowhere else.  The models take the code between two awaits as one
step.

| component | state | operations | interacts with | hard behaviour | correct when |
|---|---|---|---|---|---|
| Trove table (`db.js`, `baseModel.js`, `troveModel.js`) | rows with id, owner, status, amounts | `addTrove`, `updateTrove`, `updateLiquidatingTrove`, `listTroves`, `getTrove`, totals | every task below, through single SQL statements | find-then-write without a transaction | rows tell the truth about their trove, no row is lost for good |
| Passes (`updateTrovesStatus`) | a listed page, the row being visited | one pass on every block, not awaited | table, chain | passes overlap each other and the runs | closed rows were closed, closed troves get closed rows |
| Runs (`tryToLiquidate`, `liquidate`, `handleSuccessfulLiquidation`) | the batch, the transaction | one run on load, one per price drop | table, mempool, chain, price watch | failures at each await, overlap, crash, restart | a liquidatable trove is tried, its row says how that ended |
| Gas bump listener (`listenHigherGasPriceTx`) | `newLiqTx`, `txList`, `nrTryWithHighGas`, `confirmedTx` | a firing every 5 s | node, mempool, competitors | firings overlap, answers come late, out of order or never | at most five replacements, none against itself, the promise settles and knows of confirmations |
| Liquidation events (`watchTroveLiquidated`) | handlers in progress | one handler per event | table, chain | races with passes and runs | the row keeps a meaningful status |
| Price watch (block handler in `start`) | `timer`, `oldState`, `newState` | block, interval, end of a run | store, runs | handlers of several blocks share two variables | every drop starts a run, one interval at a time |
| Mempool statistics (`mempool.js`, gas choice in `liquidate`) | `lastGasPrice` | two reads of the mempool, a read of the node's price, a decision, a send | runs, listener | block limit, empty mempool, a mempool that changes between the reads, a price remembered over attempts | the price fits the block, exceeds the competitors' and was once profitable |
| Store (`LiquityStore.ts`, `BlockPolledLiquityStore.ts`) | `_baseState`, `_derivedState`, `_extraState`, `_loaded`, timeout, listeners | `start`, its stop function, block, timeout, `subscribe` | provider, listeners, cache | fetches resolve in any order and after a stop | loaded once, one block at a time, quiet after stop |
| Cached reads (`_CachedReadableLiquity.ts`, `ReadableEthersLiquity.ts`) | none of their own | getters | store, chain | a read mixes cached and fresh values | what it mixes is consistent where the caller named a block |
| Arithmetic (`Decimal.ts`, `Trove.ts`, `Fees.ts`, `StabilityDeposit.ts`, `ZEROStake.ts`) | immutable values | pure | all | rounding, clamping, division by zero | changes applied to their origin give the target |
| Trove transactions (`PopulatableEthersLiquity.ts`) | parameters, answers, a populated, sent or mined transaction | open, adjust, close | chain, arithmetic | parts of the chain read in separate calls, and used after it has moved | hints, rate limit and gas limit still fit when it is mined |
| Deposit and stake transactions | an amount read, a planned change | plan, deposit, withdraw, move gains | chain | liquidations and other transactions between read, plan and block | the change has the effect that was planned |
| Redemptions and hints | a truncated amount, limits, hints; trials, seed, nearest trove | `redeemZUSD`, `increaseAmountByMinimumNetDebt`, `_findHints` | chain | search loops over a list that changes | what is mined is what was announced |
| Observers (`ObservableEthersLiquity.ts`) | debounce timer, highest block | watch | provider | bursts of events, from several filters | the newest event is reported in the end |
| Dashboard (`monitor.js`, `public/src/index.js`) | the client's page, filter and table | list, turn, select, interval | table, server | two queries over a moving table, answers out of order | pages and totals agree, the user's choice is kept |
| Deployment (`utils/deploy.ts`, `hardhat.config.ts`) | contracts made so far, counted nonces | one transaction after another, the task again | node | failures half way, pending transactions of an earlier run | a rerun is not rejected for what an earlier run left |

`PROJECT.json` lists the same components with their state of modelling, and
under "hazards" the lines of the code where each hard behaviour bites.

## Modules

| module | what it models |
|---|---|
| `TroveTable` | the table as a sequence of rows (position = id), and the four SQL statements |
| `Liquidator` | passes, runs and event handlers around the table; chain, node and supervisor as environment |
| `MCLiquidator` | symmetry for TLC |
| `LiquidatorProofs` | theorems about `Liquidator` |
| `GasBump`, `MCGasBump` | the gas bump listener |
| `GasPrice`, `MCGasPrice` | the statistics of the mempool and the price a liquidation decides on and is sent at |
| `PriceWatch`, `MCPriceWatch` | the block handler and its interval |
| `BotProofs` | theorems about `GasBump`, `PriceWatch` and `GasPrice` |
| `MCBot` | these three in one run: a behaviour is one of the part chosen in its initial state |
| `StoreSnapshot` | abstract specification of the store: loaded once, then the state of one block at a time |
| `BlockPolledStore`, `StoreProofs` | the store, its listeners and the cached `getTroves` and `getTrove`; refinement of `StoreSnapshot` |
| `FixedPoint` | `Decimal`: rounding operations on naturals, powers by squaring |
| `TroveMath` | `Trove`: create, adjust, apply, whatChanged, fees, redistribution |
| `Fees` | `Fees`: base rate with its decay, borrowing and redemption rate |
| `Borrowing`, `BorrowingProofs` | trove transactions from the call to the block |
| `Deposits`, `DepositProofs` | reading, planning and changing a stability deposit or a stake |
| `Redemption` | `redeemZUSD` and the increase of a truncated redemption |
| `HintSearch` | `_findHintsForNominalCollateralRatio` |
| `RedemptionProofs` | theorems about `Redemption` and `HintSearch`; it extends `BorrowingProofs` for the lemmas on rates |
| `Observers` | one watch function with its debounced listener |
| `Dashboard` | the client's table of troves and the two queries that fill it |
| `ViewProofs` | theorems about `Observers` and `Dashboard` |
| `DeployPlan`, `Deploy`, `DeployProofs` | the transactions of a deployment in order, and a deployment that fails and is run again |
| `MCParts` | the parts of the library, the dashboard and the deployment in one run, as `MCBot` does for those of the bot |

`Borrowing` composes `TroveMath` and `Fees` over `FixedPoint`, `Redemption` uses
`Fees`, `Deploy` takes its steps from `DeployPlan`, and `BlockPolledStore` is shown
to implement `StoreSnapshot`.  `MCBot` and `MCParts` are disjoint unions and not
compositions: they EXTEND their parts, which have no variable in common, so that the
invariants of the run are the definitions that the theorems name, and so that TLC
evaluates the assumptions of the parts.

Definitions that begin with the comment "Wrong variant" are not part of any
specification.  Each is the named definition with one plausible mistake, and
exists to show that a property notices that mistake.

### Liquidator

A slot of `Pass` or `Run` is one call in progress.  `step` is where the call
waits, and `job[t][o]` is the chain of awaits that `Promise.all` started for the
trove of owner `o` inside it: the next statement, the row id it remembers
(`exists.id`, `trove.dbId`, `liquidating.id`) and the status it has seen.  Each
SQL statement is an action (`AddFind`/`AddSave` for `addTrove`, `FilterFind` for
`filterLiquidateTroves`, `MarkRow`, `FailFind`/`FailSave` for
`updateLiquidatingTrove`, `WatchFind`/`WatchSave` for the event handler,
`PassVisit`/`PassClose` for the loop of a pass).  A rejection that nobody
handles ends the process where Node does so (`ExitOnRejection`); a crash may
come at any time; `pm2` restarts the process (`package.json`, `start:mainnet`),
and only the table survives.  Other borrowers and liquidators change troves at
any moment (`ChainStep`), a transaction is mined or dropped at any moment after
it was sent (`Mine`, `DropTx`).

What is abstracted: amounts, prices and ratios (which troves are below the
minimum is a free choice of `RunFilter`, whether the costs are too high is a
free choice between `RunSkip` and `RunSend`), the listener (`RunGivesUp`,
`RunReverted`, `RunSucceeded` are its outcomes as far as a run can tell; its inside
is `GasBump`), and the order within a page.

### GasBump

One listening call.  A slot is a firing of the timer in progress; `Fire`,
`ReceiptsAnswered`, `MempoolRead`, `SendResolves` are the stretches between its
awaits.  Transactions are numbered as the node accepts them (`sent` holds their
prices); `known` is `txList`, `newest` is `newLiqTx`.  `Broadcast` separates the
moment the node takes a replacement from the moment the bot learns of it, so an
answer may be late, come out of order or be lost.  Other liquidators
(`RivalMoves`) bid any of `RivalPrice`.  Prices are integers in a unit of the
gas price and the factor 1.4 is the fraction 7/5 rounded down.

### PriceWatch

A slot of `Handler` is a block handler whose awaits, interval or runs are alive.
`timer` and `old` are the variables shared by all handlers of `start`, `new[h]`
the variable of one handler.  The end of a run (`RunReturns`) acts on whatever
the shared variables hold by then.

### BlockPolledStore

A field of the state is represented by the block it was read at, and two fields
stand for all: `totalRedistributed`, which cached reads combine with troves, and
`"price"`, for the others (the user's own trove among them).  `FirstAnswer` answers
the calls of the initial fetch one by one, each for the block that is the latest
then, because they name no block; a block's fetch names its block and resolves as
a whole.  `round` is what a running `_notify` has still to visit: it runs to its
end before any other callback (`Idle`), but listeners may subscribe and
unsubscribe meanwhile.  `ReadStarts` is `getTroves`, or `getTrove` of one's own
address: `totalRedistributed` and, for one's own address, the trove come from the
store on a hit, and what is not hit is answered by the chain.

### GasPrice

An attempt is `liquidate` up to its send: `Stats` (the first read of the mempool),
`Rivals` (the second), `NodeAnswers`, `Decide`, `Send`.  `Decide` compares with the
highest price at which the batch is profitable, a free choice; `lastGasPrice` is
kept between attempts.  A transaction has a price, its gas and whether it
liquidates the same troves; `turn` orders those of equal price, which the sort of
`getMempoolStats` leaves in the node's order.  `Liquidator` has the same attempt as
one step, without prices.

### FixedPoint, TroveMath, Fees

`Decimal` values are naturals in units of `1/Digits`; each operation rounds the way
the code rounds (`mul` and `div` down, `_divCeil` up, `pow` by half-up multiplication
of the squares).  Powers are a recursive function, not an operator, so that proofs
can use them.  A parameter of a trove change that is left out counts as zero, which
is how `apply` reads it.

### Borrowing

`call[c]` is a call of `openTrove`, `adjustTrove` or `closeTrove` in progress.
`Begin` normalizes the parameters, `Answer` is one of the separate calls to the
contracts, each for the latest block, `Populate` predicts the trove for the hints,
fixes the highest rate and takes the estimate, `Mine` is the block.  In between the
chain moves: time, redemptions and borrowings of others, redistributions, a
liquidation of the trove itself, recovery mode.  `since` is the history of what has
happened since the first answer, `torn` of what has happened between answers.  The
contracts are external: rules about collateral ratios and balances are left out.

### Deposits, Redemption, HintSearch

`Deposits`: a read of four parts answered apart, the plan from the amount read to the
wanted one (`PlanChange`), its block (`MinePlan`), other transactions of the user and
liquidations, which only shrink a deposit; a stake is the same without liquidations
and without the check of the constructor.  `Redemption`: fees, total and hints are
answered apart, the amount is truncated to what the hints allow, populated, perhaps
increased, sent and mined; the list of troves and what the contracts make of a hint
are external.  `HintSearch`: the number of trials, the calls they are split into
with the seed passed from one to the next, and the last call for the position; which
trove a random number names is a free choice.

### Observers, Dashboard, Deploy

`Observers`: events of a filter arrive in order, those of different filters do not;
`Deliver` sets the timeout again, `Timeout` asks for the value at the highest block,
answers come in any order or fail.  `Dashboard`: a request lists and then counts, the
table of the bot changes in between, the answer sets page and rows; the interval and
the user make requests that overlap.  `Deploy` runs through a plan of transactions,
one at a time; the nonces of connections and transfers are counted from one
`getTransactionCount`, the others are the signer's.  A failed run leaves its last
transaction pending and the task begins again.

## Properties and runs

Passing runs:

| run | properties | bounds |
|---|---|---|
| `LiquidatorRuns` | `LostOnlyIfLiquidated`, `FailedOnlyIfTried`, `DuplicatesBounded` | 1 owner, 1 pass, 2 runs, 2 chain events: three writers of one row, which is the number that makes three duplicates |
| `LiquidatorBatch` | `TypeOK`, with the ownership of remembered row ids; `ClosedAfterTracked`: a row gets a closed status only if its trove had it while the row existed | 2 owners, batches of one, fatal rejections, 1 call of `tryToLiquidate`, 1 crash or failed call, 3 chain events: closed, reopened and closed again under a late verdict |
| `LiquidatorLive` | `TrackedEventually`, `ClosedEventually` | 1 owner, 1 pass, 1 run, 3 chain events, 1 fault |
| `Bot` | see the next table | one part per behaviour |
| `StoreListeners` | `QuietAfterStop`, `RoundEnds` | 2 listeners, 3 blocks, 2 starts, 1 fault |
| `StoreReads` | `TypeOK`, `NoAssertionFails`, `StaleOnlyIfOvertaken`, `TaggedReadsExact`, `UntaggedReadsForward`, `Implements` | 3 blocks, 2 starts, 1 fault, reads of block 2 and of no block, of one's own trove and of others |
| `Parts` | see the next table | one part per behaviour |

The parts of the runs `Bot` (the first three) and `Parts`:

| part | properties | bounds |
|---|---|---|
| `GasBump` | `TypeOK`, `BumpsBounded`, `SelfbidExcused`, `NullOnlyUnseen`, `ListenEnds` | 2 overlapping firings, 2 tries, two prices of a competitor (one below and one above the bump of the first transaction), 1 fault |
| `PriceWatch` | `OneInterval`, `MissedOnlyIfOutlived`, `Settles` | 2 handlers, 2 runs each, 3 prices, 1 fault |
| `GasPrice` | `RaisedPriceFits`, `OutbidsSeen`, `LastPriceAffordable` | 7 transactions that may be pending, two of them of one price, 2 prices of the node, 2 attempts, 4 events |
| `Borrowing` | `PredictionExact`: the trove that hints are searched for is the one the transaction leads to, except for what the property names; `RefusedOnlyIfRaised`: time alone never makes the default limit too low; `NeverOutOfGas`; `PlanReaches`: `whatChanged` followed by `apply`, `create` or `adjust` gives the wanted trove but for one unit of debt | 1 call, 6 requests, a trove with a debt of 61 or none, 1 event of the chain, 2 ticks (one minute), rates from 1 to 10 of 40 so that every rounding goes both ways |
| `Deposits` | `PlanHolds`, `ThrowsOnlyIfTouched` | amounts 0, 2 and 5, 2 liquidations, 3 transactions: a plan, one of the user before it and one between its answers |
| `Redemption` | `RedeemsWhatItSays`, `IncreaseIsNext`, `RedemptionRefusedOnlyIfRaised` | 2 troves, one of them redeemed in part, attempts below, at and above what can be redeemed, 2 ticks, 1 event |
| `HintSearch` | `DrawsEnough` | up to 4 troves, at most 2 trials in a call, 2 changes of the list |
| `Observers` | `SettlesOnNewest` | 2 filters, 3 blocks |
| `Dashboard` | `TotalFitsList`, `ChoiceKept` | pages of one row, 3 rows, 3 requests, 2 changes |
| `Deploy` | `RejectedOnlyIfDisturbed` | the full plan for the real price feed with one mock, 2 faults (a failure and the task run again), 1 other transaction, 4 pending transactions |

Names beginning with `Max` are bounds of the models, unless the comment on the
constant says that it is one of the code's (`MaxBatch`, `MaxTrials`,
`MaxIterations`, `MaxBlockGas`).  Deadlock is checked in every run but `Bot`, `Parts`
and `GasPriceSent`: a listening call, a transaction, a search or a deployment comes to
its end, and so does a gas price attempt when its events are used up.  The instances are the
smallest in which the interleaving that the property is about exists: two actors of
the kind that race, one object they race for, and one more event than a sequential
story needs.  The theorems below do not depend on them.

`LiquidatorLive` needs a page with room for the duplicates of its owner.  With two
owners and a page of two rows, two active rows of one owner can fill the page while
the other owner's closed trove waits; the code's page has 1000 rows (`main.js:42`),
and `DuplicatesBounded` limits the rows of an owner.  That rows beyond the page
starve while 1000 rows stay open is listed as a hazard and stated by no property.

Runs that show a disagreement between the code and its documentation:

| run | property | what TLC finds |
|---|---|---|
| `LiquidatorDropped` | `DroppedOnlyIfAttempting` (README.md:13-14) | `main.js:213` marks the batch before the cost check and `main.js:422` picks only open rows: after one skipped or interrupted run the trove is left out of every later one |
| `LiquidatorSuccess` | `SuccessRecorded` (README.md:3-4) | `main.js:365` uses the undeclared name `store`, so no liquidation is recorded as such |
| `GasBumpMaximum` | `MaximumTries` (main.js:275) | overlapping firings read `nrTryWithHighGas` before two awaits and lower it after |
| `PriceWatchMissed` | `EveryDropActedOn` (README.md:13) | a run that outlives its timer puts back an outdated `oldState` (`main.js:124`) |
| `GasPriceSent` | `SentOutbids` (README.md:24) | `send()` takes no argument (`PopulatableEthersLiquity.ts:198`): the price that was to outbid a competitor is not the price that is sent |

`BumpsBounded` and `MissedOnlyIfOutlived` state how far the code keeps the third and
fourth promise: how many replacements there can be at most, and that outlived runs
are the only reason for a missed drop.  `OutbidsSeen` says that the price decided
upon, if it were used, would keep the fifth.  More limits worth knowing:

* `LostOnlyIfLiquidated` tolerates that the event handler does erase the status of
  a row (`main.js:454` passes none and `updateTrove` writes NULL).
* `DuplicatesBounded` tolerates duplicates, because `addTrove` makes them.
* `RaisedPriceFits` fails for a block whose most expensive transaction already
  leaves no room; the property excludes it.
* `PlanReaches` allows one unit of debt: `whatChanged` divides by the fee and rounds
  up.  Where nothing but a creation below the reserve would do, it answers
  `invalidCreation`.
* `SettlesOnNewest` and `ChoiceKept` exclude answers that overtake earlier ones, and
  the interval's request for a page that an older answer had put back: the code
  orders neither.
* `RedeemsWhatItSays` excludes an increase of an amount that was truncated at the end
  of the list, for which `increaseAmountByMinimumNetDebt` finds nothing more.

### Fairness

* `LiquidatorLive`: every callback that is due runs, a pass starts again and
  again (each block starts one), `pm2` restarts a process that has ended, and a
  pending transaction is mined or dropped.  No run, chain event or fault is ever
  forced.
* `Bot`, for behaviours of `GasBump` (`BotFairness` is the fairness of the modules, each
  guarded by the choice of its part): the interval goes on firing, RPC calls are answered
  (a bounded number of them with an error) and 60 seconds pass.
* `Bot`, for behaviours of `PriceWatch`: blocks keep arriving and their awaits
  end, runs return, and intervals fire again and again.  The last is strong
  fairness: each block clears the interval of the previous one, and a chain whose
  blocks come faster than five seconds for ever would never let it fire.  RSK, which
  the bot runs on, has blocks every 30 seconds.
* `StoreListeners`: a loop that runs, runs to its end.  No fetch need be
  answered.

## Theorems

Every safety invariant and action property of the passing runs is proved by TLAPS, for
any value of the constants that satisfies the ASSUMEs of the modules.  TLC evaluates
these assumptions in the passing runs.  Most say that slots are finite sets, limits
positive and bounds natural numbers.  Those that say more:

* `DecaysUpTo(n)` of `Fees`: the powers of the decay factor fall with the minutes up to
  n, that is up to the bound on the model's clock.  `Decimal.pow` rounds at every
  multiplication, so this is a fact about the digits and not about powers; for the real
  factor, 0.999037758833783 with 18 digits, it has been computed for the first 400000
  minutes (about nine months without any fee operation).
* The minimum rate does not exceed the maximum rate, and the troves that can be redeemed
  have at least the minimum net debt, which is what the contracts enforce.
* `DeployAssumption` of `Deploy`: a plan creates a contract before it calls, connects or
  hands it over, and a transaction with a counted nonce has the index of its distance from
  the count.  The theorem is for any such plan; `PlansWellFormed` of `MCParts` has TLC
  confirm that each plan of `DeployPlan` is one, for every configuration.
* `Buffer` of `GasPrice`: a tenth of a price that may be pending is not rounded to
  nothing.

One theorem has a hypothesis of its own: `RejectionsExplained` assumes
`MaxFaults < 2 * MaxPending`: a run that fails and the task run again are two faults, which
leave one transaction pending at most, and a node takes no more than `MaxPending` of them.

* `Liquidator` (`LiquidatorProofs`): `TypeCorrect`, that is `TypeOK` is itself
  inductive, because the ids kept by tasks are kept with the rows they name;
  `ClosedTruthful` through `VerdictInv` (the history of a row contains the
  present status of its trove, and a verdict still to be written is in the
  history of the row it was listed with: without this conjunct nothing is known
  when `PassClose` writes); `LossJustified` through `LossInv` (a handler exists only
  for a liquidated owner); `FailureJustified` through `FailInv` (a run that
  listens, or is on its way to report a failure, has tried).  For `DuplicatesLimited` the
  number of active rows is not inductive.  `HeldBounded` counts, per owner, the rows that
  are active or that some task is about to make active, plus the insertions on their way,
  and the proof shows that each step that adds to one of these takes from another or
  belongs to a task that had none.
* `GasBump` (`BotProofs`): `TypeCorrect`; `BumpsLimited` through `BumpsInv`, which
  balances replacements sent against tries used, answers outstanding and answers lost,
  and bounds the firings past the check by the tries left; `NoSelfbidAlone` through
  `AloneInv` (while firings have not overlapped and no answer is lost, at most one firing
  is past its check, and the newest transaction is the last one sent, or the one that
  this firing waits for); `NullNeverKnown`, an action property, from the types.
* `PriceWatch` (`BotProofs`): `WatchTypeCorrect`, `OneIntervalAtATime`,
  `MissedOnlyThen` through `WatchInv` (until a run outlives its timer, `oldState`
  is no lower than the last price read).
* `GasPrice` (`BotProofs`): `RaisedPriceLeavesRoom`, `OffersOutbid` and
  `LastPriceWasProfitable` through `GasInv`: what was read is what is decided on, the price
  exceeds the competitors' from the second read on, a raised price is the lowest in the
  block with the buffer.  The first rests on `GasOfGrows`: the gas of more transactions is
  more, shown over subsets by their least counterexample.
* `BlockPolledStore` (`StoreProofs`): `TypeCorrect`; `AssertionsHold` and
  `StaleExcused` through `ShownInv` (unless a fetch was overtaken, all fetches in
  flight are for later blocks than the newest applied; the timeout of `_update` is
  set only while there is a state); `StoreImplements`,
  the refinement of `StoreSnapshot`: loading steps map to `Load`, updates to
  `Refresh` or a stutter, everything else to a stutter; `StoppedIsQuiet` through
  `QuietInv`; `TaggedExact` and `UntaggedForward` through `ReadInv`.
* `Borrowing` (`BorrowingProofs`): lemmas on the fixed-point operators first (bounds
  of rounded products and quotients, that a fee and the division by it cancel up to
  one unit), then on `TroveMath`.  `PlansReach` needs nothing but these and the types.
  `PredictionHolds` and `GasSuffices` go through `BorrowingInv`: each answer that a
  call has kept is still what the chain says unless an event that the call has noted
  came since, with the fee parts taken together because another fee operation changes
  two of them and leaves the rate.  That the powers in the rate are natural numbers is
  shown over the rounds of their loop by the least round that fails.
  `RefusalsExplained` goes through `LimitInv`: unless something that the property excuses
  was noted, the current rate is no higher than the rate by the fees that were read, and
  no higher than the limit that was fixed from it.  It rests on `RateFalls`: with equal base rate and time of the last
  operation, the rate does not grow with the clock.
* `Deposits` (`DepositProofs`): `DepositPlanHolds` and `DepositReadThrows` through
  `DepositInv` (a deposit never grows without a transaction of the user; the answers
  of a read are in the order of the amounts; a plan matches the account).
* `Redemption` (`RedemptionProofs`): the walk through the list of troves first, as a
  function that exists and is unique for its length.  Its lemmas say where it stops, what
  it leaves (`WalkStays`, `WalkStops`) and that walks with two amounts stay the difference
  apart until the smaller one ends (`WalkShift`).  From these, hints are right for the
  amount that they name (`HintsHold`), and the amount increased by the minimum net debt is
  the next that is (`NextHolds`).  `RedeemsAnnounced`, `IncreasesToNext` and
  `RedemptionRefusalsExplained` follow from `RedemptionInv`, which says of a redemption,
  for every event that it has not noted, that the list is the one the hints were read
  from, that the base rate that was read is no lower and the total no higher than those of
  the ledger, and that the limit is the one for the amount it carries, the increased amount
  included.  That these are enough is `LimitHolds`: less redeemed of a larger total at a
  lower base rate costs no more than the limit.
* `HintSearch` (`RedemptionProofs`): `SearchDrawsEnough` through `HintInv` (the trials
  made and those left add up, and each number drawn is the successor of the one before).
* `Observers` (`ViewProofs`): `WatchSettles`: the newest block is
  remembered or still to be delivered by some filter, and the last read asked for is
  for the block remembered, unless the timeout is set.
* `Dashboard` (`ViewProofs`): `TotalFits` and `ChoiceIsKept` through `TableInv`: each
  request in flight fits the table it was listed from unless a change was noted, and the
  newest request is for what the user chose last, unless an answer was overtaken.
* `Deploy` (`DeployProofs`): `RejectionsExplained` through `DeployInv`: as long as nobody
  else uses the account, the pending nonces follow on those that are mined, the nonces
  since the count was taken follow on it, and the runs that failed bound how many
  transactions are pending.

Only model-checked: the liveness properties (`TrackedEventually`,
`ClosedEventually`, `ListenEnds`, `Settles`, `RoundEnds`), which the prover does
not reach; that the powers of the real factor fall for ever, an induction over the
data, which is why `DecaysUpTo` is an assumption that TLC evaluates up to the bound of
the clock; and the five counterexamples.

## Not modelled, and why

* `types/index.ts` is generated from the ABIs; `types.ts` and the interfaces of
  lib-base have no behaviour.
* `EthersLiquity.ts` and `SendableEthersLiquity.ts` delegate each call; what they
  delegate to is modelled.  `_Multicall.ts` makes one call of several: the models
  answer them apart, which includes that they are answered together.
* `EthersLiquityConnection.ts`, `contracts.ts`, `parseLogs.ts`, `utils.js`: address
  books, ABI wrappers and formatting, without state that changes.  Of the
  configuration and of `hardhat.config.ts` only the constants and the deployment task
  that the models use are taken.
* Transactions that are one contract call each (transfers, approvals,
  `registerFrontend`, `setPrice`, `claimCollateralSurplus`), getters that convert one
  answer, `getTotals` and the balances and network data of the dashboard.
* `getAccountInfo` (`monitor.js:34`) uses a name declared nowhere, so it rejects for
  every account with a balance: it has no further behaviour.  `getMaxGasPrice` of
  `mempool.js` is called by nothing.
* Amounts and profits in `Liquidator`: whether a trove is below the minimum and whether
  a liquidation pays are free choices there.  `Liquidator`, `GasBump` and `GasPrice` are
  stages of one run and are checked apart; each leaves to a free choice what the others
  decide.
* Reorganisations of the chain, which no line of the code takes into account: a block
  once seen stays.
* The Solidity contracts, which are not in the repository, appear as the environment as
  far as the code relies on them.

What a continuation would add first: abstract specifications that the detailed ones
implement by a proof, of a listening call (it ends with null or with a confirmed
transaction that it sent) for `GasBump` and of the table's row (its status follows its
trove's) for `Liquidator`; and a composition of `Liquidator` with `GasPrice`, in which the
price decides whether a run skips.
