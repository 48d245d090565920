------------------------------ MODULE GasPrice ------------------------------
(***************************************************************************)
(* The gas price of a liquidation: liquidate of src/controllers/main.js    *)
(* with getMempoolStats and getMaxLiquidationGasPrice of mempool.js.  An   *)
(* attempt reads the pending transactions twice and, without competitors,  *)
(* the node's price, decides, and sends; lastGasPrice is kept between      *)
(* attempts.  The mempool, the node's price and the signer are external.   *)
(***************************************************************************)
EXTENDS Integers, FiniteSets

CONSTANTS
    Pending,    \* external: transactions that may be pending; in turn if prices are equal
    NodePrice,  \* external: what getGasPrice of the node answers
    MaxBlockGas,
    LiquidationGas, \* gasLimit of a liquidation
    IncreaseValue,   \* gasIncreaseValue
    Buffer(_),  \* a price times gasPriceBuffer, which is more than 1 and not rounded away
    Reward,     \* inputs: highest profitable prices, one for each size of batch
    MaxEvents,  \* bound: changes of the mempool and the node's price, failed calls
    MaxAttempts \* bound: liquidations

ASSUME GasAssumption ==
    /\ Pending \subseteq [price : Nat \ {0}, turn : Nat, gas : Nat, rival : BOOLEAN]
    /\ \A t, u \in Pending : t.price = u.price /\ t.turn = u.turn => t = u
    /\ IsFiniteSet(Pending)
    /\ {MaxBlockGas, LiquidationGas, MaxEvents, MaxAttempts} \subseteq Nat
    /\ IncreaseValue \in Nat \ {0}
    /\ NodePrice \subseteq Nat /\ Reward \subseteq Nat
    /\ \A p \in NodePrice : Buffer(p) \in Nat
    /\ \A t \in Pending : Buffer(t.price) \in Nat /\ Buffer(t.price) > t.price

VARIABLES
    mempool, nodePrice,     \* external: pending transactions, price of the node
    attempt,        \* the attempt in progress
    lastGasPrice,   \* 0 for null
    dearest,        \* history: the highest profitable price of an attempt so far
    events, attempts

gasVars == <<mempool, nodePrice, attempt, lastGasPrice, dearest, events, attempts>>

\* "seen" and "rivals" are what the two reads of the mempool have answered.
NoAttempt == [phase |-> "idle", seen |-> {}, full |-> FALSE, lowest |-> 0,
         rivals |-> {}, price |-> 0, floor |-> FALSE, sent |-> 0]

GasInit ==
    /\ mempool = {} /\ nodePrice \in NodePrice /\ attempt = NoAttempt /\ lastGasPrice = 0 /\ dearest = 0
    /\ events = 0 /\ attempts = 0

-----------------------------------------------------------------------------
GasOf[txs \in SUBSET Pending] ==
    IF txs = {} THEN 0 ELSE LET t == CHOOSE t \in txs : TRUE IN t.gas + GasOf[txs \ {t}]
PriceMax(txs) ==
    IF txs = {} THEN 0 ELSE CHOOSE p \in {t.price : t \in txs} : \A t \in txs : t.price <= p
PriceMin(txs) ==
    IF txs = {} THEN 0 ELSE CHOOSE p \in {t.price : t \in txs} : \A t \in txs : t.price >= p

\* A transaction and those before it: the most expensive come first, and the sort
\* keeps the order of those with one price.
UpTo(t, txs) == {u \in txs : u.price > t.price \/ (u.price = t.price /\ u.turn <= t.turn)}

\* Wrong variant: room for the transaction itself is not asked for.
FitsAlone(t, txs) == GasOf[UpTo(t, txs)] < MaxBlockGas
\* Does a liquidation still fit into a block after t.
Fits(t, txs) == GasOf[UpTo(t, txs)] + LiquidationGas < MaxBlockGas

\* getMempoolStats: the lowest price of all if none leaves room.
LowestInBlock(txs) ==
    LET within == {t \in txs : Fits(t, txs)}
    IN IF within = {} THEN PriceMin(txs) ELSE PriceMin(within)
IsBlockFull(txs) == GasOf[txs] > MaxBlockGas

\* A failed request counts as an empty mempool.
Answers(phase, e) == attempt.phase = phase /\ events + e <= MaxEvents /\ events' = events + e

Begin ==
    /\ attempt.phase \in {"idle", "skipped", "sent"} /\ attempts < MaxAttempts
    /\ attempts' = attempts + 1
    /\ attempt' = [NoAttempt EXCEPT !.phase = "stats"]
    /\ UNCHANGED <<mempool, nodePrice, lastGasPrice, dearest, events>>

Stats(txs, fault) ==
    /\ Answers("stats", fault)
    /\ attempt' = [attempt EXCEPT !.phase = "rivals", !.seen = txs,
                                  !.full = IsBlockFull(txs), !.lowest = LowestInBlock(txs)]
    /\ UNCHANGED <<mempool, nodePrice, lastGasPrice, dearest, attempts>>

\* Wrong variant: the price of the dearest competitor is matched, not exceeded.
OutbidMatch(txs) == PriceMax(txs)
Outbid(txs) == PriceMax(txs) + IncreaseValue

\* getMaxLiquidationGasPrice: liquidations of the same troves.
Rivals(txs, fault) ==
    LET rivals == {t \in txs : t.rival} IN
    /\ Answers("rivals", fault)
    /\ attempt' = [attempt EXCEPT !.phase = IF rivals = {} THEN "node" ELSE "decide",
                                  !.rivals = rivals,
                                  !.price = IF rivals = {} THEN 0 ELSE Outbid(rivals)]
    /\ UNCHANGED <<mempool, nodePrice, lastGasPrice, dearest, attempts>>

\* Without competitors: the node's price, and at least that of earlier attempts.
NodeAnswers ==
    /\ attempt.phase = "node"
    /\ attempt' = [attempt EXCEPT !.phase = "decide",
                     !.price = IF Buffer(nodePrice) < lastGasPrice THEN lastGasPrice ELSE Buffer(nodePrice)]
    /\ UNCHANGED <<mempool, nodePrice, lastGasPrice, dearest, events, attempts>>

Raised == attempt.full /\ attempt.price < attempt.lowest
Offer == IF Raised THEN Buffer(attempt.lowest) ELSE attempt.price

\* Wrong variant: the price is kept although the attempt is given up.
DecideKeepsFirst(reward) ==
    /\ attempt.phase = "decide"
    /\ attempt' = [attempt EXCEPT !.price = Offer, !.floor = Raised,
                                  !.phase = IF Offer > reward THEN "skipped" ELSE "sending"]
    /\ lastGasPrice' = IF Offer > lastGasPrice THEN Offer ELSE lastGasPrice
    /\ dearest' = IF reward > dearest THEN reward ELSE dearest
    /\ UNCHANGED <<mempool, nodePrice, events, attempts>>

\* The rows are marked, and what the liquidation brings in at the price of the
\* moment is compared: skipped if not profitable; only then is the price kept for later.
Decide(reward) ==
    /\ attempt.phase = "decide"
    /\ attempt' = [attempt EXCEPT !.price = Offer, !.floor = Raised,
                                  !.phase = IF Offer > reward THEN "skipped" ELSE "sending"]
    /\ lastGasPrice' = IF Offer <= reward /\ Offer > lastGasPrice
                       THEN Offer ELSE lastGasPrice
    /\ dearest' = IF reward > dearest THEN reward ELSE dearest
    /\ UNCHANGED <<mempool, nodePrice, events, attempts>>

\* send of a populated transaction takes no argument: the signer asks the node
\* for a price, and the limit is that of the estimate.
Send ==
    /\ attempt.phase = "sending"
    /\ attempt' = [attempt EXCEPT !.phase = "sent", !.sent = nodePrice]
    /\ UNCHANGED <<mempool, nodePrice, lastGasPrice, dearest, events, attempts>>

\* The node fails to tell its price or to accept the transaction: liquidate
\* catches that.
Fails ==
    /\ attempt.phase \in {"node", "sending"} /\ events < MaxEvents /\ events' = events + 1
    /\ attempt' = NoAttempt
    /\ UNCHANGED <<mempool, nodePrice, lastGasPrice, dearest, attempts>>

\* Others send and have mined, the price of the node moves.
PoolChanges(t) ==
    /\ events < MaxEvents /\ events' = events + 1
    /\ mempool' = IF t \in mempool THEN mempool \ {t} ELSE mempool \cup {t}
    /\ UNCHANGED <<nodePrice, attempt, lastGasPrice, dearest, attempts>>
NodeChanges(p) ==
    /\ events < MaxEvents /\ events' = events + 1 /\ nodePrice' = p
    /\ UNCHANGED <<mempool, attempt, lastGasPrice, dearest, attempts>>

GasNext ==
    \/ Begin
    \/ Stats(mempool, 0) \/ Stats({}, 1) \/ Rivals(mempool, 0) \/ Rivals({}, 1)
    \/ NodeAnswers \/ Fails \/ Send
    \/ \E reward \in Reward : Decide(reward)
    \/ \E t \in Pending : PoolChanges(t)
    \/ \E p \in NodePrice : NodeChanges(p)

GasSpec == GasInit /\ [][GasNext]_gasVars

-----------------------------------------------------------------------------
(* Properties *)

Offered == attempt.phase \in {"skipped", "sending", "sent"}

\* README.md:25, mempool.js:95: a price that was raised because the block is full
\* ensures that the liquidation fits into a block with the transactions seen
\* that pay at least as much; but only if the most expensive one leaves room.
RaisedPriceFits ==
    /\ Offered /\ attempt.floor
    /\ \E t \in attempt.seen : Fits(t, attempt.seen)
    => GasOf[{t \in attempt.seen : t.price >= attempt.price}] + LiquidationGas < MaxBlockGas

\* main.js:197-215: the price that is offered exceeds that of every liquidation
\* of the same troves that the second read has seen, whatever the first saw and
\* whatever earlier attempts offered.
OutbidsSeen == Offered => \A t \in attempt.rivals : attempt.price > t.price

\* main.js:204-241: the price that later attempts start from is one that was
\* profitable for some earlier attempt, never that of a skipped one.
LastPriceAffordable == lastGasPrice <= dearest

\* README.md:24: a liquidation that is sent pays more than the competing ones
\* that were found.  Violated.
SentOutbids == attempt.phase = "sent" => \A t \in attempt.rivals : attempt.sent > t.price
=============================================================================
