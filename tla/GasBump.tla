------------------------------ MODULE GasBump -------------------------------
(***************************************************************************)
(* listenHigherGasPriceTx of src/controllers/main.js: after a liquidation  *)
(* transaction is sent, an interval timer fires every five seconds.  Each  *)
(* firing asks for the receipts of all transactions sent so far, looks for *)
(* competing transactions in the mempool, and may send a replacement with  *)
(* the same nonce and a higher gas price.  The timer does not wait for the *)
(* awaits of the previous firing: slow RPC answers make firings overlap.   *)
(* The node, its mempool, the miners and competing liquidators are         *)
(* external.                                                               *)
(***************************************************************************)
EXTENDS Integers, Sequences, FiniteSets

CONSTANTS
    Slot,        \* firings of the timer that may overlap
    Tries,       \* nrTryWithHighGas (5)
    FirstPrice,  \* gas price of the transaction to watch
    Increase,    \* gasIncrease of the configuration
    Ceiling,     \* first gas price above the profitability threshold
    RivalPrice,  \* gas prices of competing transactions
    MaxFaults    \* bound: failed RPC calls

ASSUME SlotAssumption == IsFiniteSet(Slot) /\ Slot # {}
ASSUME PriceAssumption ==
    /\ Tries \in Nat /\ MaxFaults \in Nat
    /\ {FirstPrice, Increase, Ceiling} \cup RivalPrice \subseteq Nat \ {0}

VARIABLES
    sent,      \* gas prices of the transactions accepted by the node, in order
    known,     \* txList: transactions whose send has resolved
    newest,    \* newLiqTx
    tries,     \* nrTryWithHighGas
    confirmed, \* confirmedTx, 0 for null
    ticking,   \* is the interval on
    result,    \* the promise, and the transaction it resolved to
    tick,      \* the firings in progress
    pool,      \* external: our transaction in the mempool, 0 if none
    mined,     \* external: our mined transaction, 0 if none
    rival,     \* external: gas price of a competitor's transaction, 0 if none
    late,      \* have the 60 seconds passed
    faults,    \* counter of failed calls
    lost,      \* history: transactions accepted by a send that rejected
    overlap,   \* history: two firings were in progress at once
    selfbid    \* history: we have outbid a transaction of our own

bot == <<known, newest, tries, confirmed, ticking, result>>
node == <<sent, pool, mined>>
env == <<rival, late>>
history == <<lost, overlap, selfbid>>
vars == <<sent, known, newest, tries, confirmed, ticking, result, tick,
          pool, mined, rival, late, faults, lost, overlap, selfbid>>

\* A firing: phase, curTx, isTimeout, the transactions whose receipts it asks
\* for, the one of them mined already when it asked, and the price it bids.
Idle == [ph |-> "idle", cur |-> 1, late |-> FALSE, asked |-> {1}, was |-> 0, bid |-> 0]

\* The firing t goes on to the next await with another curTx and bid.
Goes(t, ph, cur, bid) ==
    [ph |-> ph, cur |-> cur, late |-> t.late, asked |-> t.asked, was |-> t.was, bid |-> bid]

Init ==
    /\ sent = <<FirstPrice>> /\ known = {1} /\ newest = 1
    /\ tries = Tries /\ confirmed = 0 /\ ticking = TRUE
    /\ result = [done |-> FALSE, tx |-> 0]
    /\ tick = [s \in Slot |-> Idle]
    /\ pool = 1 /\ mined = 0 /\ rival = 0 /\ late = FALSE
    /\ faults = 0 /\ lost = 0 /\ overlap = FALSE /\ selfbid = FALSE

\* The interval fires: curTx and the timeout are read before the first await.
Fire(s) ==
    /\ ticking /\ tick[s].ph = "idle"
    /\ tick' = [tick EXCEPT ![s] =
          [ph |-> "receipts", cur |-> newest, late |-> late, asked |-> known,
           was |-> IF mined \in known THEN mined ELSE 0, bid |-> 0]]
    /\ overlap' = (overlap \/ \E u \in Slot : tick[u].ph # "idle")
    /\ UNCHANGED <<bot, node, env, faults, lost, selfbid>>

\* A receipt with a confirmation arrives: confirmedTx is shared by all firings.
ReceiptArrives(s) ==
    /\ tick[s].ph = "receipts" /\ mined \in tick[s].asked
    /\ confirmed' = mined
    /\ UNCHANGED <<known, newest, tries, ticking, result, tick, node, env, faults, history>>

End(s) == tick' = [tick EXCEPT ![s] = Idle]

\* Only the first resolve of the promise counts.
Resolve ==
    /\ ticking' = FALSE
    /\ result' = IF result.done THEN result ELSE [done |-> TRUE, tx |-> confirmed]

\* Wrong variant: the receipts are asked for, but not awaited.
ReceiptsAnsweredNoAwait(s) ==
    /\ tick[s].ph = "receipts"
    /\ \/ /\ confirmed # 0 \/ tries <= 0 \/ tick[s].late
          /\ Resolve /\ End(s)
       \/ /\ confirmed = 0 /\ tries > 0 /\ ~tick[s].late
          /\ tick' = [tick EXCEPT ![s] = Goes(tick[s], "mempool", tick[s].cur, 0)]
          /\ UNCHANGED <<ticking, result>>
    /\ UNCHANGED <<known, newest, tries, confirmed, node, env, faults, history>>

\* Wrong variant: a firing that finds no tries left ends without resolving.
ReceiptsAnsweredNoTries(s) ==
    /\ tick[s].ph = "receipts"
    /\ tick[s].was # 0 => confirmed = tick[s].was
    /\ \/ /\ confirmed # 0 \/ (tries > 0 /\ tick[s].late)
          /\ Resolve /\ End(s)
       \/ /\ confirmed = 0 /\ tries <= 0
          /\ End(s)
          /\ UNCHANGED <<ticking, result>>
       \/ /\ confirmed = 0 /\ tries > 0 /\ ~tick[s].late
          /\ tick' = [tick EXCEPT ![s] = Goes(tick[s], "mempool", tick[s].cur, 0)]
          /\ UNCHANGED <<ticking, result>>
    /\ UNCHANGED <<known, newest, tries, confirmed, node, env, faults, history>>

\* All receipts have arrived, among them that of a transaction that was mined
\* before it was asked for.
ReceiptsAnswered(s) ==
    /\ tick[s].ph = "receipts"
    /\ tick[s].was # 0 => confirmed = tick[s].was
    /\ \/ /\ confirmed # 0 \/ tries <= 0 \/ tick[s].late
          /\ Resolve /\ End(s)
       \/ /\ confirmed = 0 /\ tries > 0 /\ ~tick[s].late
          /\ tick' = [tick EXCEPT ![s] = Goes(tick[s], "mempool", tick[s].cur, 0)]
          /\ UNCHANGED <<ticking, result>>
    /\ UNCHANGED <<known, newest, tries, confirmed, node, env, faults, history>>

\* A receipt call rejects: the firing ends there.
ReceiptFails(s) ==
    /\ tick[s].ph = "receipts" /\ faults < MaxFaults
    /\ End(s) /\ faults' = faults + 1
    /\ UNCHANGED <<bot, node, env, history>>

\* getMaxLiquidationGasPrice: the highest price of a pending transaction with
\* the same data, ours included; 0 when the mempool cannot be read.
Price(i) == IF i = 0 THEN 0 ELSE sent[i]
Highest == IF rival > Price(pool) THEN rival ELSE Price(pool)

\* GAS_RATE_TO_BUMPTX is 1.4.
Bid(cur, highest) ==
    IF (highest + Increase) * 5 < cur * 7
    THEN (cur * 7) \div 5 + Increase
    ELSE highest + Increase

\* Wrong variant: outbids what is above the first transaction, not above curTx.
MempoolReadFirst(s) ==
    /\ tick[s].ph = "mempool"
    /\ \E highest \in {Highest, 0} :
          LET bid == Bid(Price(1), highest)
              raise == highest > Price(1) /\ bid < Ceiling
          IN  /\ \/ raise /\ tick' = [tick EXCEPT ![s] = Goes(tick[s], "bidding", tick[s].cur, bid)]
                 \/ ~raise /\ End(s)
              /\ selfbid' = (selfbid \/ (raise /\ rival <= Price(1)))
    /\ UNCHANGED <<bot, node, env, faults, lost, overlap>>

\* The mempool has been read: outbid what is above curTx, if that still pays.
MempoolRead(s) ==
    /\ tick[s].ph = "mempool"
    /\ \E highest \in {Highest, 0} :
          LET cur == Price(tick[s].cur)
              bid == Bid(cur, highest)
              raise == highest > cur /\ bid < Ceiling
          IN  /\ \/ raise /\ tick' = [tick EXCEPT ![s] = Goes(tick[s], "bidding", tick[s].cur, bid)]
                 \/ ~raise /\ End(s)
              /\ selfbid' = (selfbid \/ (raise /\ rival <= cur))
    /\ UNCHANGED <<bot, node, env, faults, lost, overlap>>

\* The node takes a replacement that pays more, as long as the nonce is free.
Acceptable(s) == mined = 0 /\ tick[s].bid > Price(pool)
Broadcast(s) ==
    /\ tick[s].ph = "bidding" /\ Acceptable(s)
    /\ sent' = Append(sent, tick[s].bid)
    /\ pool' = Len(sent) + 1
    /\ tick' = [tick EXCEPT ![s] = Goes(tick[s], "sent", Len(sent) + 1, tick[s].bid)]
    /\ UNCHANGED <<bot, mined, env, faults, history>>

\* Wrong variant: newLiqTx is assigned although the send rejected, so it names a
\* transaction that does not exist.
SendRejectsKept(s) ==
    /\ tick[s].ph = "bidding"
    /\ IF Acceptable(s) THEN faults < MaxFaults /\ faults' = faults + 1
                        ELSE UNCHANGED faults
    /\ newest' = Len(sent) + 1
    /\ End(s)
    /\ UNCHANGED <<known, tries, confirmed, ticking, result, node, env, history>>

\* liquity.send.liquidate rejects: the firing ends there.
SendRejects(s) ==
    /\ tick[s].ph = "bidding"
    /\ IF Acceptable(s) THEN faults < MaxFaults /\ faults' = faults + 1
                        ELSE UNCHANGED faults
    /\ End(s)
    /\ UNCHANGED <<bot, node, env, history>>

\* Wrong variant: tries are not counted.
SendResolvesUncounted(s) ==
    /\ tick[s].ph = "sent"
    /\ newest' = tick[s].cur /\ known' = known \cup {tick[s].cur}
    /\ End(s)
    /\ UNCHANGED <<tries, confirmed, ticking, result, node, env, faults, history>>

\* liquity.send.liquidate resolves, in whatever order the answers arrive.
SendResolves(s) ==
    /\ tick[s].ph = "sent"
    /\ newest' = tick[s].cur /\ known' = known \cup {tick[s].cur}
    /\ tries' = tries - 1
    /\ End(s)
    /\ UNCHANGED <<confirmed, ticking, result, node, env, faults, history>>

\* The node took the transaction, but the answer is lost.
AnswerLost(s) ==
    /\ tick[s].ph = "sent" /\ faults < MaxFaults
    /\ faults' = faults + 1 /\ lost' = lost + 1
    /\ End(s)
    /\ UNCHANGED <<bot, node, env, overlap, selfbid>>

Mine ==
    /\ pool # 0
    /\ mined' = pool /\ pool' = 0
    /\ UNCHANGED <<sent, bot, tick, env, faults, history>>

\* A competitor sends or replaces its transaction, or it leaves the mempool.
RivalMoves ==
    /\ rival' \in {0} \cup RivalPrice
    /\ UNCHANGED <<bot, node, tick, late, faults, history>>

TimePasses ==
    /\ ~late /\ late' = TRUE
    /\ UNCHANGED <<bot, node, tick, rival, faults, history>>

Firing(s) ==
    \/ Fire(s) \/ ReceiptsAnswered(s) \/ MempoolRead(s)
    \/ Broadcast(s) \/ SendRejects(s) \/ SendResolves(s)

Next ==
    \/ \E s \in Slot : Firing(s) \/ ReceiptArrives(s) \/ ReceiptFails(s) \/ AnswerLost(s)
    \/ Mine \/ RivalMoves \/ TimePasses

Spec == Init /\ [][Next]_vars

\* The timer fires, the RPC calls are answered and time passes.
Fairness ==
    /\ \A s \in Slot : WF_vars(Firing(s)) /\ WF_vars(ReceiptArrives(s))
    /\ WF_vars(TimePasses)
FairSpec == Spec /\ Fairness

-----------------------------------------------------------------------------
(* Properties *)

Ids == 1..Len(sent)

\* Type correctness, with the references the code never checks: newLiqTx, the
\* members of txList, confirmedTx and every firing's curTx are transactions
\* that the node accepted.
TypeOK ==
    /\ sent \in Seq(Nat) /\ sent # << >>
    /\ known \subseteq Ids /\ newest \in Ids
    /\ tries \in Int /\ tries <= Tries
    /\ confirmed \in Ids \cup {0} /\ ticking \in BOOLEAN
    /\ result \in [done : BOOLEAN, tx : Ids \cup {0}]
    /\ tick \in [Slot -> [ph : {"idle", "receipts", "mempool", "bidding", "sent"},
                          cur : Ids, late : BOOLEAN, asked : SUBSET Ids,
                          was : Ids \cup {0}, bid : Nat]]
    /\ pool \in Ids \cup {0} /\ mined \in Ids \cup {0}
    /\ rival \in Nat /\ late \in BOOLEAN
    /\ faults \in Nat /\ lost \in Nat /\ overlap \in BOOLEAN /\ selfbid \in BOOLEAN

\* main.js:275, "maximum 5 times", holds up to the firings that overlap: each
\* reads the number of tries before its last two awaits and lowers it after
\* them, so every firing but one may add a replacement; so may a lost answer.
BumpsBounded == Len(sent) - 1 <= Tries + (Cardinality(Slot) - 1) + lost

\* Its inductive form: replacements are counted, and a firing past the check
\* has a try left or another firing to blame.
Counted == {s \in Slot : tick[s].ph = "sent"}
Committed == {s \in Slot : tick[s].ph \in {"mempool", "bidding", "sent"}}
BumpsInv ==
    /\ Len(sent) - 1 = (Tries - tries) + (Cardinality(Counted) + lost)
    /\ Cardinality(Committed) <= tries + (Cardinality(Slot) - 1)

\* The bot takes a transaction of its own for a competitor's only when firings
\* overlap or the answer to a send was lost.
SelfbidExcused == selfbid => overlap \/ lost > 0

\* The promise never resolves to null over a transaction of txList that had
\* been mined when the deciding firing asked for the receipts.
NullOnlyUnseen ==
    [][\A s \in Slot :
          ~result.done /\ result'.done /\ result'.tx = 0 /\ tick'[s] # tick[s]
          => tick[s].was = 0]_vars

\* The promise is settled in the end, so the run that awaits it goes on.
ListenEnds == <>result.done

\* main.js:275: a new transaction with a higher price is sent "maximum 5 times".
MaximumTries == Len(sent) - 1 <= Tries
=============================================================================
