------------------------------ MODULE Deposits ------------------------------
(***************************************************************************)
(* A user's stability deposit or ZERO stake: StabilityDeposit and          *)
(* ZEROStake of lib-base, getStabilityDeposit and getZEROStake with their  *)
(* several calls, and the transactions of PopulatableEthersLiquity that    *)
(* change them.  A user reads, plans the change to a wanted amount and     *)
(* sends it; liquidations use up the deposit, and other transactions of    *)
(* the same user are mined, at any time.  The contracts are external.      *)
(***************************************************************************)
EXTENDS Naturals

CONSTANTS
    Amount,           \* inputs: wanted amounts, and amounts of other transactions
    Loss,             \* external: what a liquidation takes of a deposit
    MaxLiquidations,  \* bound: liquidations
    MaxTransactions   \* bound: transactions

ASSUME AmountAssumption ==
    /\ Amount \subseteq Nat /\ Loss \in Nat
    /\ MaxLiquidations \in Nat /\ MaxTransactions \in Nat

VARIABLES
    kind,       \* what the account is: "deposit" or "stake"
    account,    \* external: the account, by the parts that are read apart
    read, got,  \* the read: its parts, and which of them are answered
    plan,       \* the change that the user has planned and is sending
    mined,      \* the last planned transaction: wanted amount, what was left
                \* and what apply tells
    touched,    \* history: own transactions since the first answer
    shrunk,     \* history: has a liquidation happened since the first answer
    liquidations, transactions

depositVars ==
    <<kind, account, read, got, plan, mined, touched, shrunk, liquidations, transactions>>

\* initialZUSD, currentZUSD and collateralGain; zeroReward is like the last.
AccountPart == {"initial", "current", "gain"}
Nothing == [p \in AccountPart |-> 0]
NoPlan == [wanted |-> 0, deposit |-> 0, withdraw |-> 0, all |-> FALSE]
NoneMined == [plan |-> NoPlan, left |-> 0, applied |-> 0, touched |-> {}, shrunk |-> FALSE]

DepositsInit ==
    /\ kind \in {"deposit", "stake"} /\ account = Nothing
    /\ read = Nothing /\ got = {} /\ plan = NoPlan /\ mined = NoneMined
    /\ touched = {} /\ shrunk = FALSE /\ liquidations = 0 /\ transactions = 0

-----------------------------------------------------------------------------
(* Planning *)

\* StabilityDeposit.whatChanged.
DepositWhatChanged(current, wanted) ==
    [wanted |-> wanted,
     deposit |-> IF wanted > current THEN wanted - current ELSE 0,
     withdraw |-> IF wanted < current THEN current - wanted ELSE 0,
     all |-> wanted < current /\ wanted = 0]

\* ZEROStake.whatChanged: the same, as stakeZERO, unstakeZERO, unstakeAllZERO.
StakeWhatChanged(staked, wanted) == DepositWhatChanged(staked, wanted)

\* Wrong variant: a withdrawal of more than there is counts as none.
DepositApplyIgnoresExcess(current, change) ==
    IF change.withdraw > 0
    THEN IF current < change.withdraw THEN current ELSE current - change.withdraw
    ELSE current + change.deposit

\* StabilityDeposit.apply.
DepositApply(current, change) ==
    IF change.withdraw > 0
    THEN IF change.all \/ current <= change.withdraw THEN 0 ELSE current - change.withdraw
    ELSE current + change.deposit

\* ZEROStake.apply.
StakeApply(staked, change) == DepositApply(staked, change)

\* The calls of a read are answered one by one, each for the latest block.
AnswerPart(p) ==
    /\ plan = NoPlan /\ p \notin got
    /\ got' = got \cup {p}
    /\ read' = [read EXCEPT ![p] = account[p]]
    /\ touched' = IF got = {} THEN {} ELSE touched
    /\ shrunk' = (got # {} /\ shrunk)
    /\ UNCHANGED <<kind, account, plan, mined, liquidations, transactions>>

\* Wrong variant: amounts are compared the other way round.
ThrowsBelow == kind = "deposit" /\ got = AccountPart /\ read["current"] < read["initial"]

\* The constructor of StabilityDeposit throws; that of ZEROStake checks nothing.
Throws == kind = "deposit" /\ got = AccountPart /\ read["current"] > read["initial"]

\* The user plans the change from the amount read to a wanted one.
PlanChange(wanted) ==
    /\ plan = NoPlan /\ got = AccountPart /\ transactions < MaxTransactions
    /\ plan' = IF Throws \/ read["current"] = wanted THEN NoPlan
               ELSE IF kind = "deposit" THEN DepositWhatChanged(read["current"], wanted)
               ELSE StakeWhatChanged(read["current"], wanted)
    /\ got' = {} /\ read' = Nothing
    /\ transactions' = transactions + 1
    /\ UNCHANGED <<kind, account, mined, touched, shrunk, liquidations>>

-----------------------------------------------------------------------------
(* Transactions: each pays out the gain *)

Holding(amount) == [initial |-> amount, current |-> amount, gain |-> 0]

\* depositZUSDInStabilityPool, stakeZERO.
Provided(amount) == Holding(account["current"] + amount)

\* withdrawZUSDFromStabilityPool, unstakeZERO: no more than there is.
Withdrawn(amount) ==
    Holding(IF amount < account["current"] THEN account["current"] - amount ELSE 0)

\* The planned transaction is mined; a withdrawal from an account that was
\* emptied before is reverted.
MinePlan ==
    /\ plan # NoPlan
    /\ \/ plan.withdraw > 0 /\ account["initial"] = 0 /\ UNCHANGED <<account, mined>>
       \/ /\ plan.withdraw > 0 /\ account["initial"] > 0
          /\ account' = Withdrawn(plan.withdraw)
          /\ mined' = [plan |-> plan, left |-> account'["current"],
                       applied |-> DepositApply(account["current"], plan),
                       touched |-> touched, shrunk |-> shrunk]
       \/ /\ plan.withdraw = 0
          /\ account' = Provided(plan.deposit)
          /\ mined' = [plan |-> plan, left |-> account'["current"],
                       applied |-> DepositApply(account["current"], plan),
                       touched |-> touched, shrunk |-> shrunk]
    /\ plan' = NoPlan
    /\ UNCHANGED <<kind, read, got, touched, shrunk, liquidations, transactions>>

\* Another transaction of the user is mined: a deposit or stake, a withdrawal,
\* or one that moves only the gain (withdrawGainsFromStabilityPool,
\* withdrawGainsFromStaking, transferCollateralGainToTrove).
MineOther(amount) ==
    /\ transactions < MaxTransactions /\ transactions' = transactions + 1
    /\ \/ account' = Provided(amount) /\ touched' = touched \cup {"deposit"}
       \/ /\ account["initial"] > 0
          /\ account' = Withdrawn(amount) /\ touched' = touched \cup {"withdrawal"}
       \/ /\ account["gain"] > 0
          /\ account' = Withdrawn(0) /\ touched' = touched \cup {"gain"}
    /\ UNCHANGED <<kind, read, got, plan, mined, shrunk, liquidations>>

\* A liquidation takes of a deposit and gives a gain for it.
Liquidation ==
    /\ kind = "deposit" /\ account["current"] > 0
    /\ liquidations < MaxLiquidations /\ liquidations' = liquidations + 1
    /\ LET lost == IF Loss < account["current"] THEN Loss ELSE account["current"]
       IN account' = [account EXCEPT !["current"] = @ - lost, !["gain"] = @ + lost]
    /\ shrunk' = TRUE
    /\ UNCHANGED <<kind, read, got, plan, mined, touched, transactions>>

DepositsNext ==
    \/ \E p \in AccountPart : AnswerPart(p)
    \/ \E wanted \in Amount : PlanChange(wanted)
    \/ MinePlan
    \/ \E amount \in Amount : MineOther(amount)
    \/ Liquidation

DepositsSpec == DepositsInit /\ [][DepositsNext]_depositVars

-----------------------------------------------------------------------------
(* Properties *)

\* StabilityDeposit.ts:91-106: a planned change leaves exactly the wanted amount,
\* less what liquidations have taken since the read began; a planned withdrawal
\* of everything leaves nothing, whatever liquidations and other withdrawals
\* come first; and that is what apply (lines 108-125) tells of the account as it
\* was just before.
PlanHolds ==
    /\ mined.touched \subseteq {"gain"} =>
          /\ mined.left <= mined.plan.wanted
          /\ ~mined.shrunk => mined.left = mined.plan.wanted
    /\ "deposit" \notin mined.touched =>
          /\ mined.plan.all => mined.left = 0
          /\ mined.applied = mined.left

\* StabilityDeposit.ts:53-55: a read throws only if another transaction of the
\* user was mined between its answers; liquidations never make it throw.
ThrowsOnlyIfTouched == Throws => touched # {}
=============================================================================
