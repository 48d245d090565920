----------------------------- MODULE TroveMath ------------------------------
(***************************************************************************)
(* Trove of lib-base: what a creation or an adjustment makes of a trove    *)
(* (create, adjust, apply), which change leads from one trove to another   *)
(* (whatChanged, recreate, adjustTo), and the shares of liquidated troves  *)
(* that a trove has received since it was last touched.                    *)
(***************************************************************************)
EXTENDS FixedPoint

CONSTANT LiquidationReserve     \* ZUSD_LIQUIDATION_RESERVE

ASSUME ReserveAssumption == LiquidationReserve \in Nat \ {0}

Trove == [collateral : Nat, debt : Nat]
EmptyTrove == [collateral |-> 0, debt |-> 0]
IsEmpty(t) == t = EmptyTrove

\* Parameters of a change: an amount that is left out counts as zero, as in
\* apply, where the two cannot be told apart.
Params == [depositCollateral : Nat, withdrawCollateral : Nat, borrowZUSD : Nat, repayZUSD : Nat]
NoParams == [depositCollateral |-> 0, withdrawCollateral |-> 0, borrowZUSD |-> 0, repayZUSD |-> 0]

\* A change; setToZero names what an adjustment clears altogether.
Creation(p) == [type |-> "creation", params |-> p]
Closure(p) == [type |-> "closure", params |-> p]
Adjustment(p, setToZero) == [type |-> "adjustment", params |-> p, setToZero |-> setToZero]

\* _normalizeTroveAdjustment throws unless the parameters that are not zero
\* have one direction each and there is one.
IsAdjustment(p) ==
    /\ p # NoParams
    /\ p.depositCollateral = 0 \/ p.withdrawCollateral = 0
    /\ p.borrowZUSD = 0 \/ p.repayZUSD = 0

\* _normalizeTroveCreation throws on withdrawals and repayments.
IsCreation(p) == p.withdrawCollateral = 0 /\ p.repayZUSD = 0

-----------------------------------------------------------------------------
(* Fees, ratios and sums *)

\* Wrong variant: the division rounds down.
UnapplyFeeFloor(rate, increase) == Div(increase, Digits + rate)

\* unapplyFee: what must be borrowed for the debt to grow by increase.
UnapplyFee(rate, increase) == DivCeil(increase, Digits + rate)

\* applyFee: what the debt grows by when amount is borrowed.
ApplyFee(rate, amount) == Mul(amount, Digits + rate)

\* netDebt: throws for less debt than the reserve.
NetDebt(t) == t.debt - LiquidationReserve

\* _nominalCollateralRatio and collateralRatio(price).
NominalRatio(t) == MulDiv(t.collateral, 100 * Digits, t.debt)
CollateralRatio(t, price) == MulDiv(t.collateral, price, t.debt)

Add(t, u) == [collateral |-> t.collateral + u.collateral, debt |-> t.debt + u.debt]
Subtract(t, u) ==
    [collateral |-> Minus(t.collateral, u.collateral), debt |-> Minus(t.debt, u.debt)]
Multiply(t, m) == [collateral |-> Mul(t.collateral, m), debt |-> Mul(t.debt, m)]

-----------------------------------------------------------------------------
(* apply and whatChanged *)

Increase(p, rate) ==
    [collateral |-> p.depositCollateral,
     debt |-> IF p.borrowZUSD = 0 THEN 0 ELSE ApplyFee(rate, p.borrowZUSD)]
Decrease(p) == [collateral |-> p.withdrawCollateral, debt |-> p.repayZUSD]

\* apply: a creation needs an empty trove and a closure one that is not.
Apply(t, change, rate) ==
    CASE change.type = "creation" ->
           [collateral |-> change.params.depositCollateral,
            debt |-> LiquidationReserve + ApplyFee(rate, change.params.borrowZUSD)]
      [] change.type = "closure" -> EmptyTrove
      [] change.type = "adjustment" ->
           LET after == Subtract(Add(t, Increase(change.params, rate)), Decrease(change.params))
           IN IF change.setToZero = "none" THEN after ELSE [after EXCEPT ![change.setToZero] = 0]

DebtChange(t, u, rate) ==
    IF u.debt > t.debt
    THEN [NoParams EXCEPT !.borrowZUSD = UnapplyFee(rate, u.debt - t.debt)]
    ELSE [NoParams EXCEPT !.repayZUSD = t.debt - u.debt]

CollateralChange(t, u) ==
    IF u.collateral > t.collateral
    THEN [NoParams EXCEPT !.depositCollateral = u.collateral - t.collateral]
    ELSE [NoParams EXCEPT !.withdrawCollateral = t.collateral - u.collateral]

Both(p, q) == [k \in DOMAIN NoParams |-> p[k] + q[k]]

SetToZero(t, u) ==
    CASE u.debt = 0 /\ u.debt # t.debt -> "debt"
      [] u.collateral = 0 /\ u.collateral # t.collateral -> "collateral"
      [] OTHER -> "none"

\* whatChanged throws in netDebt for a closure below the reserve.
CanClose(t) == t.debt >= LiquidationReserve

\* whatChanged, for troves that differ: [type |-> "invalidCreation"] tells that
\* the wanted trove would owe less than the reserve.
WhatChanged(t, u, rate) ==
    CASE IsEmpty(t) /\ u.debt < LiquidationReserve -> [type |-> "invalidCreation", trove |-> u]
      [] IsEmpty(t) /\ u.debt >= LiquidationReserve ->
           Creation([NoParams EXCEPT !.depositCollateral = u.collateral,
                                     !.borrowZUSD = UnapplyFee(rate, NetDebt(u))])
      [] ~IsEmpty(t) /\ IsEmpty(u) ->
           Closure([NoParams EXCEPT !.withdrawCollateral = t.collateral, !.repayZUSD = NetDebt(t)])
      [] OTHER ->
           Adjustment(Both(DebtChange(t, u, rate), CollateralChange(t, u)), SetToZero(t, u))

\* create and adjust: the effect of transactions.
Create(p, rate) == Apply(EmptyTrove, Creation(p), rate)
Adjust(t, p, rate) == Apply(t, Adjustment(p, "none"), rate)

\* Wrong variant: the redistribution before the last touch is added again.
ApplyRedistributionWhole(t, stake, snapshot, redistributed) ==
    Add(t, Multiply(redistributed, stake))

\* TroveWithPendingRedistribution.applyRedistribution.
ApplyRedistribution(t, stake, snapshot, redistributed) ==
    Add(t, Multiply(Subtract(redistributed, snapshot), stake))
=============================================================================
