--------------------------- MODULE BorrowingProofs ---------------------------
(***************************************************************************)
(* Proofs about the trove transactions and the arithmetic under them, for  *)
(* any numbers of digits, rates, decay, amounts and calls in progress:     *)
(* that a planned change leads to the wanted trove, that the predicted     *)
(* trove is the one that results, and that the gas limit is enough.        *)
(***************************************************************************)
EXTENDS Borrowing, WellFoundedInduction, TLAPS

-----------------------------------------------------------------------------
(* Fixed-point numbers *)

PowState == [x : Nat, y : Nat, exponent : Nat]

\* Sets of naturals have a least element.
LEMMA LeastElement ==
    ASSUME NEW T \in SUBSET Nat, T # {}
    PROVE  \E m \in T : \A k \in T : m <= k
<1>1. PICK m \in T : \A k \in T : ~(<<k, m>> \in OpToRel(<, Nat))
  BY WFMin, NatLessThanWellFounded
<1>2. \A k \in T : ~(k < m)
  BY <1>1 DEF OpToRel
<1> QED BY <1>2

\* What a quotient is.
LEMMA DivBounds ==
    ASSUME NEW a \in Nat, NEW b \in Nat, b # 0
    PROVE  a \div b \in Nat /\ b * (a \div b) <= a /\ a < b * (a \div b) + b
OBVIOUS

\* pow computes with naturals only: one product, one round, and all rounds.
LEMMA RoundedMulType == ASSUME NEW x \in Nat, NEW y \in Nat PROVE RoundedMul(x, y) \in Nat
<1>1. Digits \div 2 \in Nat /\ x * y \in Nat
  BY DigitsAssumption
<1>2. x * y + Digits \div 2 \in Nat
  BY <1>1
<1> QED BY <1>2, DivBounds, DigitsAssumption DEF RoundedMul

\* One round.
LEMMA SquaredType == ASSUME NEW s \in PowState PROVE Squared(s) \in PowState
<1>1. s.exponent \div 2 \in Nat
  BY DEF PowState
<1>2. RoundedMul(s.x, s.x) \in Nat /\ RoundedMul(s.x, s.y) \in Nat
  BY RoundedMulType DEF PowState
<1> QED BY <1>1, <1>2 DEF Squared, PowState

\* The recursive definition of Squarings has a solution.
LEMMA SquaringsExist ==
    ASSUME NEW n \in Nat, NEW s0 \in PowState
    PROVE  \E g \in [0..n -> PowState] : g = [k \in 0..n |-> IF k = 0 THEN s0 ELSE Squared(g[k - 1])]
<1> DEFINE Solves(g, m) ==
        g \in [0..m -> PowState] /\ g[0] = s0 /\ \A k \in 1..m : g[k] = Squared(g[k - 1])
<1> DEFINE Bad == {m \in Nat : ~ \E g \in [0..m -> PowState] : Solves(g, m)}
<1>0. Bad \subseteq Nat
  OBVIOUS
<1>1. Bad = {}
  <2> SUFFICES ASSUME Bad # {} PROVE FALSE
    OBVIOUS
  <2>1. PICK m \in Bad : \A k \in Bad : m <= k
    BY LeastElement
  <2>2. CASE m = 0
    <3> DEFINE g == [k \in 0..0 |-> s0]
    <3>1. g \in [0..0 -> PowState] /\ g[0] = s0 /\ 1..0 = {}
      OBVIOUS
    <3> QED BY <2>1, <2>2, <3>1
  <2>3. CASE m # 0
    <3>1. m - 1 \in Nat /\ m - 1 \notin Bad
      <4> HIDE DEF Bad
      <4> QED BY <1>0, <2>1, <2>3
    <3>2. PICK h \in [0..(m - 1) -> PowState] : Solves(h, m - 1)
      BY <3>1
    <3> DEFINE g == [k \in 0..m |-> IF k = m THEN Squared(h[m - 1]) ELSE h[k]]
    <3>3. Squared(h[m - 1]) \in PowState
      BY <3>1, SquaredType
    <3>4. g \in [0..m -> PowState]
      BY <3>1, <3>3
    <3>5. g[0] = s0
      BY <2>3, <3>1, <3>2
    <3>6. ASSUME NEW k \in 1..m PROVE g[k] = Squared(g[k - 1])
      <4>1. CASE k = m
        BY <2>3, <3>1, <4>1
      <4>2. CASE k # m
        BY <2>3, <3>1, <3>2, <4>2
      <4> QED BY <4>1, <4>2
    <3> HIDE DEF g
    <3>7. Solves(g, m)
      BY <3>4, <3>5, <3>6
    <3> QED BY <2>1, <3>4, <3>7
  <2> QED BY <2>2, <2>3
<1>2. PICK g \in [0..n -> PowState] : Solves(g, n)
  BY <1>1
<1>3. g = [k \in 0..n |-> IF k = 0 THEN s0 ELSE Squared(g[k - 1])]
  BY <1>2
<1> QED BY <1>3

\* All rounds.
LEMMA PowType == ASSUME NEW x \in Nat, NEW n \in Nat PROVE Pow(x, n) \in Nat
<1> DEFINE s0 == [x |-> x, y |-> Digits, exponent |-> n]
<1> DEFINE loop == Squarings(x, n)
<1>1. s0 \in PowState
  BY DigitsAssumption DEF PowState
<1>2. \E g : g = [k \in 0..n |-> IF k = 0 THEN s0 ELSE Squared(g[k - 1])]
  BY <1>1, SquaringsExist
<1>3. loop = [k \in 0..n |-> IF k = 0 THEN s0 ELSE Squared(loop[k - 1])]
  BY <1>2 DEF Squarings
<1> HIDE DEF loop, s0
<1>4. \A k \in 0..n : loop[k] = IF k = 0 THEN s0 ELSE Squared(loop[k - 1])
  BY <1>3
<1> DEFINE Bad == {k \in 0..n : loop[k] \notin PowState}
<1>5. Bad = {}
  <2> SUFFICES ASSUME Bad # {} PROVE FALSE
    OBVIOUS
  <2>1. PICK m \in Bad : \A k \in Bad : m <= k
    <3>1. Bad \subseteq Nat
      OBVIOUS
    <3> HIDE DEF Bad
    <3> QED BY <3>1, LeastElement
  <2>2. m # 0
    BY <1>1, <1>4
  <2>3. m - 1 \in 0..n /\ m - 1 \notin Bad
    BY <2>1, <2>2
  <2>4. loop[m] = Squared(loop[m - 1])
    BY <1>4, <2>2
  <2> QED BY <2>3, <2>4, SquaredType
<1>6. loop[n].x \in Nat /\ loop[n].y \in Nat
  BY <1>5 DEF PowState
<1>7. RoundedMul(loop[n].x, loop[n].y) \in Nat
  BY <1>6, RoundedMulType
<1> QED BY <1>7, DigitsAssumption DEF Pow, loop

\* A quotient is determined by its bounds.
LEMMA DivUnique ==
    ASSUME NEW a \in Nat, NEW b \in Nat, b # 0, NEW q \in Int, b * q <= a, a < b * q + b
    PROVE  a \div b = q
<1> DEFINE p == a \div b
<1>1. p \in Nat /\ b * p <= a /\ a < b * p + b
  BY DivBounds
<1>2. b * q < b * p + b /\ b * p < b * q + b
  BY <1>1
<1>3. b * p + b = b * (p + 1) /\ b * q + b = b * (q + 1)
  BY <1>1
<1> HIDE DEF p
<1>4. b * q < b * (p + 1) /\ b * p < b * (q + 1)
  BY <1>1, <1>2, <1>3
<1>5. q < p + 1 /\ p < q + 1
  BY <1>1, <1>4
<1>6. p = q
  BY <1>1, <1>5
<1> QED BY <1>6 DEF p

\* Products.
LEMMA MulType == ASSUME NEW x \in Nat, NEW y \in Nat PROVE Mul(x, y) \in Nat
<1>1. x * y \in Nat
  OBVIOUS
<1> QED BY <1>1, DivBounds, DigitsAssumption DEF Mul

\* A whole times a number is the number.
LEMMA MulOne == ASSUME NEW x \in Nat PROVE Mul(Digits, x) = x
<1>1. Digits * x \in Nat /\ Digits * x <= Digits * x /\ Digits * x < Digits * x + Digits
  BY DigitsAssumption
<1> QED BY <1>1, DivUnique, DigitsAssumption DEF Mul

\* Rounding up the amount to borrow makes the debt grow by what was wanted, or by
\* one unit more.
LEMMA FeeRoundTrip ==
    ASSUME NEW rate \in 0..Digits, NEW increase \in Nat
    PROVE  /\ UnapplyFee(rate, increase) \in Nat
           /\ ApplyFee(rate, UnapplyFee(rate, increase)) \in {increase, increase + 1}
<1> DEFINE s == Digits + rate
<1> DEFINE x == (increase * Digits + (s - 1)) \div s
<1> DEFINE y == (x * s) \div Digits
<1>1. Digits \in Nat /\ Digits # 0 /\ s \in Nat /\ s # 0 /\ s <= Digits + Digits
  BY DigitsAssumption
<1>2. UnapplyFee(rate, increase) = x
  BY <1>1 DEF UnapplyFee, DivCeil
<1>3. ApplyFee(rate, x) = y
  BY DEF ApplyFee, Mul
<1>a. increase * Digits \in Nat /\ increase * Digits + (s - 1) \in Nat
  BY <1>1
<1>4. /\ x \in Nat /\ s * x <= increase * Digits + (s - 1)
      /\ increase * Digits + (s - 1) < s * x + s
  <2> HIDE DEF s
  <2> QED BY <1>1, <1>a, DivBounds
<1> HIDE DEF x
<1>5. x * s \in Nat /\ x * s = s * x
  BY <1>1, <1>4
<1>6. y \in Nat /\ Digits * y <= x * s /\ x * s < Digits * y + Digits
  BY <1>1, <1>5, DivBounds
<1> HIDE DEF y, s
<1>7. /\ Digits * y < increase * Digits + Digits + Digits
      /\ increase * Digits < Digits * y + Digits
  <2>1. \A p, q, r, t, d \in Nat :
            /\ q <= p + (t - 1) /\ p + (t - 1) < q + t /\ r <= q /\ q < r + d /\ t <= d + d
            => r < p + d + d /\ p < r + d
    OBVIOUS
  <2>2. Digits * y \in Nat
    BY <1>1, <1>6
  <2> QED BY <1>1, <1>a, <1>4, <1>5, <1>6, <2>1, <2>2
<1>8. /\ increase * Digits + Digits + Digits = Digits * (increase + 2)
      /\ Digits * y + Digits = Digits * (y + 1) /\ increase * Digits = Digits * increase
  BY <1>1, <1>6
<1>9. Digits * y < Digits * (increase + 2) /\ Digits * increase < Digits * (y + 1)
  BY <1>7, <1>8
<1>10. y < increase + 2 /\ increase < y + 1
  BY <1>1, <1>6, <1>9
<1>11. y \in {increase, increase + 1}
  BY <1>6, <1>10
<1> QED BY <1>2, <1>3, <1>4, <1>11

\* Nothing borrowed costs nothing; a debt that is to grow needs borrowing.
LEMMA FeeOfNone ==
    ASSUME NEW rate \in Nat
    PROVE  /\ ApplyFee(rate, 0) = 0
           /\ \A increase \in Nat :
                rate <= Digits /\ increase > 0 => UnapplyFee(rate, increase) # 0
<1>1. Digits + rate \in Nat /\ 0 * (Digits + rate) = 0
  BY DigitsAssumption
<1>2. ApplyFee(rate, 0) = 0
  <2>1. 0 \div Digits = 0
    BY DivUnique, DigitsAssumption
  <2> QED BY <1>1, <2>1 DEF ApplyFee, Mul
<1>3. ASSUME NEW increase \in Nat, rate <= Digits, increase > 0
      PROVE  UnapplyFee(rate, increase) # 0
  <2>1. rate \in 0..Digits
    BY <1>3, DigitsAssumption
  <2>2. ApplyFee(rate, UnapplyFee(rate, increase)) \in {increase, increase + 1}
    BY <2>1, FeeRoundTrip
  <2> QED BY <1>2, <1>3, <2>2
<1> QED BY <1>2, <1>3

\* What a debt grows by.
LEMMA ApplyFeeType == ASSUME NEW rate \in Nat, NEW amount \in Nat PROVE ApplyFee(rate, amount) \in Nat
<1>1. Digits + rate \in Nat
  BY DigitsAssumption
<1> QED BY <1>1, MulType DEF ApplyFee

-----------------------------------------------------------------------------
(* Rates and troves *)

\* A difference that is clamped.
LEMMA MinusType == ASSUME NEW x \in Nat, NEW y \in Nat PROVE Minus(x, y) \in Nat
  BY DEF Minus

\* The rates of a moment; a borrowing rate is at most one.
LEMMA RateType ==
    ASSUME NEW f \in FeeState
    PROVE  BaseRate(f) \in Nat /\ BorrowingRate(f) \in 0..Digits
<1>1. f.base \in Nat /\ f.now \in Nat /\ f.last \in Nat
  BY DEF FeeState
<1>2. Minus(f.now, f.last) \div TicksPerMinute \in Nat
  <2>1. Minus(f.now, f.last) \in Nat
    BY <1>1, MinusType
  <2> QED BY <2>1, DivBounds, DecayAssumption
<1> DEFINE n == Minus(f.now, f.last) \div TicksPerMinute
<1>3. Pow(DecayFactor, n) \in Nat
  <2>1. DecayFactor \in Nat /\ n \in Nat
    BY <1>2, DecayAssumption, DigitsAssumption
  <2> HIDE DEF n
  <2> QED BY <2>1, PowType
<1>4. BaseRate(f) \in Nat
  BY <1>1, <1>3, MulType DEF BaseRate
<1> QED BY <1>4, RateAssumption, DigitsAssumption DEF BorrowingRate, Least

\* What a change of parameters p makes of a trove.
LEMMA ApplyAdjustment ==
    ASSUME NEW t \in Trove, NEW p \in Params, NEW rate \in Nat
    PROVE  /\ Adjust(t, p, rate) \in Trove
           /\ Adjust(t, p, rate).collateral =
                  Minus(t.collateral + p.depositCollateral, p.withdrawCollateral)
           /\ Adjust(t, p, rate).debt = Minus(t.debt + Increase(p, rate).debt, p.repayZUSD)
<1> DEFINE after == Subtract(Add(t, Increase(p, rate)), Decrease(p))
<1>1. Adjust(t, p, rate) = after
  BY DEF Adjust, Apply, Adjustment
<1>2. Increase(p, rate).debt \in Nat /\ Increase(p, rate).collateral = p.depositCollateral
  BY ApplyFeeType DEF Increase, Params
<1>3. /\ after.collateral = Minus(t.collateral + p.depositCollateral, p.withdrawCollateral)
      /\ after.debt = Minus(t.debt + Increase(p, rate).debt, p.repayZUSD)
  BY <1>2 DEF Subtract, Add, Decrease
<1>4. after = [collateral |-> after.collateral, debt |-> after.debt]
  BY DEF Subtract
<1> HIDE DEF after
<1>5. after.collateral \in Nat /\ after.debt \in Nat
  <2>1. /\ t.collateral + p.depositCollateral \in Nat /\ p.withdrawCollateral \in Nat
        /\ t.debt + Increase(p, rate).debt \in Nat /\ p.repayZUSD \in Nat
    BY <1>2 DEF Trove, Params
  <2> QED BY <1>3, <2>1, MinusType
<1> QED BY <1>1, <1>3, <1>4, <1>5 DEF Trove

\* What a creation makes.
LEMMA CreationType ==
    ASSUME NEW p \in Params, NEW rate \in Nat
    PROVE  /\ Create(p, rate) \in Trove
           /\ Create(p, rate).collateral = p.depositCollateral
           /\ Create(p, rate).debt = LiquidationReserve + ApplyFee(rate, p.borrowZUSD)
<1>1. ApplyFee(rate, p.borrowZUSD) \in Nat /\ p.depositCollateral \in Nat
  BY ApplyFeeType DEF Params
<1>2. Create(p, rate) = [collateral |-> p.depositCollateral,
                         debt |-> LiquidationReserve + ApplyFee(rate, p.borrowZUSD)]
  BY DEF Create, Apply, Creation
<1> QED BY <1>1, <1>2, ReserveAssumption DEF Trove

\* Trove.ts:635-703: whatChanged and apply are inverses, but for a unit of debt.
LEMMA ChangeReaches ==
    ASSUME NEW t \in Trove, NEW u \in Trove, NEW rate \in 0..Digits, t # u,
           CanClose(t) \/ IsEmpty(t),
           NEW change, change = WhatChanged(t, u, rate), change.type # "invalidCreation"
    PROVE  /\ Reaches(Apply(t, change, rate), u)
           /\ change.type = "creation" => Reaches(Create(change.params, rate), u)
           /\ change.type = "adjustment" =>
                 IsAdjustment(change.params) /\ Reaches(Adjust(t, change.params, rate), u)
<1>1. /\ rate \in Nat /\ rate <= Digits
      /\ t.collateral \in Nat /\ t.debt \in Nat /\ u.collateral \in Nat /\ u.debt \in Nat
      /\ t = [collateral |-> t.collateral, debt |-> t.debt]
      /\ u = [collateral |-> u.collateral, debt |-> u.debt]
  BY DigitsAssumption DEF Trove
<1>2. CASE IsEmpty(t)
  <2> DEFINE p == [NoParams EXCEPT !.depositCollateral = u.collateral,
                                   !.borrowZUSD = UnapplyFee(rate, NetDebt(u))]
  <2>1. u.debt >= LiquidationReserve /\ change = Creation(p)
    <3>1. CASE u.debt >= LiquidationReserve
      BY <1>2, <3>1 DEF WhatChanged
    <3>2. CASE u.debt < LiquidationReserve
      BY <1>2, <3>2 DEF WhatChanged
    <3> QED BY <1>1, <3>1, <3>2, ReserveAssumption
  <2>2. NetDebt(u) \in Nat /\ LiquidationReserve + NetDebt(u) = u.debt
    BY <1>1, <2>1, ReserveAssumption DEF NetDebt
  <2>3. /\ UnapplyFee(rate, NetDebt(u)) \in Nat
        /\ ApplyFee(rate, UnapplyFee(rate, NetDebt(u))) \in {NetDebt(u), NetDebt(u) + 1}
    BY <2>2, FeeRoundTrip
  <2>4. p \in Params /\ p.depositCollateral = u.collateral
        /\ p.borrowZUSD = UnapplyFee(rate, NetDebt(u))
    BY <1>1, <2>3 DEF Params, NoParams
  <2> HIDE DEF p
  <2>5. Reaches(Create(p, rate), u)
    BY <1>1, <2>2, <2>3, <2>4, CreationType, ReserveAssumption DEF Reaches
  <2>6. Apply(t, change, rate) = Create(p, rate)
    BY <2>1 DEF Apply, Create, Creation
  <2>7. change.type = "creation" /\ change.params = p
    BY <2>1 DEF Creation
  <2> QED BY <2>5, <2>6, <2>7
<1>3. CASE ~IsEmpty(t) /\ IsEmpty(u)
  <2>1. change.type = "closure" /\ Apply(t, change, rate) = EmptyTrove
    BY <1>3 DEF WhatChanged, Apply, Closure
  <2> QED BY <1>1, <1>3, <2>1 DEF Reaches, IsEmpty
<1>4. CASE ~IsEmpty(t) /\ ~IsEmpty(u)
  <2> DEFINE b == IF u.debt > t.debt THEN UnapplyFee(rate, u.debt - t.debt) ELSE 0
             r == IF u.debt > t.debt THEN 0 ELSE t.debt - u.debt
             d == IF u.collateral > t.collateral THEN u.collateral - t.collateral ELSE 0
             w == IF u.collateral > t.collateral THEN 0 ELSE t.collateral - u.collateral
             p == [depositCollateral |-> d, withdrawCollateral |-> w,
                   borrowZUSD |-> b, repayZUSD |-> r]
             z == SetToZero(t, u)
  <2>1. b \in Nat /\ r \in Nat /\ d \in Nat /\ w \in Nat
    <3>1. u.debt > t.debt => UnapplyFee(rate, u.debt - t.debt) \in Nat
      BY <1>1, FeeRoundTrip
    <3> QED BY <1>1, <3>1
  <2>2. Both(DebtChange(t, u, rate), CollateralChange(t, u)) = p
    <3>1. DebtChange(t, u, rate) = [depositCollateral |-> 0, withdrawCollateral |-> 0,
                                    borrowZUSD |-> b, repayZUSD |-> r]
      <4>1. CASE u.debt > t.debt
        BY <4>1 DEF DebtChange, NoParams
      <4>2. CASE ~(u.debt > t.debt)
        BY <4>2 DEF DebtChange, NoParams
      <4> QED BY <4>1, <4>2
    <3>2. CollateralChange(t, u) = [depositCollateral |-> d, withdrawCollateral |-> w,
                                    borrowZUSD |-> 0, repayZUSD |-> 0]
      <4>1. CASE u.collateral > t.collateral
        BY <4>1 DEF CollateralChange, NoParams
      <4>2. CASE ~(u.collateral > t.collateral)
        BY <4>2 DEF CollateralChange, NoParams
      <4> QED BY <4>1, <4>2
    <3>3. DOMAIN NoParams =
              {"depositCollateral", "withdrawCollateral", "borrowZUSD", "repayZUSD"}
      BY DEF NoParams
    <3> HIDE DEF b, r, d, w
    <3> DEFINE q == Both(DebtChange(t, u, rate), CollateralChange(t, u))
    <3>4. q = [k \in DOMAIN NoParams |-> DebtChange(t, u, rate)[k] + CollateralChange(t, u)[k]]
      BY DEF Both
    <3>5. /\ q["depositCollateral"] = d /\ q["withdrawCollateral"] = w
          /\ q["borrowZUSD"] = b /\ q["repayZUSD"] = r
      BY <2>1, <3>1, <3>2, <3>3, <3>4
    <3>6. q = [k \in {"depositCollateral", "withdrawCollateral", "borrowZUSD", "repayZUSD"} |-> q[k]]
      BY <3>3, <3>4
    <3> HIDE DEF q
    <3>7. q = p
      BY <3>5, <3>6
    <3> QED BY <3>7 DEF q
  <2>3. change = Adjustment(p, z)
    <3>1. change = Adjustment(Both(DebtChange(t, u, rate), CollateralChange(t, u)), z)
      BY <1>4 DEF WhatChanged
    <3> HIDE DEF p, z
    <3> QED BY <2>2, <3>1
  <2>4. Increase(p, rate).debt = IF b = 0 THEN 0 ELSE ApplyFee(rate, b)
    <3> HIDE DEF b, r, d, w
    <3> QED BY DEF Increase
  <2>5. Increase(p, rate).debt \in IF u.debt > t.debt
                                    THEN {u.debt - t.debt, (u.debt - t.debt) + 1} ELSE {0}
    <3>1. CASE u.debt > t.debt
      <4>1. u.debt - t.debt \in Nat /\ u.debt - t.debt > 0
        BY <1>1, <3>1
      <4>2. ApplyFee(rate, b) \in {u.debt - t.debt, (u.debt - t.debt) + 1} /\ b # 0
        BY <1>1, <3>1, <4>1, FeeRoundTrip, FeeOfNone
      <4> HIDE DEF b, p
      <4> QED BY <2>4, <3>1, <4>2
    <3>2. CASE ~(u.debt > t.debt)
      <4>1. b = 0
        BY <3>2
      <4> HIDE DEF b, p
      <4> QED BY <2>4, <3>2, <4>1
    <3> QED BY <3>1, <3>2
  <2>6. p \in Params
    <3> HIDE DEF b, r, d, w
    <3> QED BY <2>1 DEF Params
  <2>7. /\ p.depositCollateral = d /\ p.withdrawCollateral = w
        /\ p.borrowZUSD = b /\ p.repayZUSD = r
    OBVIOUS
  <2> DEFINE a == Adjust(t, p, rate)
  <2>8. /\ a \in Trove /\ a.collateral = Minus(t.collateral + d, w)
        /\ a.debt = Minus(t.debt + Increase(p, rate).debt, r)
    <3> HIDE DEF p, d, w, r, b
    <3> QED BY <1>1, <2>6, <2>7, ApplyAdjustment
  <2>9. a.collateral = u.collateral
    BY <1>1, <2>8 DEF Minus
  <2>10. a.debt \in {u.debt, u.debt + 1} /\ (u.debt <= t.debt => a.debt = u.debt)
    <3> DEFINE i == Increase(p, rate).debt
    <3>1. i \in IF u.debt > t.debt THEN {u.debt - t.debt, (u.debt - t.debt) + 1} ELSE {0}
      BY <2>5
    <3>2. a.debt = Minus(t.debt + i, r)
      BY <2>8
    <3> HIDE DEF i, a
    <3> QED BY <1>1, <3>1, <3>2 DEF Minus
  <2>11. Reaches(a, u)
    BY <2>9, <2>10 DEF Reaches
  <2>12. IsAdjustment(p)
    <3>1. b # 0 \/ r # 0 \/ d # 0 \/ w # 0
      <4>1. u.debt # t.debt \/ u.collateral # t.collateral
        BY <1>1
      <4>2. u.debt > t.debt => b # 0
        BY <1>1, FeeOfNone
      <4> QED BY <1>1, <4>1, <4>2
    <3>2. (d = 0 \/ w = 0) /\ (b = 0 \/ r = 0)
      OBVIOUS
    <3> HIDE DEF b, r, d, w
    <3> QED BY <3>1, <3>2 DEF IsAdjustment, NoParams
  <2>13. Apply(t, change, rate) = IF z = "none" THEN a ELSE [a EXCEPT ![z] = 0]
    <3> HIDE DEF p, z
    <3> QED BY <2>3 DEF Apply, Adjust, Adjustment
  <2>14. Reaches(Apply(t, change, rate), u)
    <3> HIDE DEF a
    <3>1. CASE z = "none"
      BY <2>11, <2>13, <3>1
    <3>2. CASE z = "debt"
      <4>1. u.debt = 0
        BY <3>2 DEF SetToZero
      <4> QED BY <1>1, <2>8, <2>9, <2>13, <3>2, <4>1 DEF Reaches, Trove
    <3>3. CASE z = "collateral"
      <4>1. u.collateral = 0
        BY <3>3 DEF SetToZero
      <4> QED BY <1>1, <2>8, <2>10, <2>13, <3>3, <4>1 DEF Reaches, Trove
    <3>4. z \in {"none", "debt", "collateral"}
      BY DEF SetToZero
    <3> QED BY <3>1, <3>2, <3>3, <3>4
  <2>15. change.type = "adjustment" /\ change.params = p
    <3> HIDE DEF p, z
    <3> QED BY <2>3 DEF Adjustment
  <2> QED BY <2>11, <2>12, <2>14, <2>15
<1> QED BY <1>2, <1>3, <1>4

-----------------------------------------------------------------------------
(* The chain *)

OpenTrove == [open : BOOLEAN, collateral : Nat, debt : Nat, stake : Nat]

\* What every part of the chain is; a snapshot is no later than the total.
ChainTyped ==
    /\ chain = [p \in Part |-> chain[p]]
    /\ chain["trove"] \in OpenTrove
    /\ chain["snapshot"] \in Trove /\ chain["redistributed"] \in Trove
    /\ chain["snapshot"].collateral <= chain["redistributed"].collateral
    /\ chain["snapshot"].debt <= chain["redistributed"].debt
    /\ chain["base"] \in Nat /\ chain["last"] \in Nat /\ chain["now"] \in Nat
    /\ chain["recovery"] \in BOOLEAN

\* The fees and the trove that the contracts see.
LEMMA CurrentTypes ==
    ASSUME ChainTyped
    PROVE  /\ CurrentTrove \in Trove /\ CurrentFees \in FeeState
           /\ CurrentRate \in 0..Digits /\ CurrentRate \in Nat /\ Decayed \in Nat
<1>1. CurrentFees \in FeeState
  BY DEF ChainTyped, CurrentFees, FeeState
<1>2. CurrentRate \in 0..Digits /\ Decayed \in Nat
  BY <1>1, RateType DEF CurrentRate, Decayed
<1>3. CurrentTrove \in Trove
  <2> DEFINE gained(k) == Mul(chain["redistributed"][k] - chain["snapshot"][k], chain["trove"].stake)
  <2>1. /\ chain["redistributed"]["collateral"] - chain["snapshot"]["collateral"] \in Nat
        /\ chain["redistributed"]["debt"] - chain["snapshot"]["debt"] \in Nat
        /\ chain["trove"].stake \in Nat
    BY DEF ChainTyped, Trove, OpenTrove
  <2>2. gained("collateral") \in Nat /\ gained("debt") \in Nat
    BY <2>1, MulType
  <2>3. CurrentTrove = [collateral |-> chain["trove"].collateral + gained("collateral"),
                        debt |-> chain["trove"].debt + gained("debt")]
    BY DEF CurrentTrove
  <2> HIDE DEF gained
  <2> QED BY <2>2, <2>3 DEF ChainTyped, OpenTrove, Trove
<1>4. CurrentRate \in Nat
  BY <1>2, DigitsAssumption
<1> QED BY <1>1, <1>2, <1>3, <1>4

\* What a request leads to is a trove.
LEMMA AfterType ==
    ASSUME ChainTyped, NEW r \in Request
    PROVE  After(r) \in Trove
<1>1. r.params \in Params /\ r.op \in Op
  BY RequestAssumption
<1>2. CurrentTrove \in Trove /\ CurrentRate \in Nat
  BY CurrentTypes
<1>3. CASE r.op = "open"
  BY <1>1, <1>2, <1>3, CreationType DEF After
<1>4. CASE r.op = "adjust"
  BY <1>1, <1>2, <1>4, ApplyAdjustment DEF After
<1>5. CASE r.op = "close"
  BY <1>5 DEF After, EmptyTrove, Trove
<1> QED BY <1>1, <1>3, <1>4, <1>5 DEF Op

\* A fee operation.
LEMMA FeeNotedParts ==
    ASSUME ChainTyped, NEW base
    PROVE  /\ FeeNoted(base) = [p \in Part |-> FeeNoted(base)[p]]
           /\ \A p \in Part \ {"base", "last"} : FeeNoted(base)[p] = chain[p]
           /\ FeeNoted(base)["base"] = base
           /\ FeeNoted(base)["last"] = IF MinutePassed THEN chain["now"] ELSE chain["last"]
<1> DEFINE last == IF MinutePassed THEN chain["now"] ELSE chain["last"]
<1>1. FeeNoted(base) = [chain EXCEPT !["base"] = base, !["last"] = last]
  BY DEF FeeNoted
<1> HIDE DEF last
<1>2. chain = [p \in Part |-> chain[p]]
  BY DEF ChainTyped
<1>3. FeeNoted(base)["last"] = last
  BY <1>1, <1>2 DEF Part, FeePart
<1> QED BY <1>1, <1>2, <1>3 DEF Part, FeePart, TrovePart, last

\* A fee operation without a redemption keeps the rate.
LEMMA FeeOperationKeepsRate ==
    ASSUME ChainTyped, NEW after, after["base"] = Decayed,
           after["last"] = IF MinutePassed THEN chain["now"] ELSE chain["last"],
           after["now"] = chain["now"], after["recovery"] = chain["recovery"]
    PROVE  BorrowingRate([base |-> after["base"], last |-> after["last"], now |-> after["now"],
                          recovery |-> after["recovery"]]) = CurrentRate
<1> DEFINE f == [base |-> after["base"], last |-> after["last"], now |-> after["now"],
                 recovery |-> after["recovery"]]
<1>1. chain["now"] \in Nat /\ chain["last"] \in Nat /\ chain["base"] \in Nat /\ Decayed \in Nat
  BY CurrentTypes DEF ChainTyped
<1>2. \A d \in Nat : d < TicksPerMinute => d \div TicksPerMinute = 0
  BY DivUnique, DecayAssumption
<1>3. \A x \in Nat : Mul(Pow(DecayFactor, 0), x) = x
  BY MulOne DEF Pow
<1>4. BaseRate(f) = Decayed
  <2>1. CASE MinutePassed
    <3>1. Minus(f.now, f.last) = 0
      BY <1>1, <2>1 DEF Minus
    <3>2. 0 \div TicksPerMinute = 0
      BY <1>2, DecayAssumption
    <3> QED BY <1>1, <1>3, <3>1, <3>2 DEF BaseRate
  <2>2. CASE ~MinutePassed
    <3>1. Minus(chain["now"], chain["last"]) \in Nat
      BY <1>1, MinusType
    <3>2. Minus(chain["now"], chain["last"]) \div TicksPerMinute = 0
      BY <1>2, <2>2, <3>1, DecayAssumption DEF MinutePassed
    <3> QED BY <1>1, <1>3, <2>2, <3>2 DEF BaseRate, Decayed, CurrentFees
  <2> QED BY <2>1, <2>2
<1>5. f.recovery = CurrentFees.recovery
  BY DEF CurrentFees
<1> HIDE DEF f
<1>6. BorrowingRate(f) = CurrentRate
  BY <1>4, <1>5 DEF BorrowingRate, CurrentRate, Decayed
<1> QED BY <1>6 DEF f

\* What the parts of the chain are after an event of these kinds.
Keeps(kinds) ==
    /\ kinds \cap {"own", "redistribute"} = {} => \A p \in TrovePart : chain'[p] = chain[p]
    /\ kinds \cap {"own", "raise", "recovery", "tick"} = {} => CurrentRate' = CurrentRate
    /\ kinds \cap {"own", "raise", "recovery", "tick", "decay"} = {} =>
          \A p \in FeePart : chain'[p] = chain[p]

\* The kinds that calls in progress note with it.
NotedWith(kinds) == ChainTyped' /\ Keeps(kinds) /\ call' = Noted(kinds)

\* An event changes some parts of the chain and keeps the others.
LEMMA EventKeeps ==
    ASSUME ChainTyped, ChainMoves
    PROVE  \E kinds : NotedWith(kinds)
<1>1. /\ chain = [p \in Part |-> chain[p]]
      /\ chain["now"] \in Nat /\ chain["redistributed"] \in Trove /\ Decayed \in Nat
      /\ RaisedRate \in Nat /\ Share \in Trove
  BY CurrentTypes, RequestAssumption DEF ChainTyped
<1> USE DEF Happens, NotedWith
<1>2. CASE Tick
  <2>1. /\ chain'["now"] = chain["now"] + 1 /\ \A p \in Part \ {"now"} : chain'[p] = chain[p]
        /\ chain' = [p \in Part |-> chain'[p]]
    BY <1>1, <1>2 DEF Tick, Part, FeePart
  <2>2. ChainTyped'
    BY <1>1, <2>1 DEF ChainTyped, Part, FeePart, TrovePart
  <2>3. Keeps({"tick"})
    BY <2>1 DEF Keeps, Part, FeePart, TrovePart
  <2> QED BY <1>2, <2>2, <2>3 DEF Tick
<1>3. CASE Redeemed
  <2>1. chain' = [FeeNoted(RaisedRate) EXCEPT !["last"] = chain["now"]]
    BY <1>3 DEF Redeemed
  <2>2. /\ chain'["base"] = RaisedRate /\ chain'["last"] = chain["now"]
        /\ \A p \in Part \ {"base", "last"} : chain'[p] = chain[p]
        /\ chain' = [p \in Part |-> chain'[p]]
    BY <2>1, FeeNotedParts DEF Part, FeePart, TrovePart
  <2>3. ChainTyped'
    BY <1>1, <2>2 DEF ChainTyped, Part, FeePart, TrovePart
  <2>4. Keeps({"raise"})
    BY <2>2 DEF Keeps, Part, FeePart, TrovePart
  <2> QED BY <1>3, <2>3, <2>4 DEF Redeemed
<1>4. CASE Borrowed
  <2>1. chain' = FeeNoted(Decayed)
    BY <1>4 DEF Borrowed
  <2>2. /\ chain'["base"] = Decayed
        /\ chain'["last"] = IF MinutePassed THEN chain["now"] ELSE chain["last"]
        /\ \A p \in Part \ {"base", "last"} : chain'[p] = chain[p]
        /\ chain' = [p \in Part |-> chain'[p]]
    BY <2>1, FeeNotedParts
  <2>3. ChainTyped'
    BY <1>1, <2>2 DEF ChainTyped, Part, FeePart, TrovePart
  <2>4. CurrentRate' = CurrentRate
    <3>1. chain'["now"] = chain["now"] /\ chain'["recovery"] = chain["recovery"]
      BY <2>2 DEF Part, FeePart
    <3>2. CurrentRate' = BorrowingRate([base |-> chain'["base"], last |-> chain'["last"],
                                        now |-> chain'["now"], recovery |-> chain'["recovery"]])
      BY DEF CurrentRate, CurrentFees
    <3> QED BY <2>2, <3>1, <3>2, FeeOperationKeepsRate
  <2>5. Keeps({"decay"})
    BY <2>2, <2>4 DEF Keeps, Part, FeePart, TrovePart
  <2> QED BY <1>4, <2>3, <2>5 DEF Borrowed
<1>5. CASE Redistributed
  <2>1. /\ chain'["redistributed"] = Add(chain["redistributed"], Share)
        /\ \A p \in Part \ {"redistributed"} : chain'[p] = chain[p]
        /\ chain' = [p \in Part |-> chain'[p]]
    BY <1>1, <1>5 DEF Redistributed, Part, TrovePart
  <2>2. /\ Add(chain["redistributed"], Share) \in Trove
        /\ Add(chain["redistributed"], Share).collateral >= chain["redistributed"].collateral
        /\ Add(chain["redistributed"], Share).debt >= chain["redistributed"].debt
    BY <1>1 DEF Add, Trove
  <2>3. chain'["snapshot"] = chain["snapshot"]
    BY <2>1 DEF Part, TrovePart
  <2>4. ChainTyped'
    <3>1. /\ chain'["snapshot"].collateral <= chain'["redistributed"].collateral
          /\ chain'["snapshot"].debt <= chain'["redistributed"].debt
      BY <2>1, <2>2, <2>3 DEF ChainTyped, Trove
    <3> QED BY <2>1, <2>2, <3>1 DEF ChainTyped, Part, FeePart, TrovePart
  <2>5. CurrentRate' = CurrentRate
    BY <2>1 DEF CurrentRate, CurrentFees, Part, FeePart
  <2>6. Keeps({"redistribute"})
    BY <2>1, <2>5 DEF Keeps, Part, FeePart, TrovePart
  <2> QED BY <1>5, <2>4, <2>6 DEF Redistributed
<1>6. CASE Liquidated
  <2>1. /\ chain'["trove"] = Closed
        /\ \A p \in Part \ {"trove"} : chain'[p] = chain[p]
        /\ chain' = [p \in Part |-> chain'[p]]
    BY <1>1, <1>6 DEF Liquidated, Part, TrovePart
  <2>2. ChainTyped'
    BY <2>1 DEF ChainTyped, Part, FeePart, TrovePart, Closed, OpenTrove
  <2>3. Keeps({"own"})
    BY DEF Keeps
  <2> QED BY <1>6, <2>2, <2>3 DEF Liquidated
<1>7. CASE ModeChanges
  <2>1. /\ chain'["recovery"] = ~chain["recovery"]
        /\ \A p \in Part \ {"recovery"} : chain'[p] = chain[p]
        /\ chain' = [p \in Part |-> chain'[p]]
    BY <1>1, <1>7 DEF ModeChanges, Part, FeePart
  <2>2. ChainTyped'
    <3>1. chain'["recovery"] \in BOOLEAN
      BY <2>1, Zenon
    <3> QED BY <2>1, <3>1 DEF ChainTyped, Part, FeePart, TrovePart
  <2>3. Keeps({"recovery"})
    BY <2>1 DEF Keeps, Part, FeePart, TrovePart
  <2> QED BY <1>7, <2>2, <2>3 DEF ModeChanges
<1> QED BY <1>2, <1>3, <1>4, <1>5, <1>6, <1>7 DEF ChainMoves

-----------------------------------------------------------------------------
(* The calls *)

Shape(k) ==
    /\ k = [phase |-> k.phase, request |-> k.request, got |-> k.got, view |-> k.view,
            final |-> k.final, limit |-> k.limit, paid |-> k.paid, result |-> k.result,
            since |-> k.since, torn |-> k.torn]
    /\ k.view = [p \in Part |-> k.view[p]]

\* A call has the request of a user and what has been answered of what it needs.
CallTyped(k) ==
    /\ Shape(k) /\ ReadFees(k.view) \in FeeState
    /\ k.phase # "idle" => k.request \in Request
    /\ k.phase \in Phase \ {"outOfGas"}
    /\ InProgress(k) => k.got \subseteq Needed(k.request)

\* Nothing happened that PredictionExact excuses.
Unspoiled(k) ==
    k.since \cap Spoilers(k) = {} /\ (Borrows(k.request) => "decay" \notin k.torn)

\* As long as nothing did, what was read still holds: the rate, once it can be
\* computed, and before that the fees it is computed from.
ReadingAgrees(k) ==
    k.phase = "reading" /\ Unspoiled(k) =>
        /\ \A p \in k.got \cap TrovePart : k.view[p] = chain[p]
        /\ Borrows(k.request) =>
              IF k.got = Needed(k.request) THEN Rate(k.view) = CurrentRate
              ELSE \A p \in k.got \cap FeePart : k.view[p] = chain[p]

\* The predicted trove is the one that the transaction would lead to now.
SentAgrees(k) ==
    k.phase = "sent" =>
        /\ k.got = Needed(k.request)
        /\ Borrows(k.request) => k.paid
        /\ Unspoiled(k) => k.final = After(k.request)

MinedAgrees(k) == k.phase = "mined" /\ Unspoiled(k) => k.final = k.result

CallInv(k) == CallTyped(k) /\ ReadingAgrees(k) /\ SentAgrees(k) /\ MinedAgrees(k)

BorrowingInv ==
    /\ ChainTyped /\ call = [c \in Call |-> call[c]]
    /\ \A c \in Call : CallInv(call[c])

\* What a request needs to be read.
LEMMA NeededParts ==
    ASSUME NEW r \in Request
    PROVE  /\ Needed(r) \subseteq Part
           /\ Borrows(r) => r.op # "close" /\ FeePart \subseteq Needed(r)
           /\ r.op = "adjust" => TrovePart \subseteq Needed(r)
           /\ r.op # "close" => Needed(r) # {}
<1>1. r.op \in Op /\ (r.op = "close" => ~Borrows(r))
  BY RequestAssumption DEF Borrows, NoParams
<1> QED BY <1>1 DEF Op, Needed, Part, FeePart, TrovePart

\* A call notes what happens.
LEMMA NotedFields ==
    ASSUME NEW c \in Call, NEW kinds, CallTyped(call[c]), NEW l, l = Noted(kinds)[c]
    PROVE  /\ Shape(l) /\ l.phase = call[c].phase /\ l.request = call[c].request
           /\ l.got = call[c].got /\ l.view = call[c].view /\ l.final = call[c].final
           /\ l.paid = call[c].paid /\ l.result = call[c].result /\ l.limit = call[c].limit
           /\ call[c].since \subseteq l.since /\ call[c].torn \subseteq l.torn
           /\ InProgress(call[c]) /\ call[c].got # {} => kinds \subseteq l.since
           /\ /\ call[c].phase = "reading" /\ call[c].got # {}
              /\ call[c].got # Needed(call[c].request)
              => kinds \subseteq l.torn
<1> DEFINE k == call[c]
           torn == IF k.phase = "reading" /\ k.got # Needed(k.request) THEN k.torn \cup kinds ELSE k.torn
<1>1. l = IF ~InProgress(k) \/ k.got = {} THEN k
          ELSE [k EXCEPT !.since = k.since \cup kinds, !.torn = torn]
  BY DEF Noted
<1>2. Shape(k)
  BY DEF CallTyped
<1>3. CASE ~InProgress(k) \/ k.got = {}
  <2>1. l = k
    BY <1>1, <1>3
  <2>2. CASE k.got = {}
    BY <1>2, <2>1, <2>2
  <2>3. CASE ~InProgress(k)
    BY <1>2, <2>1, <2>3 DEF InProgress
  <2> QED BY <1>3, <2>2, <2>3
<1>4. CASE ~(~InProgress(k) \/ k.got = {})
  <2>1. l = [k EXCEPT !.since = k.since \cup kinds, !.torn = torn]
    BY <1>1, <1>4
  <2>2. k.torn \subseteq torn /\ (k.phase = "reading" /\ k.got # Needed(k.request) => kinds \subseteq torn)
    OBVIOUS
  <2> HIDE DEF k, torn
  <2>3. /\ l = [phase |-> k.phase, request |-> k.request, got |-> k.got, view |-> k.view,
                final |-> k.final, limit |-> k.limit, paid |-> k.paid, result |-> k.result,
                since |-> k.since \cup kinds, torn |-> torn]
        /\ k.view = [p \in Part |-> k.view[p]]
    BY <1>2, <2>1 DEF Shape
  <2>4. Shape(l)
    BY <2>3 DEF Shape
  <2>5. /\ l.phase = k.phase /\ l.request = k.request
        /\ l.got = k.got /\ l.view = k.view /\ l.final = k.final
        /\ l.paid = k.paid /\ l.result = k.result /\ l.limit = k.limit
        /\ l.since = k.since \cup kinds /\ l.torn = torn
    BY <2>3
  <2> QED BY <2>2, <2>4, <2>5 DEF k
<1> QED BY <1>3, <1>4

\* The rate stays a rate.
LEMMA RateIsNat == ChainTyped => CurrentRate \in Nat
  BY CurrentTypes

\* A request leads to the same trove after an event that does not spoil it.
LEMMA AfterKept ==
    ASSUME ChainTyped, ChainTyped', NEW c \in Call, call[c].request \in Request,
           call'[c].request = call[c].request,
           call[c].request.op = "adjust" => \A p \in TrovePart : chain'[p] = chain[p],
           Borrows(call[c].request) => CurrentRate' = CurrentRate
    PROVE  After(call[c].request)' = After(call[c].request)
<1>1. CurrentRate \in Nat /\ CurrentRate' \in Nat
  <2>1. ChainTyped' => (CurrentRate \in Nat)'
    BY RateIsNat, PTL
  <2> QED BY <2>1, RateIsNat
<1> DEFINE r == call[c].request
<1>2. r.params \in Params /\ r.op \in Op
  BY RequestAssumption
<1>3. ~Borrows(r) => r.params.borrowZUSD = 0
  BY <1>2 DEF Borrows, Params
<1>4. ApplyFee(CurrentRate', 0) = 0 /\ ApplyFee(CurrentRate, 0) = 0
  BY <1>1, FeeOfNone
<1>5. ApplyFee(CurrentRate', r.params.borrowZUSD) = ApplyFee(CurrentRate, r.params.borrowZUSD)
  BY <1>3, <1>4
<1>6. CASE r.op = "open"
  <2>1. Create(r.params, CurrentRate') = Create(r.params, CurrentRate)
    BY <1>5 DEF Create, Apply, Creation
  <2> QED BY <1>6, <2>1 DEF After
<1>7. CASE r.op = "adjust"
  <2>1. CurrentTrove' = CurrentTrove
    BY <1>7 DEF CurrentTrove, TrovePart
  <2>2. Increase(r.params, CurrentRate') = Increase(r.params, CurrentRate)
    BY <1>5 DEF Increase
  <2>3. Adjust(CurrentTrove, r.params, CurrentRate') = Adjust(CurrentTrove, r.params, CurrentRate)
    BY <2>2 DEF Adjust, Apply, Adjustment
  <2> QED BY <1>7, <2>1, <2>3 DEF After
<1>8. CASE r.op = "close"
  BY <1>8 DEF After
<1> QED BY <1>2, <1>6, <1>7, <1>8 DEF Op

\* A call that only notes an event keeps its invariant.
LEMMA NotedStep ==
    ASSUME ChainTyped, ChainTyped', NEW c \in Call, CallInv(call[c]),
           NEW kinds, Keeps(kinds), call'[c] = Noted(kinds)[c]
    PROVE  CallInv(call[c])'
<1> DEFINE k == call[c]
           l == call'[c]
<1>1. /\ Shape(l) /\ l.phase = k.phase /\ l.request = k.request
      /\ l.got = k.got /\ l.view = k.view /\ l.final = k.final
      /\ l.paid = k.paid /\ l.result = k.result
      /\ k.since \subseteq l.since /\ k.torn \subseteq l.torn
      /\ InProgress(k) /\ k.got # {} => kinds \subseteq l.since
      /\ k.phase = "reading" /\ k.got # {} /\ k.got # Needed(k.request) => kinds \subseteq l.torn
  BY NotedFields DEF CallInv
<1>2. CallTyped(k) /\ ReadingAgrees(k) /\ SentAgrees(k) /\ MinedAgrees(k)
  BY DEF CallInv
<1>3. InProgress(l) = InProgress(k)
  BY <1>1 DEF InProgress
<1>4. Unspoiled(l) =>
        /\ Unspoiled(k)
        /\ InProgress(k) /\ k.got # {} =>
              /\ kinds \cap {"own", "redistribute"} = {}
              /\ Borrows(k.request) => kinds \cap {"own", "raise", "recovery", "tick"} = {}
        /\ k.phase = "reading" /\ k.got # {} /\ k.got # Needed(k.request) /\ Borrows(k.request) =>
              kinds \cap {"own", "raise", "recovery", "tick", "decay"} = {}
  <2> HIDE DEF k, l
  <2> QED BY <1>1 DEF Unspoiled, Spoilers, InProgress
<1>5. CallTyped(l)
  <2> HIDE DEF k, l
  <2> QED BY <1>1, <1>2, <1>3 DEF CallTyped
<1>6. k.phase # "idle" => k.request \in Request
  BY <1>2 DEF CallTyped
<1>7. ReadingAgrees(k)'
  <2> SUFFICES ASSUME l.phase = "reading", Unspoiled(l)
               PROVE  /\ \A p \in l.got \cap TrovePart : l.view[p] = chain'[p]
                      /\ Borrows(l.request) =>
                            IF l.got = Needed(l.request) THEN Rate(l.view) = CurrentRate'
                            ELSE \A p \in l.got \cap FeePart : l.view[p] = chain'[p]
    BY DEF ReadingAgrees
  <2>1. k.phase = "reading" /\ InProgress(k) /\ k.request \in Request
    BY <1>1, <1>6 DEF InProgress
  <2>2. /\ \A p \in k.got \cap TrovePart : k.view[p] = chain[p]
        /\ Borrows(k.request) =>
              IF k.got = Needed(k.request) THEN Rate(k.view) = CurrentRate
              ELSE \A p \in k.got \cap FeePart : k.view[p] = chain[p]
    BY <1>2, <1>4, <2>1 DEF ReadingAgrees
  <2>3. k.got # {} => \A p \in TrovePart : chain'[p] = chain[p]
    BY <1>4, <2>1 DEF Keeps
  <2>4. k.got # {} /\ Borrows(k.request) => CurrentRate' = CurrentRate
    BY <1>4, <2>1 DEF Keeps
  <2>5. k.got # {} /\ Borrows(k.request) /\ k.got # Needed(k.request) =>
            \A p \in FeePart : chain'[p] = chain[p]
    BY <1>4, <2>1 DEF Keeps
  <2>6. Borrows(k.request) => Needed(k.request) # {}
    BY <2>1, NeededParts
  <2> HIDE DEF k, l
  <2> QED BY <1>1, <2>2, <2>3, <2>4, <2>5, <2>6
<1>8. SentAgrees(k)'
  <2> SUFFICES ASSUME l.phase = "sent"
               PROVE  /\ l.got = Needed(l.request)
                      /\ Borrows(l.request) => l.paid
                      /\ Unspoiled(l) => l.final = After(k.request)'
    BY DEF SentAgrees
  <2>1. k.phase = "sent" /\ InProgress(k) /\ k.request \in Request
    BY <1>1, <1>6 DEF InProgress
  <2>2. /\ k.got = Needed(k.request)
        /\ Borrows(k.request) => k.paid
        /\ Unspoiled(k) => k.final = After(k.request)
    BY <1>2, <2>1 DEF SentAgrees
  <2>3. ASSUME Unspoiled(l) PROVE After(k.request)' = After(k.request)
    <3>1. k.request.op = "adjust" => k.got # {}
      BY <2>1, <2>2, NeededParts
    <3>2. Borrows(k.request) => k.got # {}
      BY <2>1, <2>2, NeededParts
    <3>3. k.request.op = "adjust" => \A p \in TrovePart : chain'[p] = chain[p]
      BY <1>4, <2>1, <2>3, <3>1 DEF Keeps
    <3>4. Borrows(k.request) => CurrentRate' = CurrentRate
      BY <1>4, <2>1, <2>3, <3>2 DEF Keeps
    <3> QED BY <1>1, <2>1, <3>3, <3>4, AfterKept
  <2> QED BY <1>1, <1>4, <2>2, <2>3
<1>9. MinedAgrees(k)'
  <2> SUFFICES ASSUME l.phase = "mined", Unspoiled(l) PROVE l.final = l.result
    BY DEF MinedAgrees
  <2> QED BY <1>1, <1>2, <1>4 DEF MinedAgrees
<1>10. CallTyped(k)'
  BY <1>5
<1> QED BY <1>7, <1>8, <1>9, <1>10 DEF CallInv

\* A call that a step leaves alone keeps its invariant.
LEMMA SameStep ==
    ASSUME NEW d \in Call, CallInv(call[d]), call'[d] = call[d], chain' = chain
    PROVE  CallInv(call[d])'
<1>1. CallTyped(call[d])' /\ MinedAgrees(call[d])'
  BY DEF CallInv, CallTyped, MinedAgrees
<1>2. CurrentRate' = CurrentRate
  BY DEF CurrentRate, CurrentFees
<1>3. ReadingAgrees(call[d])'
  BY <1>2 DEF CallInv, ReadingAgrees
<1>4. After(call[d].request)' = After(call[d].request)
  BY <1>2 DEF After, CurrentTrove
<1>5. SentAgrees(call[d])'
  BY <1>4 DEF CallInv, SentAgrees
<1> QED BY <1>1, <1>3, <1>5 DEF CallInv

\* The fees of an empty view.
LEMMA NoViewFees == ReadFees(NoView) \in FeeState
  BY DEF ReadFees, NoView, FeeState, Part, FeePart, TrovePart

\* A call that has not begun.
LEMMA IdleInv == CallInv(Idle)
<1>1. Idle.phase = "idle" /\ Idle.view = NoView
  BY DEF Idle
<1>2. NoView = [p \in Part |-> NoView[p]]
  BY DEF NoView
<1>3. CallTyped(Idle)
  BY <1>1, <1>2, NoViewFees DEF CallTyped, Shape, Idle, Phase, InProgress
<1> QED BY <1>1, <1>3 DEF CallInv, ReadingAgrees, SentAgrees, MinedAgrees

\* The same, in the next state.
LEMMA IdleInvNext == ASSUME NEW c \in Call, call'[c] = Idle PROVE CallInv(call[c])'
<1>1. CallTyped(Idle)
  BY IdleInv DEF CallInv
<1>2. CallTyped(call[c])'
  BY <1>1 DEF CallTyped
<1> QED BY <1>2 DEF CallInv, ReadingAgrees, SentAgrees, MinedAgrees, Idle

\* A user calls a function.
LEMMA BeginStep ==
    ASSUME BorrowingInv, NEW c \in Call, NEW r \in Request, Begin(c, r)
    PROVE  BorrowingInv'
<1>1. chain' = chain /\ call = [d \in Call |-> call[d]]
  BY DEF Begin, BorrowingInv
<1> DEFINE begun == [Idle EXCEPT !.phase = "reading", !.request = r]
<1>2. /\ \A d \in Call \ {c} : call'[d] = call[d]
      /\ call'[c] = begun \/ call'[c] = Idle
      /\ call' = [d \in Call |-> call'[d]]
  BY <1>1 DEF Begin
<1>3. ASSUME call'[c] = begun PROVE CallInv(call[c])'
  <2> DEFINE l == call'[c]
  <2>1. l = [phase |-> "reading", request |-> r, got |-> {}, view |-> NoView,
             final |-> EmptyTrove, limit |-> 0, paid |-> FALSE, result |-> EmptyTrove,
             since |-> {}, torn |-> {}]
    BY <1>3 DEF Idle
  <2>2. NoView = [p \in Part |-> NoView[p]]
    BY DEF NoView
  <2>3. l.phase = "reading" /\ l.request = r /\ l.got = {} /\ l.view = NoView
    BY <2>1
  <2>4. Shape(call[c])'
    BY <2>1, <2>2 DEF Shape
  <2>5. CallTyped(call[c])'
    BY <2>3, <2>4, NoViewFees DEF CallTyped, Phase
  <2>6. Borrows(r) => Needed(r) # {}
    BY NeededParts
  <2>7. ReadingAgrees(call[c])'
    BY <2>3, <2>6 DEF ReadingAgrees
  <2> QED BY <2>3, <2>5, <2>7 DEF CallInv, SentAgrees, MinedAgrees
<1>4. CallInv(call[c])'
  BY <1>2, <1>3, IdleInvNext
<1>5. ASSUME NEW d \in Call PROVE CallInv(call[d])'
  <2>1. CASE d = c
    BY <1>4, <2>1
  <2>2. CASE d # c
    BY <1>1, <1>2, <2>2, SameStep DEF BorrowingInv
  <2> QED BY <2>1, <2>2
<1>6. ChainTyped'
  BY <1>1 DEF BorrowingInv, ChainTyped
<1> QED BY <1>2, <1>5, <1>6 DEF BorrowingInv

\* A part is read.
LEMMA AnswerStep ==
    ASSUME BorrowingInv, NEW c \in Call, NEW p \in Needed(call[c].request),
           Answer(c, p)
    PROVE  BorrowingInv'
<1> DEFINE k == call[c]
           l == call'[c]
<1>1. /\ chain' = chain /\ call = [d \in Call |-> call[d]]
      /\ k.phase = "reading" /\ p \notin k.got /\ CallInv(k)
  BY DEF Answer, BorrowingInv
<1>2. Shape(k) /\ k.request \in Request /\ k.got \subseteq Needed(k.request)
  BY <1>1 DEF CallInv, CallTyped, InProgress
<1>3. p \in Part /\ p \in Needed(k.request)
  BY <1>2, NeededParts
<1>4. /\ \A d \in Call \ {c} : call'[d] = call[d]
      /\ l = [k EXCEPT !.got = k.got \cup {p}, !.view = [k.view EXCEPT ![p] = chain[p]]]
      /\ call' = [d \in Call |-> call'[d]]
  BY <1>1 DEF Answer
<1>5. /\ Shape(l) /\ l.phase = "reading" /\ l.request = k.request /\ l.got = k.got \cup {p}
      /\ l.view[p] = chain[p] /\ \A q \in Part \ {p} : l.view[q] = k.view[q]
      /\ l.since = k.since /\ l.torn = k.torn
  <2> DEFINE view == [k.view EXCEPT ![p] = chain[p]]
  <2>1. l = [k EXCEPT !.got = k.got \cup {p}, !.view = view]
    BY <1>4
  <2>2. /\ view = [q \in Part |-> view[q]] /\ view[p] = chain[p]
        /\ \A q \in Part \ {p} : view[q] = k.view[q]
    BY <1>2, <1>3 DEF Shape
  <2> HIDE DEF view, k, l
  <2>3. l = [phase |-> k.phase, request |-> k.request, got |-> k.got \cup {p}, view |-> view,
             final |-> k.final, limit |-> k.limit, paid |-> k.paid, result |-> k.result,
             since |-> k.since, torn |-> k.torn]
    BY <1>2, <2>1 DEF Shape
  <2>4. /\ l.phase = k.phase /\ l.request = k.request /\ l.got = k.got \cup {p} /\ l.view = view
        /\ l.since = k.since /\ l.torn = k.torn
    BY <2>3
  <2>5. Shape(l)
    BY <2>2, <2>3 DEF Shape
  <2> QED BY <1>1, <2>2, <2>4, <2>5
<1>6. CallTyped(call[c])'
  <2>1. ReadFees(k.view) \in FeeState /\ ChainTyped
    BY <1>1 DEF CallInv, CallTyped, BorrowingInv
  <2> HIDE DEF k, l
  <2>2. ReadFees(l.view) \in FeeState
    <3>1. \A q \in FeePart : l.view[q] = k.view[q] \/ l.view[q] = chain[q]
      BY <1>5 DEF Part
    <3> QED BY <2>1, <3>1 DEF ReadFees, FeeState, FeePart, ChainTyped
  <2>3. CallTyped(l)
    BY <1>2, <1>3, <1>5, <2>2 DEF CallTyped, Phase, InProgress
  <2> QED BY <2>3 DEF l
<1>7. ReadingAgrees(call[c])'
  <2> SUFFICES ASSUME Unspoiled(l)
               PROVE  /\ \A q \in l.got \cap TrovePart : l.view[q] = chain[q]
                      /\ Borrows(l.request) =>
                            IF l.got = Needed(l.request) THEN Rate(l.view) = CurrentRate'
                            ELSE \A q \in l.got \cap FeePart : l.view[q] = chain[q]
    BY <1>1 DEF ReadingAgrees
  <2>1. Unspoiled(k)
    <3> HIDE DEF k, l
    <3> QED BY <1>5 DEF Unspoiled, Spoilers
  <2>2. k.got # Needed(k.request)
    BY <1>1
  <2>3. /\ \A q \in k.got \cap TrovePart : k.view[q] = chain[q]
        /\ Borrows(k.request) => \A q \in k.got \cap FeePart : k.view[q] = chain[q]
    BY <1>1, <2>1, <2>2 DEF CallInv, ReadingAgrees
  <2>4. /\ \A q \in l.got \cap TrovePart : l.view[q] = chain[q]
        /\ Borrows(k.request) => \A q \in l.got \cap FeePart : l.view[q] = chain[q]
    <3> HIDE DEF k, l
    <3> QED BY <1>5, <2>3 DEF Part
  <2>5. ASSUME Borrows(k.request), l.got = Needed(k.request)
        PROVE  Rate(l.view) = CurrentRate'
    <3>1. \A q \in FeePart : l.view[q] = chain[q]
      BY <1>2, <2>4, <2>5, NeededParts
    <3> HIDE DEF k, l
    <3>2. /\ l.view["base"] = chain["base"] /\ l.view["last"] = chain["last"]
          /\ l.view["now"] = chain["now"] /\ l.view["recovery"] = chain["recovery"]
      BY <3>1 DEF FeePart
    <3> QED BY <1>1, <3>2 DEF Rate, ReadFees, CurrentRate, CurrentFees
  <2> HIDE DEF k, l
  <2> QED BY <1>5, <2>4, <2>5
<1>8. CallInv(call[c])'
  BY <1>5, <1>6, <1>7 DEF CallInv, SentAgrees, MinedAgrees
<1>9. ASSUME NEW d \in Call PROVE CallInv(call[d])'
  <2>1. CASE d = c
    BY <1>8, <2>1
  <2>2. CASE d # c
    BY <1>1, <1>4, <2>2, SameStep DEF BorrowingInv
  <2> QED BY <2>1, <2>2
<1>10. ChainTyped'
  BY <1>1 DEF BorrowingInv, ChainTyped
<1> QED BY <1>4, <1>9, <1>10 DEF BorrowingInv

\* What the library reads of a trove is what the contracts see.
LEMMA ReadTroveExact ==
    ASSUME ChainTyped, chain["trove"].open, NEW view, \A p \in TrovePart : view[p] = chain[p]
    PROVE  ReadTrove(view) = CurrentTrove
<1>1. /\ view["trove"] = chain["trove"] /\ view["snapshot"] = chain["snapshot"]
      /\ view["redistributed"] = chain["redistributed"]
  BY DEF TrovePart
<1>2. \A a, b \in Nat : b <= a => Minus(a, b) = a - b
  BY DEF Minus
<1>3. /\ Minus(chain["redistributed"].collateral, chain["snapshot"].collateral) =
             chain["redistributed"].collateral - chain["snapshot"].collateral
      /\ Minus(chain["redistributed"].debt, chain["snapshot"].debt) =
             chain["redistributed"].debt - chain["snapshot"].debt
  BY <1>2 DEF ChainTyped, Trove
<1> QED BY <1>1, <1>3 DEF ReadTrove, CurrentTrove, ApplyRedistribution, Add, Multiply, Subtract, AsTrove

\* With nothing spoiled, the prediction is what the transaction would do now.
LEMMA PredictedExact ==
    ASSUME ChainTyped, NEW k, k.phase = "reading", k.request \in Request,
           k.got = Needed(k.request), ReadingAgrees(k), Unspoiled(k), Accepted(k.request),
           ReadFees(k.view) \in FeeState
    PROVE  Predicted(k) = After(k.request)
<1> DEFINE r == k.request
<1>1. /\ r.params \in Params /\ r.op \in Op
      /\ CurrentRate \in Nat /\ Rate(k.view) \in Nat
  BY CurrentTypes, RateType, DigitsAssumption, RequestAssumption DEF Rate
<1>2. /\ \A p \in k.got \cap TrovePart : k.view[p] = chain[p]
      /\ Borrows(r) => Rate(k.view) = CurrentRate
  BY DEF ReadingAgrees
<1>3. ~Borrows(r) => r.params.borrowZUSD = 0
  BY <1>1 DEF Borrows, Params
<1>4. ~Borrows(r) => ApplyFee(Rate(k.view), 0) = 0 /\ ApplyFee(CurrentRate, 0) = 0
  BY <1>1, FeeOfNone
<1>5. ApplyFee(Rate(k.view), r.params.borrowZUSD) = ApplyFee(CurrentRate, r.params.borrowZUSD)
  BY <1>2, <1>3, <1>4
<1>6. CASE r.op = "open"
  <2>1. Create(r.params, Rate(k.view)) = Create(r.params, CurrentRate)
    BY <1>5 DEF Create, Apply, Creation
  <2> QED BY <1>6, <2>1 DEF Predicted, After
<1>7. CASE r.op = "adjust"
  <2>1. \A p \in TrovePart : k.view[p] = chain[p]
    BY <1>2, <1>7, NeededParts
  <2>2. chain["trove"].open
    BY <1>7 DEF Accepted, ChainTyped, OpenTrove
  <2>3. ReadTrove(k.view) = CurrentTrove
    BY <2>1, <2>2, ReadTroveExact
  <2>4. Increase(r.params, Rate(k.view)) = Increase(r.params, CurrentRate)
    BY <1>5 DEF Increase
  <2>5. Adjust(CurrentTrove, r.params, Rate(k.view)) = Adjust(CurrentTrove, r.params, CurrentRate)
    BY <2>4 DEF Adjust, Apply, Adjustment
  <2> QED BY <1>7, <2>3, <2>5 DEF Predicted, After
<1>8. CASE r.op = "close"
  BY <1>8 DEF Predicted, After
<1> QED BY <1>1, <1>6, <1>7, <1>8 DEF Op

\* All is answered.
LEMMA PopulateStep ==
    ASSUME BorrowingInv, NEW c \in Call, Populate(c)
    PROVE  BorrowingInv'
<1> DEFINE k == call[c]
           l == call'[c]
           populated == [k EXCEPT !.final = Predicted(k), !.limit = RateLimit(k),
                                  !.paid = Headroom(k.request), !.view = NoView]
<1>1. /\ chain' = chain /\ call = [d \in Call |-> call[d]]
      /\ k.phase = "reading" /\ k.got = Needed(k.request) /\ CallInv(k) /\ ChainTyped
  BY DEF Populate, BorrowingInv
<1>2. Shape(k) /\ k.request \in Request /\ ReadFees(k.view) \in FeeState
  BY <1>1 DEF CallInv, CallTyped
<1>3. /\ \A d \in Call \ {c} : call'[d] = call[d]
      /\ \/ l = Idle
         \/ l = [populated EXCEPT !.phase = "refused"]
         \/ Accepted(k.request) /\ l = [populated EXCEPT !.phase = "sent"]
      /\ call' = [d \in Call |-> call'[d]]
  <2> HIDE DEF populated
  <2> QED BY <1>1 DEF Populate, populated
<1>4. ASSUME NEW phase \in {"refused", "sent"}, l = [populated EXCEPT !.phase = phase],
             phase = "sent" => Accepted(k.request)
      PROVE  CallInv(call[c])'
  <2> DEFINE final == Predicted(k)
             limit == RateLimit(k)
             paid == Headroom(k.request)
  <2>1. l = [[k EXCEPT !.final = final, !.limit = limit, !.paid = paid, !.view = NoView]
                EXCEPT !.phase = phase]
    BY <1>4
  <2> HIDE DEF k, l, final, limit, paid
  <2>2. l = [phase |-> phase, request |-> k.request, got |-> k.got, view |-> NoView,
             final |-> final, limit |-> limit, paid |-> paid, result |-> k.result,
             since |-> k.since, torn |-> k.torn]
    BY <1>2, <2>1 DEF Shape
  <2>3. /\ l.phase = phase /\ l.request = k.request /\ l.got = k.got /\ l.view = NoView
        /\ l.final = final /\ l.paid = paid /\ l.since = k.since /\ l.torn = k.torn
    BY <2>2
  <2>4. NoView = [p \in Part |-> NoView[p]]
    BY DEF NoView
  <2>5. CallTyped(l)
    <3>1. Shape(l)
      BY <2>2, <2>4 DEF Shape
    <3> QED BY <1>1, <1>2, <2>3, <3>1, NoViewFees DEF CallTyped, Phase, InProgress
  <2>6. phase = "sent" =>
          /\ l.got = Needed(k.request)
          /\ Borrows(k.request) => l.paid
          /\ Unspoiled(l) => l.final = After(k.request)
    <3>1. Borrows(k.request) => paid
      BY DEF paid, Headroom
    <3>2. Unspoiled(l) => Unspoiled(k)
      BY <2>3 DEF Unspoiled, Spoilers
    <3>3. phase = "sent" /\ Unspoiled(k) => final = After(k.request)
      BY <1>1, <1>2, <1>4, PredictedExact DEF final, CallInv
    <3> QED BY <1>1, <2>3, <3>1, <3>2, <3>3
  <2>7. After(call[c].request)' = After(call[c].request)
    <3>1. call'[c].request = call[c].request
      BY <2>3 DEF k, l
    <3>2. CurrentRate' = CurrentRate /\ CurrentTrove' = CurrentTrove
      BY <1>1 DEF CurrentRate, CurrentFees, CurrentTrove
    <3> QED BY <3>1, <3>2 DEF After
  <2>8. SentAgrees(call[c])'
    BY <2>3, <2>6, <2>7 DEF SentAgrees, k, l
  <2>9. CallTyped(call[c])'
    BY <2>5 DEF l
  <2>10. (call[c].phase # "reading" /\ call[c].phase # "mined")'
    BY <2>3 DEF l
  <2> QED BY <2>8, <2>9, <2>10 DEF CallInv, ReadingAgrees, MinedAgrees
<1>5. CallInv(call[c])'
  <2>1. CASE l = Idle
    BY <2>1, IdleInvNext
  <2>2. CASE l = [populated EXCEPT !.phase = "refused"]
    <3> HIDE DEF populated
    <3> QED BY <1>4, <2>2
  <2>3. CASE Accepted(k.request) /\ l = [populated EXCEPT !.phase = "sent"]
    <3> HIDE DEF populated
    <3> QED BY <1>4, <2>3
  <2> HIDE DEF populated
  <2> QED BY <1>3, <2>1, <2>2, <2>3
<1>6. ASSUME NEW d \in Call PROVE CallInv(call[d])'
  <2>1. CASE d = c
    BY <1>5, <2>1
  <2>2. CASE d # c
    BY <1>1, <1>3, <2>2, SameStep DEF BorrowingInv
  <2> QED BY <2>1, <2>2
<1>7. ChainTyped'
  BY <1>1 DEF ChainTyped
<1> QED BY <1>3, <1>6, <1>7 DEF BorrowingInv

\* An executed transaction leaves a chain of the same kind.
LEMMA ExecutedTyped ==
    ASSUME ChainTyped, NEW r \in Request, chain' = Executed(r)
    PROVE  ChainTyped'
<1> DEFINE paid == IF Borrows(r) THEN FeeNoted(Decayed) ELSE chain
           t == After(r)
           trove == [open |-> r.op # "close", collateral |-> t.collateral, debt |-> t.debt,
                     stake |-> t.collateral]
<1>1. t \in Trove /\ Decayed \in Nat
  BY AfterType, CurrentTypes
<1>2. trove \in OpenTrove
  <2> HIDE DEF t
  <2> QED BY <1>1 DEF Trove, OpenTrove
<1>3. /\ paid = [p \in Part |-> paid[p]]
      /\ \A p \in Part \ {"base", "last"} : paid[p] = chain[p]
      /\ paid["base"] \in Nat /\ paid["last"] \in Nat
  <2>1. CASE Borrows(r)
    <3>1. paid = FeeNoted(Decayed)
      BY <2>1
    <3>2. chain["now"] \in Nat /\ chain["last"] \in Nat
      BY DEF ChainTyped
    <3> HIDE DEF paid
    <3> QED BY <1>1, <3>1, <3>2, FeeNotedParts
  <2>2. CASE ~Borrows(r)
    BY <2>2 DEF ChainTyped
  <2> QED BY <2>1, <2>2
<1>4. chain' = [paid EXCEPT !["trove"] = trove, !["snapshot"] = chain["redistributed"]]
  BY DEF Executed
<1> HIDE DEF paid, trove
<1>5. /\ chain'["trove"] = trove /\ chain'["snapshot"] = chain["redistributed"]
      /\ \A p \in Part \ {"trove", "snapshot"} : chain'[p] = paid[p]
      /\ chain' = [p \in Part |-> chain'[p]]
  BY <1>3, <1>4 DEF Part, TrovePart
<1>6. chain'["redistributed"] = chain["redistributed"] /\ chain["redistributed"] \in Trove
  BY <1>3, <1>5 DEF Part, TrovePart, ChainTyped
<1>7. /\ chain'["snapshot"].collateral <= chain'["redistributed"].collateral
      /\ chain'["snapshot"].debt <= chain'["redistributed"].debt
  BY <1>5, <1>6 DEF Trove
<1>8. /\ chain'["base"] \in Nat /\ chain'["last"] \in Nat
      /\ chain'["now"] = chain["now"] /\ chain'["recovery"] = chain["recovery"]
  BY <1>3, <1>5 DEF Part, FeePart
<1> QED BY <1>2, <1>5, <1>6, <1>7, <1>8 DEF ChainTyped

\* A transaction is over, with or without an effect.
LEMMA OverInv ==
    ASSUME BorrowingInv, NEW c \in Call, call[c].phase = "sent",
           NEW phase \in {"mined", "refused", "reverted"}, NEW result,
           phase = "mined" => result = After(call[c].request),
           \/ call'[c] = [call[c] EXCEPT !.phase = phase, !.result = result]
           \/ phase # "mined" /\ call'[c] = [call[c] EXCEPT !.phase = phase]
    PROVE  CallInv(call[c])'
<1> DEFINE k == call[c]
           l == call'[c]
<1>1. CallInv(k) /\ Shape(k) /\ ReadFees(k.view) \in FeeState /\ k.request \in Request
  BY DEF BorrowingInv, CallInv, CallTyped
<1>2. Unspoiled(k) => k.final = After(k.request)
  BY <1>1 DEF CallInv, SentAgrees
<1>3. \E r : /\ l = [phase |-> phase, request |-> k.request, got |-> k.got, view |-> k.view,
                     final |-> k.final, limit |-> k.limit, paid |-> k.paid, result |-> r,
                     since |-> k.since, torn |-> k.torn]
             /\ phase = "mined" => r = After(k.request)
  <2> DEFINE after == After(k.request)
  <2>1. phase = "mined" => result = after
    OBVIOUS
  <2>2. \/ l = [k EXCEPT !.phase = phase, !.result = result]
        \/ phase # "mined" /\ l = [k EXCEPT !.phase = phase]
    OBVIOUS
  <2> HIDE DEF k, l, after
  <2>3. k = [phase |-> k.phase, request |-> k.request, got |-> k.got, view |-> k.view,
             final |-> k.final, limit |-> k.limit, paid |-> k.paid, result |-> k.result,
             since |-> k.since, torn |-> k.torn]
    BY <1>1 DEF Shape
  <2>4. CASE l = [k EXCEPT !.phase = phase, !.result = result]
    <3>1. l = [phase |-> phase, request |-> k.request, got |-> k.got, view |-> k.view,
               final |-> k.final, limit |-> k.limit, paid |-> k.paid, result |-> result,
               since |-> k.since, torn |-> k.torn]
      BY <2>3, <2>4
    <3> QED BY <2>1, <3>1 DEF after
  <2>5. CASE phase # "mined" /\ l = [k EXCEPT !.phase = phase]
    <3>1. l = [phase |-> phase, request |-> k.request, got |-> k.got, view |-> k.view,
               final |-> k.final, limit |-> k.limit, paid |-> k.paid, result |-> k.result,
               since |-> k.since, torn |-> k.torn]
      BY <2>3, <2>5
    <3> QED BY <2>5, <3>1
  <2> QED BY <2>2, <2>4, <2>5
<1>4. PICK r : /\ l = [phase |-> phase, request |-> k.request, got |-> k.got, view |-> k.view,
                       final |-> k.final, limit |-> k.limit, paid |-> k.paid, result |-> r,
                       since |-> k.since, torn |-> k.torn]
               /\ phase = "mined" => r = After(k.request)
  BY <1>3
<1> HIDE DEF k, l
<1>5. /\ l.phase = phase /\ l.request = k.request /\ l.got = k.got /\ l.view = k.view
      /\ l.final = k.final /\ l.result = r /\ l.since = k.since /\ l.torn = k.torn
  BY <1>4
<1>6. CallTyped(l)
  <2>1. Shape(l)
    BY <1>1, <1>4 DEF Shape
  <2> QED BY <1>1, <1>5, <2>1 DEF CallTyped, Phase, InProgress
<1>7. CallTyped(call[c])'
  BY <1>6 DEF l
<1>8. Unspoiled(l) => Unspoiled(k)
  BY <1>5 DEF Unspoiled, Spoilers
<1>9. MinedAgrees(l)
  BY <1>2, <1>4, <1>5, <1>8 DEF MinedAgrees
<1>10. MinedAgrees(call[c])'
  BY <1>9 DEF MinedAgrees, l
<1>11. (call[c].phase # "reading" /\ call[c].phase # "sent")'
  BY <1>5 DEF l
<1> QED BY <1>7, <1>10, <1>11 DEF CallInv, ReadingAgrees, SentAgrees

\* A transaction is mined.
LEMMA MineStep ==
    ASSUME BorrowingInv, NEW c \in Call, Mine(c)
    PROVE  BorrowingInv'
<1> DEFINE k == call[c]
           r == call[c].request
<1>1. /\ call = [d \in Call |-> call[d]] /\ k.phase = "sent" /\ CallInv(k) /\ ChainTyped
      /\ r \in Request
  BY DEF Mine, BorrowingInv, CallInv, CallTyped
<1>2. UpdatesFeeTime(r) => k.paid
  BY <1>1 DEF UpdatesFeeTime, CallInv, SentAgrees
<1>3. ASSUME NEW phase \in {"reverted", "refused"}, chain' = chain,
             call' = [call EXCEPT ![c] = [call[c] EXCEPT !.phase = phase]]
      PROVE  BorrowingInv'
  <2>1. CallInv(call[c])'
    BY <1>1, <1>3, OverInv
  <2>2. ASSUME NEW d \in Call PROVE CallInv(call[d])'
    <3>1. CASE d = c
      BY <2>1, <3>1
    <3>2. CASE d # c
      BY <1>1, <1>3, <3>2, SameStep DEF BorrowingInv
    <3> QED BY <3>1, <3>2
  <2>3. ChainTyped' /\ call' = [d \in Call |-> call'[d]]
    BY <1>1, <1>3 DEF ChainTyped
  <2> QED BY <2>2, <2>3 DEF BorrowingInv
<1> DEFINE kinds == {"own"} \cup IF Borrows(r) THEN {"decay"} ELSE {}
<1>4. ASSUME chain' = Executed(r),
             call' = [Noted(kinds) EXCEPT ![c] =
                         [call[c] EXCEPT !.phase = "mined", !.result = After(r)]]
      PROVE  BorrowingInv'
  <2>1. ChainTyped'
    BY <1>1, <1>4, ExecutedTyped
  <2>2. Keeps(kinds)
    BY DEF Keeps
  <2>3. /\ call'[c] = [call[c] EXCEPT !.phase = "mined", !.result = After(r)]
        /\ \A d \in Call \ {c} : call'[d] = Noted(kinds)[d]
        /\ call' = [d \in Call |-> call'[d]]
    <3> HIDE DEF kinds
    <3> QED BY <1>4 DEF Noted
  <2>4. CallInv(call[c])'
    BY <1>1, <2>3, OverInv
  <2>5. ASSUME NEW d \in Call PROVE CallInv(call[d])'
    <3>1. CASE d = c
      BY <2>4, <3>1
    <3>2. CASE d # c
      <4>1. CallInv(call[d])
        BY DEF BorrowingInv
      <4> HIDE DEF kinds
      <4> QED BY <1>1, <2>1, <2>2, <2>3, <3>2, <4>1, NotedStep
    <3> QED BY <3>1, <3>2
  <2> QED BY <2>1, <2>3, <2>5 DEF BorrowingInv
<1>5. \/ \E phase \in {"reverted", "refused"} :
           /\ chain' = chain
           /\ call' = [call EXCEPT ![c] = [call[c] EXCEPT !.phase = phase]]
      \/ /\ chain' = Executed(r)
         /\ call' = [Noted(kinds) EXCEPT ![c] =
                         [call[c] EXCEPT !.phase = "mined", !.result = After(r)]]
  BY <1>2 DEF Mine
<1> QED BY <1>3, <1>4, <1>5

-----------------------------------------------------------------------------
(* The theorems *)

\* The chain moves.
LEMMA MovesStep == ASSUME BorrowingInv, ChainMoves PROVE BorrowingInv'
<1>1. PICK kinds : NotedWith(kinds)
  BY EventKeeps DEF BorrowingInv
<1>2. ChainTyped' /\ Keeps(kinds) /\ call' = Noted(kinds)
  BY <1>1 DEF NotedWith
<1>3. ASSUME NEW d \in Call PROVE CallInv(call[d])'
  BY <1>2, NotedStep DEF BorrowingInv
<1>4. call' = [d \in Call |-> call'[d]]
  BY <1>2 DEF Noted
<1> QED BY <1>2, <1>3, <1>4 DEF BorrowingInv

\* Nothing happens.
LEMMA StutterStep == ASSUME BorrowingInv, UNCHANGED borrowingVars PROVE BorrowingInv'
<1>1. chain' = chain /\ call' = call
  BY DEF borrowingVars
<1>2. ASSUME NEW d \in Call PROVE CallInv(call[d])'
  BY <1>1, SameStep DEF BorrowingInv
<1> QED BY <1>1, <1>2 DEF BorrowingInv, ChainTyped

\* Initially no call is in progress.
LEMMA BorrowingStart == BorrowingInit => BorrowingInv
<1> SUFFICES ASSUME BorrowingInit PROVE BorrowingInv
  OBVIOUS
<1>1. PICK trove \in Initial, base \in {0, RaisedRate} :
          chain = [NoView EXCEPT !["trove"] = trove, !["base"] = base,
                                 !["snapshot"] = Share, !["redistributed"] = Share]
  BY DEF BorrowingInit
<1>2. trove \in OpenTrove /\ base \in Nat /\ Share \in Trove
  BY RequestAssumption DEF OpenTrove
<1>3. /\ NoView = [p \in Part |-> NoView[p]]
      /\ NoView["last"] = 0 /\ NoView["now"] = 0 /\ NoView["recovery"] = FALSE
  BY DEF NoView, Part, FeePart, TrovePart
<1>4. /\ chain["trove"] = trove /\ chain["base"] = base
      /\ chain["snapshot"] = Share /\ chain["redistributed"] = Share
      /\ chain["last"] = 0 /\ chain["now"] = 0 /\ chain["recovery"] = FALSE
      /\ chain = [p \in Part |-> chain[p]]
  BY <1>1, <1>3 DEF Part, FeePart, TrovePart
<1>5. ChainTyped
  <2>1. chain["recovery"] \in BOOLEAN
    BY <1>4, Zenon
  <2>2. /\ chain["snapshot"].collateral <= chain["redistributed"].collateral
        /\ chain["snapshot"].debt <= chain["redistributed"].debt
    BY <1>2, <1>4 DEF Trove
  <2> QED BY <1>2, <1>4, <2>1, <2>2 DEF ChainTyped
<1>6. call = [c \in Call |-> call[c]] /\ \A c \in Call : call[c] = Idle
  BY DEF BorrowingInit
<1> QED BY <1>5, <1>6, IdleInv DEF BorrowingInv

\* Every step keeps the invariant.
LEMMA BorrowingStep == BorrowingInv /\ [BorrowingNext]_borrowingVars => BorrowingInv'
<1> SUFFICES ASSUME BorrowingInv, [BorrowingNext]_borrowingVars PROVE BorrowingInv'
  OBVIOUS
<1>1. ASSUME NEW c \in Call, NEW r \in Request, Begin(c, r) PROVE BorrowingInv'
  BY <1>1, BeginStep
<1>2. ASSUME NEW c \in Call, NEW p \in Needed(call[c].request), Answer(c, p) PROVE BorrowingInv'
  BY <1>2, AnswerStep
<1>3. ASSUME NEW c \in Call, Populate(c) PROVE BorrowingInv'
  BY <1>3, PopulateStep
<1>4. ASSUME NEW c \in Call, Mine(c) PROVE BorrowingInv'
  BY <1>4, MineStep
<1>5. CASE ChainMoves
  BY <1>5, MovesStep
<1>6. CASE UNCHANGED borrowingVars
  BY <1>6, StutterStep
<1> QED BY <1>1, <1>2, <1>3, <1>4, <1>5, <1>6 DEF BorrowingNext

\* PopulatableEthersLiquity.ts:718-727: whatever the amounts, the rates and the
\* interleaving of calls, answers and events of the chain, a mined transaction
\* leads to the trove that was predicted, unless something happened that
\* PredictionExact names.
THEOREM PredictionHolds == BorrowingSpec => []PredictionExact
<1>1. BorrowingInv => PredictionExact
  BY DEF BorrowingInv, CallInv, MinedAgrees, Unspoiled, PredictionExact
<1>2. BorrowingInit => BorrowingInv
  BY BorrowingStart
<1>3. BorrowingInv /\ [BorrowingNext]_borrowingVars => BorrowingInv'
  BY BorrowingStep
<1> QED BY <1>1, <1>2, <1>3, PTL DEF BorrowingSpec

\* PopulatableEthersLiquity.ts:70-71: no borrowing runs out of gas because the
\* time of the last fee operation is updated.
THEOREM GasSuffices == BorrowingSpec => []NeverOutOfGas
<1>1. BorrowingInv => NeverOutOfGas
  BY DEF BorrowingInv, CallInv, CallTyped, NeverOutOfGas
<1>2. BorrowingInit => BorrowingInv
  BY BorrowingStart
<1>3. BorrowingInv /\ [BorrowingNext]_borrowingVars => BorrowingInv'
  BY BorrowingStep
<1> QED BY <1>1, <1>2, <1>3, PTL DEF BorrowingSpec

\* Trove.ts:635-703: the change that leads from the user's trove to another one
\* does so, at whatever rate and for whatever amounts.
THEOREM PlansReach == BorrowingSpec => []PlanReaches
<1>1. BorrowingInv => PlanReaches
  <2> SUFFICES ASSUME ChainTyped, NEW u \in Wanted, NEW change,
                      change = WhatChanged(CurrentTrove, u, CurrentRate),
                      CurrentTrove # u, CanClose(CurrentTrove) \/ IsEmpty(CurrentTrove),
                      change.type # "invalidCreation"
               PROVE  /\ Reaches(Apply(CurrentTrove, change, CurrentRate), u)
                      /\ change.type = "creation" => Reaches(Create(change.params, CurrentRate), u)
                      /\ change.type = "adjustment" =>
                            /\ IsAdjustment(change.params)
                            /\ Reaches(Adjust(CurrentTrove, change.params, CurrentRate), u)
    BY DEF BorrowingInv, PlanReaches
  <2>1. CurrentTrove \in Trove /\ u \in Trove /\ CurrentRate \in 0..Digits
    BY CurrentTypes, RequestAssumption
  <2> DEFINE t == CurrentTrove
             rate == CurrentRate
  <2>2. t \in Trove /\ u \in Trove /\ rate \in 0..Digits /\ t # u
        /\ (CanClose(t) \/ IsEmpty(t)) /\ change = WhatChanged(t, u, rate)
    BY <2>1
  <2> HIDE DEF t, rate
  <2>3. /\ Reaches(Apply(t, change, rate), u)
        /\ change.type = "creation" => Reaches(Create(change.params, rate), u)
        /\ change.type = "adjustment" =>
              IsAdjustment(change.params) /\ Reaches(Adjust(t, change.params, rate), u)
    BY <2>2, ChangeReaches
  <2> QED BY <2>3 DEF t, rate
<1>2. BorrowingInit => BorrowingInv
  BY BorrowingStart
<1>3. BorrowingInv /\ [BorrowingNext]_borrowingVars => BorrowingInv'
  BY BorrowingStep
<1> QED BY <1>1, <1>2, <1>3, PTL DEF BorrowingSpec

-----------------------------------------------------------------------------
(* Rates that fall with time *)

\* A quotient grows with its dividend.
LEMMA DivMonotone ==
    ASSUME NEW a \in Nat, NEW b \in Nat, NEW d \in Nat, d # 0, a <= b
    PROVE  a \div d <= b \div d
<1> DEFINE p == a \div d
           q == b \div d
<1>1. p \in Nat /\ q \in Nat /\ d * p <= a /\ b < d * q + d
  BY DivBounds
<1>2. d * q + d = d * (q + 1)
  BY <1>1
<1> HIDE DEF p, q
<1>3. d * p < d * (q + 1)
  BY <1>1, <1>2
<1>4. p < q + 1
  BY <1>1, <1>3
<1>5. p <= q
  BY <1>1, <1>4
<1> QED BY <1>5 DEF p, q

\* So does a product with its factors.
LEMMA MulMonotone ==
    ASSUME NEW x \in Nat, NEW y \in Nat, NEW z \in Nat, x <= y
    PROVE  Mul(x, z) <= Mul(y, z) /\ Mul(z, x) <= Mul(z, y)
<1>1. /\ x * z \in Nat /\ y * z \in Nat /\ x * z <= y * z
      /\ z * x \in Nat /\ z * y \in Nat /\ z * x <= z * y
  OBVIOUS
<1> QED BY <1>1, DivMonotone, DigitsAssumption DEF Mul

\* The powers of the decay factor fall, not only from one minute to the next.
LEMMA DecayOrder ==
    ASSUME NEW n \in Nat, DecaysUpTo(n), NEW i \in Nat, NEW j \in Nat, i <= j, j <= n
    PROVE  Pow(DecayFactor, j) <= Pow(DecayFactor, i)
<1> DEFINE P(m) == Pow(DecayFactor, m)
<1>1. ASSUME NEW m \in Nat PROVE P(m) \in Nat
  <2>1. DecayFactor \in Nat
    BY DecayAssumption, DigitsAssumption
  <2> QED BY <2>1, PowType
<1>2. \A m \in 0..n : P(m + 1) <= P(m)
  BY DEF DecaysUpTo
<1> HIDE DEF P
<1> DEFINE Bad == {m \in i..j : ~(P(m) <= P(i))}
<1>3. Bad = {}
  <2> SUFFICES ASSUME Bad # {} PROVE FALSE
    OBVIOUS
  <2>1. PICK m \in Bad : \A k \in Bad : m <= k
    <3>1. Bad \in SUBSET Nat
      OBVIOUS
    <3> HIDE DEF Bad
    <3> QED BY <3>1, LeastElement
  <2>2. m # i
    BY <1>1, <2>1
  <2>3. m - 1 \in i..j /\ m - 1 \in 0..n /\ m - 1 \notin Bad
    BY <2>1, <2>2
  <2>4. P(m - 1) <= P(i) /\ P(m) <= P(m - 1)
    <3>1. P((m - 1) + 1) <= P(m - 1)
      BY <1>2, <2>3
    <3>2. (m - 1) + 1 = m
      BY <2>1
    <3> QED BY <2>3, <3>1, <3>2
  <2>5. P(m) \in Nat /\ P(m - 1) \in Nat /\ P(i) \in Nat
    BY <1>1, <2>1, <2>3
  <2>6. P(m) <= P(i)
    BY <2>4, <2>5
  <2> QED BY <2>1, <2>6
<1>4. j \in i..j /\ j \notin Bad
  BY <1>3
<1> QED BY <1>4 DEF P

\* Time alone never raises a rate.
LEMMA RateFalls ==
    ASSUME NEW n \in Nat, DecaysUpTo(n \div TicksPerMinute),
           NEW f \in FeeState, NEW g \in FeeState, g.base = f.base, g.last = f.last,
           g.recovery = f.recovery, f.now <= g.now, g.now <= n
    PROVE  BaseRate(g) <= BaseRate(f) /\ BorrowingRate(g) <= BorrowingRate(f)
<1> DEFINE a == Minus(f.now, f.last)
           b == Minus(g.now, g.last)
           i == a \div TicksPerMinute
           j == b \div TicksPerMinute
<1>1. /\ f.now \in Nat /\ f.last \in Nat /\ f.base \in Nat
      /\ g.now \in Nat /\ g.last \in Nat /\ TicksPerMinute \in Nat /\ TicksPerMinute # 0
  BY DecayAssumption DEF FeeState
<1>2. a \in Nat /\ b \in Nat /\ a <= b /\ b <= n
  BY <1>1 DEF Minus
<1> HIDE DEF a, b
<1>3. /\ i \in Nat /\ j \in Nat /\ n \div TicksPerMinute \in Nat
      /\ i <= j /\ j <= n \div TicksPerMinute
  BY <1>1, <1>2, DivBounds, DivMonotone
<1> DEFINE m == n \div TicksPerMinute
           p == Pow(DecayFactor, i)
           q == Pow(DecayFactor, j)
<1>4. q <= p
  <2>1. m \in Nat /\ DecaysUpTo(m) /\ i <= j /\ j <= m /\ i \in Nat /\ j \in Nat
    BY <1>3
  <2> HIDE DEF i, j, m
  <2> QED BY <2>1, DecayOrder
<1>5. p \in Nat /\ q \in Nat
  <2>1. DecayFactor \in Nat
    BY DecayAssumption, DigitsAssumption
  <2> HIDE DEF i, j
  <2> QED BY <1>3, <2>1, PowType
<1>6. BaseRate(f) = Mul(p, f.base) /\ BaseRate(g) = Mul(q, f.base)
  BY DEF BaseRate, a, b
<1> HIDE DEF p, q
<1>7. BaseRate(g) <= BaseRate(f) /\ BaseRate(f) \in Nat /\ BaseRate(g) \in Nat
  <2>1. Mul(q, f.base) <= Mul(p, f.base)
    BY <1>1, <1>4, <1>5, MulMonotone
  <2>2. Mul(p, f.base) \in Nat /\ Mul(q, f.base) \in Nat
    BY <1>1, <1>5, MulType
  <2> QED BY <1>6, <2>1, <2>2
<1>8. BorrowingRate(g) <= BorrowingRate(f)
  BY <1>7, RateAssumption, DigitsAssumption DEF BorrowingRate, Least
<1> QED BY <1>7, <1>8

\* The fee that is charged is, as a share of the amount, no higher than the rate.
LEMMA FeeShare ==
    ASSUME NEW amount \in Nat, amount # 0, NEW rate \in Nat
    PROVE  /\ MulDiv(Mul(amount, rate), Digits, amount) \in Nat
           /\ MulDiv(Mul(amount, rate), Digits, amount) <= rate
<1> DEFINE fee == Mul(amount, rate)
<1>1. Digits \in Nat /\ Digits # 0
  BY DigitsAssumption
<1>2. fee \in Nat /\ Digits * fee <= amount * rate
  <2>1. amount * rate \in Nat
    OBVIOUS
  <2> QED BY <1>1, <2>1, DivBounds DEF Mul
<1> DEFINE share == MulDiv(fee, Digits, amount)
<1>3. share = (fee * Digits) \div amount
  BY DEF MulDiv
<1> HIDE DEF fee
<1>4. fee * Digits \in Nat /\ fee * Digits = Digits * fee /\ amount * rate \in Nat
  BY <1>1, <1>2
<1>5. (fee * Digits) \div amount \in Nat /\ amount * ((fee * Digits) \div amount) <= fee * Digits
  BY <1>4, DivBounds
<1> HIDE DEF share
<1>6. share \in Nat /\ amount * share <= amount * rate
  BY <1>2, <1>3, <1>4, <1>5
<1>7. share <= rate
  BY <1>6
<1> QED BY <1>6, <1>7 DEF share, fee

-----------------------------------------------------------------------------
(* The highest acceptable rate *)

\* Nothing happened that RefusedOnlyIfRaised excuses.
Untouched(k) == {"raise", "recovery"} \cap k.since = {} /\ "decay" \notin k.torn

\* As long as nothing did, the rate that was read, and the limit set from it, are
\* no lower than the current rate, and until all is read the base rate and its
\* time are those of the chain.
FeesHold(k) ==
    InProgress(k) /\ Borrows(k.request) /\ Untouched(k) =>
        /\ k.phase = "reading" /\ k.got # Needed(k.request) =>
              /\ \A p \in k.got \cap {"base", "last", "recovery"} : k.view[p] = chain[p]
              /\ "now" \in k.got => k.view["now"] <= chain["now"]
        /\ k.phase = "reading" /\ k.got = Needed(k.request) => Rate(k.view) >= CurrentRate
        /\ k.phase = "sent" /\ k.request.limit = NoLimit =>
              k.limit \in Nat /\ k.limit >= CurrentRate

RefusalExcused(k) == k.phase = "refused" /\ k.request.limit = NoLimit => ~Untouched(k)

LimitInv ==
    /\ chain["now"] <= MaxTicks
    /\ \A c \in Call : FeesHold(call[c]) /\ RefusalExcused(call[c])

\* What an event of these kinds does to the fees.
KeepsFees(kinds) ==
    /\ chain'["now"] <= MaxTicks
    /\ kinds \cap {"raise", "recovery"} = {} => CurrentRate' <= CurrentRate
    /\ kinds \cap {"raise", "recovery", "decay"} = {} =>
          /\ \A p \in {"base", "last", "recovery"} : chain'[p] = chain[p]
          /\ chain["now"] <= chain'["now"]

\* The same fees have the same rate.
LEMMA SameFees ==
    ASSUME ChainTyped, chain["now"] <= MaxTicks, \A p \in FeePart : chain'[p] = chain[p], NEW kinds
    PROVE  KeepsFees(kinds)
<1>1. CurrentRate' = CurrentRate
  BY DEF CurrentRate, CurrentFees, FeePart
<1>2. CurrentRate \in Nat
  BY CurrentTypes
<1> QED BY <1>1, <1>2 DEF KeepsFees, FeePart, ChainTyped

\* A fee operation without a redemption.
LEMMA OperationFees ==
    ASSUME ChainTyped, chain["now"] <= MaxTicks, NEW kinds, "decay" \in kinds,
           chain'["base"] = Decayed,
           chain'["last"] = IF MinutePassed THEN chain["now"] ELSE chain["last"],
           chain'["now"] = chain["now"], chain'["recovery"] = chain["recovery"]
    PROVE  KeepsFees(kinds)
<1>1. CurrentRate' = CurrentRate
  <2>1. CurrentRate' = BorrowingRate([base |-> chain'["base"], last |-> chain'["last"],
                                      now |-> chain'["now"], recovery |-> chain'["recovery"]])
    BY DEF CurrentRate, CurrentFees
  <2> QED BY <2>1, FeeOperationKeepsRate
<1>2. CurrentRate \in Nat
  BY CurrentTypes
<1> QED BY <1>1, <1>2 DEF KeepsFees

\* Time passes, and the rate falls.
LEMMA TickFees ==
    ASSUME ChainTyped, chain["now"] <= MaxTicks, Tick
    PROVE  KeepsFees({"tick"})
<1>1. /\ chain = [p \in Part |-> chain[p]] /\ chain["now"] \in Nat /\ MaxTicks \in Nat
      /\ chain["now"] < MaxTicks
  BY RequestAssumption DEF ChainTyped, Tick
<1>2. chain'["now"] = chain["now"] + 1 /\ \A p \in Part \ {"now"} : chain'[p] = chain[p]
  BY <1>1 DEF Tick, Part, FeePart
<1>3. \A p \in {"base", "last", "recovery"} : chain'[p] = chain[p]
  BY <1>2 DEF Part, FeePart
<1>4. chain'["now"] <= MaxTicks /\ chain["now"] <= chain'["now"]
  BY <1>1, <1>2
<1> DEFINE f == CurrentFees
           g == [base |-> chain["base"], last |-> chain["last"], now |-> chain["now"] + 1,
                 recovery |-> chain["recovery"]]
<1>5. f \in FeeState /\ g \in FeeState
  BY <1>1, CurrentTypes DEF FeeState, ChainTyped
<1>6. /\ g.base = f.base /\ g.last = f.last /\ g.recovery = f.recovery
      /\ f.now <= g.now /\ g.now <= MaxTicks
  BY <1>1 DEF CurrentFees
<1>7. CurrentFees' = g
  BY <1>2, <1>3 DEF CurrentFees
<1>8. DecaysUpTo(MaxTicks \div TicksPerMinute)
  BY RequestAssumption
<1> HIDE DEF f, g
<1>9. BorrowingRate(g) <= BorrowingRate(f)
  BY <1>1, <1>5, <1>6, <1>8, RateFalls
<1>10. CurrentRate' <= CurrentRate
  BY <1>7, <1>9 DEF CurrentRate, f
<1> QED BY <1>3, <1>4, <1>10 DEF KeepsFees

\* What the chain does by itself.
LEMMA MoveFees ==
    ASSUME ChainTyped, chain["now"] <= MaxTicks, ChainMoves
    PROVE  \E kinds : KeepsFees(kinds) /\ call' = Noted(kinds)
<1>1. chain = [p \in Part |-> chain[p]] /\ chain["now"] \in Nat /\ MaxTicks \in Nat
  BY RequestAssumption DEF ChainTyped
<1> USE DEF Happens
<1>2. CASE Tick
  <2>1. KeepsFees({"tick"})
    BY <1>2, TickFees
  <2> QED BY <1>2, <2>1 DEF Tick
<1>3. CASE Redeemed
  <2>1. chain' = [FeeNoted(RaisedRate) EXCEPT !["last"] = chain["now"]]
    BY <1>3 DEF Redeemed
  <2>2. chain'["now"] = chain["now"]
    BY <2>1, FeeNotedParts DEF Part, FeePart
  <2>3. KeepsFees({"raise"})
    BY <2>2 DEF KeepsFees
  <2> QED BY <1>3, <2>3 DEF Redeemed
<1>4. CASE Borrowed
  <2>1. chain' = FeeNoted(Decayed)
    BY <1>4 DEF Borrowed
  <2>2. /\ chain'["base"] = Decayed
        /\ chain'["last"] = IF MinutePassed THEN chain["now"] ELSE chain["last"]
        /\ chain'["now"] = chain["now"] /\ chain'["recovery"] = chain["recovery"]
    BY <2>1, FeeNotedParts DEF Part, FeePart
  <2>3. KeepsFees({"decay"})
    BY <2>2, OperationFees
  <2> QED BY <1>4, <2>3 DEF Borrowed
<1>5. CASE Redistributed
  <2>1. \A p \in FeePart : chain'[p] = chain[p]
    BY <1>1, <1>5 DEF Redistributed, FeePart
  <2>2. KeepsFees({"redistribute"})
    BY <2>1, SameFees
  <2> QED BY <1>5, <2>2 DEF Redistributed
<1>6. CASE Liquidated
  <2>1. \A p \in FeePart : chain'[p] = chain[p]
    BY <1>1, <1>6 DEF Liquidated, FeePart
  <2>2. KeepsFees({"own"})
    BY <2>1, SameFees
  <2> QED BY <1>6, <2>2 DEF Liquidated
<1>7. CASE ModeChanges
  <2>1. chain'["now"] = chain["now"]
    BY <1>1, <1>7 DEF ModeChanges
  <2>2. KeepsFees({"recovery"})
    BY <2>1 DEF KeepsFees
  <2> QED BY <1>7, <2>2 DEF ModeChanges
<1> QED BY <1>2, <1>3, <1>4, <1>5, <1>6, <1>7 DEF ChainMoves

\* What a transaction of the user does.
LEMMA ExecutedFees ==
    ASSUME ChainTyped, chain["now"] <= MaxTicks, NEW r \in Request, chain' = Executed(r)
    PROVE  KeepsFees({"own"} \cup IF Borrows(r) THEN {"decay"} ELSE {})
<1> DEFINE paid == IF Borrows(r) THEN FeeNoted(Decayed) ELSE chain
           t == After(r)
           trove == [open |-> r.op # "close", collateral |-> t.collateral, debt |-> t.debt,
                     stake |-> t.collateral]
<1>1. chain' = [paid EXCEPT !["trove"] = trove, !["snapshot"] = chain["redistributed"]]
  BY DEF Executed
<1> HIDE DEF trove
<1>2. CASE Borrows(r)
  <2>1. /\ paid = FeeNoted(Decayed) /\ FeeNoted(Decayed) = [p \in Part |-> FeeNoted(Decayed)[p]]
        /\ FeeNoted(Decayed)["base"] = Decayed
        /\ FeeNoted(Decayed)["last"] = IF MinutePassed THEN chain["now"] ELSE chain["last"]
        /\ FeeNoted(Decayed)["now"] = chain["now"]
        /\ FeeNoted(Decayed)["recovery"] = chain["recovery"]
    BY <1>2, FeeNotedParts DEF Part, FeePart
  <2> HIDE DEF paid
  <2>2. \A p \in FeePart : chain'[p] = paid[p]
    BY <1>1, <2>1 DEF Part, FeePart
  <2>3. /\ chain'["base"] = Decayed
        /\ chain'["last"] = IF MinutePassed THEN chain["now"] ELSE chain["last"]
        /\ chain'["now"] = chain["now"] /\ chain'["recovery"] = chain["recovery"]
    BY <2>1, <2>2 DEF FeePart
  <2> QED BY <1>2, <2>3, OperationFees
<1>3. CASE ~Borrows(r)
  <2>1. paid = chain /\ chain = [p \in Part |-> chain[p]]
    BY <1>3 DEF ChainTyped
  <2> HIDE DEF paid
  <2>2. \A p \in FeePart : chain'[p] = chain[p]
    BY <1>1, <2>1 DEF Part, FeePart
  <2> QED BY <2>2, SameFees
<1> QED BY <1>2, <1>3

\* A call that notes an event keeps what it knows of the fees.
LEMMA NotedFees ==
    ASSUME ChainTyped, ChainTyped', NEW c \in Call, CallInv(call[c]), FeesHold(call[c]),
           RefusalExcused(call[c]), NEW kinds, KeepsFees(kinds), call'[c] = Noted(kinds)[c]
    PROVE  FeesHold(call[c])' /\ RefusalExcused(call[c])'
<1> DEFINE k == call[c]
           l == call'[c]
<1>1. /\ l.phase = k.phase /\ l.request = k.request
      /\ l.got = k.got /\ l.view = k.view /\ l.limit = k.limit
      /\ k.since \subseteq l.since /\ k.torn \subseteq l.torn
      /\ InProgress(k) /\ k.got # {} => kinds \subseteq l.since
      /\ k.phase = "reading" /\ k.got # {} /\ k.got # Needed(k.request) => kinds \subseteq l.torn
  BY NotedFields DEF CallInv
<1>2. /\ InProgress(l) = InProgress(k)
      /\ Untouched(l) =>
           /\ Untouched(k)
           /\ InProgress(k) /\ k.got # {} => kinds \cap {"raise", "recovery"} = {}
           /\ k.phase = "reading" /\ k.got # {} /\ k.got # Needed(k.request) =>
                 kinds \cap {"raise", "recovery", "decay"} = {}
  <2> HIDE DEF k, l
  <2> QED BY <1>1 DEF Untouched, InProgress
<1>3. RefusalExcused(k)'
  <2>1. RefusalExcused(l)
    <3> HIDE DEF l
    <3> QED BY <1>1, <1>2 DEF RefusalExcused
  <2> QED BY <2>1 DEF RefusalExcused
<1>4. CurrentRate \in Nat /\ CurrentRate' \in Nat
  <2>1. ChainTyped' => (CurrentRate \in Nat)'
    BY RateIsNat, PTL
  <2> QED BY <2>1, RateIsNat
<1>5. k.phase # "idle" => k.request \in Request
  BY DEF CallInv, CallTyped
<1>6. ReadFees(k.view) \in FeeState /\ Rate(k.view) \in Nat
  <2>1. ReadFees(k.view) \in FeeState
    BY DEF CallInv, CallTyped
  <2> QED BY <2>1, RateType, DigitsAssumption DEF Rate
<1>7. k.phase = "sent" => k.got = Needed(k.request)
  BY DEF CallInv, SentAgrees
<1>8. FeesHold(k)'
  <2> SUFFICES ASSUME InProgress(l), Borrows(l.request), Untouched(l)
               PROVE  /\ l.phase = "reading" /\ l.got # Needed(l.request) =>
                            /\ \A p \in l.got \cap {"base", "last", "recovery"} :
                                  l.view[p] = chain'[p]
                            /\ "now" \in l.got => l.view["now"] <= chain'["now"]
                      /\ l.phase = "reading" /\ l.got = Needed(l.request) =>
                            Rate(l.view) >= CurrentRate'
                      /\ l.phase = "sent" /\ l.request.limit = NoLimit =>
                            l.limit \in Nat /\ l.limit >= CurrentRate'
    BY DEF FeesHold
  <2>1. /\ InProgress(k) /\ Borrows(k.request) /\ Untouched(k) /\ k.request \in Request
        /\ k.phase \in {"reading", "sent"}
    BY <1>1, <1>2, <1>5 DEF InProgress
  <2>2. /\ k.phase = "reading" /\ k.got # Needed(k.request) =>
              /\ \A p \in k.got \cap {"base", "last", "recovery"} : k.view[p] = chain[p]
              /\ "now" \in k.got => k.view["now"] <= chain["now"]
        /\ k.phase = "reading" /\ k.got = Needed(k.request) => Rate(k.view) >= CurrentRate
        /\ k.phase = "sent" /\ k.request.limit = NoLimit =>
              k.limit \in Nat /\ k.limit >= CurrentRate
    BY <2>1 DEF FeesHold
  <2>3. k.got = Needed(k.request) => k.got # {}
    BY <2>1, NeededParts
  <2>4. k.got # {} => CurrentRate' <= CurrentRate
    BY <1>2, <2>1 DEF KeepsFees
  <2>5. k.phase = "reading" /\ k.got # {} /\ k.got # Needed(k.request) =>
            /\ \A p \in {"base", "last", "recovery"} : chain'[p] = chain[p]
            /\ chain["now"] <= chain'["now"]
    BY <1>2 DEF KeepsFees
  <2>6. chain["now"] \in Nat /\ chain'["now"] \in Nat /\ k.view["now"] \in Nat
    BY <1>6 DEF ChainTyped, ReadFees, FeeState
  <2> HIDE DEF k, l
  <2>7. CASE k.phase = "reading" /\ k.got # Needed(k.request)
    <3>1. \A p \in l.got \cap {"base", "last", "recovery"} : l.view[p] = chain'[p]
      BY <1>1, <2>2, <2>5, <2>7
    <3>2. "now" \in l.got => l.view["now"] <= chain'["now"]
      BY <1>1, <2>2, <2>5, <2>6, <2>7
    <3> QED BY <1>1, <2>7, <3>1, <3>2
  <2>8. CASE k.phase = "reading" /\ k.got = Needed(k.request)
    <3>1. Rate(l.view) >= CurrentRate'
      BY <1>1, <1>4, <1>6, <2>2, <2>3, <2>4, <2>8
    <3> QED BY <1>1, <2>8, <3>1
  <2>9. CASE k.phase = "sent"
    <3>1. k.request.limit = NoLimit => k.limit \in Nat /\ k.limit >= CurrentRate'
      BY <1>4, <1>7, <2>2, <2>3, <2>4, <2>9
    <3> QED BY <1>1, <2>9, <3>1
  <2> QED BY <2>1, <2>7, <2>8, <2>9
<1> QED BY <1>3, <1>8

\* So does one that a step leaves alone.
LEMMA SameCallFees ==
    ASSUME NEW d \in Call, FeesHold(call[d]), RefusalExcused(call[d]), call'[d] = call[d],
           chain' = chain
    PROVE  FeesHold(call[d])' /\ RefusalExcused(call[d])'
<1>1. CurrentRate' = CurrentRate
  BY DEF CurrentRate, CurrentFees
<1> QED BY <1>1 DEF FeesHold, RefusalExcused

\* A limit that is no lower than the current rate is accepted.
LEMMA LimitSuffices ==
    ASSUME ChainTyped, NEW r \in Request, NEW limit \in Nat, limit >= CurrentRate
    PROVE  FeeAccepted(r, limit)
<1>1. CASE chain["recovery"] \/ ~Borrows(r)
  BY <1>1 DEF FeeAccepted
<1>2. CASE ~chain["recovery"] /\ Borrows(r)
  <2>1. CurrentFees \in FeeState /\ CurrentRate \in Nat /\ Decayed \in Nat
    BY CurrentTypes
  <2>2. CurrentRate >= MinimumRate
    BY <1>2, <2>1, RateAssumption, DigitsAssumption
       DEF CurrentRate, BorrowingRate, Least, Decayed, CurrentFees
  <2>3. r.params.borrowZUSD \in Nat /\ r.params.borrowZUSD # 0
    BY <1>2, RequestAssumption DEF Borrows, Params
  <2> DEFINE share == MulDiv(Mul(r.params.borrowZUSD, CurrentRate), Digits, r.params.borrowZUSD)
  <2>4. share \in Nat /\ share <= CurrentRate
    BY <2>1, <2>3, FeeShare
  <2> HIDE DEF share
  <2>5. share <= limit /\ limit >= MinimumRate
    BY <2>1, <2>2, <2>4, RateAssumption
  <2> QED BY <2>5 DEF FeeAccepted, share
<1> QED BY <1>1, <1>2

\* The fees of a call that reads or has sent nothing.
LEMMA OverFees ==
    ASSUME NEW c \in Call, ~InProgress(call'[c]), call'[c].phase # "refused"
    PROVE  FeesHold(call[c])' /\ RefusalExcused(call[c])'
  BY DEF FeesHold, RefusalExcused, InProgress

\* A user calls a function.
LEMMA BeginFees ==
    ASSUME BorrowingInv, LimitInv, NEW c \in Call, NEW r \in Request, Begin(c, r)
    PROVE  LimitInv'
<1>1. chain' = chain /\ call = [d \in Call |-> call[d]]
  BY DEF Begin, BorrowingInv
<1> DEFINE begun == [Idle EXCEPT !.phase = "reading", !.request = r]
<1>2. /\ \A d \in Call \ {c} : call'[d] = call[d]
      /\ call'[c] = begun \/ call'[c] = Idle
  BY <1>1 DEF Begin
<1>3. ASSUME call'[c] = begun PROVE FeesHold(call[c])' /\ RefusalExcused(call[c])'
  <2>1. call'[c].phase = "reading" /\ call'[c].request = r /\ call'[c].got = {}
    BY <1>3 DEF Idle
  <2>2. Borrows(r) => Needed(r) # {}
    BY NeededParts
  <2> QED BY <2>1, <2>2 DEF FeesHold, RefusalExcused
<1>4. ASSUME call'[c] = Idle PROVE FeesHold(call[c])' /\ RefusalExcused(call[c])'
  BY <1>4, OverFees DEF Idle, InProgress
<1>5. ASSUME NEW d \in Call PROVE FeesHold(call[d])' /\ RefusalExcused(call[d])'
  <2>1. CASE d = c
    <3> HIDE DEF begun
    <3> QED BY <1>2, <1>3, <1>4, <2>1
  <2>2. CASE d # c
    BY <1>1, <1>2, <2>2, SameCallFees DEF LimitInv
  <2> QED BY <2>1, <2>2
<1> QED BY <1>1, <1>5 DEF LimitInv

\* The fees that a call has read are no lower than the current ones when the last
\* of them is answered.
LEMMA AnswerFees ==
    ASSUME BorrowingInv, BorrowingInv', LimitInv, NEW c \in Call,
           NEW p \in Needed(call[c].request), Answer(c, p)
    PROVE  LimitInv'
<1> DEFINE k == call[c]
           l == call'[c]
<1>1. /\ chain' = chain /\ call = [d \in Call |-> call[d]]
      /\ k.phase = "reading" /\ p \notin k.got /\ CallInv(k) /\ ChainTyped
      /\ FeesHold(k) /\ chain["now"] <= MaxTicks
  BY DEF Answer, BorrowingInv, LimitInv
<1>2. Shape(k) /\ k.request \in Request /\ k.got \subseteq Needed(k.request)
  BY <1>1 DEF CallInv, CallTyped, InProgress
<1>3. p \in Part /\ p \in Needed(k.request)
  BY <1>2, NeededParts
<1>4. /\ \A d \in Call \ {c} : call'[d] = call[d]
      /\ l = [k EXCEPT !.got = k.got \cup {p}, !.view = [k.view EXCEPT ![p] = chain[p]]]
  BY <1>1 DEF Answer
<1>5. /\ l.phase = "reading" /\ l.request = k.request /\ l.got = k.got \cup {p}
      /\ l.view[p] = chain[p] /\ \A q \in Part \ {p} : l.view[q] = k.view[q]
      /\ l.since = k.since /\ l.torn = k.torn
  <2> DEFINE view == [k.view EXCEPT ![p] = chain[p]]
  <2>1. l = [k EXCEPT !.got = k.got \cup {p}, !.view = view]
    BY <1>4
  <2>2. view[p] = chain[p] /\ \A q \in Part \ {p} : view[q] = k.view[q]
    BY <1>2, <1>3 DEF Shape
  <2> HIDE DEF view, k, l
  <2>3. l = [phase |-> k.phase, request |-> k.request, got |-> k.got \cup {p}, view |-> view,
             final |-> k.final, limit |-> k.limit, paid |-> k.paid, result |-> k.result,
             since |-> k.since, torn |-> k.torn]
    BY <1>2, <2>1 DEF Shape
  <2>4. /\ l.phase = k.phase /\ l.request = k.request /\ l.got = k.got \cup {p} /\ l.view = view
        /\ l.since = k.since /\ l.torn = k.torn
    BY <2>3
  <2> QED BY <1>1, <2>2, <2>4
<1>6. FeesHold(call[c])'
  <2> SUFFICES ASSUME Borrows(k.request), Untouched(l)
               PROVE  /\ l.got # Needed(k.request) =>
                            /\ \A q \in l.got \cap {"base", "last", "recovery"} :
                                  l.view[q] = chain[q]
                            /\ "now" \in l.got => l.view["now"] <= chain["now"]
                      /\ l.got = Needed(k.request) => Rate(l.view) >= CurrentRate'
    BY <1>1, <1>5 DEF FeesHold
  <2>1. Untouched(k)
    BY <1>5 DEF Untouched
  <2>2. k.got # Needed(k.request) /\ InProgress(k)
    BY <1>1 DEF InProgress
  <2>3. /\ \A q \in k.got \cap {"base", "last", "recovery"} : k.view[q] = chain[q]
        /\ "now" \in k.got => k.view["now"] <= chain["now"]
    BY <1>1, <2>1, <2>2 DEF FeesHold
  <2>4. chain["now"] \in Nat
    BY <1>1 DEF ChainTyped
  <2>5. ReadFees(l.view) \in FeeState
    BY DEF BorrowingInv, CallInv, CallTyped
  <2>6. DecaysUpTo(MaxTicks \div TicksPerMinute) /\ MaxTicks \in Nat /\ CurrentFees \in FeeState
    BY <1>1, RequestAssumption, CurrentTypes
  <2>7. CurrentRate' = CurrentRate
    BY <1>1 DEF CurrentRate, CurrentFees
  <2> HIDE DEF k, l
  <2>8. /\ \A q \in l.got \cap {"base", "last", "recovery"} : l.view[q] = chain[q]
        /\ "now" \in l.got => l.view["now"] <= chain["now"]
    <3>1. {"base", "last", "recovery", "now"} \subseteq Part
      BY DEF Part, FeePart
    <3>2. "now" \in l.got => l.view["now"] <= chain["now"]
      BY <1>5, <2>3, <2>4, <3>1
    <3> QED BY <1>5, <2>3, <3>1, <3>2
  <2>9. ASSUME l.got = Needed(k.request) PROVE Rate(l.view) >= CurrentRate
    <3>1. FeePart \subseteq l.got
      BY <1>2, <2>9, NeededParts
    <3> DEFINE f == ReadFees(l.view)
               g == CurrentFees
    <3>2. /\ g.base = f.base /\ g.last = f.last /\ g.recovery = f.recovery
          /\ f.now <= g.now /\ g.now <= MaxTicks
      BY <1>1, <2>8, <3>1 DEF ReadFees, CurrentFees, FeePart
    <3>3. f \in FeeState /\ g \in FeeState
      BY <2>5, <2>6
    <3> HIDE DEF f, g
    <3>4. BorrowingRate(g) <= BorrowingRate(f)
      BY <2>6, <3>2, <3>3, RateFalls
    <3>5. BorrowingRate(g) \in Nat /\ BorrowingRate(f) \in Nat
      BY <3>3, RateType, DigitsAssumption
    <3> QED BY <3>4, <3>5 DEF Rate, CurrentRate, f, g
  <2> QED BY <2>7, <2>8, <2>9
<1>7. RefusalExcused(call[c])'
  BY <1>5 DEF RefusalExcused
<1>8. ASSUME NEW d \in Call PROVE FeesHold(call[d])' /\ RefusalExcused(call[d])'
  <2>1. CASE d = c
    BY <1>6, <1>7, <2>1
  <2>2. CASE d # c
    BY <1>1, <1>4, <2>2, SameCallFees DEF LimitInv
  <2> QED BY <2>1, <2>2
<1> QED BY <1>1, <1>8 DEF LimitInv

\* All is answered: the default limit is above the rate that was read.
LEMMA PopulateFees ==
    ASSUME BorrowingInv, LimitInv, NEW c \in Call, Populate(c)
    PROVE  LimitInv'
<1> DEFINE k == call[c]
           l == call'[c]
           limit == RateLimit(k)
<1>1. /\ chain' = chain /\ call = [d \in Call |-> call[d]]
      /\ k.phase = "reading" /\ k.got = Needed(k.request) /\ CallInv(k) /\ ChainTyped
      /\ FeesHold(k) /\ chain["now"] <= MaxTicks
  BY DEF Populate, BorrowingInv, LimitInv
<1>2. Shape(k) /\ k.request \in Request /\ ReadFees(k.view) \in FeeState
  BY <1>1 DEF CallInv, CallTyped
<1> DEFINE populated == [k EXCEPT !.final = Predicted(k), !.limit = RateLimit(k),
                                  !.paid = Headroom(k.request), !.view = NoView]
<1>3. /\ \A d \in Call \ {c} : call'[d] = call[d]
      /\ \/ l = Idle
         \/ ~FeeAccepted(k.request, limit) /\ l = [populated EXCEPT !.phase = "refused"]
         \/ l = [populated EXCEPT !.phase = "sent"]
  <2> HIDE DEF populated
  <2> QED BY <1>1 DEF Populate, populated
<1>4. ASSUME Borrows(k.request), k.request.limit = NoLimit, Untouched(k)
      PROVE  limit \in Nat /\ limit >= CurrentRate
  <2>1. Rate(k.view) >= CurrentRate
    BY <1>1, <1>4 DEF FeesHold, InProgress
  <2>2. Rate(k.view) \in Nat /\ CurrentRate \in Nat /\ Tolerance \in Nat
    BY <1>1, <1>2, RateType, CurrentTypes, DigitsAssumption, RequestAssumption DEF Rate
  <2>3. limit = Rate(k.view) + Tolerance
    BY <1>4 DEF RateLimit
  <2> HIDE DEF limit
  <2> QED BY <2>1, <2>2, <2>3
<1>5. ASSUME NEW phase \in {"refused", "sent"}, l = [populated EXCEPT !.phase = phase],
             phase = "refused" => ~FeeAccepted(k.request, limit)
      PROVE  FeesHold(call[c])' /\ RefusalExcused(call[c])'
  <2> DEFINE final == Predicted(k)
             paid == Headroom(k.request)
  <2>1. l = [[k EXCEPT !.final = final, !.limit = limit, !.paid = paid, !.view = NoView]
                EXCEPT !.phase = phase]
    BY <1>5
  <2>2. /\ l.phase = phase /\ l.request = k.request /\ l.limit = limit
        /\ l.since = k.since /\ l.torn = k.torn
    <3> HIDE DEF k, l, final, limit, paid
    <3>1. l = [phase |-> phase, request |-> k.request, got |-> k.got, view |-> NoView,
               final |-> final, limit |-> limit, paid |-> paid, result |-> k.result,
               since |-> k.since, torn |-> k.torn]
      BY <1>2, <2>1 DEF Shape
    <3> QED BY <3>1
  <2>3. Untouched(l) => Untouched(k)
    BY <2>2 DEF Untouched
  <2>4. CurrentRate' = CurrentRate
    BY <1>1 DEF CurrentRate, CurrentFees
  <2>5. ASSUME phase = "refused", k.request.limit = NoLimit PROVE ~Untouched(k)
    <3>1. ~FeeAccepted(k.request, limit) /\ Borrows(k.request)
      BY <1>5, <2>5 DEF FeeAccepted
    <3>2. limit \in Nat /\ limit >= CurrentRate => FeeAccepted(k.request, limit)
      BY <1>1, <1>2, LimitSuffices
    <3> QED BY <1>4, <2>5, <3>1, <3>2
  <2> HIDE DEF l, k, limit, populated
  <2>6. RefusalExcused(l)
    BY <2>2, <2>3, <2>5 DEF RefusalExcused
  <2>7. RefusalExcused(call[c])'
    BY <2>6 DEF RefusalExcused, l
  <2>8. FeesHold(call[c])'
    <3> SUFFICES ASSUME Borrows(l.request), Untouched(l), l.request.limit = NoLimit
                 PROVE  l.limit \in Nat /\ l.limit >= CurrentRate'
      BY <2>2 DEF FeesHold, l
    <3> QED BY <1>4, <2>2, <2>3, <2>4
  <2> QED BY <2>7, <2>8
<1>6. FeesHold(call[c])' /\ RefusalExcused(call[c])'
  <2>1. CASE l = Idle
    BY <2>1, OverFees DEF Idle, InProgress
  <2>2. CASE ~FeeAccepted(k.request, limit) /\ l = [populated EXCEPT !.phase = "refused"]
    <3> HIDE DEF populated
    <3> QED BY <1>5, <2>2
  <2>3. CASE l = [populated EXCEPT !.phase = "sent"]
    <3> HIDE DEF populated
    <3> QED BY <1>5, <2>3
  <2> HIDE DEF populated
  <2> QED BY <1>3, <2>1, <2>2, <2>3
<1>7. ASSUME NEW d \in Call PROVE FeesHold(call[d])' /\ RefusalExcused(call[d])'
  <2>1. CASE d = c
    BY <1>6, <2>1
  <2>2. CASE d # c
    BY <1>1, <1>3, <2>2, SameCallFees DEF LimitInv
  <2> QED BY <2>1, <2>2
<1> QED BY <1>1, <1>7 DEF LimitInv

\* A transaction is mined.
LEMMA MineFees ==
    ASSUME BorrowingInv, BorrowingInv', LimitInv, NEW c \in Call, Mine(c)
    PROVE  LimitInv'
<1> DEFINE k == call[c]
           l == call'[c]
           r == call[c].request
           kinds == {"own"} \cup IF Borrows(r) THEN {"decay"} ELSE {}
<1>1. /\ call = [d \in Call |-> call[d]] /\ k.phase = "sent" /\ CallInv(k) /\ ChainTyped
      /\ r \in Request /\ FeesHold(k) /\ chain["now"] <= MaxTicks /\ ChainTyped'
  BY DEF Mine, BorrowingInv, LimitInv, CallInv, CallTyped
<1>2. Shape(k)
  BY <1>1 DEF CallInv, CallTyped
<1>3. ASSUME NEW phase \in {"outOfGas", "reverted", "refused"}, chain' = chain,
             phase = "refused" => ~FeeAccepted(r, k.limit),
             call' = [call EXCEPT ![c] = [call[c] EXCEPT !.phase = phase]]
      PROVE  LimitInv'
  <2>1. l = [k EXCEPT !.phase = phase] /\ \A d \in Call \ {c} : call'[d] = call[d]
    BY <1>1, <1>3
  <2>2. /\ l.phase = phase /\ l.request = r /\ l.since = k.since /\ l.torn = k.torn
    <3> HIDE DEF k, l
    <3>1. l = [phase |-> phase, request |-> k.request, got |-> k.got, view |-> k.view,
               final |-> k.final, limit |-> k.limit, paid |-> k.paid, result |-> k.result,
               since |-> k.since, torn |-> k.torn]
      BY <1>2, <2>1 DEF Shape
    <3> QED BY <3>1 DEF k
  <2>3. ASSUME phase = "refused", r.limit = NoLimit PROVE ~Untouched(k)
    <3>1. ~FeeAccepted(r, k.limit) /\ Borrows(r)
      BY <1>3, <2>3 DEF FeeAccepted
    <3>2. k.limit \in Nat /\ k.limit >= CurrentRate => FeeAccepted(r, k.limit)
      BY <1>1, LimitSuffices
    <3>3. Untouched(k) => k.limit \in Nat /\ k.limit >= CurrentRate
      BY <1>1, <2>3, <3>1 DEF FeesHold, InProgress
    <3> QED BY <3>1, <3>2, <3>3
  <2>4. RefusalExcused(call[c])'
    <3>1. RefusalExcused(l)
      BY <2>2, <2>3 DEF RefusalExcused, Untouched
    <3> QED BY <3>1 DEF RefusalExcused
  <2>5. FeesHold(call[c])'
    BY <2>2 DEF FeesHold, InProgress
  <2>6. ASSUME NEW d \in Call PROVE FeesHold(call[d])' /\ RefusalExcused(call[d])'
    <3>1. CASE d = c
      BY <2>4, <2>5, <3>1
    <3>2. CASE d # c
      BY <1>3, <2>1, <3>2, SameCallFees DEF LimitInv
    <3> QED BY <3>1, <3>2
  <2> QED BY <1>1, <1>3, <2>6 DEF LimitInv
<1>4. ASSUME chain' = Executed(r),
             call' = [Noted(kinds) EXCEPT ![c] =
                         [call[c] EXCEPT !.phase = "mined", !.result = After(r)]]
      PROVE  LimitInv'
  <2>1. KeepsFees(kinds)
    BY <1>1, <1>4, ExecutedFees
  <2>2. /\ l = [k EXCEPT !.phase = "mined", !.result = After(r)]
        /\ \A d \in Call \ {c} : call'[d] = Noted(kinds)[d]
    <3> HIDE DEF kinds
    <3> QED BY <1>4 DEF Noted
  <2>3. l.phase = "mined"
    <3> DEFINE after == After(r)
    <3>1. l = [k EXCEPT !.phase = "mined", !.result = after]
      BY <2>2
    <3> HIDE DEF k, l, after
    <3>2. l = [phase |-> "mined", request |-> k.request, got |-> k.got, view |-> k.view,
               final |-> k.final, limit |-> k.limit, paid |-> k.paid, result |-> after,
               since |-> k.since, torn |-> k.torn]
      BY <1>2, <3>1 DEF Shape
    <3> QED BY <3>2
  <2>4. ASSUME NEW d \in Call PROVE FeesHold(call[d])' /\ RefusalExcused(call[d])'
    <3>1. CASE d = c
      BY <2>3, <3>1, OverFees DEF InProgress
    <3>2. CASE d # c
      <4>1. CallInv(call[d]) /\ FeesHold(call[d]) /\ RefusalExcused(call[d])
        BY DEF BorrowingInv, LimitInv
      <4> HIDE DEF kinds
      <4> QED BY <1>1, <2>1, <2>2, <3>2, <4>1, NotedFees
    <3> QED BY <3>1, <3>2
  <2> QED BY <2>1, <2>4 DEF LimitInv, KeepsFees
<1>5. \/ \E phase \in {"outOfGas", "reverted", "refused"} :
           /\ chain' = chain
           /\ phase = "refused" => ~FeeAccepted(r, k.limit)
           /\ call' = [call EXCEPT ![c] = [call[c] EXCEPT !.phase = phase]]
      \/ /\ chain' = Executed(r)
         /\ call' = [Noted(kinds) EXCEPT ![c] =
                         [call[c] EXCEPT !.phase = "mined", !.result = After(r)]]
  BY DEF Mine
<1> QED BY <1>3, <1>4, <1>5

\* Every step keeps both invariants.
LEMMA LimitStep ==
    BorrowingInv /\ LimitInv /\ [BorrowingNext]_borrowingVars => LimitInv'
<1> SUFFICES ASSUME BorrowingInv, LimitInv, [BorrowingNext]_borrowingVars PROVE LimitInv'
  OBVIOUS
<1>1. BorrowingInv'
  BY BorrowingStep
<1>2. ASSUME NEW c \in Call, NEW r \in Request, Begin(c, r) PROVE LimitInv'
  BY <1>2, BeginFees
<1>3. ASSUME NEW c \in Call, NEW p \in Needed(call[c].request), Answer(c, p) PROVE LimitInv'
  BY <1>1, <1>3, AnswerFees
<1>4. ASSUME NEW c \in Call, Populate(c) PROVE LimitInv'
  BY <1>4, PopulateFees
<1>5. ASSUME NEW c \in Call, Mine(c) PROVE LimitInv'
  BY <1>1, <1>5, MineFees
<1>6. CASE ChainMoves
  <2>1. ChainTyped /\ ChainTyped' /\ chain["now"] <= MaxTicks
    BY <1>1 DEF BorrowingInv, LimitInv
  <2>2. PICK kinds : KeepsFees(kinds) /\ call' = Noted(kinds)
    BY <1>6, <2>1, MoveFees
  <2>3. ASSUME NEW d \in Call PROVE FeesHold(call[d])' /\ RefusalExcused(call[d])'
    BY <2>1, <2>2, NotedFees DEF BorrowingInv, LimitInv
  <2> QED BY <2>2, <2>3 DEF LimitInv, KeepsFees
<1>7. CASE UNCHANGED borrowingVars
  <2>1. chain' = chain /\ call' = call
    BY <1>7 DEF borrowingVars
  <2>2. ASSUME NEW d \in Call PROVE FeesHold(call[d])' /\ RefusalExcused(call[d])'
    BY <2>1, SameCallFees DEF LimitInv
  <2> QED BY <2>1, <2>2 DEF LimitInv
<1> QED BY <1>2, <1>3, <1>4, <1>5, <1>6, <1>7 DEF BorrowingNext

\* PopulatableEthersLiquity.ts:605-608: whatever the amounts and however the
\* answers, the minutes and the events of the chain interleave, a borrowing with
\* the default limit is refused for its rate only if the base rate was raised or
\* the mode changed since its fees were read, or another fee operation happened
\* while they were.
THEOREM RefusalsExplained == BorrowingSpec => []RefusedOnlyIfRaised
<1>1. LimitInv => RefusedOnlyIfRaised
  BY DEF LimitInv, RefusalExcused, Untouched, RefusedOnlyIfRaised
<1>2. BorrowingInit => BorrowingInv /\ LimitInv
  <2> SUFFICES ASSUME BorrowingInit PROVE LimitInv
    BY BorrowingStart
  <2>1. chain["now"] = 0
    BY DEF BorrowingInit, NoView, Part, FeePart, TrovePart
  <2>2. \A c \in Call : call[c].phase = "idle"
    BY DEF BorrowingInit, Idle
  <2> QED BY <2>1, <2>2, RequestAssumption
          DEF LimitInv, FeesHold, RefusalExcused, InProgress
<1>3. BorrowingInv /\ [BorrowingNext]_borrowingVars => BorrowingInv'
  BY BorrowingStep
<1>4. BorrowingInv /\ LimitInv /\ [BorrowingNext]_borrowingVars => LimitInv'
  BY LimitStep
<1> QED BY <1>1, <1>2, <1>3, <1>4, PTL DEF BorrowingSpec
=============================================================================
