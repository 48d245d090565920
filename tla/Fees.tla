-------------------------------- MODULE Fees --------------------------------
(***************************************************************************)
(* Fees of lib-base: the borrowing and redemption rates of a moment.  The  *)
(* base rate decays with every full minute since the last fee operation.   *)
(***************************************************************************)
EXTENDS FixedPoint

CONSTANTS
    DecayFactor,    \* MINUTE_DECAY_FACTOR, less than one
    Beta,           \* BETA
    TicksPerMinute, \* 60000: a tick is what time is measured in
    MinimumRate,    \* MINIMUM_BORROWING_RATE, MINIMUM_REDEMPTION_RATE
    MaximumRate     \* MAXIMUM_BORROWING_RATE

ASSUME DecayAssumption == DecayFactor \in 0..(Digits - 1) /\ TicksPerMinute \in Nat \ {0}
ASSUME RateAssumption ==
    /\ MinimumRate \in Nat /\ MaximumRate \in 0..Digits /\ MinimumRate <= MaximumRate
    /\ Beta \in Nat

\* A highest acceptable rate that the user leaves out.
NoLimit == -1

\* What Fees is constructed from: the base rate without decay, the times of
\* the last fee operation and of the latest block, and the recovery mode.
FeeState == [base : Nat, last : Nat, now : Nat, recovery : BOOLEAN]

\* baseRate: an elapsed time below zero counts as none.
BaseRate(f) == Mul(Pow(DecayFactor, Minus(f.now, f.last) \div TicksPerMinute), f.base)

BorrowingRate(f) ==
    IF f.recovery THEN 0 ELSE Least(MinimumRate + BaseRate(f), MaximumRate)

\* Rounding does not let a rate grow from one minute to the next (of the first
\* n); TLC evaluates this, for pow computes it by repeated squaring.
DecaysUpTo(n) == \A k \in 0..n : Pow(DecayFactor, k + 1) <= Pow(DecayFactor, k)

\* redemptionRate of a fraction of the supply.
RedemptionRate(f, fraction) ==
    Least(MinimumRate + (IF fraction = 0 THEN 0 ELSE Div(fraction, Beta)) + BaseRate(f), Digits)
=============================================================================
