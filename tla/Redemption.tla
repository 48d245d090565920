----------------------------- MODULE Redemption -----------------------------
(***************************************************************************)
(* redeemZUSD of PopulatableEthersLiquity: the fees, the total debt and    *)
(* the redemption hints are asked for at once and answered apart; the      *)
(* amount is truncated to what can be redeemed, and what results is a      *)
(* PopulatedEthersRedemption, which is sent or, if it was truncated,       *)
(* replaced by one for the next higher amount.  The chain moves meanwhile. *)
(* The contracts are external.                                             *)
(***************************************************************************)
EXTENDS Fees, Sequences

CONSTANTS
    TroveList,      \* inputs: redeemable troves [trove, net debt], lowest ratio first
    Attempt,        \* inputs: amounts that users try to redeem
    Limit,          \* inputs: maxRedemptionRate, NoLimit if it is left out
    Reserve,        \* ZUSD_LIQUIDATION_RESERVE
    LeastNetDebt,   \* ZUSD_MINIMUM_NET_DEBT
    MaxIterations,  \* _redeemMaxIterations
    RateTolerance,  \* defaultRedemptionRateSlippageTolerance
    Base,           \* external: base rates at first
    MaxMoments,     \* bound: ticks of the chain's clock
    MaxTrades       \* bound: transactions of others

ASSUME RedemptionAssumption ==
    \* External: no trove has less than the minimum net debt.
    /\ \A list \in TroveList :
          /\ list \in Seq([trove : STRING, net : Nat])
          /\ \A k \in 1..Len(list) : list[k].net >= LeastNetDebt
    /\ Attempt \subseteq Nat /\ Base \subseteq Nat /\ Limit \subseteq Nat \cup {NoLimit}
    /\ Reserve \in Nat \ {0} /\ LeastNetDebt \in Nat \ {0} /\ MaxIterations \in Nat /\ RateTolerance \in Nat
    /\ MaxMoments \in Nat /\ MaxTrades \in Nat /\ DecaysUpTo(MaxMoments \div TicksPerMinute)

VARIABLES
    ledger,     \* external: fee parts, and the troves
    redemption, \* the redemption
    trades

redemptionVars == <<ledger, redemption, trades>>

RedemptionPart == {"base", "last", "now", "total", "hints"}

\* What the library sees of a list of troves.
TotalDebt(list) ==
    LET sum[k \in 0..Len(list)] == IF k = 0 THEN 0 ELSE sum[k - 1] + list[k].net + Reserve
    IN sum[Len(list)]

\* External: troves are redeemed in order until one is larger than the rest.
Walk(list, amount) ==
    LET step[k \in 0..Least(Len(list), MaxIterations)] ==
            IF k = 0 THEN [rest |-> amount, at |-> 0]
            ELSE LET s == step[k - 1] IN
                 IF s.at # 0 \/ s.rest = 0 THEN s
                 ELSE IF list[k].net <= s.rest THEN [s EXCEPT !.rest = @ - list[k].net]
                 ELSE [s EXCEPT !.at = k]
    IN step[Least(Len(list), MaxIterations)]

\* External, getRedemptionHints: the amount that can be redeemed, the state in
\* which that leaves the last trove, and whether such a trove ended the walk.
NoHint == [trove |-> "none", net |-> 0]
Hints(list, amount) ==
    LET w == Walk(list, amount)
        part == IF w.at = 0 THEN 0 ELSE Least(w.rest, list[w.at].net - LeastNetDebt)
    IN [amount |-> amount - w.rest + part,
        partial |-> IF part = 0 THEN NoHint
                    ELSE [list[w.at] EXCEPT !.net = @ - part],
        stopped |-> w.at # 0]

\* External, redeemCollateral: part of a trove is redeemed only if its state
\* afterwards is the one of the hint.
RedeemedAmount(list, amount, partial) ==
    LET w == Walk(list, amount) IN
    IF /\ w.at # 0 /\ partial = [list[w.at] EXCEPT !.net = @ - w.rest]
       /\ partial.net >= LeastNetDebt
    THEN amount ELSE amount - w.rest

\* The list without what a redemption takes.
Left(list, amount) ==
    LET taken[k \in 0..Len(list)] == IF k = 0 THEN 0 ELSE taken[k - 1] + list[k].net
        net(k) == Minus(list[k].net, Minus(amount, taken[k - 1]))
    IN SelectSeq([k \in 1..Len(list) |-> [list[k] EXCEPT !.net = net(k)]], LAMBDA t : t.net > 0)

NoAnswers == [p \in RedemptionPart |->
             IF p = "hints" THEN [amount |-> 0, partial |-> NoHint, stopped |-> FALSE] ELSE 0]
NoRedemption == [phase |-> "idle", attempt |-> 0, max |-> NoLimit, got |-> {}, view |-> NoAnswers,
         amount |-> 0, partial |-> NoHint, limit |-> 0, increased |-> FALSE,
         result |-> 0, since |-> {}, torn |-> {}]
Thrown == [NoRedemption EXCEPT !.phase = "thrown"]

RedemptionInit ==
    /\ \E list \in TroveList, base \in Base :
          ledger = [base |-> base, last |-> 0, now |-> 0, troves |-> list]
    /\ redemption = NoRedemption /\ trades = 0

-----------------------------------------------------------------------------
(* The fee *)

FeesNow == [base |-> ledger.base, last |-> ledger.last, now |-> ledger.now, recovery |-> FALSE]
Fraction(amount) == Div(amount, TotalDebt(ledger.troves))

RateAccepted(amount, limit) ==
    limit >= MinimumRate /\ RedemptionRate(FeesNow, Fraction(amount)) <= limit

\* A fee operation notes its time if a full minute has passed.
Noting(base, troves) ==
    [ledger EXCEPT !.base = base, !.troves = troves,
                  !.last = IF Minus(ledger.now, ledger.last) >= TicksPerMinute THEN ledger.now ELSE @]
Raised(amount) == Least(BaseRate(FeesNow) + Div(Fraction(amount), Beta), Digits)

-----------------------------------------------------------------------------
(* The library *)

Redeeming == redemption.phase \in {"reading", "ready", "sent"}

\* redeemZUSD is called (once: earlier redemptions are those of others).
Redeem(attempt, max) ==
    /\ redemption.phase = "idle"
    /\ redemption' = [NoRedemption EXCEPT !.phase = "reading", !.attempt = attempt, !.max = max]
    /\ UNCHANGED <<ledger, trades>>

\* Some of the calls are answered; an answer takes in what has happened before.
Current(p) ==
    CASE p = "total" -> TotalDebt(ledger.troves)
      [] p = "hints" -> Hints(ledger.troves, redemption.attempt)
      [] OTHER -> ledger[p]
PartAnswered(p) ==
    /\ redemption.phase = "reading" /\ p \notin redemption.got
    /\ redemption' = [redemption EXCEPT !.got = @ \cup {p}, !.view[p] = Current(p),
                            !.since = @ \ (CASE p = "hints" -> {"list"} [] p = "total" -> {"shrink"}
                                             [] OTHER -> {})]
    /\ UNCHANGED <<ledger, trades>>

\* Wrong variant: the limit for a higher amount is that of the first amount.
RedemptionLimitOfFirst(max, amount) ==
    IF max # NoLimit THEN max
    ELSE LET v == redemption.view
             fees == [base |-> v["base"], last |-> v["last"], now |-> v["now"], recovery |-> FALSE]
         IN Least(RedemptionRate(fees, Div(v["hints"].amount, v["total"])) + RateTolerance, Digits)

\* The user's limit, or the rate for the amount by the fees and the total once
\* read, and the tolerance.
RedemptionLimit(max, amount) ==
    IF max # NoLimit THEN max
    ELSE LET v == redemption.view
             fees == [base |-> v["base"], last |-> v["last"], now |-> v["now"], recovery |-> FALSE]
         IN Least(RedemptionRate(fees, Div(amount, v["total"])) + RateTolerance, Digits)

\* populateRedemption: the estimate, for the latest block, rejects a redemption
\* that would not be accepted now.
PopulateRedemption(amount, attempt, max, partial, increased) ==
    LET populated == [redemption EXCEPT !.phase = "ready", !.amount = amount, !.attempt = attempt,
                                  !.max = max, !.limit = RedemptionLimit(max, amount),
                                  !.partial = partial, !.increased = increased]
        redeemed == RedeemedAmount(ledger.troves, amount, partial)
    IN
    redemption' = CASE redeemed = 0 -> Thrown
              [] redeemed # 0 /\ ~RateAccepted(redeemed, RedemptionLimit(max, amount)) ->
                   [populated EXCEPT !.phase = "refused"]
              [] OTHER -> populated

\* Wrong variant: what is sent is the amount that was asked for.
RedeemableAttempt(hints) == redemption.attempt

\* The amount is truncated to what the hints are for.
Redeemable(hints) == hints.amount

\* All is answered; redeemZUSD throws if nothing can be redeemed.
Answered ==
    LET hints == redemption.view["hints"] IN
    /\ redemption.phase = "reading" /\ redemption.got = RedemptionPart
    /\ \/ hints.amount = 0 /\ redemption' = Thrown
       \/ /\ hints.amount # 0
          /\ PopulateRedemption(Redeemable(hints), redemption.attempt, redemption.max,
                                hints.partial, FALSE)
    /\ UNCHANGED <<ledger, trades>>

IsTruncated == redemption.amount < redemption.attempt

\* Wrong variant: the amount asked for is increased.
NextAmountOfAttempt == redemption.attempt + LeastNetDebt

NextAmount == redemption.amount + LeastNetDebt

\* increaseAmountByMinimumNetDebt, which throws for an amount that was not
\* truncated: no partial hint, and the limit given, or else that of the first.
IncreaseAmount(max) ==
    /\ redemption.phase = "ready" /\ IsTruncated
    /\ PopulateRedemption(NextAmount, NextAmount,
                          IF max = NoLimit THEN redemption.max ELSE max, NoHint, TRUE)
    /\ UNCHANGED <<ledger, trades>>

SendRedemption ==
    /\ redemption.phase = "ready" /\ redemption' = [redemption EXCEPT !.phase = "sent"]
    /\ UNCHANGED <<ledger, trades>>

\* The transaction is mined; the details are those of the Redemption event.
MineRedemption ==
    LET redeemed == RedeemedAmount(ledger.troves, redemption.amount, redemption.partial)
        over(phase) == [redemption EXCEPT !.phase = phase]
    IN
    /\ redemption.phase = "sent"
    /\ \/ redeemed = 0 /\ redemption' = over("reverted") /\ UNCHANGED ledger
       \/ /\ redeemed # 0 /\ ~RateAccepted(redeemed, redemption.limit)
          /\ redemption' = over("refused") /\ UNCHANGED ledger
       \/ /\ redeemed # 0 /\ RateAccepted(redeemed, redemption.limit)
          /\ redemption' = [over("mined") EXCEPT !.result = redeemed]
          /\ ledger' = Noting(Raised(redeemed), Left(ledger.troves, redeemed))
    /\ UNCHANGED trades

-----------------------------------------------------------------------------
(* Others *)

NotedTrade(kinds) ==
    IF ~Redeeming \/ redemption.got = {} THEN redemption
    ELSE [redemption EXCEPT !.since = @ \cup kinds,
                      !.torn = IF redemption.phase = "reading" THEN @ \cup kinds ELSE @]

Traded(kinds, after) ==
    /\ trades < MaxTrades /\ trades' = trades + 1
    /\ ledger' = after /\ redemption' = NotedTrade(kinds)

TimePasses ==
    /\ ledger.now < MaxMoments /\ ledger' = [ledger EXCEPT !.now = @ + 1]
    /\ UNCHANGED <<redemption, trades>>

\* Somebody borrows, repays, or redeems the first trove.
BorrowedBy(k) ==
    Traded({"decay", "list"}, Noting(BaseRate(FeesNow), [ledger.troves EXCEPT ![k].net = @ + 1]))
RepaidBy(k) ==
    /\ ledger.troves[k].net > LeastNetDebt
    /\ Traded({"shrink", "list"}, [ledger EXCEPT !.troves[k].net = @ - 1])
RedeemedFirst ==
    /\ Len(ledger.troves) > 1
    /\ Traded({"raise", "shrink", "list"},
               Noting(Raised(ledger.troves[1].net), Tail(ledger.troves)))

RedemptionNext ==
    \/ \E attempt \in Attempt, max \in Limit : Redeem(attempt, max)
    \/ \E p \in RedemptionPart : PartAnswered(p)
    \/ Answered \/ SendRedemption \/ MineRedemption
    \/ \E max \in Limit : IncreaseAmount(max)
    \/ TimePasses \/ RedeemedFirst
    \/ \E k \in DOMAIN ledger.troves : BorrowedBy(k) \/ RepaidBy(k)

RedemptionSpec == RedemptionInit /\ [][RedemptionNext]_redemptionVars

-----------------------------------------------------------------------------
(* Properties *)

\* Liquity.test.ts:804-826: a redemption that is mined redeems exactly the amount
\* announced as redeemable, unless the troves have changed since the hints were
\* read, or the amount was increased although no trove but the end of the list,
\* or the limit of iterations, had ended the walk.
RedeemsWhatItSays ==
    /\ redemption.phase = "mined" /\ "list" \notin redemption.since
    /\ redemption.increased => redemption.view["hints"].stopped
    => redemption.result = redemption.amount

\* PopulatableLiquity.ts:50-54: increasing a truncated amount leads to the next
\* lowest one that can be redeemed, as long as the troves stay as they are.
IncreaseIsNext ==
    /\ redemption.phase = "ready" /\ IsTruncated
    /\ "list" \notin redemption.since /\ redemption.view["hints"].stopped
    =>
        /\ Hints(ledger.troves, NextAmount).amount = NextAmount
        /\ \A a \in (redemption.amount + 1)..(NextAmount - 1) : Hints(ledger.troves, a).amount < a

\* PopulatableEthersLiquity.ts:997-1001: without a limit of the user's, neither a
\* redemption nor one with an increased amount is refused for its rate, however
\* old the fees it was calculated from, unless somebody redeemed or repaid
\* since they were read or a borrowing happened while they were.
RedemptionRefusedOnlyIfRaised ==
    redemption.phase = "refused" /\ redemption.max = NoLimit =>
        {"raise", "shrink"} \cap redemption.since # {} \/ "decay" \in redemption.torn
=============================================================================
