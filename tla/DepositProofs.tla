---------------------------- MODULE DepositProofs ----------------------------
(***************************************************************************)
(* Proof that reading and planning a stability deposit or a stake works    *)
(* out, for any amounts, liquidations and transactions of the user.        *)
(***************************************************************************)
EXTENDS Deposits, TLAPS

PlanType == [wanted : Nat, deposit : Nat, withdraw : Nat, all : BOOLEAN]
Kinds == {"deposit", "withdrawal", "gain"}

DepositType ==
    /\ kind \in {"deposit", "stake"}
    /\ account \in [AccountPart -> Nat] /\ read \in [AccountPart -> Nat] /\ got \subseteq AccountPart
    /\ plan \in PlanType /\ touched \subseteq Kinds /\ shrunk \in BOOLEAN

\* Nobody has more than was deposited since the user's last transaction.
NeverGrows == account["current"] <= account["initial"]

\* As long as the user sends no other transaction, what was deposited stays as
\* it was read, and what has been read of the rest was no more.
ReadsAgree ==
    touched = {} =>
        /\ "initial" \in got => read["initial"] = account["initial"]
        /\ "current" \in got => read["current"] <= account["initial"]

\* How the account compares with an amount that was read since the first answer.
SinceRead(amount) ==
    /\ "deposit" \notin touched => account["current"] <= amount
    /\ touched \subseteq {"gain"} /\ ~shrunk => account["current"] = amount

\* A plan is for the amount that was read, and goes in one direction.
PlanMatches ==
    /\ "current" \in got => SinceRead(read["current"])
    /\ plan # NoPlan =>
          /\ got = {}
          /\ plan.withdraw = 0 \/ plan.deposit = 0
          /\ plan.all => plan.wanted = 0 /\ plan.withdraw > 0
          /\ \E amount \in Nat :
                /\ plan.wanted + plan.withdraw = amount + plan.deposit
                /\ SinceRead(amount)

DepositInv == DepositType /\ NeverGrows /\ ReadsAgree /\ PlanMatches /\ PlanHolds

-----------------------------------------------------------------------------
\* Initially the account is empty.
LEMMA DepositInit == DepositsInit => DepositInv
<1> SUFFICES ASSUME DepositsInit PROVE DepositInv
  OBVIOUS
<1> USE DEF DepositsInit, Nothing, NoPlan, NoneMined
<1>1. DepositType
  BY DEF DepositType, PlanType, AccountPart
<1>2. NeverGrows /\ ReadsAgree /\ PlanMatches
  BY DEF NeverGrows, ReadsAgree, PlanMatches, AccountPart
<1>3. PlanHolds
  BY DEF PlanHolds
<1> QED BY <1>1, <1>2, <1>3 DEF DepositInv

\* A part is read.
LEMMA AnswerStep == ASSUME DepositInv, NEW p \in AccountPart, AnswerPart(p) PROVE DepositInv'
<1> USE DEF DepositInv, AnswerPart
<1>1. /\ read' \in [AccountPart -> Nat] /\ read'[p] = account[p]
      /\ \A q \in AccountPart \ {p} : read'[q] = read[q]
  BY DEF DepositType
<1>2. DepositType' /\ NeverGrows'
  BY <1>1 DEF DepositType, NeverGrows, Kinds
<1>3. ReadsAgree'
  <2> SUFFICES ASSUME touched' = {}
               PROVE  /\ "initial" \in got' => read'["initial"] = account["initial"]
                      /\ "current" \in got' => read'["current"] <= account["initial"]
    BY DEF ReadsAgree
  <2>1. CASE got = {}
    BY <1>1, <2>1 DEF AccountPart, NeverGrows, DepositType
  <2>2. CASE got # {}
    BY <1>1, <2>2 DEF AccountPart, NeverGrows, ReadsAgree, DepositType
  <2> QED BY <2>1, <2>2
<1>4. PlanMatches'
  <2>1. plan' = NoPlan
    OBVIOUS
  <2>2. ASSUME "current" \in got' PROVE SinceRead(read["current"])'
    <3>1. CASE p = "current"
      BY <1>1, <3>1 DEF SinceRead, DepositType, AccountPart
    <3>2. CASE p # "current"
      <4>1. "current" \in got /\ got # {} /\ read'["current"] = read["current"]
        BY <1>1, <2>2, <3>2 DEF AccountPart
      <4> QED BY <4>1 DEF SinceRead, PlanMatches
    <3> QED BY <3>1, <3>2
  <2> QED BY <2>1, <2>2 DEF PlanMatches
<1>5. PlanHolds'
  BY DEF PlanHolds
<1> QED BY <1>2, <1>3, <1>4, <1>5

\* A change is planned.
LEMMA PlanStep == ASSUME DepositInv, NEW wanted \in Nat, PlanChange(wanted) PROVE DepositInv'
<1> USE DEF DepositInv, PlanChange
<1>1. /\ read["current"] \in Nat /\ account["current"] \in Nat
      /\ SinceRead(read["current"]) /\ got' = {}
  BY DEF DepositType, PlanMatches, AccountPart
<1>2. \/ plan' = NoPlan
      \/ plan' = DepositWhatChanged(read["current"], wanted) /\ read["current"] # wanted
  BY DEF StakeWhatChanged
<1>3. DepositType'
  <2>1. NoPlan \in PlanType /\ Nothing \in [AccountPart -> Nat]
    BY DEF NoPlan, PlanType, Nothing
  <2>2. DepositWhatChanged(read["current"], wanted) \in PlanType
    BY <1>1 DEF DepositWhatChanged, PlanType
  <2> QED BY <1>2, <2>1, <2>2 DEF DepositType
<1>4. NeverGrows' /\ ReadsAgree'
  BY <1>1 DEF NeverGrows, ReadsAgree
<1>5. PlanMatches'
  <2> SUFFICES ASSUME plan' # NoPlan
               PROVE  /\ plan'.withdraw = 0 \/ plan'.deposit = 0
                      /\ plan'.all => plan'.wanted = 0 /\ plan'.withdraw > 0
                      /\ \E amount \in Nat :
                            /\ plan'.wanted + plan'.withdraw = amount + plan'.deposit
                            /\ SinceRead(amount)'
    BY <1>1 DEF PlanMatches
  <2>1. plan' = DepositWhatChanged(read["current"], wanted)
    BY <1>2
  <2>2. PICK amount \in Nat : amount = read["current"]
    BY <1>1
  <2> DEFINE change == DepositWhatChanged(amount, wanted)
  <2>3. plan' = change /\ amount # wanted
    BY <1>2, <2>2
  <2>4. /\ change.withdraw = 0 \/ change.deposit = 0
        /\ change.all => change.wanted = 0 /\ change.withdraw > 0
        /\ change.wanted + change.withdraw = amount + change.deposit
    <3>1. /\ change.wanted = wanted /\ change.all = (wanted < amount /\ wanted = 0)
          /\ change.deposit = IF wanted > amount THEN wanted - amount ELSE 0
          /\ change.withdraw = IF wanted < amount THEN amount - wanted ELSE 0
      BY Zenon DEF DepositWhatChanged
    <3>2. change.all => wanted < amount /\ wanted = 0
      BY <3>1
    <3> HIDE DEF change
    <3>3. wanted < amount \/ wanted > amount
      BY <2>3
    <3> QED BY <3>1, <3>2, <3>3
  <2>5. SinceRead(amount)'
    <3>1. SinceRead(amount)
      BY <1>1, <2>2
    <3> QED BY <3>1 DEF SinceRead
  <2> HIDE DEF change
  <2> QED BY <2>3, <2>4, <2>5
<1>6. PlanHolds'
  BY DEF PlanHolds
<1> QED BY <1>3, <1>4, <1>5, <1>6

\* The planned transaction is mined.
LEMMA MineStep == ASSUME DepositInv, MinePlan PROVE DepositInv'
<1> USE DEF DepositInv, MinePlan
<1>1. /\ account["current"] \in Nat /\ account["initial"] \in Nat
      /\ plan.wanted \in Nat /\ plan.deposit \in Nat /\ plan.withdraw \in Nat
      /\ got = {} /\ plan' = NoPlan
  BY DEF DepositType, PlanType, PlanMatches, AccountPart
<1>2. /\ account' \in [AccountPart -> Nat] /\ NeverGrows'
  BY <1>1 DEF DepositType, NeverGrows, Withdrawn, Provided, Holding, AccountPart
<1>3. DepositType'
  BY <1>2 DEF DepositType, NoPlan, PlanType
<1>4. ReadsAgree' /\ PlanMatches'
  BY <1>1 DEF ReadsAgree, PlanMatches
<1>5. PlanHolds'
  <2>1. CASE UNCHANGED mined
    BY <2>1 DEF PlanHolds
  <2>2. CASE mined' # mined
    <3>1. PICK amount \in Nat :
              plan.wanted + plan.withdraw = amount + plan.deposit /\ SinceRead(amount)
      BY DEF PlanMatches
    <3>2. /\ plan.withdraw = 0 \/ plan.deposit = 0
          /\ plan.all => plan.wanted = 0 /\ plan.withdraw > 0
      BY DEF PlanMatches
    <3> DEFINE left == IF plan.withdraw > 0
                       THEN IF plan.withdraw < account["current"]
                            THEN account["current"] - plan.withdraw ELSE 0
                       ELSE account["current"] + plan.deposit
    <3>3. mined' = [plan |-> plan, left |-> left, applied |-> DepositApply(account["current"], plan),
                    touched |-> touched, shrunk |-> shrunk]
      BY <1>1, <2>2 DEF Withdrawn, Provided, Holding
    <3>4. "deposit" \notin touched => account["current"] <= amount
      BY <3>1 DEF SinceRead
    <3>5. touched \subseteq {"gain"} => "deposit" \notin touched
      OBVIOUS
    <3>6. "deposit" \notin touched =>
              /\ left <= plan.wanted
              /\ plan.all => left = 0
              /\ DepositApply(account["current"], plan) = left
      BY <1>1, <3>1, <3>2, <3>4 DEF DepositApply
    <3>7. touched \subseteq {"gain"} /\ ~shrunk => left = plan.wanted
      BY <1>1, <3>1, <3>2 DEF SinceRead
    <3> HIDE DEF left
    <3> QED BY <3>3, <3>5, <3>6, <3>7 DEF PlanHolds
  <2> QED BY <2>1, <2>2
<1> QED BY <1>2, <1>3, <1>4, <1>5

\* Steps that take the account no further from what was read than their kind
\* allows keep the relation to what was read.
LEMMA SinceKept ==
    ASSUME DepositInv, NEW amount \in Nat, SinceRead(amount),
           account'["current"] \in Nat,
           touched \subseteq touched', shrunk => shrunk', shrunk' \in BOOLEAN,
           "deposit" \notin touched' => account'["current"] <= account["current"],
           touched' \subseteq {"gain"} /\ ~shrunk' => account'["current"] = account["current"]
    PROVE  SinceRead(amount)'
<1>1. account["current"] \in Nat
  BY DEF DepositInv, DepositType, AccountPart
<1> QED BY <1>1 DEF SinceRead

\* What such a step keeps.
LEMMA PlanKept ==
    ASSUME DepositInv, UNCHANGED <<read, got, plan>>,
           account'["current"] \in Nat,
           touched \subseteq touched', shrunk => shrunk', shrunk' \in BOOLEAN,
           "deposit" \notin touched' => account'["current"] <= account["current"],
           touched' \subseteq {"gain"} /\ ~shrunk' => account'["current"] = account["current"]
    PROVE  PlanMatches'
<1> USE DEF DepositInv
<1>1. "current" \in got' => SinceRead(read["current"])'
  <2>1. read["current"] \in Nat /\ read' = read
    BY DEF DepositType, AccountPart
  <2> SUFFICES ASSUME "current" \in got' PROVE SinceRead(read["current"])'
    OBVIOUS
  <2>2. SinceRead(read["current"])
    BY DEF PlanMatches
  <2>3. \A amount \in Nat : SinceRead(amount) => SinceRead(amount)'
    BY SinceKept
  <2> QED BY <2>1, <2>2, <2>3 DEF SinceRead
<1>2. \A amount \in Nat : SinceRead(amount) => SinceRead(amount)'
  BY SinceKept
<1> QED BY <1>1, <1>2 DEF PlanMatches

\* Another transaction of the user is mined.
LEMMA OtherStep == ASSUME DepositInv, NEW amount \in Nat, MineOther(amount) PROVE DepositInv'
<1> USE DEF DepositInv, MineOther
<1>1. account["current"] \in Nat /\ account["initial"] \in Nat
  BY DEF DepositType, AccountPart
<1>2. /\ account' \in [AccountPart -> Nat] /\ account'["current"] \in Nat /\ NeverGrows'
      /\ touched' # {} /\ touched \subseteq touched'
      /\ "deposit" \notin touched' => account'["current"] <= account["current"]
      /\ touched' \subseteq {"gain"} => account'["current"] = account["current"]
  <2>1. CASE account' = Provided(amount) /\ touched' = touched \cup {"deposit"}
    <3>1. account["current"] + amount \in Nat
      BY <1>1
    <3> QED BY <2>1, <3>1 DEF NeverGrows, Provided, Holding, AccountPart, DepositType, Kinds
  <2>2. CASE account' = Withdrawn(amount) /\ touched' = touched \cup {"withdrawal"}
    BY <1>1, <2>2 DEF NeverGrows, Withdrawn, Holding, AccountPart
  <2>3. CASE account' = Withdrawn(0) /\ touched' = touched \cup {"gain"}
    BY <1>1, <2>3 DEF NeverGrows, Withdrawn, Holding, AccountPart
  <2> QED BY <2>1, <2>2, <2>3
<1>3. DepositType'
  <2>1. touched' \subseteq Kinds
    BY DEF DepositType, Kinds
  <2> QED BY <1>2, <2>1 DEF DepositType
<1>4. ReadsAgree'
  BY <1>2 DEF ReadsAgree
<1>5. PlanMatches'
  BY <1>2, <1>3, PlanKept DEF DepositType
<1>6. PlanHolds'
  BY DEF PlanHolds
<1> QED BY <1>2, <1>3, <1>4, <1>5, <1>6

\* A liquidation takes of the deposit.
LEMMA LossStep == ASSUME DepositInv, Liquidation PROVE DepositInv'
<1> USE DEF DepositInv, Liquidation
<1>1. account["current"] \in Nat /\ account["initial"] \in Nat /\ account["gain"] \in Nat
  BY DEF DepositType, AccountPart
<1>2. PICK lost \in Nat :
          /\ lost <= account["current"]
          /\ account' = [account EXCEPT !["current"] = @ - lost, !["gain"] = @ + lost]
  <2> DEFINE lost == IF Loss < account["current"] THEN Loss ELSE account["current"]
  <2>1. lost \in Nat /\ lost <= account["current"]
    BY <1>1, AmountAssumption
  <2>2. account' = [account EXCEPT !["current"] = @ - lost, !["gain"] = @ + lost]
    OBVIOUS
  <2> QED BY <2>1, <2>2
<1>3. /\ account'["current"] = account["current"] - lost
      /\ account'["gain"] = account["gain"] + lost
      /\ account'["initial"] = account["initial"]
      /\ account' \in [AccountPart -> Nat]
  BY <1>1, <1>2 DEF DepositType, AccountPart
<1>4. DepositType' /\ NeverGrows'
  BY <1>1, <1>2, <1>3 DEF DepositType, NeverGrows
<1>5. ReadsAgree'
  BY <1>3 DEF ReadsAgree
<1>6. PlanMatches'
  <2>1. account'["current"] \in Nat /\ account'["current"] <= account["current"]
    BY <1>1, <1>2, <1>3
  <2> QED BY <2>1, PlanKept
<1>7. PlanHolds'
  BY DEF PlanHolds
<1> QED BY <1>4, <1>5, <1>6, <1>7

\* Every step keeps the invariant.
LEMMA DepositStep == DepositInv /\ [DepositsNext]_depositVars => DepositInv'
<1> SUFFICES ASSUME DepositInv, [DepositsNext]_depositVars PROVE DepositInv'
  OBVIOUS
<1>1. ASSUME NEW p \in AccountPart, AnswerPart(p) PROVE DepositInv'
  BY <1>1, AnswerStep
<1>2. ASSUME NEW wanted \in Amount, PlanChange(wanted) PROVE DepositInv'
  BY <1>2, PlanStep, AmountAssumption
<1>3. CASE MinePlan
  BY <1>3, MineStep
<1>4. ASSUME NEW amount \in Amount, MineOther(amount) PROVE DepositInv'
  BY <1>4, OtherStep, AmountAssumption
<1>5. CASE Liquidation
  BY <1>5, LossStep
<1>6. CASE UNCHANGED depositVars
  BY <1>6 DEF depositVars, DepositInv, DepositType, NeverGrows, ReadsAgree, PlanMatches, SinceRead,
              PlanHolds
<1> QED BY <1>1, <1>2, <1>3, <1>4, <1>5, <1>6 DEF DepositsNext

\* StabilityDeposit.ts:91-125: whatever liquidations take and whatever other
\* transactions of the user come in between, a planned change leaves what
\* PlanHolds says.
THEOREM DepositPlanHolds == DepositsSpec => []PlanHolds
<1>1. DepositInv => PlanHolds
  BY DEF DepositInv
<1>2. DepositsInit => DepositInv
  BY DepositInit
<1>3. DepositInv /\ [DepositsNext]_depositVars => DepositInv'
  BY DepositStep
<1> QED BY <1>1, <1>2, <1>3, PTL DEF DepositsSpec

\* StabilityDeposit.ts:53-55: the constructor throws only if the user's own
\* transactions come between the answers of a read.
THEOREM DepositReadThrows == DepositsSpec => []ThrowsOnlyIfTouched
<1>1. DepositInv => ThrowsOnlyIfTouched
  <2> SUFFICES ASSUME DepositInv, Throws, touched = {} PROVE FALSE
    BY DEF ThrowsOnlyIfTouched
  <2>1. /\ read["initial"] = account["initial"] /\ read["current"] <= account["initial"]
        /\ read["current"] > read["initial"]
    BY DEF DepositInv, ReadsAgree, Throws, AccountPart
  <2>2. read["current"] \in Nat /\ account["initial"] \in Nat
    BY DEF DepositInv, DepositType, AccountPart
  <2> QED BY <2>1, <2>2
<1>2. DepositsInit => DepositInv
  BY DepositInit
<1>3. DepositInv /\ [DepositsNext]_depositVars => DepositInv'
  BY DepositStep
<1> QED BY <1>1, <1>2, <1>3, PTL DEF DepositsSpec
=============================================================================
