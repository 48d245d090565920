---------------------------- MODULE DeployProofs ----------------------------
(***************************************************************************)
(* Proof that a deployment is rejected only if the account was used        *)
(* otherwise, for any sequence of transactions in which contracts are      *)
(* created before they are used, and any number of runs that fail as long  *)
(* as their transactions are fewer than the node lets be pending.          *)
(***************************************************************************)
EXTENDS Deploy, FiniteSetTheorems, TLAPS

Outcomes == {"running", "rejected", "failed", "written"}
Alone == ~disturbed
Waiting == outcome = "running" /\ own # NoNonce

DeployType ==
    /\ config \in Deployment /\ at \in 1..Len(Steps[config])
    /\ own \in Nat \cup {NoNonce} /\ txCount \in Nat /\ outcome \in Outcomes
    /\ confirmed \in Nat /\ pending \in SUBSET Nat /\ IsFiniteSet(pending)
    /\ disturbed \in BOOLEAN /\ others \in Nat /\ faults \in 0..MaxFaults

\* The deployer owns what it has created and not handed over.
Holds ==
    outcome = "running" =>
        \A j \in 1..(at - 1) : CreatedAt(Steps[config], j, at) => Steps[config][j].contract \in held

\* What is waited for is the transaction of a step.
OwnStep == Waiting => Step.kind # "count"

\* The pending nonces follow on those that are mined.
Consecutive == pending = confirmed..(NextNonce - 1)

\* The transaction that is waited for is the last one.
OwnLast == Waiting => own = NextNonce - 1

\* So many transactions have been sent since the nonces were counted.
CountGoesOn ==
    outcome = "running" =>
        \A j \in 1..(at - 1) : CountedAt(Steps[config], j, at) =>
            txCount + (at - 1 - j) = IF own = NoNonce THEN NextNonce ELSE own

\* Only the last transaction of a run that failed is left over.
LeftOver ==
    2 * Cardinality(pending) <=
        faults + (IF Waiting THEN 2 ELSE 0) + (IF outcome = "failed" THEN 1 ELSE 0)

DeployInv ==
    /\ DeployType /\ Holds /\ OwnStep
    /\ Alone => Consecutive /\ OwnLast /\ CountGoesOn /\ LeftOver
    /\ RejectedOnlyIfDisturbed

-----------------------------------------------------------------------------
\* What is known of a step.
LEMMA StepType ==
    ASSUME DeployType
    PROVE  /\ Step.kind \in StepKind /\ Step.index \in Nat
           /\ at \in Nat /\ Len(Steps[config]) \in Nat /\ DOMAIN Steps[config] = 1..Len(Steps[config])
           /\ WellFormed(Steps[config])
<1> DEFINE S == [kind : StepKind, contract : STRING, index : Nat]
<1>1. Steps[config] \in Seq(S) /\ WellFormed(Steps[config])
  BY DeployAssumption DEF DeployType
<1>2. at \in 1..Len(Steps[config])
  BY DEF DeployType
<1>3. Len(Steps[config]) \in Nat /\ DOMAIN Steps[config] = 1..Len(Steps[config]) /\ Step \in S
  <2> HIDE DEF S
  <2> QED BY <1>1, <1>2 DEF Step
<1> QED BY <1>1, <1>2, <1>3

LEMMA PendingCount ==
    ASSUME DeployType
    PROVE  /\ Cardinality(pending) \in Nat /\ NextNonce \in Nat
           /\ (Cardinality(pending) = 0 <=> pending = {})
<1>1. IsFiniteSet(pending) /\ confirmed \in Nat
  BY DEF DeployType
<1>2. Cardinality(pending) \in Nat
  BY <1>1, FS_CardinalityType
<1>3. Cardinality(pending) = 0 <=> pending = {}
  BY <1>1, FS_EmptySet
<1> QED BY <1>1, <1>2, <1>3 DEF NextNonce

\* The nonces, when the node has answered that a transaction is pending.
LEMMA PendingMore ==
    ASSUME DeployType, NEW n \in Nat, n \notin pending, pending' = pending \cup {n}
    PROVE  IsFiniteSet(pending') /\ Cardinality(pending') = Cardinality(pending) + 1
  BY FS_AddElement DEF DeployType

LEMMA PendingLess ==
    ASSUME DeployType, confirmed \in pending, pending' = pending \ {confirmed}
    PROVE  IsFiniteSet(pending') /\ Cardinality(pending') = Cardinality(pending) - 1
  BY FS_RemoveElement DEF DeployType

LEMMA DeployStart == DeployInit => DeployInv
<1> SUFFICES ASSUME DeployInit PROVE DeployInv
  OBVIOUS
<1>1. Cardinality({}) = 0 /\ IsFiniteSet({})
  BY FS_EmptySet
<1>2. Len(Steps[config]) \in Nat /\ Steps[config] # <<>> /\ 1 \in 1..Len(Steps[config])
  <2>1. Len(Steps[config]) \in Nat /\ Len(Steps[config]) # 0
    BY DeployAssumption DEF DeployInit, WellFormed
  <2> QED BY <2>1, DeployAssumption DEF DeployInit, WellFormed
<1>3. DeployType
  <2>1. 0 \in 0..MaxFaults
    BY DeployAssumption
  <2>2. config \in Deployment /\ at \in 1..Len(Steps[config])
    BY <1>2 DEF DeployInit
  <2>3. pending \in SUBSET Nat /\ IsFiniteSet(pending)
    BY <1>1 DEF DeployInit
  <2> QED BY <2>1, <2>2, <2>3 DEF DeployInit, DeployType, Outcomes
<1>4. Holds /\ OwnStep /\ CountGoesOn
  BY DEF DeployInit, Holds, OwnStep, Waiting, CountGoesOn
<1>5. Consecutive /\ OwnLast /\ LeftOver
  BY <1>1 DEF DeployInit, Consecutive, OwnLast, LeftOver, Waiting, NextNonce, NoNonce
<1> QED BY <1>3, <1>4, <1>5 DEF DeployInv, RejectedOnlyIfDisturbed, DeployInit

-----------------------------------------------------------------------------
(* The steps of a deployment *)

\* What is left over does not grow, and what is held stays, when only others move.
LEMMA CountNoncesStep == ASSUME DeployInv, CountNonces PROVE DeployInv'
<1> USE DEF DeployInv
<1> DEFINE steps == Steps[config]
<1>1. /\ Step.kind = "count" /\ Step = steps[at] /\ outcome = "running" /\ own = NoNonce
      /\ txCount' = confirmed /\ disturbed' = (pending # {}) /\ at' = at + 1
      /\ UNCHANGED <<config, own, outcome, confirmed, pending, held, others, faults>>
  BY DEF CountNonces, deployBounds, Step
<1>2. /\ at \in Nat /\ Len(steps) \in Nat /\ DOMAIN steps = 1..Len(steps)
      /\ steps # <<>> /\ steps[Len(steps)].kind # "count"
  BY StepType DEF WellFormed
<1>3. at \in 1..Len(steps)
  BY DEF DeployType
<1> HIDE DEF steps
<1>4. at' \in 1..Len(steps)
  BY <1>1, <1>2, <1>3
<1>5. DeployType'
  BY <1>1, <1>4 DEF DeployType, steps
<1>6. Holds'
  <2> SUFFICES ASSUME NEW j \in 1..(at' - 1), CreatedAt(steps, j, at') PROVE steps[j].contract \in held
    BY <1>1 DEF Holds, steps
  <2>1. j \in 1..(at - 1)
    BY <1>1, <1>2 DEF CreatedAt
  <2>2. CreatedAt(steps, j, at)
    BY <1>1, <1>2, <2>1 DEF CreatedAt
  <2> QED BY <1>1, <2>1, <2>2 DEF Holds, steps
<1>7. ASSUME Alone' PROVE Consecutive' /\ OwnLast' /\ CountGoesOn' /\ LeftOver'
  <2>1. pending = {} /\ Cardinality(pending) = 0 /\ NextNonce = confirmed /\ confirmed \in Nat
    <3>1. pending = {}
      BY <1>1, <1>7 DEF Alone
    <3>2. confirmed \in Nat
      BY DEF DeployType
    <3> QED BY <3>1, <3>2, PendingCount DEF NextNonce
  <2>2. Consecutive' /\ OwnLast' /\ LeftOver'
    BY <1>1, <2>1 DEF Consecutive, OwnLast, LeftOver, Waiting, NextNonce, DeployType
  <2>3. CountGoesOn'
    <3> SUFFICES ASSUME NEW j \in 1..(at' - 1), CountedAt(steps, j, at')
                 PROVE  txCount' + (at' - 1 - j) = NextNonce'
      BY <1>1 DEF CountGoesOn, steps
    <3>1. j = at
      BY <1>1, <1>2 DEF CountedAt
    <3> QED BY <1>1, <1>2, <2>1, <3>1 DEF NextNonce
  <2> QED BY <2>2, <2>3
<1> QED BY <1>1, <1>5, <1>6, <1>7 DEF RejectedOnlyIfDisturbed, OwnStep, Waiting

\* An undisturbed deployment sends the next nonce, and the node accepts it.
LEMMA NotRefused ==
    ASSUME MaxFaults < 2 * MaxPending, DeployInv, outcome = "running", own = NoNonce, Alone,
           Step.kind # "count"
    PROVE  Nonce = NextNonce /\ ~Refused
<1> USE DEF DeployInv
<1> DEFINE steps == Steps[config]
<1>1. /\ at \in Nat /\ at \in 1..Len(steps) /\ at \in DOMAIN steps /\ Step = steps[at]
      /\ Step.index \in Nat /\ Step.kind \in StepKind
  BY StepType DEF DeployType, Step
<1>2. Nonce = NextNonce
  <2>1. CASE Step.kind \in {"connect", "transfer"}
    <3>1. PICK j \in 1..(at - 1) : CountedAt(steps, j, at) /\ Step.index = at - 1 - j
      BY <1>1, <2>1, StepType DEF WellFormed
    <3>2. txCount + (at - 1 - j) = NextNonce
      BY <3>1 DEF CountGoesOn
    <3> QED BY <2>1, <3>1, <3>2 DEF Nonce
  <2>2. CASE Step.kind \notin {"connect", "transfer"}
    BY <2>2 DEF Nonce
  <2> QED BY <2>1, <2>2
<1>3. ~(Nonce < confirmed) /\ Nonce \notin pending
  <2>1. Cardinality(pending) \in Nat /\ confirmed \in Nat
    BY PendingCount DEF DeployType
  <2> QED BY <1>2, <2>1 DEF Consecutive, NextNonce
<1>4. ~(Cardinality(pending) >= MaxPending)
  <2>1. Cardinality(pending) \in Nat /\ faults \in Nat /\ faults <= MaxFaults
        /\ MaxFaults \in Nat /\ MaxPending \in Nat
    BY PendingCount, DeployAssumption DEF DeployType
  <2>2. 2 * Cardinality(pending) <= faults
    BY <2>1 DEF LeftOver, Waiting
  <2> QED BY <2>1, <2>2
<1>5. Step.kind # "create" => Step.contract \in held
  <2> SUFFICES ASSUME Step.kind # "create" PROVE Step.contract \in held
    OBVIOUS
  <2>1. Step.kind \in {"call", "connect", "transfer"}
    BY <1>1 DEF StepKind
  <2>2. PICK j \in 1..(at - 1) : CreatedAt(steps, j, at) /\ steps[j].contract = steps[at].contract
    BY <1>1, <2>1, StepType DEF WellFormed
  <2> QED BY <1>1, <2>2 DEF Holds
<1> QED BY <1>2, <1>3, <1>4, <1>5 DEF Refused

LEMMA SendStepStep ==
    ASSUME MaxFaults < 2 * MaxPending, DeployInv, SendStep
    PROVE  DeployInv'
<1> USE DEF DeployInv
<1>1. /\ outcome = "running" /\ own = NoNonce /\ Step.kind # "count"
      /\ UNCHANGED <<config, at, txCount, confirmed, held, disturbed, others, faults>>
  BY DEF SendStep, deployBounds
<1>2. CASE Refused /\ outcome' = "rejected" /\ UNCHANGED <<own, pending>>
  <2>1. disturbed
    BY <1>1, <1>2, NotRefused DEF Alone
  <2>2. DeployType'
    BY <1>1, <1>2 DEF DeployType, Outcomes
  <2> QED BY <1>1, <1>2, <2>1, <2>2 DEF Holds, OwnStep, Waiting, Alone, RejectedOnlyIfDisturbed
<1>3. CASE ~Refused /\ own' = Nonce /\ pending' = pending \cup {Nonce} /\ UNCHANGED outcome
  <2>1. Nonce \in Nat /\ Nonce \notin pending /\ NoNonce \notin Nat
    <3>1. txCount \in Nat /\ Step.index \in Nat /\ NextNonce \in Nat
      BY StepType, PendingCount DEF DeployType
    <3> QED BY <1>3, <3>1 DEF Nonce, Refused, NoNonce
  <2>2. Cardinality(pending) \in Nat /\ Cardinality(pending') = Cardinality(pending) + 1
        /\ IsFiniteSet(pending') /\ confirmed \in Nat
    BY <1>3, <2>1, PendingCount, PendingMore DEF DeployType
  <2>3. DeployType'
    BY <1>1, <1>3, <2>1, <2>2 DEF DeployType
  <2>4. Holds'
    BY <1>1, <1>3 DEF Holds, CreatedAt
  <2>5. ASSUME Alone' PROVE Consecutive' /\ OwnLast' /\ CountGoesOn' /\ LeftOver'
    <3>1. Nonce = NextNonce /\ Consecutive /\ CountGoesOn /\ LeftOver
      BY <1>1, <2>5, NotRefused DEF Alone
    <3>2. NextNonce' = NextNonce + 1 /\ NextNonce = confirmed + Cardinality(pending) /\ NextNonce \in Nat
      BY <1>1, <2>2 DEF NextNonce
    <3>3. Consecutive'
      <4>1. pending' = (confirmed..(NextNonce - 1)) \cup {NextNonce}
        BY <1>3, <3>1 DEF Consecutive
      <4>2. pending' = confirmed..(NextNonce' - 1)
        BY <2>2, <3>2, <4>1
      <4> QED BY <1>1, <4>2 DEF Consecutive
    <3>4. OwnLast'
      BY <1>3, <3>1, <3>2 DEF OwnLast
    <3>5. CountGoesOn'
      <4> SUFFICES ASSUME NEW j \in 1..(at - 1), CountedAt(Steps[config], j, at)
                   PROVE  txCount + (at - 1 - j) = own'
        BY <1>1, <1>3, <2>1 DEF CountGoesOn
      <4> QED BY <1>1, <1>3, <3>1 DEF CountGoesOn
    <3>6. LeftOver'
      <4>1. 2 * Cardinality(pending) <= faults /\ faults \in Nat
        BY <1>1, <3>1 DEF LeftOver, Waiting, DeployType
      <4>2. Waiting' /\ outcome' # "failed"
        BY <1>1, <1>3, <2>1 DEF Waiting
      <4>3. 2 * (Cardinality(pending) + 1) <= faults + 2 + 0
        BY <2>2, <4>1
      <4> QED BY <1>1, <2>2, <4>2, <4>3 DEF LeftOver
    <3> QED BY <3>3, <3>4, <3>5, <3>6
  <2> QED BY <1>1, <1>3, <2>3, <2>4, <2>5 DEF RejectedOnlyIfDisturbed, OwnStep, Step
<1> QED BY <1>2, <1>3 DEF SendStep

\* A receipt: nothing is pending any more unless the account is used otherwise.
LEMMA ReceiptStep == ASSUME DeployInv, Receipt PROVE DeployInv'
<1> USE DEF DeployInv
<1> DEFINE steps == Steps[config]
<1>1. /\ outcome = "running" /\ own # NoNonce /\ own < confirmed /\ own' = NoNonce
      /\ UNCHANGED <<config, txCount, confirmed, pending, disturbed, others, faults>>
      /\ held' = CASE Step.kind = "create" -> held \cup {Step.contract}
                   [] Step.kind = "transfer" -> held \ {Step.contract}
                   [] OTHER -> held
      /\ \/ at = Len(steps) /\ outcome' = "written" /\ at' = at
         \/ at < Len(steps) /\ at' = at + 1 /\ outcome' = outcome
  <2>1. at \in Nat /\ Len(steps) \in Nat /\ at <= Len(steps)
    BY StepType DEF DeployType
  <2> HIDE DEF steps
  <2> QED BY <2>1 DEF Receipt, deployBounds, steps
<1>2. /\ at \in 1..Len(steps) /\ at \in Nat /\ Len(steps) \in Nat /\ Step = steps[at]
      /\ confirmed \in Nat /\ own \in Nat /\ txCount \in Nat
  BY <1>1, StepType DEF DeployType, Step
<1> HIDE DEF steps
<1>3. DeployType'
  BY <1>1, <1>2 DEF DeployType, Outcomes, steps
<1>4. Holds'
  <2> SUFFICES ASSUME outcome' = "running", NEW j \in 1..(at' - 1), CreatedAt(steps, j, at')
               PROVE  steps[j].contract \in held'
    BY <1>1 DEF Holds, steps
  <2>1. at' = at + 1
    BY <1>1
  <2>2. CASE j = at
    BY <1>1, <1>2, <2>2 DEF CreatedAt
  <2>3. CASE j # at
    <3>1. j \in 1..(at - 1)
      BY <1>2, <2>1, <2>3
    <3>2. CreatedAt(steps, j, at) /\ ~(Step.kind = "transfer" /\ Step.contract = steps[j].contract)
      BY <1>2, <2>1, <3>1 DEF CreatedAt
    <3>3. steps[j].contract \in held
      BY <1>1, <3>1, <3>2 DEF Holds, steps
    <3> QED BY <1>1, <3>2, <3>3
  <2> QED BY <2>2, <2>3
<1>5. ASSUME Alone' PROVE Consecutive' /\ OwnLast' /\ CountGoesOn' /\ LeftOver'
  <2>1. Consecutive /\ OwnLast /\ CountGoesOn /\ LeftOver
    BY <1>1, <1>5 DEF Alone
  <2>2. Cardinality(pending) = 0 /\ own = confirmed - 1 /\ NextNonce = confirmed
    <3>1. Cardinality(pending) \in Nat
      BY PendingCount
    <3> QED BY <1>1, <1>2, <2>1, <3>1 DEF OwnLast, Waiting, NextNonce
  <2>3. Consecutive' /\ OwnLast'
    BY <1>1, <2>1 DEF Consecutive, OwnLast, Waiting, NextNonce
  <2>4. CountGoesOn'
    <3> SUFFICES ASSUME outcome' = "running", NEW j \in 1..(at' - 1), CountedAt(steps, j, at')
                 PROVE  txCount + (at' - 1 - j) = confirmed
      BY <1>1, <2>2 DEF CountGoesOn, NextNonce, steps
    <3>1. at' = at + 1 /\ Step.kind # "count"
      BY <1>1 DEF OwnStep, Waiting
    <3>2. j \in 1..(at - 1) /\ CountedAt(steps, j, at)
      BY <1>2, <3>1 DEF CountedAt
    <3>3. txCount + (at - 1 - j) = own
      BY <1>1, <2>1, <3>2 DEF CountGoesOn, steps
    <3> QED BY <1>2, <2>2, <3>1, <3>2, <3>3
  <2>5. LeftOver'
    BY <1>1, <2>2 DEF LeftOver, Waiting, DeployType
  <2> QED BY <2>3, <2>4, <2>5
<1> QED BY <1>1, <1>3, <1>4, <1>5 DEF RejectedOnlyIfDisturbed, OwnStep, Waiting

\* A run fails, and is begun again.
LEMMA FailStep == ASSUME DeployInv, Fails \/ Again PROVE DeployInv'
<1> USE DEF DeployInv
<1>1. /\ faults < MaxFaults /\ faults' = faults + 1
      /\ UNCHANGED <<config, confirmed, pending, disturbed, others>>
      /\ \/ outcome = "running" /\ outcome' = "failed" /\ UNCHANGED <<at, own, txCount, held>>
         \/ /\ outcome \in {"failed", "rejected"} /\ outcome' = "running"
            /\ at' = 1 /\ own' = NoNonce /\ txCount' = 0
  BY DEF Fails, Again
<1>2. faults' \in 0..MaxFaults /\ faults \in Nat /\ Cardinality(pending) \in Nat
  BY <1>1, DeployAssumption, PendingCount DEF DeployType
<1>3. 1 \in 1..Len(Steps[config])
  <2>1. at \in 1..Len(Steps[config]) /\ Len(Steps[config]) \in Nat
    BY StepType DEF DeployType
  <2> QED BY <2>1
<1>4. DeployType'
  BY <1>1, <1>2, <1>3 DEF DeployType, Outcomes
<1>5. Holds' /\ OwnStep' /\ OwnLast' /\ CountGoesOn'
  BY <1>1 DEF Holds, OwnStep, OwnLast, CountGoesOn, Waiting
<1>6. ASSUME Alone' PROVE Consecutive' /\ LeftOver'
  <2>1. Consecutive /\ LeftOver
    BY <1>1, <1>6 DEF Alone
  <2>2. ~Waiting'
    BY <1>1 DEF Waiting
  <2> QED BY <1>1, <1>2, <2>1, <2>2 DEF Consecutive, NextNonce, LeftOver, Waiting
<1> QED BY <1>1, <1>4, <1>5, <1>6 DEF RejectedOnlyIfDisturbed

LEMMA MinedStep == ASSUME DeployInv, Mined PROVE DeployInv'
<1> USE DEF DeployInv
<1>1. /\ confirmed \in pending /\ confirmed' = confirmed + 1 /\ pending' = pending \ {confirmed}
      /\ UNCHANGED <<config, at, own, txCount, outcome, held, disturbed, others, faults>>
  BY DEF Mined, deployBounds
<1>2. /\ IsFiniteSet(pending') /\ Cardinality(pending') = Cardinality(pending) - 1
      /\ Cardinality(pending) \in Nat /\ confirmed \in Nat /\ faults \in Nat
  BY <1>1, PendingLess, PendingCount DEF DeployType
<1>3. NextNonce' = NextNonce /\ NextNonce \in Nat
  BY <1>1, <1>2 DEF NextNonce
<1>4. DeployType'
  BY <1>1, <1>2 DEF DeployType
<1>5. Holds' /\ OwnStep'
  BY <1>1 DEF Holds, OwnStep, Waiting, Step
<1>6. ASSUME Alone' PROVE Consecutive' /\ OwnLast' /\ CountGoesOn' /\ LeftOver'
  <2>1. Consecutive /\ OwnLast /\ CountGoesOn /\ LeftOver
    BY <1>1, <1>6 DEF Alone
  <2>2. Consecutive'
    BY <1>1, <1>2, <1>3, <2>1 DEF Consecutive
  <2>3. OwnLast' /\ CountGoesOn'
    BY <1>1, <1>3, <2>1 DEF OwnLast, CountGoesOn, Waiting
  <2>4. LeftOver'
    BY <1>1, <1>2, <2>1 DEF LeftOver, Waiting
  <2> QED BY <2>2, <2>3, <2>4
<1> QED BY <1>1, <1>4, <1>5, <1>6 DEF RejectedOnlyIfDisturbed, Alone

LEMMA OtherStep == ASSUME DeployInv, Other PROVE DeployInv'
<1> USE DEF DeployInv
<1>1. /\ disturbed' = TRUE /\ others' = others + 1 /\ pending' = pending \cup {NextNonce}
      /\ UNCHANGED <<config, at, own, txCount, outcome, confirmed, held, faults>>
  BY DEF Other
<1>2. NextNonce \in Nat /\ IsFiniteSet(pending')
  BY <1>1, PendingCount, FS_AddElement DEF DeployType
<1>3. DeployType'
  BY <1>1, <1>2 DEF DeployType
<1> QED BY <1>1, <1>3 DEF Holds, OwnStep, Waiting, Step, Alone, RejectedOnlyIfDisturbed

LEMMA DeployProgress ==
    ASSUME MaxFaults < 2 * MaxPending
    PROVE  DeployInv /\ [DeployNext]_deployVars => DeployInv'
<1> SUFFICES ASSUME DeployInv, [DeployNext]_deployVars PROVE DeployInv'
  OBVIOUS
<1>1. CASE CountNonces
  BY <1>1, CountNoncesStep
<1>2. CASE SendStep
  BY <1>2, SendStepStep
<1>3. CASE Receipt
  BY <1>3, ReceiptStep
<1>4. CASE Fails \/ Again
  BY <1>4, FailStep
<1>5. CASE Mined
  BY <1>5, MinedStep
<1>6. CASE Other
  BY <1>6, OtherStep
<1>7. CASE UNCHANGED deployVars
  BY <1>7 DEF deployVars, DeployInv, DeployType, Holds, OwnStep, Waiting, Step, Alone, Consecutive,
              NextNonce, OwnLast, CountGoesOn, LeftOver, RejectedOnlyIfDisturbed
<1> QED BY <1>1, <1>2, <1>3, <1>4, <1>5, <1>6, <1>7 DEF DeployNext

\* A deployment is rejected only if the account was used otherwise since the nonces
\* were counted, whatever runs have failed before: a run and its repetition fail and
\* leave at most one transaction behind, and these are fewer than may be pending.
THEOREM RejectionsExplained ==
    ASSUME MaxFaults < 2 * MaxPending
    PROVE  DeploySpec => []RejectedOnlyIfDisturbed
<1>1. DeployInv => RejectedOnlyIfDisturbed
  BY DEF DeployInv
<1> QED BY <1>1, DeployStart, DeployProgress, PTL DEF DeploySpec
=============================================================================
