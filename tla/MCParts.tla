------------------------------ MODULE MCParts -------------------------------
(***************************************************************************)
(* The parts that have no state in common, for TLC: a behaviour is one of  *)
(* the part that is chosen in its initial state; the others stay as they   *)
(* are.                                                                    *)
(***************************************************************************)
EXTENDS Borrowing, Deposits, Observers, Redemption, HintSearch, Dashboard, Deploy

VARIABLE part

-----------------------------------------------------------------------------
(* Instances *)

\* Trove transactions of one user: a debt of 61 with a collateral of 50, or no
\* trove; a minute is two ticks, the rate 1 to 10 of 40.
Changes(d, w, b, r) ==
    [depositCollateral |-> d, withdrawCollateral |-> w, borrowZUSD |-> b, repayZUSD |-> r]
Asks(op, params, limit) == [op |-> op, params |-> params, limit |-> limit]
Requests ==
    {Asks("open", Changes(50, 0, 40, 0), NoLimit), Asks("adjust", Changes(0, 0, 30, 0), NoLimit),
     Asks("adjust", Changes(0, 0, 30, 0), 3), Asks("adjust", Changes(0, 20, 0, 10), NoLimit),
     Asks("adjust", Changes(1, 1, 0, 0), NoLimit), Asks("close", NoParams, NoLimit)}
Of(c, d) == [collateral |-> c, debt |-> d]
Initials ==
    {[open |-> FALSE, collateral |-> 0, debt |-> 0, stake |-> 0],
     [open |-> TRUE, collateral |-> 50, debt |-> 61, stake |-> 50]}
Wanteds == {Of(0, 0), Of(50, 100), Of(0, 61), Of(70, 0), Of(52, 73), Of(50, 10)}
Shared == Of(4, 8)

\* Two troves, of which the second is redeemed in part.
TroveLists == {<<[trove |-> "a", net |-> 3], [trove |-> "b", net |-> 6]>>}
Limits == {NoLimit, 12}

\* The real price feed with its oracles, and a mock for the first address.
P == INSTANCE DeployPlan
Deployments == {[testnet |-> FALSE, mocks |-> 1]}
Plans == [c \in Deployments |-> P!Plan[c]]

\* The assumption of the other deployments.
ASSUME PlansWellFormed == \A c \in P!Config : WellFormed(P!Plan[c])

-----------------------------------------------------------------------------
(* One part at a time *)

\* A user, a stake, an observer and so on that nothing has happened to, for the
\* other parts.
QuietBorrowing == BorrowingInit /\ chain["base"] = 0 /\ ~chain["trove"].open
QuietDeposits == DepositsInit /\ kind = "stake"
QuietObservers == ObserversInit
QuietRedemption == RedemptionInit /\ ledger.base = 0
QuietHints == HintInit /\ sorted = {}
QuietTable == TableInit
QuietDeploy == DeployInit /\ config = CHOOSE c \in Deployment : TRUE

Parts == {"borrowing", "deposits", "observers", "redemption", "hints", "table", "deploy"}

PartsInit ==
    /\ part \in Parts
    /\ IF part = "borrowing" THEN BorrowingInit ELSE QuietBorrowing
    /\ IF part = "deposits" THEN DepositsInit ELSE QuietDeposits
    /\ IF part = "observers" THEN ObserversInit ELSE QuietObservers
    /\ IF part = "redemption" THEN RedemptionInit ELSE QuietRedemption
    /\ IF part = "hints" THEN HintInit ELSE QuietHints
    /\ IF part = "table" THEN TableInit ELSE QuietTable
    /\ IF part = "deploy" THEN DeployInit ELSE QuietDeploy

PartsNext ==
    /\ UNCHANGED part
    /\ part = "borrowing" \/ UNCHANGED borrowingVars
    /\ part = "deposits" \/ UNCHANGED depositVars
    /\ part = "observers" \/ UNCHANGED observerVars
    /\ part = "redemption" \/ UNCHANGED redemptionVars
    /\ part = "hints" \/ UNCHANGED hintVars
    /\ part = "table" \/ UNCHANGED tableVars
    /\ part = "deploy" \/ UNCHANGED deployVars
    /\ \/ part = "borrowing" /\ BorrowingNext
       \/ part = "deposits" /\ DepositsNext
       \/ part = "observers" /\ ObserversNext
       \/ part = "redemption" /\ RedemptionNext
       \/ part = "hints" /\ HintNext
       \/ part = "table" /\ TableNext
       \/ part = "deploy" /\ DeployNext

partsVars ==
    <<part, borrowingVars, depositVars, observerVars, redemptionVars, hintVars, tableVars,
      deployVars>>
PartsSpec == PartsInit /\ [][PartsNext]_partsVars
=============================================================================
