------------------------------- MODULE Deploy --------------------------------
(***************************************************************************)
(* deployAndSetupContracts of utils/deploy.ts, which the task deploy runs: *)
(* one transaction after another creates the contracts, connects them,     *)
(* hooks up the oracles and hands the contracts over to governance.  Most  *)
(* nonces are chosen by the signer; those of the connections and of the    *)
(* transfers are counted from what getTransactionCount told beforehand.    *)
(* A failure leaves everything half done, and the task is run again from   *)
(* the start.  The node, other transactions of the deployer and the        *)
(* contracts, with setters that are for their owner only, are external.    *)
(***************************************************************************)
EXTENDS Integers, Sequences, FiniteSets

CONSTANTS
    Deployment, \* inputs: what is deployed
    Steps,      \* the transactions for each, in order
    MaxPending, \* external: pending transactions that an RSK node accepts
    MaxOthers,  \* bound: other transactions of the deployer
    MaxFaults   \* bound: calls that fail

\* What is created before step k and has not been handed over since.
CreatedAt(steps, j, k) ==
    /\ steps[j].kind = "create"
    /\ \A i \in (j + 1)..(k - 1) :
          ~(steps[i].kind = "transfer" /\ steps[i].contract = steps[j].contract)

\* The nonces counted last before step k are those of step j.
CountedAt(steps, j, k) ==
    steps[j].kind = "count" /\ \A i \in (j + 1)..(k - 1) : steps[i].kind # "count"

\* A contract is created before it is used, and used before it is handed over;
\* a counted nonce is that of the step's place after the count.
WellFormed(steps) ==
    /\ steps # <<>> /\ steps[Len(steps)].kind # "count"
    /\ \A k \in DOMAIN steps : steps[k].kind \in {"call", "connect", "transfer"} =>
          \E j \in 1..(k - 1) :
             CreatedAt(steps, j, k) /\ steps[j].contract = steps[k].contract
    /\ \A k \in DOMAIN steps : steps[k].kind \in {"connect", "transfer"} =>
          \E j \in 1..(k - 1) : CountedAt(steps, j, k) /\ steps[k].index = k - 1 - j

StepKind == {"create", "call", "count", "connect", "transfer"}

ASSUME DeployAssumption ==
    /\ \A c \in Deployment :
          Steps[c] \in Seq([kind : StepKind, contract : STRING, index : Nat]) /\ WellFormed(Steps[c])
    /\ {MaxPending, MaxOthers, MaxFaults} \subseteq Nat

-----------------------------------------------------------------------------
VARIABLES
    config,     \* what is deployed
    at,         \* the next of its transactions
    own,        \* nonce of the transaction that is waited for, NoNonce
    txCount,    \* txCount
    outcome,    \* "running", "rejected" by the node or a contract, "failed", "written"
    confirmed,  \* external: mined transactions of the account
    pending,    \* external: nonces of its pending ones
    held,       \* external: the contracts that the deployer owns
    disturbed,  \* history: has the account been used otherwise since the count
    others, faults

deployVars ==
    <<config, at, own, txCount, outcome, confirmed, pending, held, disturbed, others, faults>>
deployBounds == <<others, faults>>

NoNonce == -1

DeployInit ==
    /\ config \in Deployment
    /\ at = 1 /\ own = NoNonce /\ txCount = 0 /\ outcome = "running"
    /\ confirmed = 0 /\ pending = {} /\ held = {}
    /\ disturbed = FALSE /\ others = 0 /\ faults = 0

Step == Steps[config][at]
NextNonce == confirmed + Cardinality(pending)

\* getTransactionCount counts what is mined.
CountNonces ==
    /\ outcome = "running" /\ own = NoNonce /\ Step.kind = "count"
    /\ txCount' = confirmed
    /\ disturbed' = (pending # {})
    /\ at' = at + 1
    /\ UNCHANGED <<config, own, outcome, confirmed, pending, held, deployBounds>>

\* Wrong variant: all are counted from the same number.
NonceSame == IF Step.kind \in {"connect", "transfer"} THEN txCount ELSE NextNonce

Nonce == IF Step.kind \in {"connect", "transfer"} THEN txCount + Step.index ELSE NextNonce

\* The node refuses a nonce that is used, and more than so many transactions;
\* the estimate rejects a call that the deployer may not make.
Refused ==
    \/ Nonce < confirmed \/ Nonce \in pending \/ Cardinality(pending) >= MaxPending
    \/ Step.kind # "create" /\ Step.contract \notin held

SendStep ==
    /\ outcome = "running" /\ own = NoNonce /\ Step.kind # "count"
    /\ \/ Refused /\ outcome' = "rejected" /\ UNCHANGED <<own, pending>>
       \/ ~Refused /\ own' = Nonce /\ pending' = pending \cup {Nonce} /\ UNCHANGED outcome
    /\ UNCHANGED <<config, at, txCount, confirmed, held, disturbed, deployBounds>>

\* The receipt of the transaction is there; after the last one the addresses are
\* written to a file.
Receipt ==
    /\ outcome = "running" /\ own # NoNonce /\ own < confirmed
    /\ own' = NoNonce
    /\ held' = CASE Step.kind = "create" -> held \cup {Step.contract}
                 [] Step.kind = "transfer" -> held \ {Step.contract}
                 [] OTHER -> held
    /\ IF at = Len(Steps[config])
       THEN outcome' = "written" /\ UNCHANGED at
       ELSE at' = at + 1 /\ UNCHANGED outcome
    /\ UNCHANGED <<config, txCount, confirmed, pending, disturbed, deployBounds>>

\* A call fails, that for a receipt too; the transaction stays where it is.
Fails ==
    /\ outcome = "running" /\ faults < MaxFaults /\ faults' = faults + 1
    /\ outcome' = "failed"
    /\ UNCHANGED <<config, at, own, txCount, confirmed, pending, held, disturbed, others>>

\* The task is run again: with contracts of its own.
Again ==
    /\ outcome \in {"failed", "rejected"} /\ faults < MaxFaults /\ faults' = faults + 1
    /\ outcome' = "running" /\ at' = 1 /\ own' = NoNonce /\ held' = {} /\ txCount' = 0
    /\ UNCHANGED <<config, confirmed, pending, disturbed, others>>

\* The pending transaction that is next in the order of nonces is mined.
Mined ==
    /\ confirmed \in pending
    /\ confirmed' = confirmed + 1 /\ pending' = pending \ {confirmed}
    /\ UNCHANGED <<config, at, own, txCount, outcome, held, disturbed, deployBounds>>

\* The deployer's account sends another transaction.
Other ==
    /\ others < MaxOthers /\ others' = others + 1
    /\ pending' = pending \cup {NextNonce}
    /\ disturbed' = TRUE
    /\ UNCHANGED <<config, at, own, txCount, outcome, confirmed, held, faults>>

DeployNext == CountNonces \/ SendStep \/ Receipt \/ Fails \/ Again \/ Mined \/ Other

DeploySpec == DeployInit /\ [][DeployNext]_deployVars

-----------------------------------------------------------------------------
\* deploy.ts:334-341, 449-456: a deployment is rejected, by the node or by a
\* contract, only if the account was used otherwise since the nonces were
\* counted, or had something pending then; a run that failed before, with its
\* last transaction still pending, does not count as such.
RejectedOnlyIfDisturbed == outcome = "rejected" => disturbed
=============================================================================
