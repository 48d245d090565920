----------------------------- MODULE DeployPlan -----------------------------
(***************************************************************************)
(* The transactions that deployAndSetupContracts makes, in order: "create" *)
(* a contract, "call" one, "connect" or "transfer" it with a nonce that is *)
(* counted from the last "count".                                          *)
(***************************************************************************)
EXTENDS Naturals, SequencesExt

\* deployContract and deployContractWithProxy: a proxy is created and given the
\* implementation.
Create(c) == <<[kind |-> "create", contract |-> c, index |-> 0]>>
Invoke(c) == <<[kind |-> "call", contract |-> c, index |-> 0]>>
WithProxy(c) == Create("implementation") \o Create(c) \o Invoke(c)

\* Addresses that the caller may leave out: mock contracts take their place.
Mock == <<"sovFeeCollector", "wrbtc", "presale", "marketMaker">>

\* deployContracts.
Created(testnet) ==
    LET proxied(names) == FlattenSeq([k \in 1..Len(names) |-> WithProxy(names[k])]) IN
    Create("gasPool")
    \o proxied(<<"activePool", "borrowerOperations", "troveManager">>)
    \o Create("troveManagerRedeemOps")
    \o proxied(<<"collSurplusPool", "communityIssuance", "defaultPool", "hintHelpers",
                 "zeroStaking">>)
    \o (IF testnet THEN Create("priceFeed") ELSE WithProxy("priceFeed"))
    \o proxied(<<"sortedTroves", "stabilityPool", "liquityBaseParams", "feeDistributor",
                 "zusdToken", "zeroToken", "multiTroveGetter">>)

\* The contracts that connectContracts initializes.
Connected ==
    <<"zusdToken", "liquityBaseParams", "zeroToken", "sortedTroves", "troveManager",
      "borrowerOperations", "stabilityPool", "activePool", "defaultPool", "collSurplusPool",
      "hintHelpers", "zeroStaking", "communityIssuance", "multiTroveGetter", "feeDistributor">>

\* transferOwnership: setOwner is called, for these contracts.
Transferred(testnet) ==
    <<"activePool", "borrowerOperations", "feeDistributor", "troveManager", "collSurplusPool",
      "communityIssuance", "defaultPool", "hintHelpers", "zeroStaking", "multiTroveGetter",
      "stabilityPool", "sortedTroves", "liquityBaseParams">>
    \o IF testnet THEN <<>> ELSE <<"priceFeed">>

\* Transactions with counted nonces: the count, and one after another.
Counted(kind, contracts) ==
    <<[kind |-> "count", contract |-> "none", index |-> 0]>>
    \o [k \in 1..Len(contracts) |-> [kind |-> kind, contract |-> contracts[k], index |-> k - 1]]

\* The oracles, for the real price feed.
Hooked == Create("mocMedianizer") \o Create("rskOracle") \o Invoke("priceFeed")

\* deployAndSetupContracts, for the testnet price feed or the real one, with
\* mocks for the first so many of the addresses.
Config == [testnet : BOOLEAN, mocks : 0..Len(Mock)]
Plan == [c \in Config |->
    FlattenSeq([k \in 1..c.mocks |-> Create(Mock[k])])
    \o Created(c.testnet)
    \o Counted("connect", Connected)
    \o (IF c.testnet THEN <<>> ELSE Hooked)
    \o Counted("transfer", Transferred(c.testnet))]
=============================================================================
