-------------------------------- MODULE MCBot --------------------------------
(***************************************************************************)
(* The parts of the bot besides the table, for TLC: the timer that bumps   *)
(* the gas price, the timer that watches the price of the collateral, and  *)
(* the choice of a gas price.  A behaviour is one of the part that is      *)
(* chosen in its initial state; the others stay as they are.               *)
(***************************************************************************)
EXTENDS GasBump, PriceWatch, GasPrice

VARIABLE part

\* The prices of the node are lower and higher than those pending, of which two are
\* equal; "same" if the transaction liquidates the same troves.
Tx(p, n, gas, same) == [price |-> p, turn |-> n, gas |-> gas, rival |-> same]
Pendings ==
    {Tx(200, 1, 3, FALSE), Tx(110, 1, 2, FALSE), Tx(100, 1, 1, FALSE), Tx(100, 2, 2, FALSE),
     Tx(80, 1, 2, FALSE), Tx(120, 1, 1, TRUE), Tx(300, 1, 1, TRUE)}
Times(p) == (p * 11) \div 10

-----------------------------------------------------------------------------
\* A listening call that is over, a watch that has settled and an attempt that
\* has not begun, for the other parts.
QuietBump ==
    /\ sent = <<FirstPrice>> /\ known = {1} /\ newest = 1
    /\ tries = Tries /\ confirmed = 1 /\ ticking = FALSE
    /\ result = [done |-> TRUE, tx |-> 1]
    /\ tick = [s \in Slot |-> Idle]
    /\ pool = 0 /\ mined = 1 /\ rival = 0 /\ late = TRUE
    /\ faults = 0 /\ lost = 0 /\ overlap = FALSE /\ selfbid = FALSE
QuietWatch ==
    /\ price = 1 /\ waiting = {} /\ timer = None /\ live = {} /\ new = [h \in Handler |-> 0]
    /\ old = 1 /\ runs = [h \in Handler |-> 0] /\ rejections = 0
    /\ seen = 1 /\ missed = FALSE /\ outlived = FALSE
QuietGas == GasInit /\ nodePrice = CHOOSE p \in NodePrice : TRUE

Bump(A) == part = "bump" /\ A
Watch(A) == part = "watch" /\ A
Gas(A) == part = "gas" /\ A

BotInit ==
    \/ Bump(Init) /\ QuietWatch /\ QuietGas
    \/ Watch(WatchInit) /\ QuietBump /\ QuietGas
    \/ Gas(GasInit) /\ QuietBump /\ QuietWatch

BotNext ==
    /\ UNCHANGED part
    /\ \/ Bump(Next) /\ UNCHANGED <<watchVars, gasVars>>
       \/ Watch(WatchNext) /\ UNCHANGED <<vars, gasVars>>
       \/ Gas(GasNext) /\ UNCHANGED <<vars, watchVars>>

\* The fairness of GasBump and of PriceWatch, each for its part.
BotFairness ==
    /\ \A s \in Slot : WF_vars(Bump(Firing(s))) /\ WF_vars(Bump(ReceiptArrives(s)))
    /\ WF_vars(Bump(TimePasses))
    /\ WF_watchVars(Watch(\E h \in Handler : Block(h)))
    /\ \A h \in Handler : WF_watchVars(Watch(Arm(h))) /\ WF_watchVars(Watch(RunReturns(h)))
    /\ SF_watchVars(Watch(\E h \in Handler : IntervalFires(h)))

botVars == <<part, vars, watchVars, gasVars>>
BotSpec == BotInit /\ [][BotNext]_botVars /\ BotFairness
=============================================================================
