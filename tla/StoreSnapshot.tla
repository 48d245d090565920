---------------------------- MODULE StoreSnapshot ---------------------------
(***************************************************************************)
(* What a LiquityStore promises to its users, the bot and the cache of     *)
(* ReadableEthersLiquity: its state is loaded exactly once, possibly from  *)
(* answers that belong to several blocks, and from the first block that is *)
(* applied on it is always the state of one block, the one it names.       *)
(***************************************************************************)
CONSTANTS
    Field,  \* the fields of the state that are read from the chain
    Block   \* block numbers

VARIABLES
    loaded, \* is there a state
    tag,    \* the block the state names, 0 for none
    base    \* for each field, the block it was read at

Init == ~loaded /\ tag = 0 /\ base = [f \in Field |-> 0]

\* The state becomes that of block b.
ShowBlock(b) == tag' = b /\ base' = [f \in Field |-> b]

\* The first state: of a block, or a mixture that names no block.
Load ==
    /\ ~loaded /\ loaded' = TRUE
    /\ \/ \E b \in Block : ShowBlock(b)
       \/ tag' = 0 /\ base' \in [Field -> Block]

Refresh == loaded /\ UNCHANGED loaded /\ \E b \in Block : ShowBlock(b)

Spec == Init /\ [][Load \/ Refresh]_<<loaded, tag, base>>
=============================================================================
