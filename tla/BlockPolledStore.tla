-------------------------- MODULE BlockPolledStore --------------------------
(***************************************************************************)
(* The store of chain state that the bot polls: LiquityStore of lib-base   *)
(* with BlockPolledLiquityStore of lib-ethers, and the reads of            *)
(* _CachedReadableLiquity that mix the store with calls to the chain.      *)
(* A fetch is one Promise.all over some twenty calls: for a block event    *)
(* every call names the block, but the fetch that start() makes names none *)
(* and each of its calls answers for the latest block at that moment.      *)
(* Values are left out: a field is represented by the block it was read    *)
(* at, and of the fields only two are told apart.  The chain, its provider *)
(* and the users' listeners are external.                                  *)
(***************************************************************************)
EXTENDS Naturals, FiniteSets

CONSTANTS
    Listener,   \* identities of subscribed listeners
    MaxBlock,   \* bound: blocks
    MaxStarts,  \* bound: calls of start()
    MaxFaults,  \* bound: failed calls and throwing listeners
    ReadTag     \* blocks that reads name, 0 for none

ASSUME BoundsAssumption == MaxBlock \in Nat \ {0} /\ MaxStarts \in Nat /\ MaxFaults \in Nat

Block == 1..MaxBlock
\* "price" stands for all fields but totalRedistributed.
Field == {"price", "totalRedistributed"}
Nothing == [f \in Field |-> 0]

VARIABLES
    head,       \* external: number of the latest block
    monitoring, \* is the block listener installed
    starts,     \* calls of start() so far
    first,      \* initial fetches: for each start, what has been answered
    opened,     \* the initial fetches in flight
    fetching,   \* blocks whose fetch is in flight
    loaded,     \* _loaded
    tag, base,  \* _extraState.blockTag (0 for undefined), _baseState
    due,        \* is the timeout of _scheduleUpdate set
    listeners,  \* _listeners
    round,      \* listeners that the running _notify has still to visit
    read,       \* a getTroves or getTrove of the cached reader
    asserted,   \* history: an assertion has failed
    newest,     \* history: the highest block applied
    overtaken,  \* history: a block was applied before one fetched earlier
    leftover,   \* history: a fetch was in flight when monitoring stopped
    faults

fetches == <<first, opened, fetching>>
state == <<loaded, tag, base>>
users == <<listeners, round>>
history == <<newest, overtaken, leftover>>
vars == <<head, monitoring, starts, first, opened, fetching, loaded, tag, base, due,
          listeners, round, read, asserted, newest, overtaken, leftover, faults>>

\* getTroves and getTrove: blockTag of the overrides (0 for none), was
\* totalRedistributed in the cache, where the troves come from, and the blocks at
\* which the two parts were read (0: not yet).
Source == {"chain", "state", "mixture"}
NoRead == [tag |-> 0, hit |-> FALSE, source |-> "chain", redistributed |-> 1, troves |-> 1]

Init ==
    /\ head = 1 /\ monitoring = FALSE /\ starts = 0
    /\ first = [k \in 1..MaxStarts |-> Nothing] /\ opened = {} /\ fetching = {}
    /\ loaded = FALSE /\ tag = 0 /\ base = Nothing /\ due = FALSE
    /\ listeners = {} /\ round = {} /\ read = NoRead
    /\ asserted = FALSE /\ newest = 0 /\ overtaken = FALSE /\ leftover = FALSE
    /\ faults = 0

\* No callback interrupts a running _notify.
Idle == round = {}

-----------------------------------------------------------------------------
(* LiquityStore: _load, _update, the timeout *)

\* _load: a failed assertion throws before anything is changed.
Load(snapshot, b) ==
    \/ /\ loaded /\ asserted' = TRUE
       /\ UNCHANGED <<state, due, round>>
    \/ /\ ~loaded /\ loaded' = TRUE
       /\ base' = snapshot /\ tag' = b
       /\ due' = TRUE
       /\ UNCHANGED <<round, asserted>>

\* _reduce and _reduceExtra: what an update leaves undefined stays as it was.
Reduce(update) == [f \in Field |-> IF update[f] = 0 THEN base[f] ELSE update[f]]
ReduceExtra(b) == IF b = 0 THEN tag ELSE b

\* _update: the update is merged, the timeout is cancelled and set again, and the
\* listeners of this moment are notified.  Only the timeout, which has then
\* fired, could find no state to update and fail the assertion.
Update(update, b) ==
    \/ /\ ~loaded /\ asserted' = TRUE
       /\ due' = FALSE
       /\ UNCHANGED <<state, round>>
    \/ /\ loaded
       /\ base' = Reduce(update) /\ tag' = ReduceExtra(b)
       /\ due' = TRUE
       /\ round' = listeners
       /\ UNCHANGED <<loaded, asserted>>

\* The timeout fires: _update without a new state.
Timeout ==
    /\ Idle /\ due
    /\ Update(Nothing, 0)
    /\ UNCHANGED <<head, monitoring, starts, fetches, listeners, read, history, faults>>

-----------------------------------------------------------------------------
(* BlockPolledLiquityStore: _get, _doStart and the function start returns *)

\* start(): the initial fetch begins and the block listener is installed (a
\* second start() before the store is stopped is not modelled).
Start ==
    /\ Idle /\ ~monitoring /\ starts < MaxStarts
    /\ monitoring' = TRUE
    /\ starts' = starts + 1
    /\ opened' = opened \cup {starts + 1}
    /\ UNCHANGED <<head, first, fetching, state, due, users, read, asserted, history, faults>>

\* Wrong variant: only the block listener is removed.
StopKeepsTimeout ==
    /\ Idle /\ monitoring
    /\ monitoring' = FALSE
    /\ leftover' = (leftover \/ opened # {} \/ fetching # {})
    /\ UNCHANGED <<head, starts, fetches, state, due, users, read, asserted,
                   newest, overtaken, faults>>

\* The function returned by start(): fetches in flight are not cancelled.
Stop ==
    /\ Idle /\ monitoring
    /\ monitoring' = FALSE
    /\ due' = FALSE
    /\ leftover' = (leftover \/ opened # {} \/ fetching # {})
    /\ UNCHANGED <<head, starts, fetches, state, users, read, asserted,
                   newest, overtaken, faults>>

\* A block is mined; if the listener is installed, its fetch begins.
NewBlock ==
    /\ Idle /\ head < MaxBlock
    /\ head' = head + 1
    /\ fetching' = IF monitoring THEN fetching \cup {head + 1} ELSE fetching
    /\ UNCHANGED <<monitoring, starts, first, opened, state, due, users, read,
                   asserted, history, faults>>

\* Wrong variant: the calls are made for the pending block.
FirstAnswerPending(k, f) ==
    /\ k \in opened /\ first[k][f] = 0
    /\ first' = [first EXCEPT ![k] = [first[k] EXCEPT ![f] = head + 1]]
    /\ UNCHANGED <<head, monitoring, starts, opened, fetching, state, due, users, read,
                   asserted, history, faults>>

\* A call of the initial fetch k is answered, for the latest block.
FirstAnswer(k, f) ==
    /\ k \in opened /\ first[k][f] = 0
    /\ first' = [first EXCEPT ![k] = [first[k] EXCEPT ![f] = head]]
    /\ UNCHANGED <<head, monitoring, starts, opened, fetching, state, due, users, read,
                   asserted, history, faults>>

FirstComplete(k) == Idle /\ k \in opened /\ \A f \in Field : first[k][f] # 0

\* Wrong variant: the initial fetch updates a store that is loaded.
FirstResolvesAlways(k) ==
    /\ FirstComplete(k)
    /\ opened' = opened \ {k}
    /\ \/ loaded /\ Update(first[k], 0)
       \/ ~loaded /\ Load(first[k], 0)
    /\ UNCHANGED <<head, monitoring, starts, first, fetching, listeners, read, history, faults>>

\* Wrong variant: the initial fetch does not look whether a block was faster.
FirstResolvesNoCheck(k) ==
    /\ FirstComplete(k)
    /\ opened' = opened \ {k}
    /\ Load(first[k], 0)
    /\ UNCHANGED <<head, monitoring, starts, first, fetching, listeners, read, history, faults>>

\* All are answered: ignored if a block has loaded the store meanwhile.
FirstResolves(k) ==
    /\ FirstComplete(k)
    /\ opened' = opened \ {k}
    /\ \/ loaded /\ UNCHANGED <<state, due, round, asserted>>
       \/ ~loaded /\ Load(first[k], 0)
    /\ UNCHANGED <<head, monitoring, starts, first, fetching, listeners, read, history, faults>>

\* The state of block b, each call of whose fetch named b.
Snapshot(b) == [f \in Field |-> b]

Applied(b) ==
    /\ fetching' = fetching \ {b}
    /\ newest' = IF b > newest THEN b ELSE newest
    /\ overtaken' = (overtaken \/ \E c \in fetching : c < b)

\* Wrong variant: the calls of a block's fetch do not name the block.
BlockResolvesLatest(b) ==
    /\ Idle /\ b \in fetching
    /\ Applied(b)
    /\ \/ loaded /\ Update(Snapshot(head), b)
       \/ ~loaded /\ Load(Snapshot(head), b)
    /\ UNCHANGED <<head, monitoring, starts, first, opened, listeners, read, leftover, faults>>

\* The fetch for block b resolves, in whatever order fetches do: whether it
\* loads or updates is decided now.
BlockResolves(b) ==
    /\ Idle /\ b \in fetching
    /\ Applied(b)
    /\ \/ loaded /\ Update(Snapshot(b), b)
       \/ ~loaded /\ Load(Snapshot(b), b)
    /\ UNCHANGED <<head, monitoring, starts, first, opened, listeners, read, leftover, faults>>

\* A call of a fetch rejects; nobody handles it and the fetch is over.
FetchFails ==
    /\ Idle /\ faults < MaxFaults
    /\ faults' = faults + 1
    /\ \/ \E k \in opened : opened' = opened \ {k} /\ UNCHANGED fetching
       \/ \E b \in fetching : fetching' = fetching \ {b} /\ UNCHANGED opened
    /\ UNCHANGED <<head, monitoring, starts, first, state, due, users, read, asserted, history>>

-----------------------------------------------------------------------------
(* Listeners *)

\* Code of a user calls subscribe() and unsubscribing functions: any listeners
\* go and any come (wrap() makes every subscription a new identity, and the
\* identity of one that is gone is free again).
Resubscribe ==
    /\ Idle /\ listeners' \in SUBSET Listener
    /\ UNCHANGED <<head, monitoring, starts, fetches, state, due, round, read,
                   asserted, history, faults>>

\* Wrong variant: _notify iterates over the live set.
VisitLive(l) ==
    /\ l \in round
    /\ listeners' \in IF l \in listeners THEN SUBSET Listener ELSE {listeners}
    /\ round' = (round \ {l}) \cup (listeners' \ listeners)
    /\ UNCHANGED <<head, monitoring, starts, fetches, state, due, read, asserted, history, faults>>

\* _notify comes to listener l of its copy, which is called if still subscribed
\* and may subscribe and unsubscribe others and itself.  What it subscribes has
\* a new identity: it is not in the copy.
Visit(l) ==
    /\ l \in round
    /\ listeners' \in IF l \in listeners THEN SUBSET Listener ELSE {listeners}
    /\ round' = (round \ {l}) \ (listeners' \ listeners)
    /\ UNCHANGED <<head, monitoring, starts, fetches, state, due, read, asserted, history, faults>>

\* Listener l throws: the others are not notified.
Throws(l) ==
    /\ l \in round \cap listeners /\ faults < MaxFaults
    /\ round' = {} /\ faults' = faults + 1
    /\ UNCHANGED <<head, monitoring, starts, fetches, state, due, listeners, read,
                   asserted, history>>

-----------------------------------------------------------------------------
(* getTroves and getTrove of _CachedReadableLiquity *)

\* Wrong variant: the block number of the overrides is ignored.
BlockHitAnyBlock(t) == loaded

\* BlockPolledLiquityStoreBasedCache._blockHit, and is there a state to hit.
BlockHit(t) == loaded /\ (t = 0 \/ t = tag)

ReadOver == read.redistributed # 0 /\ read.troves # 0

\* Is the trove in the cache, too: that of the user's own address is
\* (BlockPolledLiquityStoreBasedCache._userHit); a state that names no block may
\* be a mixture.
SourceOf(t, own) ==
    CASE ~own \/ ~BlockHit(t) -> "chain" [] own /\ BlockHit(t) /\ tag # 0 -> "state"
      [] own /\ BlockHit(t) /\ tag = 0 -> "mixture"

\* Wrong variant: totalRedistributed is asked from the chain on a hit, too.
ReadStartsUncached(t, own) ==
    /\ Idle /\ ReadOver
    /\ read' = [tag |-> t, hit |-> BlockHit(t), source |-> SourceOf(t, own), redistributed |-> 0,
                troves |-> IF SourceOf(t, own) = "chain" THEN 0 ELSE base["price"]]
    /\ UNCHANGED <<head, monitoring, starts, fetches, state, due, users, asserted,
                   history, faults>>

\* The call, for one's own trove or others: what is in the cache is taken from
\* the store at once, what is not is asked from the chain.
ReadStarts(t, own) ==
    /\ Idle /\ ReadOver
    /\ read' = [tag |-> t, hit |-> BlockHit(t), source |-> SourceOf(t, own),
                redistributed |-> IF BlockHit(t) THEN base["totalRedistributed"] ELSE 0,
                troves |-> IF SourceOf(t, own) = "chain" THEN 0 ELSE base["price"]]
    /\ UNCHANGED <<head, monitoring, starts, fetches, state, due, users, asserted,
                   history, faults>>

\* The chain answers one of the two calls, for the block of the overrides or,
\* without, for the latest.
ReadAnswer(redistributed, troves) ==
    /\ read' = [read EXCEPT !.redistributed = redistributed, !.troves = troves]
    /\ UNCHANGED <<head, monitoring, starts, fetches, state, due, users, asserted,
                   history, faults>>
ReadBlock == IF read.tag = 0 THEN head ELSE read.tag
RedistributedAnswered == read.redistributed = 0 /\ ReadAnswer(ReadBlock, read.troves)
TrovesAnswered == read.troves = 0 /\ ReadAnswer(read.redistributed, ReadBlock)

-----------------------------------------------------------------------------
Fetching ==
    \/ Start \/ Stop \/ NewBlock \/ FetchFails
    \/ \E k \in opened : FirstResolves(k) \/ \E f \in Field : FirstAnswer(k, f)
    \/ \E b \in fetching : BlockResolves(b)

Notifying == \E l \in round : Visit(l)

Reading ==
    \/ \E t \in ReadTag \cap (0..head), own \in BOOLEAN : ReadStarts(t, own)
    \/ RedistributedAnswered \/ TrovesAnswered

Next ==
    \/ Fetching \/ Timeout \/ Notifying \/ Resubscribe \/ Reading
    \/ \E l \in round : Throws(l)

Spec == Init /\ [][Next]_vars

\* A loop in JavaScript runs on.  No fetch need ever be answered.
FairSpec == Spec /\ WF_vars(Notifying)

-----------------------------------------------------------------------------
(* Properties *)

\* Type correctness: nothing is read from a block that has not been mined.
Seen == 1..head
TypeOK ==
    /\ head \in Block /\ monitoring \in BOOLEAN /\ starts \in 0..MaxStarts
    /\ first \in [1..MaxStarts -> [Field -> {0} \cup Seen]]
    /\ opened \subseteq 1..starts /\ fetching \subseteq Seen
    /\ loaded \in BOOLEAN /\ tag \in {0} \cup Seen /\ base \in [Field -> {0} \cup Seen]
    /\ due \in BOOLEAN /\ asserted \in BOOLEAN
    /\ listeners \subseteq Listener /\ round \subseteq Listener
    /\ read \in [tag : {0} \cup Seen, hit : BOOLEAN, source : Source,
                 redistributed : {0} \cup Seen, troves : {0} \cup Seen]
    /\ newest \in {0} \cup Seen /\ overtaken \in BOOLEAN /\ leftover \in BOOLEAN
    /\ faults \in 0..MaxFaults

\* LiquityStore.ts:520, 539: the assertions of _load and _update never fail,
\* whichever of the initial fetch and the blocks' fetches resolves first, and
\* also when the store is stopped and started again with fetches in flight.
NoAssertionFails == ~asserted

\* The store implements StoreSnapshot: it is loaded once and, from the first
\* applied block on, never mixes fields of different blocks.
Snapshots == INSTANCE StoreSnapshot WITH
    Field <- Field, Block <- Block, loaded <- loaded, tag <- tag, base <- base
Implements == Snapshots!Spec

\* The state goes back to an older block only when a fetch was overtaken by the
\* fetch of a later block.
StaleOnlyIfOvertaken == (\E f \in Field : base[f] < newest) => overtaken

\* Their inductive form: a state once loaded has all its fields, those of the
\* block it names if it names one; and while no fetch has been overtaken, the
\* state is the newest and the fetches in flight are for later blocks.
ShownInv ==
    /\ NoAssertionFails
    /\ ~loaded => tag = 0 /\ newest = 0 /\ ~due
    /\ loaded => \A f \in Field : base[f] # 0
    /\ tag # 0 => base = Snapshot(tag)
    /\ ~overtaken => /\ \A f \in Field : base[f] >= newest
                     /\ \A b \in fetching : b > newest

\* LiquityStore.ts:243: after the function returned by start() was called, no
\* timeout is set and nobody is notified, unless a fetch was in flight then.
QuietAfterStop == (due \/ round # {}) /\ ~monitoring => leftover

\* Its inductive form.
QuietInv ==
    ~monitoring /\ ~leftover => opened = {} /\ fetching = {} /\ ~due /\ round = {}

\* ReadableEthersLiquity.ts:491-512: a getTroves or getTrove that names a block
\* applies to the troves the redistribution of that very block, cached or not,
\* whatever the store does between the two answers.
TaggedReadsExact ==
    ReadOver /\ read.tag # 0 => read.redistributed = read.tag /\ read.troves = read.tag

\* _CachedReadableLiquity.ts:73-80, 153-160: one that names no block may mix
\* blocks, but with a loaded store it never applies a redistribution newer than
\* the troves; and one's own trove, with both parts from the store, is that of
\* one block as soon as the store has applied a block.
UntaggedReadsForward ==
    ReadOver /\ read.tag = 0 /\ read.hit =>
        /\ read.source = "chain" => read.redistributed <= read.troves
        /\ read.source = "state" => read.redistributed = read.troves

\* Their inductive form: what has been answered so far.
ReadInv ==
    /\ read.tag # 0 => read.redistributed \in {0, read.tag} /\ read.troves \in {0, read.tag}
    /\ read.tag = 0 /\ read.hit =>
          /\ read.redistributed # 0
          /\ read.source # "chain" => read.troves # 0
          /\ read.source = "chain" /\ read.troves # 0 => read.redistributed <= read.troves
          /\ read.source = "state" => read.redistributed = read.troves

\* LiquityStore.ts:489-494: a notification ends, however listeners subscribe
\* and unsubscribe each other from their callbacks.
RoundEnds == round # {} ~> round = {}
=============================================================================
