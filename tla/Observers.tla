----------------------------- MODULE Observers ------------------------------
(***************************************************************************)
(* A watch function of ObservableEthersLiquity: listeners for the events   *)
(* of one or more filters share one debounced function, which remembers    *)
(* the highest block among the events and, once they pause, reads the      *)
(* watched value at that block and passes it to the subscriber.  All watch *)
(* functions differ only in their filters and in what they read; watchPrice *)
(* throws, and so does watchNUEBalance without a NUE token.  Blocks, the   *)
(* delivery of events and the answers are external.                        *)
(***************************************************************************)
EXTENDS Naturals, Sequences

CONSTANTS
    Filter,     \* the filters that the listener is registered for
    MaxBlocks   \* bound: blocks with an event

ASSUME BlocksAssumption == MaxBlocks \in Nat

VARIABLES
    head,       \* external: the newest block with an event; the watched value is that of it
    emitted,    \* external: blocks of the events of a filter, not yet delivered
    listening,  \* the filters that have the listener
    latest,     \* latestBlock
    timeoutId,  \* timeoutId: is a timeout pending
    asked,      \* external: blocks of the reads in progress, in order
    shown,      \* the block of the value that the subscriber has last been given
    overtaken   \* history: has an answer overtaken that of an earlier read

observerVars == <<head, emitted, listening, latest, timeoutId, asked, shown, overtaken>>

ObserversInit ==
    /\ head = 0 /\ emitted = [f \in Filter |-> <<>>] /\ listening = Filter
    /\ latest = 0 /\ timeoutId = FALSE /\ asked = <<>> /\ shown = 0
    /\ overtaken = FALSE

\* A block with an event for some of the filters.
Emit(filters) ==
    /\ head < MaxBlocks /\ filters # {}
    /\ head' = head + 1
    /\ emitted' = [f \in Filter |-> IF f \in filters /\ f \in listening
                                    THEN Append(emitted[f], head + 1) ELSE emitted[f]]
    /\ UNCHANGED <<listening, latest, timeoutId, asked, shown, overtaken>>

\* Wrong variant: the block of the last event is remembered, not the highest.
LatestOf(block) == block
LatestBlock(block) == IF block > latest THEN block ELSE latest

\* The debounced function: the timeout starts anew with every event.  Events of
\* one filter come in order, those of different filters do not.
Deliver(f) ==
    /\ f \in listening /\ emitted[f] # <<>>
    /\ emitted' = [emitted EXCEPT ![f] = Tail(@)]
    /\ latest' = LatestBlock(Head(emitted[f]))
    /\ timeoutId' = TRUE
    /\ UNCHANGED <<head, listening, asked, shown, overtaken>>

\* The timeout is over: the value at the highest block is asked for.
Timeout ==
    /\ timeoutId /\ timeoutId' = FALSE
    /\ asked' = Append(asked, latest)
    /\ UNCHANGED <<head, emitted, listening, latest, shown, overtaken>>

\* A read is answered, not necessarily the first, and passed on, or it fails.
ReadAnswered(k) ==
    /\ asked' = [i \in 1..(Len(asked) - 1) |-> asked[IF i < k THEN i ELSE i + 1]]
    /\ shown' = asked[k]
    /\ overtaken' = (overtaken \/ k # 1)
    /\ UNCHANGED <<head, emitted, listening, latest, timeoutId>>
ReadFailed(k) ==
    /\ asked' = [i \in 1..(Len(asked) - 1) |-> asked[IF i < k THEN i ELSE i + 1]]
    /\ overtaken' = TRUE
    /\ UNCHANGED <<head, emitted, listening, latest, timeoutId, shown>>

\* The function that watch returns: a pending timeout is not cancelled.
Unsubscribe ==
    /\ listening = Filter
    /\ listening' = {}
    /\ emitted' = [f \in Filter |-> <<>>]
    /\ UNCHANGED <<head, latest, timeoutId, asked, shown, overtaken>>

ObserversNext ==
    \/ \E filters \in SUBSET Filter : Emit(filters)
    \/ \E f \in Filter : Deliver(f)
    \/ Timeout \/ Unsubscribe
    \/ \E k \in 1..Len(asked) : ReadAnswered(k) \/ ReadFailed(k)

ObserversSpec == ObserversInit /\ [][ObserversNext]_observerVars

-----------------------------------------------------------------------------
(* Properties *)

\* ObservableEthersLiquity.ts:21-36: when all events are delivered, no timeout
\* is pending and every read is answered, the subscriber has the value of the
\* newest event, in whatever order the events of the filters came; unless an
\* answer overtook an earlier one or a read failed.
SettlesOnNewest ==
    /\ listening = Filter /\ \A f \in Filter : emitted[f] = <<>>
    /\ ~timeoutId /\ asked = <<>> /\ ~overtaken
    => shown = head
=============================================================================
