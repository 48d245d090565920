----------------------------- MODULE StoreProofs ----------------------------
(***************************************************************************)
(* Theorems about BlockPolledStore, for any listeners and any numbers of   *)
(* blocks, starts and faults.                                              *)
(***************************************************************************)
EXTENDS BlockPolledStore, TLAPS

-----------------------------------------------------------------------------
(* Type correctness *)

LEMMA InitType == Init => TypeOK
<1> SUFFICES ASSUME Init PROVE TypeOK
  OBVIOUS
<1>1. 1 \in Block /\ 0 \in 0..MaxStarts /\ 0 \in 0..MaxFaults
  BY BoundsAssumption DEF Block
<1>2. Seen = {1}
  BY DEF Init, Seen
<1>3. Nothing \in [Field -> {0} \cup Seen]
  BY DEF Nothing
<1>4. first \in [1..MaxStarts -> [Field -> {0} \cup Seen]] /\ base \in [Field -> {0} \cup Seen]
  BY <1>3 DEF Init
<1>5. read \in [tag : {0} \cup Seen, hit : BOOLEAN, source : Source,
               redistributed : {0} \cup Seen, troves : {0} \cup Seen]
  BY <1>2 DEF Init, NoRead, Source
<1>. QED  BY <1>1, <1>2, <1>4, <1>5 DEF Init, TypeOK

\* Blocks that have been mined stay mined.
LEMMA SeenGrows == TypeOK /\ head' \in {head, head + 1} => Seen \subseteq Seen' /\ head' \in Seen'
  BY DEF TypeOK, Seen, Block

\* The parts of the type that _load and _update change.
StateType ==
    /\ loaded \in BOOLEAN /\ tag \in {0} \cup Seen /\ base \in [Field -> {0} \cup Seen]
    /\ due \in BOOLEAN /\ asserted \in BOOLEAN
UserType == listeners \subseteq Listener /\ round \subseteq Listener

\* _load and _update with a snapshot of mined blocks.
LEMMA LoadType ==
    ASSUME TypeOK, head' = head, NEW s \in [Field -> {0} \cup Seen], NEW b \in {0} \cup Seen,
           Load(s, b) \/ Update(s, b), listeners' = listeners
    PROVE  StateType' /\ UserType'
<1>1. Seen' = Seen
  BY DEF Seen
<1>2. CASE Load(s, b)
  BY <1>1, <1>2 DEF Load, TypeOK, StateType, UserType, state
<1>3. CASE Update(s, b)
  BY <1>1, <1>3 DEF Update, Reduce, ReduceExtra, TypeOK, StateType, UserType, state
<1>. QED  BY <1>2, <1>3

LEMMA NextType == TypeOK /\ [Next]_vars => TypeOK'
<1> SUFFICES ASSUME TypeOK, [Next]_vars PROVE TypeOK'
  OBVIOUS
<1>0. head \in Block /\ head \in Seen /\ starts \in Nat /\ faults \in Nat
  BY DEF TypeOK, Seen, Block
<1>1. CASE Start
  <2>1. starts + 1 \in 0..MaxStarts /\ opened \cup {starts + 1} \subseteq 1..(starts + 1)
    BY <1>0, <1>1, BoundsAssumption DEF Start, TypeOK
  <2>. QED  BY <1>1, <2>1 DEF Start, TypeOK, Seen, state, users, history
<1>2. CASE Stop
  BY <1>2 DEF Stop, TypeOK, Seen, fetches, state, users
<1>3. CASE NewBlock
  <2>1. head' = head + 1 /\ head' \in Block
    BY <1>0, <1>3, BoundsAssumption DEF NewBlock, Block
  <2>2. Seen \subseteq Seen' /\ head' \in Seen'
    BY <2>1, SeenGrows
  <2>3. fetching' \subseteq Seen'
    BY <1>3, <2>1, <2>2 DEF NewBlock, TypeOK
  <2>4. /\ first \in [1..MaxStarts -> [Field -> {0} \cup Seen']]
        /\ base \in [Field -> {0} \cup Seen']
    BY <2>2 DEF TypeOK
  <2>5. read \in [tag : {0} \cup Seen', hit : BOOLEAN, source : Source,
                  redistributed : {0} \cup Seen', troves : {0} \cup Seen']
    BY <2>2 DEF TypeOK
  <2>6. UNCHANGED <<monitoring, starts, first, opened, state, due, users, read, asserted,
                    history, faults>>
    BY <1>3 DEF NewBlock
  <2>. QED
    BY <2>1, <2>2, <2>3, <2>4, <2>5, <2>6 DEF TypeOK, state, users, history
<1>4. CASE FetchFails
  <2>1. opened' \subseteq opened /\ fetching' \subseteq fetching
    BY <1>4 DEF FetchFails
  <2>2. faults' \in 0..MaxFaults
    BY <1>0, <1>4, BoundsAssumption DEF FetchFails, TypeOK
  <2>3. UNCHANGED <<head, monitoring, starts, first, state, due, users, read, asserted, history>>
    BY <1>4 DEF FetchFails
  <2>. QED  BY <2>1, <2>2, <2>3 DEF TypeOK, Seen, state, users, history
<1>5. ASSUME NEW k \in opened, NEW f \in Field, FirstAnswer(k, f) PROVE TypeOK'
  <2>1. k \in 1..MaxStarts
    BY <1>0, BoundsAssumption DEF TypeOK
  <2>2. [first[k] EXCEPT ![f] = head] \in [Field -> {0} \cup Seen]
    BY <1>0, <2>1 DEF TypeOK
  <2>3. first' \in [1..MaxStarts -> [Field -> {0} \cup Seen]]
    BY <1>5, <2>1, <2>2 DEF FirstAnswer, TypeOK
  <2>. QED  BY <1>5, <2>3 DEF FirstAnswer, TypeOK, Seen, state, users, history
<1>6. ASSUME NEW k \in opened, FirstResolves(k) PROVE TypeOK'
  <2>1. first[k] \in [Field -> {0} \cup Seen]
    BY <1>0, BoundsAssumption DEF TypeOK
  <2>2. StateType' /\ UserType'
    <3>1. CASE Load(first[k], 0)
      BY <1>6, <2>1, <3>1, LoadType DEF FirstResolves
    <3>2. CASE ~Load(first[k], 0)
      BY <1>6, <3>2 DEF FirstResolves, TypeOK, StateType, UserType, Seen, state
    <3>. QED  BY <3>1, <3>2
  <2>3. /\ opened' \subseteq opened
        /\ UNCHANGED <<head, monitoring, starts, first, fetching, read, history, faults>>
    BY <1>6 DEF FirstResolves
  <2>. QED  BY <2>2, <2>3 DEF TypeOK, StateType, UserType, Seen, history
<1>7. ASSUME NEW b \in fetching, BlockResolves(b) PROVE TypeOK'
  <2>1. b \in Seen /\ Snapshot(b) \in [Field -> {0} \cup Seen]
    BY DEF TypeOK, Snapshot
  <2>2. StateType' /\ UserType'
    BY <1>7, <2>1, LoadType DEF BlockResolves
  <2>3. /\ fetching' \subseteq fetching
        /\ newest' \in {0} \cup Seen /\ overtaken' \in BOOLEAN
    BY <1>7, <2>1 DEF BlockResolves, Applied, TypeOK
  <2>4. UNCHANGED <<head, monitoring, starts, first, opened, read, leftover, faults>>
    BY <1>7 DEF BlockResolves
  <2>. QED  BY <2>2, <2>3, <2>4 DEF TypeOK, StateType, UserType, Seen
<1>8. CASE Timeout
  <2>1. StateType' /\ UserType'
    <3>1. Nothing \in [Field -> {0} \cup Seen]
      BY DEF Nothing
    <3>. QED  BY <1>8, <3>1, LoadType DEF Timeout, users, TypeOK
  <2>2. UNCHANGED <<head, monitoring, starts, fetches, read, history, faults>>
    BY <1>8 DEF Timeout
  <2>. QED  BY <2>1, <2>2 DEF TypeOK, StateType, UserType, Seen, fetches, history
<1>9. CASE Resubscribe \/ \E l \in round : Visit(l) \/ Throws(l)
  <2>1. UserType' /\ faults' \in 0..MaxFaults
    <3>1. CASE Resubscribe
      BY <3>1 DEF Resubscribe, TypeOK, UserType
    <3>2. ASSUME NEW l \in round, Visit(l)
          PROVE  UserType' /\ faults' \in 0..MaxFaults
      BY <3>2 DEF Visit, TypeOK, UserType
    <3>3. ASSUME NEW l \in round, Throws(l)
          PROVE  UserType' /\ faults' \in 0..MaxFaults
      BY <1>0, <3>3, BoundsAssumption DEF Throws, TypeOK, UserType
    <3>. QED  BY <1>9, <3>1, <3>2, <3>3
  <2>2. UNCHANGED <<head, monitoring, starts, fetches, state, due, read, asserted, history>>
    BY <1>9 DEF Resubscribe, Visit, Throws
  <2>. QED
    BY <2>1, <2>2 DEF TypeOK, UserType, Seen, fetches, state, history
<1>10. CASE Reading
  <2>1. UNCHANGED <<head, monitoring, starts, fetches, state, due, users, asserted,
                    history, faults>>
    BY <1>10 DEF Reading, ReadStarts, RedistributedAnswered, TrovesAnswered, ReadAnswer
  <2>2. read \in [tag : {0} \cup Seen, hit : BOOLEAN, source : Source,
                  redistributed : {0} \cup Seen, troves : {0} \cup Seen]
    BY DEF TypeOK
  <2>3. ReadBlock \in Seen \cup {0}
    BY <1>0, <2>2 DEF ReadBlock
  <2>4. ASSUME NEW t \in 0..head, NEW own \in BOOLEAN, ReadStarts(t, own)
        PROVE  read' \in [tag : {0} \cup Seen, hit : BOOLEAN, source : Source,
                          redistributed : {0} \cup Seen, troves : {0} \cup Seen]
    <3>1. t \in {0} \cup Seen
      BY <1>0 DEF Seen
    <3>2. /\ base["totalRedistributed"] \in {0} \cup Seen /\ base["price"] \in {0} \cup Seen
          /\ BlockHit(t) \in BOOLEAN /\ SourceOf(t, own) \in Source
      BY DEF TypeOK, Field, BlockHit, SourceOf, Source
    <3>. QED  BY <2>4, <3>1, <3>2 DEF ReadStarts
  <2>5. read' \in [tag : {0} \cup Seen, hit : BOOLEAN, source : Source,
                   redistributed : {0} \cup Seen, troves : {0} \cup Seen]
    BY <1>10, <2>2, <2>3, <2>4
       DEF Reading, RedistributedAnswered, TrovesAnswered, ReadAnswer
  <2>. QED  BY <2>1, <2>5 DEF TypeOK, Seen, fetches, state, users, history
<1>11. CASE UNCHANGED vars
  BY <1>11 DEF vars, TypeOK, Seen
<1>. QED
  BY <1>1, <1>2, <1>3, <1>4, <1>5, <1>6, <1>7, <1>8, <1>9, <1>10, <1>11
     DEF Next, Fetching, Notifying

\* Nothing the store shows or hands out was read from a block that is not mined.
THEOREM TypeCorrect == Spec => []TypeOK
<1>. QED  BY InitType, NextType, PTL DEF Spec

-----------------------------------------------------------------------------
(* What the store shows *)

LEMMA InitShown == Init => ShownInv
<1> SUFFICES ASSUME Init PROVE ShownInv
  OBVIOUS
<1>. QED  BY DEF Init, ShownInv, NoAssertionFails, Nothing

\* An update by a block's whole state leaves nothing of the old one, and an
\* update by nothing leaves everything.
LEMMA ReduceWhole ==
    ASSUME NEW b, b # 0 PROVE Reduce(Snapshot(b)) = Snapshot(b) /\ ReduceExtra(b) = b
  BY DEF Reduce, ReduceExtra, Snapshot

LEMMA ReduceNothing ==
    ASSUME TypeOK PROVE Reduce(Nothing) = base /\ ReduceExtra(0) = tag
  BY DEF Reduce, ReduceExtra, Nothing, TypeOK

\* The timeout is set only while there is a state, which it leaves as it is.
LEMMA TimeoutKeeps ==
    ASSUME TypeOK, ShownInv, Timeout PROVE UNCHANGED <<loaded, tag, base, asserted>> /\ loaded
  BY ReduceNothing DEF Timeout, Update, ShownInv

\* A fetch for a mined block is applied.
LEMMA ShownApplied ==
    ASSUME TypeOK, ShownInv, NEW b \in fetching, BlockResolves(b) PROVE ShownInv'
<1>1. b \in Nat \ {0} /\ newest \in Nat /\ fetching \subseteq Nat
  BY DEF TypeOK, Seen
<1>2. /\ base' = Snapshot(b) /\ loaded' = TRUE /\ asserted' = FALSE
      /\ tag' = b
  BY <1>1, ReduceWhole DEF BlockResolves, Update, Load, ShownInv, NoAssertionFails, TypeOK
<1>3. ASSUME ~overtaken'
      PROVE  newest' = b /\ \A c \in fetching' : c > b
  <2>1. ~overtaken /\ \A c \in fetching : ~(c < b)
    BY <1>3 DEF BlockResolves, Applied, TypeOK
  <2>2. b > newest
    BY <2>1 DEF ShownInv
  <2>3. newest' = b
    BY <2>2 DEF BlockResolves, Applied
  <2>4. ASSUME NEW c \in fetching' PROVE c > b
    <3>1. c \in fetching /\ c # b /\ c \in Nat
      BY <1>1, <2>4 DEF BlockResolves, Applied
    <3>2. ~(c < b)
      BY <2>1, <3>1
    <3>. QED  BY <1>1, <3>1, <3>2
  <2>. QED  BY <2>3, <2>4
<1>4. \A f \in Field : base'[f] = b
  BY <1>2 DEF Snapshot
<1>5. \A f \in Field : base'[f] >= newest' \/ overtaken'
  BY <1>1, <1>3, <1>4
<1>. QED
  BY <1>1, <1>2, <1>3, <1>4, <1>5 DEF ShownInv, NoAssertionFails, Snapshot

\* The initial fetch resolves.
LEMMA ShownFirst ==
    ASSUME TypeOK, ShownInv, NEW k \in opened, FirstResolves(k) PROVE ShownInv'
<1>1. UNCHANGED <<fetching, newest, overtaken>>
  BY DEF FirstResolves, history
<1>2. CASE loaded
  BY <1>1, <1>2 DEF FirstResolves, Load, state, ShownInv, NoAssertionFails, Snapshot
<1>3. CASE ~loaded
  <2>1. /\ base' = first[k] /\ tag' = 0 /\ loaded' = TRUE /\ asserted' = asserted
    BY <1>3 DEF FirstResolves, Load
  <2>2. first[k] \in [Field -> {0} \cup Seen] /\ \A f \in Field : first[k][f] # 0
    BY BoundsAssumption DEF TypeOK, FirstResolves, FirstComplete
  <2>3. newest = 0 /\ \A f \in Field : first[k][f] \in Nat
    BY <1>3, <2>2 DEF ShownInv, Seen
  <2>. QED  BY <1>1, <2>1, <2>2, <2>3 DEF ShownInv, NoAssertionFails
<1>. QED  BY <1>2, <1>3

LEMMA NextShown == TypeOK /\ ShownInv /\ [Next]_vars => ShownInv'
<1> SUFFICES ASSUME TypeOK, ShownInv, [Next]_vars PROVE ShownInv'
  OBVIOUS
<1>1. ASSUME UNCHANGED <<state, asserted, newest, overtaken>>, fetching' \subseteq fetching,
             due' => due \/ loaded
      PROVE  ShownInv'
  BY <1>1 DEF ShownInv, NoAssertionFails, Snapshot, state
<1>2. CASE Start \/ Stop \/ FetchFails
  BY <1>1, <1>2 DEF Start, Stop, FetchFails, fetches, history
<1>3. CASE NewBlock
  <2>1. fetching' \subseteq fetching \cup {head + 1}
    BY <1>3 DEF NewBlock
  <2>2. head + 1 > newest
    BY DEF TypeOK, Seen, Block
  <2>3. UNCHANGED <<state, due, asserted, newest, overtaken>>
    BY <1>3 DEF NewBlock, history
  <2>. QED  BY <2>1, <2>2, <2>3 DEF ShownInv, NoAssertionFails, Snapshot, state
<1>4. ASSUME NEW k \in opened, NEW f \in Field, FirstAnswer(k, f) PROVE ShownInv'
  BY <1>1, <1>4 DEF FirstAnswer, history
<1>5. CASE Timeout
  <2>1. UNCHANGED <<loaded, tag, base, asserted>> /\ loaded
    BY <1>5, TimeoutKeeps
  <2>2. UNCHANGED <<newest, overtaken, fetching>>
    BY <1>5 DEF Timeout, fetches, history
  <2>. QED  BY <1>1, <2>1, <2>2 DEF state
<1>6. CASE Resubscribe \/ \E l \in round : Visit(l) \/ Throws(l)
  BY <1>1, <1>6 DEF Resubscribe, Visit, Throws, fetches, history
<1>7. CASE Reading
  BY <1>1, <1>7
     DEF Reading, ReadStarts, RedistributedAnswered, TrovesAnswered, ReadAnswer, fetches, history
<1>8. CASE UNCHANGED vars
  BY <1>1, <1>8 DEF vars, state
<1>. QED
  BY <1>2, <1>3, <1>4, <1>5, <1>6, <1>7, <1>8, ShownApplied, ShownFirst
     DEF Next, Fetching, Notifying

LEMMA Shown == Spec => []ShownInv
<1>. QED  BY TypeCorrect, InitShown, NextShown, PTL DEF Spec

\* The assertions in _load and _update never fail.
THEOREM AssertionsHold == Spec => []NoAssertionFails
<1>1. ShownInv => NoAssertionFails
  BY DEF ShownInv
<1>. QED  BY <1>1, Shown, PTL

\* The state is older than a block already applied only after a fetch was
\* overtaken by that of a later block.
THEOREM StaleExcused == Spec => []StaleOnlyIfOvertaken
<1>1. ASSUME TypeOK, ShownInv PROVE StaleOnlyIfOvertaken
  <2>1. newest \in Nat /\ base \in [Field -> Nat]
    BY <1>1 DEF TypeOK, Seen
  <2>. QED  BY <1>1, <2>1 DEF ShownInv, StaleOnlyIfOvertaken
<1>. QED  BY <1>1, Shown, TypeCorrect, PTL

-----------------------------------------------------------------------------
(* The store implements StoreSnapshot *)

LEMMA StepImplements ==
    TypeOK /\ ShownInv /\ [Next]_vars =>
        [Snapshots!Load \/ Snapshots!Refresh]_<<loaded, tag, base>>
<1> SUFFICES ASSUME TypeOK, ShownInv, [Next]_vars
             PROVE  Snapshots!Load \/ Snapshots!Refresh \/ UNCHANGED <<loaded, tag, base>>
  OBVIOUS
<1>0. Seen \subseteq Block
  BY BoundsAssumption DEF TypeOK, Seen, Block
<1>1. ASSUME NEW b \in fetching, BlockResolves(b)
      PROVE  Snapshots!Load \/ Snapshots!Refresh
  <2>1. b \in Block /\ b # 0
    BY <1>0 DEF TypeOK, Seen
  <2>2. tag' = b /\ base' = [f \in Field |-> b] /\ loaded' = TRUE
    BY <1>1, <2>1, ReduceWhole
       DEF BlockResolves, Update, Load, Snapshot, ShownInv, NoAssertionFails
  <2>. QED
    BY <2>1, <2>2 DEF Snapshots!Load, Snapshots!Refresh, Snapshots!ShowBlock, TypeOK
<1>2. ASSUME NEW k \in opened, FirstResolves(k)
      PROVE  Snapshots!Load \/ UNCHANGED <<loaded, tag, base>>
  <2>1. CASE loaded
    BY <1>2, <2>1 DEF FirstResolves, Load, state
  <2>2. CASE ~loaded
    <3>1. base' = first[k] /\ tag' = 0 /\ loaded' = TRUE
      BY <1>2, <2>2 DEF FirstResolves, Load
    <3>2. first[k] \in [Field -> {0} \cup Seen] /\ \A f \in Field : first[k][f] # 0
      BY <1>2, BoundsAssumption DEF TypeOK, FirstResolves, FirstComplete
    <3>3. first[k] \in [Field -> Block]
      BY <1>0, <3>2
    <3>. QED  BY <2>2, <3>1, <3>3 DEF Snapshots!Load
  <2>. QED  BY <2>1, <2>2
<1>3. CASE Timeout
  BY <1>3, TimeoutKeeps
<1>4. CASE Start \/ Stop \/ NewBlock \/ FetchFails
  BY <1>4 DEF Start, Stop, NewBlock, FetchFails, state
<1>5. ASSUME NEW k \in opened, NEW f \in Field, FirstAnswer(k, f)
      PROVE  UNCHANGED <<loaded, tag, base>>
  BY <1>5 DEF FirstAnswer, state
<1>6. CASE Resubscribe \/ \E l \in round : Visit(l) \/ Throws(l)
  BY <1>6 DEF Resubscribe, Visit, Throws, state
<1>7. CASE Reading
  BY <1>7 DEF Reading, ReadStarts, RedistributedAnswered, TrovesAnswered, ReadAnswer, state
<1>8. CASE UNCHANGED vars
  BY <1>8 DEF vars
<1>. QED
  BY <1>1, <1>2, <1>3, <1>4, <1>5, <1>6, <1>7, <1>8 DEF Next, Fetching, Notifying

\* Refinement: in every behaviour the store is loaded once and, from the first
\* block applied on, its state is the state of the block it names.
THEOREM StoreImplements == Spec => Implements
<1>1. Init => Snapshots!Init
  BY DEF Init, Snapshots!Init, Nothing
<1>. QED
  BY <1>1, StepImplements, Shown, TypeCorrect, PTL DEF Implements, Snapshots!Spec, Spec

-----------------------------------------------------------------------------
(* After stop() *)

LEMMA NextQuiet == TypeOK /\ QuietInv /\ [Next]_vars => QuietInv'
<1> SUFFICES ASSUME TypeOK, QuietInv, [Next]_vars PROVE QuietInv'
  OBVIOUS
<1>1. CASE Start
  BY <1>1 DEF Start, QuietInv
<1>2. CASE Stop
  BY <1>2 DEF Stop, QuietInv, Idle, fetches, users
<1>3. CASE NewBlock
  BY <1>3 DEF NewBlock, QuietInv, users, history
<1>4. CASE FetchFails
  BY <1>4 DEF FetchFails, QuietInv, users, history
<1>5. ASSUME NEW k \in opened, (\E f \in Field : FirstAnswer(k, f)) \/ FirstResolves(k)
      PROVE  QuietInv'
  BY <1>5 DEF FirstAnswer, FirstResolves, QuietInv, users, history
<1>6. ASSUME NEW b \in fetching, BlockResolves(b) PROVE QuietInv'
  BY <1>6 DEF BlockResolves, QuietInv
<1>7. CASE Timeout
  BY <1>7 DEF Timeout, QuietInv, history
<1>8. CASE Resubscribe \/ \E l \in round : Visit(l) \/ Throws(l)
  BY <1>8 DEF Resubscribe, Visit, Throws, QuietInv, fetches, history
<1>9. CASE Reading
  BY <1>9 DEF Reading, ReadStarts, RedistributedAnswered, TrovesAnswered, ReadAnswer,
              QuietInv, fetches, users, history
<1>10. CASE UNCHANGED vars
  BY <1>10 DEF vars, QuietInv
<1>. QED
  BY <1>1, <1>2, <1>3, <1>4, <1>5, <1>6, <1>7, <1>8, <1>9, <1>10
     DEF Next, Fetching, Notifying

\* A stopped store sets no timeout and notifies nobody, unless a fetch was in
\* flight when it was stopped.
THEOREM StoppedIsQuiet == Spec => []QuietAfterStop
<1>1. Init => QuietInv
  BY DEF Init, QuietInv
<1>2. QuietInv => QuietAfterStop
  BY DEF QuietInv, QuietAfterStop
<1>. QED  BY <1>1, <1>2, NextQuiet, TypeCorrect, PTL DEF Spec

-----------------------------------------------------------------------------
(* getTroves of the cached reader *)

LEMMA NextRead == TypeOK /\ ShownInv /\ ReadInv /\ [Next]_vars => ReadInv'
<1> SUFFICES ASSUME TypeOK, ShownInv, ReadInv, [Next]_vars PROVE ReadInv'
  OBVIOUS
<1>1. ASSUME UNCHANGED read PROVE ReadInv'
  BY <1>1 DEF ReadInv
<1>2. CASE Fetching
  <2>1. UNCHANGED read
    BY <1>2 DEF Fetching, Start, Stop, NewBlock, FetchFails, FirstResolves, FirstAnswer,
                BlockResolves
  <2>. QED  BY <1>1, <2>1
<1>3. CASE Timeout \/ Resubscribe \/ (\E l \in round : Visit(l) \/ Throws(l)) \/ UNCHANGED vars
  <2>1. UNCHANGED read
    BY <1>3 DEF Timeout, Resubscribe, Visit, Throws, vars
  <2>. QED  BY <1>1, <2>1
<1>4. ASSUME NEW t \in 0..head, NEW own \in BOOLEAN, ReadStarts(t, own) PROVE ReadInv'
  <2>1. /\ read'.tag = t /\ read'.hit = BlockHit(t) /\ read'.source = SourceOf(t, own)
        /\ read'.redistributed = IF BlockHit(t) THEN base["totalRedistributed"] ELSE 0
        /\ read'.troves = IF SourceOf(t, own) = "chain" THEN 0 ELSE base["price"]
    BY <1>4 DEF ReadStarts
  <2>2. ASSUME BlockHit(t)
        PROVE  \A f \in Field : base[f] # 0 /\ (t # 0 => base[f] = t)
    BY <2>2 DEF BlockHit, ShownInv, Snapshot
  <2>3. ASSUME tag # 0 PROVE base["totalRedistributed"] = base["price"]
    BY <2>3 DEF ShownInv, Snapshot, Field
  <2>4. SourceOf(t, own) # "chain" => BlockHit(t)
    BY DEF SourceOf
  <2>5. SourceOf(t, own) = "state" => tag # 0
    BY DEF SourceOf
  <2>6. "price" \in Field /\ "totalRedistributed" \in Field
    BY DEF Field
  <2>. QED  BY <2>1, <2>2, <2>3, <2>4, <2>5, <2>6 DEF ReadInv
<1>5. /\ read.tag \in Nat /\ read.redistributed \in Nat /\ read.troves \in Nat
      /\ read.source \in Source /\ read.redistributed <= head /\ head \in Nat /\ head # 0
  BY DEF TypeOK, Seen, Block
<1>6. CASE RedistributedAnswered
  <2>1. /\ read.redistributed = 0 /\ read'.tag = read.tag /\ read'.hit = read.hit
        /\ read'.source = read.source /\ read'.troves = read.troves
        /\ read'.redistributed = IF read.tag = 0 THEN head ELSE read.tag
    BY <1>6 DEF RedistributedAnswered, ReadAnswer, ReadBlock, TypeOK
  <2>. QED  BY <1>5, <2>1 DEF ReadInv
<1>7. CASE TrovesAnswered
  <2>1. /\ read.troves = 0 /\ read'.tag = read.tag /\ read'.hit = read.hit
        /\ read'.source = read.source /\ read'.redistributed = read.redistributed
        /\ read'.troves = IF read.tag = 0 THEN head ELSE read.tag
    BY <1>7 DEF TrovesAnswered, ReadAnswer, ReadBlock, TypeOK
  <2>. QED  BY <1>5, <2>1 DEF ReadInv
<1>. QED  BY <1>2, <1>3, <1>4, <1>6, <1>7 DEF Next, Notifying, Reading

LEMMA Reads == Spec => []ReadInv
<1>1. Init => ReadInv
  BY DEF Init, ReadInv, NoRead
<1>. QED  BY <1>1, NextRead, Shown, TypeCorrect, PTL DEF Spec

\* A getTroves or getTrove that names a block returns the troves and the
\* redistribution of that block, from the cache or from the chain.
THEOREM TaggedExact == Spec => []TaggedReadsExact
<1>1. ReadInv => TaggedReadsExact
  BY DEF ReadInv, TaggedReadsExact, ReadOver
<1>. QED  BY <1>1, Reads, PTL

\* One that names none, as the bot calls getTroves, applies a redistribution of
\* the store that is no newer than the troves, or both are of one block.
THEOREM UntaggedForward == Spec => []UntaggedReadsForward
<1>1. ReadInv => UntaggedReadsForward
  BY DEF ReadInv, UntaggedReadsForward, ReadOver
<1>. QED  BY <1>1, Reads, PTL
=============================================================================
