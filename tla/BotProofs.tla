------------------------------ MODULE BotProofs ------------------------------
(***************************************************************************)
(* Theorems about GasBump, PriceWatch and GasPrice: for any number of      *)
(* overlapping firings, tries, block handlers and attempts, and any        *)
(* prices, transactions and faults.                                        *)
(***************************************************************************)
EXTENDS GasBump, PriceWatch, GasPrice, FiniteSetTheorems, SequenceTheorems,
        WellFoundedInduction, TLAPS

-----------------------------------------------------------------------------
(* GasBump *)

-----------------------------------------------------------------------------
(* Type correctness *)

Tick == [ph : {"idle", "receipts", "mempool", "bidding", "sent"},
         cur : Ids, late : BOOLEAN, asked : SUBSET Ids, was : Ids \cup {0}, bid : Nat]

LEMMA IdsFact == sent \in Seq(Nat) => Ids = DOMAIN sent /\ Len(sent) \in Nat
  BY DEF Ids

LEMMA InitType == Init => TypeOK
<1> SUFFICES ASSUME Init PROVE TypeOK
  OBVIOUS
<1>1. sent \in Seq(Nat) /\ sent # << >> /\ Ids = {1}
  BY PriceAssumption DEF Init, Ids
<1>2. Idle \in Tick
  BY <1>1 DEF Idle, Tick
<1>3. tick \in [Slot -> Tick]
  BY <1>2 DEF Init
<1>4. result \in [done : BOOLEAN, tx : Ids \cup {0}]
  BY DEF Init
<1>5. tries \in Int /\ tries <= Tries
  BY PriceAssumption DEF Init
<1>. QED  BY <1>1, <1>3, <1>4, <1>5 DEF Init, TypeOK, Tick

\* The price of our pending transaction, and the bid above a price.
LEMMA Prices ==
    ASSUME TypeOK, NEW s \in Slot
    PROVE  /\ Price(tick[s].cur) \in Nat /\ Price(pool) \in Nat /\ Highest \in Nat
           /\ \A h \in Nat : Bid(Price(tick[s].cur), h) \in Nat
<1>1. tick[s].cur \in DOMAIN sent /\ pool \in DOMAIN sent \cup {0} /\ sent \in Seq(Nat)
  BY DEF TypeOK, Ids
<1>2. Price(tick[s].cur) \in Nat /\ Price(pool) \in Nat
  BY <1>1 DEF Price
<1>3. Highest \in Nat
  BY <1>2 DEF Highest, TypeOK
<1>4. ASSUME NEW h \in Nat, NEW c \in Nat PROVE Bid(c, h) \in Nat
  <2>1. Increase \in Nat
    BY PriceAssumption
  <2>2. (c * 7) \div 5 \in Nat
    OBVIOUS
  <2>. QED  BY <2>1, <2>2 DEF Bid
<1>. QED  BY <1>2, <1>3, <1>4

\* A step that sends nothing keeps the identifiers.
LEMMA IdsKept == sent' = sent => Ids' = Ids
  BY DEF Ids

LEMMA NextType == TypeOK /\ [Next]_vars => TypeOK'
<1> SUFFICES ASSUME TypeOK, [Next]_vars PROVE TypeOK'
  OBVIOUS
<1>1. 1 \in Ids /\ newest \in Ids /\ Idle.cur = 1
  BY DEF TypeOK, Ids, Idle
<1>2. ASSUME NEW s \in Slot, Fire(s) PROVE TypeOK'
  BY <1>1, <1>2, IdsKept DEF Fire, TypeOK, bot, node, env
<1>3. ASSUME NEW s \in Slot, ReceiptArrives(s) PROVE TypeOK'
  BY <1>3, IdsKept DEF ReceiptArrives, TypeOK, node, env, history
<1>4. ASSUME NEW s \in Slot, End(s), sent' = sent
      PROVE  tick' \in [Slot -> Tick]'
  <2>1. Idle \in Tick'
    BY <1>1, <1>4, IdsKept DEF Idle, Tick
  <2>. QED  BY <1>4, <2>1, IdsKept DEF End, TypeOK, Tick
<1>5. ASSUME NEW s \in Slot, ReceiptsAnswered(s) PROVE TypeOK'
  <2>1. tick' \in [Slot -> Tick]'
    <3>1. CASE End(s)
      BY <1>4, <1>5, <3>1 DEF ReceiptsAnswered, node
    <3>2. CASE tick' = [tick EXCEPT ![s] = Goes(tick[s], "mempool", tick[s].cur, 0)]
      BY <1>5, <3>2, IdsKept DEF ReceiptsAnswered, node, TypeOK, Tick, Goes
    <3>. QED  BY <1>5, <3>1, <3>2 DEF ReceiptsAnswered
  <2>2. sent' = sent /\ Ids' = Ids
    BY <1>5, IdsKept DEF ReceiptsAnswered, node
  <2>3. ticking' \in BOOLEAN /\ result' \in [done : BOOLEAN, tx : Ids \cup {0}]
    <3>1. \/ ticking' = ticking /\ result' = result
          \/ ticking' = FALSE /\ result' = IF result.done THEN result
                                        ELSE [done |-> TRUE, tx |-> confirmed]
      BY <1>5 DEF ReceiptsAnswered, Resolve
    <3>2. confirmed \in Ids \cup {0} /\ result \in [done : BOOLEAN, tx : Ids \cup {0}]
          /\ ticking \in BOOLEAN
      BY DEF TypeOK
    <3>3. [done |-> TRUE, tx |-> confirmed] \in [done : BOOLEAN, tx : Ids \cup {0}]
      BY <3>2
    <3>. QED  BY <3>1, <3>2, <3>3
  <2>. QED
    BY <1>5, <2>1, <2>2, <2>3 DEF ReceiptsAnswered, TypeOK, Tick, node, env, history
<1>6. ASSUME NEW s \in Slot, ReceiptFails(s) \/ SendRejects(s) \/ AnswerLost(s) PROVE TypeOK'
  <2>1. tick' \in [Slot -> Tick]'
    BY <1>4, <1>6 DEF ReceiptFails, SendRejects, AnswerLost, node
  <2>2. faults' \in Nat /\ lost' \in Nat
    BY <1>6 DEF ReceiptFails, SendRejects, AnswerLost, history, TypeOK
  <2>3. /\ UNCHANGED <<bot, node, env, overlap, selfbid>>
        /\ Ids' = Ids
    BY <1>6, IdsKept DEF ReceiptFails, SendRejects, AnswerLost, node, history
  <2>. QED
    BY <2>1, <2>2, <2>3 DEF TypeOK, Tick, bot, node, env
<1>7. ASSUME NEW s \in Slot, MempoolRead(s) PROVE TypeOK'
  <2>1. PICK highest \in {Highest, 0} :
          LET cur == Price(tick[s].cur)
              bid == Bid(cur, highest)
              raise == highest > cur /\ bid < Ceiling
          IN  /\ \/ raise /\ tick' = [tick EXCEPT ![s] = Goes(tick[s], "bidding", tick[s].cur, bid)]
                 \/ ~raise /\ End(s)
              /\ selfbid' = (selfbid \/ (raise /\ rival <= cur))
    BY <1>7 DEF MempoolRead
  <2>2. Bid(Price(tick[s].cur), highest) \in Nat
    BY Prices
  <2>3. tick' \in [Slot -> Tick]' /\ selfbid' \in BOOLEAN
    <3>1. sent' = sent
      BY <1>7 DEF MempoolRead, node
    <3>2. CASE End(s)
      BY <1>4, <2>1, <3>1, <3>2 DEF TypeOK
    <3>3. CASE ~End(s)
      BY <2>1, <2>2, <3>1, <3>3, IdsKept DEF TypeOK, Tick, Goes
    <3>. QED  BY <3>2, <3>3
  <2>. QED
    BY <1>7, <2>3, IdsKept DEF MempoolRead, TypeOK, Tick, bot, node, env
<1>8. ASSUME NEW s \in Slot, Broadcast(s) PROVE TypeOK'
  <2>1. tick[s].bid \in Nat /\ sent \in Seq(Nat)
    BY DEF TypeOK
  <2>2. sent' \in Seq(Nat) /\ Len(sent') = Len(sent) + 1 /\ sent' # << >>
    BY <1>8, <2>1 DEF Broadcast
  <2>3. Ids \subseteq Ids' /\ Len(sent) + 1 \in Ids'
    BY <2>1, <2>2 DEF Ids
  <2>4. tick' \in [Slot -> Tick]'
    BY <1>8, <2>1, <2>3 DEF Broadcast, TypeOK, Tick, Goes
  <2>5. pool' \in Ids' /\ UNCHANGED <<bot, mined, env, faults, history>>
    BY <1>8, <2>3 DEF Broadcast
  <2>. QED  BY <2>2, <2>3, <2>4, <2>5 DEF TypeOK, Tick, bot, env, history
<1>9. ASSUME NEW s \in Slot, SendResolves(s) PROVE TypeOK'
  <2>1. sent' = sent /\ Ids' = Ids /\ tick[s].cur \in Ids
    BY <1>9, IdsKept DEF SendResolves, node, TypeOK
  <2>2. tick' \in [Slot -> Tick]'
    BY <1>4, <1>9, <2>1 DEF SendResolves
  <2>3. newest' \in Ids /\ known' \subseteq Ids
    BY <1>9, <2>1 DEF SendResolves, TypeOK
  <2>4. tries' \in Int /\ tries' <= Tries
    BY <1>9, PriceAssumption DEF SendResolves, TypeOK
  <2>5. UNCHANGED <<confirmed, ticking, result, node, env, faults, history>>
    BY <1>9 DEF SendResolves
  <2>. QED  BY <2>1, <2>2, <2>3, <2>4, <2>5 DEF TypeOK, Tick, node, env, history
<1>10. CASE Mine \/ RivalMoves \/ TimePasses \/ UNCHANGED vars
  <2>1. sent' = sent /\ tick' = tick /\ Ids' = Ids
    BY <1>10, IdsKept DEF Mine, RivalMoves, TimePasses, vars, node
  <2>2. pool' \in Ids \cup {0} /\ mined' \in Ids \cup {0}
    BY <1>10 DEF Mine, RivalMoves, TimePasses, vars, node, TypeOK
  <2>3. rival' \in Nat /\ late' \in BOOLEAN
    <3>1. {0} \cup RivalPrice \subseteq Nat
      BY PriceAssumption
    <3>2. CASE RivalMoves
      BY <3>1, <3>2 DEF RivalMoves, TypeOK
    <3>3. CASE Mine \/ UNCHANGED vars
      BY <3>3 DEF Mine, vars, env, TypeOK
    <3>4. CASE TimePasses
      BY <3>4 DEF TimePasses, TypeOK
    <3>. QED  BY <1>10, <3>2, <3>3, <3>4
  <2>4. UNCHANGED <<bot, faults, history>>
    BY <1>10 DEF Mine, RivalMoves, TimePasses, vars, bot, history
  <2>. QED  BY <2>1, <2>2, <2>3, <2>4 DEF TypeOK, bot, history
<1>. QED
  BY <1>2, <1>3, <1>5, <1>6, <1>7, <1>8, <1>9, <1>10 DEF Next, Firing

\* newLiqTx, txList and confirmedTx only ever name accepted transactions,
\* whatever the number of firings that overlap.
THEOREM TypeCorrect == Spec => []TypeOK
<1>. QED  BY InitType, NextType, PTL DEF Spec

-----------------------------------------------------------------------------
(* The number of replacements. *)

\* Sizes of sets of firings.
LEMMA Firings ==
    /\ IsFiniteSet(Slot) /\ Cardinality(Slot) \in Nat \ {0}
    /\ \A S \in SUBSET Slot :
          /\ IsFiniteSet(S) /\ Cardinality(S) \in Nat
          /\ Cardinality(S) <= Cardinality(Slot)
          /\ \A s \in Slot :
                /\ s \in S => Cardinality(S \ {s}) = Cardinality(S) - 1
                /\ s \notin S => Cardinality(S \cup {s}) = Cardinality(S) + 1
<1>1. IsFiniteSet(Slot) /\ Cardinality(Slot) \in Nat \ {0}
  BY SlotAssumption, FS_CardinalityType, FS_EmptySet
<1>2. ASSUME NEW S \in SUBSET Slot
      PROVE  /\ IsFiniteSet(S) /\ Cardinality(S) \in Nat
             /\ Cardinality(S) <= Cardinality(Slot)
  BY <1>1, FS_Subset, FS_CardinalityType
<1>3. ASSUME NEW S \in SUBSET Slot, NEW s \in Slot
      PROVE  /\ s \in S => Cardinality(S \ {s}) = Cardinality(S) - 1
             /\ s \notin S => Cardinality(S \cup {s}) = Cardinality(S) + 1
  <2>1. IsFiniteSet(S)
    BY <1>2
  <2>2. Cardinality(S \ {s}) = IF s \in S THEN Cardinality(S) - 1 ELSE Cardinality(S)
    BY <2>1, FS_RemoveElement
  <2>3. Cardinality(S \cup {s}) = IF s \in S THEN Cardinality(S) ELSE Cardinality(S) + 1
    BY <2>1, FS_AddElement
  <2>. QED  BY <2>2, <2>3
<1>. QED  BY <1>1, <1>2, <1>3

\* Neither set grows: a firing that is not past the check, or ends.
LEMMA CountedKept ==
    ASSUME TypeOK, BumpsInv, Counted' = Counted, Committed' \subseteq Committed,
           UNCHANGED <<sent, tries, lost>>
    PROVE  BumpsInv'
<1>1. Cardinality(Committed') <= Cardinality(Committed) /\ Cardinality(Committed') \in Nat
  <2>1. Committed \in SUBSET Slot /\ IsFiniteSet(Committed)
    BY Firings DEF Committed
  <2>. QED  BY <2>1, FS_Subset, FS_CardinalityType
<1>2. /\ Cardinality(Committed) \in Nat /\ Cardinality(Slot) \in Nat
      /\ tries \in Int
  BY Firings DEF Committed, TypeOK
<1>3. Cardinality(Committed') <= tries + (Cardinality(Slot) - 1)
  BY <1>1, <1>2 DEF BumpsInv
<1>. QED  BY <1>3 DEF BumpsInv

LEMMA NextBumps == TypeOK /\ BumpsInv /\ [Next]_vars => BumpsInv'
<1> SUFFICES ASSUME TypeOK, BumpsInv, [Next]_vars PROVE BumpsInv'
  OBVIOUS
<1>0. /\ Counted \in SUBSET Slot /\ Committed \in SUBSET Slot
      /\ Counted' \in SUBSET Slot /\ Committed' \in SUBSET Slot
  BY DEF Counted, Committed
<1>14. /\ Cardinality(Counted) \in Nat /\ Cardinality(Committed) \in Nat
      /\ Cardinality(Counted') \in Nat /\ Cardinality(Committed') \in Nat
      /\ Cardinality(Slot) \in Nat /\ Cardinality(Slot) >= 1
      /\ Len(sent) \in Nat /\ tries \in Int /\ Tries \in Nat /\ lost \in Nat
  BY <1>0, Firings, PriceAssumption DEF TypeOK
<1>15. /\ Len(sent) - 1 = (Tries - tries) + (Cardinality(Counted) + lost)
      /\ Cardinality(Committed) <= tries + (Cardinality(Slot) - 1)
  BY DEF BumpsInv
<1>1. ASSUME tick' = tick, UNCHANGED <<sent, tries, lost>> PROVE BumpsInv'
  <2>1. Counted' = Counted /\ Committed' = Committed
    BY <1>1 DEF Counted, Committed
  <2>. QED  BY <1>1, <2>1, CountedKept
<1>2. ASSUME NEW s \in Slot, Fire(s) PROVE BumpsInv'
  <2>1. Counted' = Counted /\ Committed' = Committed
    BY <1>2 DEF Fire, Counted, Committed, TypeOK
  <2>. QED  BY <1>2, <2>1, CountedKept DEF Fire, bot, node
<1>3. ASSUME NEW s \in Slot, End(s), tick[s].ph # "sent", UNCHANGED <<sent, tries, lost>>
      PROVE  BumpsInv'
  <2>1. Counted' = Counted /\ Committed' \subseteq Committed
    BY <1>3 DEF End, Idle, Counted, Committed, TypeOK
  <2>. QED  BY <1>3, <2>1, CountedKept
<1>4. ASSUME NEW s \in Slot, ReceiptsAnswered(s) PROVE BumpsInv'
  <2>1. CASE End(s)
    BY <1>3, <1>4, <2>1 DEF ReceiptsAnswered, node, history
  <2>2. CASE ~End(s)
    <3>1. /\ tries > 0 /\ tick[s].ph = "receipts"
          /\ tick' = [tick EXCEPT ![s] = Goes(tick[s], "mempool", tick[s].cur, 0)]
          /\ UNCHANGED <<sent, tries, lost>>
      BY <1>4, <2>2 DEF ReceiptsAnswered, node, history
    <3>2. Counted' = Counted
      BY <3>1 DEF Goes, Counted, TypeOK
    <3>3. Cardinality(Committed') <= Cardinality(Slot)
      BY <1>0, Firings
    <3>4. Cardinality(Committed') <= tries + (Cardinality(Slot) - 1)
      BY <1>14, <3>1, <3>3
    <3>. QED  BY <1>15, <3>1, <3>2, <3>4 DEF BumpsInv
  <2>. QED  BY <2>1, <2>2
<1>5. ASSUME NEW s \in Slot, ReceiptFails(s) \/ SendRejects(s) PROVE BumpsInv'
  BY <1>3, <1>5 DEF ReceiptFails, SendRejects, bot, node, history
<1>6. ASSUME NEW s \in Slot, MempoolRead(s) PROVE BumpsInv'
  <2>1. UNCHANGED <<sent, tries, lost>> /\ tick[s].ph = "mempool"
    BY <1>6 DEF MempoolRead, bot, node
  <2>2. CASE End(s)
    BY <1>3, <2>1, <2>2
  <2>3. CASE ~End(s)
    <3>1. PICK b : tick' = [tick EXCEPT ![s] = Goes(tick[s], "bidding", tick[s].cur, b)]
      BY <1>6, <2>3 DEF MempoolRead
    <3>2. Counted' = Counted /\ Committed' = Committed
      BY <2>1, <3>1 DEF Goes, Counted, Committed, TypeOK
    <3>. QED  BY <2>1, <3>2, CountedKept
  <2>. QED  BY <2>2, <2>3
<1>7. ASSUME NEW s \in Slot, Broadcast(s) PROVE BumpsInv'
  <2>1. /\ tick[s].ph = "bidding" /\ tries' = tries /\ lost' = lost
        /\ Len(sent') = Len(sent) + 1
    BY <1>7 DEF Broadcast, bot, history, TypeOK
  <2>2. Counted' = Counted \cup {s} /\ s \notin Counted /\ Committed' = Committed
    BY <1>7 DEF Broadcast, Goes, Counted, Committed, TypeOK
  <2>3. Cardinality(Counted') = Cardinality(Counted) + 1
    BY <1>0, <2>2, Firings
  <2>4. Len(sent) = (Tries - tries) + ((Cardinality(Counted) + 1) + lost)
    <3> DEFINE a == Tries - tries
               c == Cardinality(Counted)
               n == Len(sent)
    <3>1. a \in Int /\ c \in Int /\ n \in Int /\ lost \in Int
      BY <1>14
    <3>2. n - 1 = a + (c + lost)
      BY <1>15
    <3> HIDE DEF a, c, n
    <3>3. n = a + ((c + 1) + lost)
      BY <3>1, <3>2
    <3>. QED  BY <3>3 DEF a, c, n
  <2>5. Len(sent') - 1 = (Tries - tries') + (Cardinality(Counted') + lost')
    BY <1>14, <2>1, <2>3, <2>4
  <2>. QED  BY <1>15, <2>1, <2>2, <2>5 DEF BumpsInv
<1>8. ASSUME NEW s \in Slot, tick[s].ph = "sent", End(s)
      PROVE  /\ Cardinality(Counted') = Cardinality(Counted) - 1
             /\ Cardinality(Committed') = Cardinality(Committed) - 1
  <2>1. /\ Counted' = Counted \ {s} /\ s \in Counted
        /\ Committed' = Committed \ {s} /\ s \in Committed
    BY <1>8 DEF End, Idle, Counted, Committed, TypeOK
  <2>. QED  BY <1>0, <2>1, Firings
<1>9. ASSUME NEW s \in Slot, SendResolves(s) PROVE BumpsInv'
  <2>1. tries' = tries - 1 /\ sent' = sent /\ lost' = lost
    BY <1>9 DEF SendResolves, node, history
  <2>2. /\ Cardinality(Counted') = Cardinality(Counted) - 1
        /\ Cardinality(Committed') = Cardinality(Committed) - 1
    BY <1>8, <1>9 DEF SendResolves
  <2>3. Len(sent) - 1 = (Tries - (tries - 1)) + ((Cardinality(Counted) - 1) + lost)
    BY <1>14, <1>15
  <2>4. Cardinality(Committed) - 1 <= (tries - 1) + (Cardinality(Slot) - 1)
    BY <1>14, <1>15
  <2>. QED  BY <2>1, <2>2, <2>3, <2>4 DEF BumpsInv
<1>10. ASSUME NEW s \in Slot, AnswerLost(s) PROVE BumpsInv'
  <2>1. lost' = lost + 1 /\ sent' = sent /\ tries' = tries
    BY <1>10 DEF AnswerLost, node, bot
  <2>2. /\ Cardinality(Counted') = Cardinality(Counted) - 1
        /\ Cardinality(Committed') = Cardinality(Committed) - 1
    BY <1>8, <1>10 DEF AnswerLost
  <2>3. Len(sent) - 1 = (Tries - tries) + ((Cardinality(Counted) - 1) + (lost + 1))
    BY <1>14, <1>15
  <2>4. Cardinality(Committed) - 1 <= tries + (Cardinality(Slot) - 1)
    BY <1>14, <1>15
  <2>. QED  BY <2>1, <2>2, <2>3, <2>4 DEF BumpsInv
<1>11. ASSUME NEW s \in Slot, ReceiptArrives(s) PROVE BumpsInv'
  BY <1>1, <1>11 DEF ReceiptArrives, node, history
<1>12. CASE Mine \/ RivalMoves \/ TimePasses \/ UNCHANGED vars
  BY <1>1, <1>12 DEF Mine, RivalMoves, TimePasses, vars, bot, node, history
<1>. QED
  BY <1>2, <1>4, <1>5, <1>6, <1>7, <1>9, <1>10, <1>11, <1>12 DEF Next, Firing

LEMMA InitBumps == Init => BumpsInv
<1> SUFFICES ASSUME Init PROVE BumpsInv
  OBVIOUS
<1>1. Counted = {} /\ Committed = {} /\ Len(sent) = 1
  BY DEF Init, Counted, Committed, Idle
<1>2. Cardinality(Counted) = 0 /\ Cardinality(Committed) = 0
  BY <1>1, FS_EmptySet
<1>3. tries = Tries /\ lost = 0 /\ Tries \in Nat
  BY PriceAssumption DEF Init
<1>4. Cardinality(Slot) \in Nat \ {0}
  BY Firings
<1>5. Len(sent) - 1 = (Tries - tries) + (Cardinality(Counted) + lost)
  BY <1>1, <1>2, <1>3
<1>6. Cardinality(Committed) <= tries + (Cardinality(Slot) - 1)
  BY <1>2, <1>3, <1>4
<1>. QED
  BY <1>5, <1>6 DEF BumpsInv

\* The limit on replacements is exceeded by no more than the firings that
\* overlap and the answers that get lost.
THEOREM BumpsLimited == Spec => []BumpsBounded
<1>1. ASSUME TypeOK, BumpsInv PROVE BumpsBounded
  <2>1. Cardinality(Counted) <= Cardinality(Committed)
    <3>1. Counted \subseteq Committed /\ Committed \in SUBSET Slot
      BY DEF Counted, Committed
    <3>. QED  BY <3>1, Firings, FS_Subset
  <2>2. /\ Cardinality(Counted) \in Nat /\ Cardinality(Committed) \in Nat
        /\ Cardinality(Slot) \in Nat /\ Len(sent) \in Nat /\ tries \in Int
        /\ Tries \in Nat /\ lost \in Nat
    BY <1>1, Firings, PriceAssumption DEF Counted, Committed, TypeOK
  <2>. QED  BY <1>1, <2>1, <2>2 DEF BumpsInv, BumpsBounded
<1>. QED  BY <1>1, InitBumps, NextBumps, TypeCorrect, PTL DEF Spec

-----------------------------------------------------------------------------
(* No transaction of our own is outbid *)

\* While no two firings have overlapped and no answer was lost, only one firing
\* is in progress, it holds our newest transaction, which is the only one that
\* can be pending, and newLiqTx is that transaction unless its send is on the way.
Alone ==
    /\ \A s, u \in Slot : tick[s].ph # "idle" /\ tick[u].ph # "idle" => s = u
    /\ pool \in {0, Len(sent)}
    /\ \A s \in Slot : tick[s].ph # "idle" => tick[s].cur = Len(sent)
    /\ (\A s \in Slot : tick[s].ph # "sent") => newest = Len(sent)
AloneInv == ~overlap /\ lost = 0 => Alone /\ ~selfbid

\* A firing in progress goes on to a later await.
LEMMA AloneGoes ==
    ASSUME TypeOK, Alone, NEW s \in Slot, tick[s].ph \in {"receipts", "mempool"},
           NEW ph \in {"mempool", "bidding"}, NEW bid,
           tick' = [tick EXCEPT ![s] = Goes(tick[s], ph, tick[s].cur, bid)],
           sent' = sent, pool' = pool, newest' = newest
    PROVE  Alone'
<1>1. \A u \in Slot : u # s => tick'[u] = tick[u]
  BY DEF TypeOK
<1>2. tick'[s].ph = ph /\ tick'[s].cur = tick[s].cur
  BY DEF TypeOK, Goes
<1>. QED  BY <1>1, <1>2 DEF Alone

\* It ends before or without a send.
LEMMA AloneEnds ==
    ASSUME TypeOK, Alone, NEW s \in Slot, tick[s].ph \in {"receipts", "mempool", "bidding"},
           End(s), sent' = sent, pool' = pool, newest' = newest
    PROVE  Alone'
<1>1. \A u \in Slot : u # s => tick'[u] = tick[u]
  BY DEF TypeOK, End
<1>2. tick'[s].ph = "idle"
  BY DEF TypeOK, End, Idle
<1>. QED  BY <1>1, <1>2 DEF Alone

LEMMA AloneStep == TypeOK /\ AloneInv /\ [Next]_vars => AloneInv'
<1> SUFFICES ASSUME TypeOK, AloneInv, [Next]_vars, ~overlap', lost' = 0 PROVE Alone' /\ ~selfbid'
  BY DEF AloneInv
<1>1. /\ tick \in [Slot -> Tick] /\ lost \in Nat /\ sent \in Seq(Nat) /\ Len(sent) \in Nat
      /\ selfbid \in BOOLEAN /\ overlap \in BOOLEAN
  BY DEF TypeOK, Tick
<1>2. ASSUME NEW s \in Slot, Fire(s) PROVE Alone' /\ ~selfbid'
  <2>1. Alone /\ ~selfbid /\ \A u \in Slot : tick[u].ph = "idle"
    BY <1>1, <1>2 DEF Fire, AloneInv
  <2>2. \A u \in Slot : u # s => tick'[u] = tick[u]
    BY <1>1, <1>2 DEF Fire
  <2>3. tick'[s].cur = newest /\ newest = Len(sent)
    BY <1>1, <1>2, <2>1 DEF Fire, Alone
  <2>4. sent' = sent /\ pool' = pool /\ newest' = newest /\ selfbid' = selfbid
    BY <1>2 DEF Fire, bot, node
  <2>. QED  BY <2>1, <2>2, <2>3, <2>4 DEF Alone
<1>3. ASSUME NEW s \in Slot, ReceiptsAnswered(s) PROVE Alone' /\ ~selfbid'
  <2>1. Alone /\ ~selfbid /\ selfbid' = selfbid /\ tick[s].ph = "receipts"
    BY <1>3 DEF ReceiptsAnswered, history, AloneInv
  <2>2. sent' = sent /\ pool' = pool /\ newest' = newest
    BY <1>3 DEF ReceiptsAnswered, node
  <2>3. End(s) \/ tick' = [tick EXCEPT ![s] = Goes(tick[s], "mempool", tick[s].cur, 0)]
    BY <1>3 DEF ReceiptsAnswered
  <2>. QED  BY <2>1, <2>2, <2>3, AloneEnds, AloneGoes
<1>4. ASSUME NEW s \in Slot, ReceiptFails(s) \/ SendRejects(s) PROVE Alone' /\ ~selfbid'
  <2>1. Alone /\ ~selfbid /\ selfbid' = selfbid /\ tick[s].ph \in {"receipts", "bidding"}
    BY <1>4 DEF ReceiptFails, SendRejects, history, AloneInv
  <2>2. sent' = sent /\ pool' = pool /\ newest' = newest /\ End(s)
    BY <1>4 DEF ReceiptFails, SendRejects, bot, node
  <2>. QED  BY <2>1, <2>2, AloneEnds
\* What the mempool holds of ours is the transaction that the firing knows, so a
\* higher price in it is a competitor's.
<1>5. ASSUME NEW s \in Slot, MempoolRead(s) PROVE Alone' /\ ~selfbid'
  <2>1. Alone /\ ~selfbid /\ tick[s].ph = "mempool"
    BY <1>5 DEF MempoolRead, AloneInv
  <2>2. sent' = sent /\ pool' = pool /\ newest' = newest
    BY <1>5 DEF MempoolRead, bot, node
  <2>3. PICK highest \in {Highest, 0} :
          LET cur == Price(tick[s].cur)
              bid == Bid(cur, highest)
              raise == highest > cur /\ bid < Ceiling
          IN  /\ \/ raise /\ tick' = [tick EXCEPT ![s] = Goes(tick[s], "bidding", tick[s].cur, bid)]
                 \/ ~raise /\ End(s)
              /\ selfbid' = (selfbid \/ (raise /\ rival <= cur))
    BY <1>5 DEF MempoolRead
  <2>4. highest > Price(tick[s].cur) => rival > Price(tick[s].cur)
    <3>1. Price(pool) \in {0, Price(tick[s].cur)}
      BY <2>1 DEF Alone, Price
    <3>2. Price(tick[s].cur) \in Nat /\ Price(pool) \in Nat /\ rival \in Nat
      BY Prices DEF TypeOK
    <3>. QED  BY <3>1, <3>2 DEF Highest
  <2>5. ~(highest > Price(tick[s].cur) /\ rival <= Price(tick[s].cur))
    <3>1. Price(tick[s].cur) \in Nat /\ rival \in Nat
      BY Prices DEF TypeOK
    <3>. QED  BY <2>4, <3>1
  <2>6. ~selfbid'
    BY <2>1, <2>3, <2>5
  <2>7. End(s) \/ \E bid : tick' = [tick EXCEPT ![s] = Goes(tick[s], "bidding", tick[s].cur, bid)]
    BY <2>3
  <2>. QED  BY <2>1, <2>2, <2>6, <2>7, AloneEnds, AloneGoes
<1>6. ASSUME NEW s \in Slot, Broadcast(s) PROVE Alone' /\ ~selfbid'
  <2>1. Alone /\ ~selfbid /\ selfbid' = selfbid /\ tick[s].ph = "bidding"
    BY <1>6 DEF Broadcast, history, AloneInv
  <2>2. Len(sent') = Len(sent) + 1 /\ pool' = Len(sent) + 1
    BY <1>1, <1>6 DEF Broadcast
  <2>3. \A u \in Slot : u # s => tick'[u] = tick[u] /\ tick[u].ph = "idle"
    BY <1>1, <1>6, <2>1 DEF Broadcast, Alone
  <2>4. tick'[s].ph = "sent" /\ tick'[s].cur = Len(sent) + 1
    BY <1>1, <1>6 DEF Broadcast, Goes
  <2>. QED  BY <2>1, <2>2, <2>3, <2>4 DEF Alone
<1>7. ASSUME NEW s \in Slot, SendResolves(s) PROVE Alone' /\ ~selfbid'
  <2>1. Alone /\ ~selfbid /\ selfbid' = selfbid /\ tick[s].ph = "sent"
    BY <1>7 DEF SendResolves, history, AloneInv
  <2>2. sent' = sent /\ pool' = pool /\ newest' = tick[s].cur /\ tick[s].cur = Len(sent)
    BY <1>7, <2>1 DEF SendResolves, node, Alone
  <2>3. \A u \in Slot : u # s => tick'[u] = tick[u] /\ tick[u].ph = "idle"
    BY <1>1, <1>7, <2>1 DEF SendResolves, End, Alone
  <2>4. tick'[s].ph = "idle"
    BY <1>1, <1>7 DEF SendResolves, End, Idle
  <2>. QED  BY <2>1, <2>2, <2>3, <2>4 DEF Alone
<1>8. ASSUME NEW s \in Slot, AnswerLost(s) PROVE FALSE
  BY <1>1, <1>8 DEF AnswerLost
<1>9. ASSUME NEW s \in Slot, ReceiptArrives(s) PROVE Alone' /\ ~selfbid'
  BY <1>9 DEF ReceiptArrives, node, history, AloneInv, Alone
<1>10. CASE Mine \/ RivalMoves \/ TimePasses \/ UNCHANGED vars
  BY <1>10 DEF Mine, RivalMoves, TimePasses, vars, bot, node, history, AloneInv, Alone
<1>. QED
  BY <1>2, <1>3, <1>4, <1>5, <1>6, <1>7, <1>8, <1>9, <1>10 DEF Next, Firing

LEMMA AloneStart == Init => AloneInv
<1> SUFFICES ASSUME Init PROVE Alone /\ ~selfbid
  BY DEF AloneInv
<1>1. \A s \in Slot : tick[s].ph = "idle"
  BY DEF Init, Idle
<1>2. Len(sent) = 1
  BY PriceAssumption DEF Init
<1>. QED  BY <1>1, <1>2 DEF Init, Alone

\* The bot bids against a transaction of its own only after firings overlapped or
\* an answer was lost.
THEOREM NoSelfbidAlone == Spec => []SelfbidExcused
<1>1. TypeOK /\ AloneInv => SelfbidExcused
  BY DEF AloneInv, SelfbidExcused, TypeOK
<1>. QED  BY <1>1, AloneStart, AloneStep, TypeCorrect, PTL DEF Spec

\* A firing that settles the promise to null had found none of the transactions
\* it knew mined when it asked for their receipts.
THEOREM NullNeverKnown == Spec => NullOnlyUnseen
<1> DEFINE Seen ==
      \A s \in Slot : ~result.done /\ result'.done /\ result'.tx = 0 /\ tick'[s] # tick[s]
                      => tick[s].was = 0
<1>1. TypeOK /\ [Next]_vars => [Seen]_vars
  <2> SUFFICES ASSUME TypeOK, [Next]_vars, ~result.done, result'.done, result'.tx = 0,
                      NEW s \in Slot, tick'[s] # tick[s]
               PROVE  tick[s].was = 0
    OBVIOUS
  <2>1. PICK u \in Slot : ReceiptsAnswered(u)
    <3>1. result' # result
      OBVIOUS
    <3>. QED
      BY <3>1 DEF Next, Firing, Fire, MempoolRead, Broadcast, SendRejects, SendResolves,
         ReceiptArrives, ReceiptFails, AnswerLost, Mine, RivalMoves, TimePasses, vars, bot
  <2>2. confirmed = 0 /\ u = s
    BY <2>1 DEF ReceiptsAnswered, Resolve, End, TypeOK
  <2>. QED  BY <2>1, <2>2 DEF ReceiptsAnswered
<1>. QED  BY <1>1, TypeCorrect, PTL DEF Spec, NullOnlyUnseen

-----------------------------------------------------------------------------
(* PriceWatch *)

LEMMA WatchInitType == WatchInit => WatchTypeOK
<1> SUFFICES ASSUME WatchInit PROVE WatchTypeOK
  OBVIOUS
<1>1. 0 \in 0..MaxPrice /\ 0 \in 0..MaxRuns
  BY BoundsAssumption
<1>2. new \in [Handler -> 0..MaxPrice] /\ runs \in [Handler -> 0..MaxRuns]
  BY <1>1 DEF WatchInit
<1>. QED  BY <1>1, <1>2 DEF WatchInit, WatchTypeOK

LEMMA WatchNextType == WatchTypeOK /\ [WatchNext]_watchVars => WatchTypeOK'
<1> SUFFICES ASSUME WatchTypeOK, [WatchNext]_watchVars PROVE WatchTypeOK'
  OBVIOUS
<1> USE BoundsAssumption DEF WatchTypeOK, watchHistory
<1>1. ASSUME NEW h \in Handler, Block(h) \/ BlockFails(h) PROVE WatchTypeOK'
  BY <1>1 DEF Block, BlockFails
<1>2. ASSUME NEW h \in Handler, Arm(h) PROVE WatchTypeOK'
  BY <1>2 DEF Arm, Cleared
<1>3. ASSUME NEW h \in Handler, IntervalFires(h) PROVE WatchTypeOK'
  <2>1. price \in 0..MaxPrice
    OBVIOUS
  <2>2. runs' \in [Handler -> 0..MaxRuns]
    BY <1>3 DEF IntervalFires
  <2>3. new' \in [Handler -> 0..MaxPrice] /\ old' \in 0..MaxPrice /\ seen' \in 0..MaxPrice
    BY <1>3, <2>1 DEF IntervalFires
  <2>4. missed' \in BOOLEAN
    BY <1>3 DEF IntervalFires
  <2>. QED  BY <1>3, <2>2, <2>3, <2>4 DEF IntervalFires
<1>4. ASSUME NEW h \in Handler, RunReturns(h) PROVE WatchTypeOK'
  BY <1>4 DEF RunReturns, Cleared
<1>5. ASSUME NEW h \in Handler, RunRejects(h) PROVE WatchTypeOK'
  BY <1>5 DEF RunRejects
<1>6. CASE PriceMoves \/ UNCHANGED watchVars
  BY <1>6 DEF PriceMoves, watchVars
<1>. QED  BY <1>1, <1>2, <1>3, <1>4, <1>5, <1>6 DEF WatchNext

\* Type correctness of every reachable state.
THEOREM WatchTypeCorrect == WatchSpec => []WatchTypeOK
  BY WatchInitType, WatchNextType, PTL DEF WatchSpec

LEMMA NextWatch == WatchTypeOK /\ WatchInv /\ [WatchNext]_watchVars => WatchInv'
<1> SUFFICES ASSUME WatchTypeOK, WatchInv, [WatchNext]_watchVars PROVE WatchInv'
  OBVIOUS
<1> USE BoundsAssumption, HandlerAssumption
    DEF WatchTypeOK, WatchInv, OneInterval, MissedOnlyIfOutlived, watchHistory
<1>1. ASSUME NEW h \in Handler, Block(h) \/ BlockFails(h) PROVE WatchInv'
  BY <1>1 DEF Block, BlockFails
\* The handler that sets its timer has no run that could remember a price.
<1>2. ASSUME NEW h \in Handler, Arm(h) PROVE WatchInv'
  BY <1>2 DEF Arm, Cleared
<1>3. ASSUME NEW h \in Handler, IntervalFires(h) PROVE WatchInv'
  <2>1. timer = h /\ timer' = timer /\ live' = live /\ waiting' = waiting /\ h \notin waiting
    BY <1>3 DEF IntervalFires
  <2>2. new'[h] = price /\ seen' = price /\ outlived' = outlived
    BY <1>3 DEF IntervalFires
  <2>3. \A g \in Handler \ {h} : runs'[g] = runs[g]
    BY <1>3 DEF IntervalFires
  <2>4. ~outlived => seen' <= old' /\ (missed' => missed)
    BY <1>3 DEF IntervalFires
  <2>. QED  BY <2>1, <2>2, <2>3, <2>4
<1>4. ASSUME NEW h \in Handler, RunReturns(h) PROVE WatchInv'
  <2>1. live' = {} /\ timer' = None /\ waiting' = waiting /\ h \notin waiting
    BY <1>4 DEF RunReturns, Cleared
  <2>2. \A g \in Handler \ {h} : runs'[g] = runs[g]
    BY <1>4 DEF RunReturns
  <2>3. CASE outlived \/ timer # h
    <3>1. outlived' = TRUE
      BY <1>4, <2>3 DEF RunReturns
    <3>. QED  BY <2>1, <2>2, <3>1
  <2>4. CASE ~outlived /\ timer = h
    <3>1. old' = new[h] /\ seen' = seen /\ missed' = missed /\ new[h] = seen
      BY <1>4, <2>4 DEF RunReturns
    <3>2. \A g \in Handler : timer' # g
      BY <2>1
    <3>. QED  BY <2>1, <2>2, <2>4, <3>1, <3>2
  <2>. QED  BY <2>3, <2>4
<1>5. ASSUME NEW h \in Handler, RunRejects(h) PROVE WatchInv'
  BY <1>5 DEF RunRejects
<1>6. CASE PriceMoves \/ UNCHANGED watchVars
  BY <1>6 DEF PriceMoves, watchVars
<1>. QED  BY <1>1, <1>2, <1>3, <1>4, <1>5, <1>6 DEF WatchNext

LEMMA InitWatch == WatchInit => WatchInv
  BY HandlerAssumption DEF WatchInit, WatchInv, OneInterval, MissedOnlyIfOutlived

\* At most one interval is scheduled, and it is the one timer refers to.
THEOREM OneIntervalAtATime == WatchSpec => []OneInterval
<1>1. WatchInv => OneInterval
  BY DEF WatchInv
<1>. QED  BY <1>1, InitWatch, NextWatch, WatchTypeCorrect, PTL DEF WatchSpec

\* A drop between two readings of the price is acted on unless a run has
\* returned after its timer was cleared.
THEOREM MissedOnlyThen == WatchSpec => []MissedOnlyIfOutlived
<1>1. WatchInv => MissedOnlyIfOutlived
  BY DEF WatchInv
<1>. QED  BY <1>1, InitWatch, NextWatch, WatchTypeCorrect, PTL DEF WatchSpec
-----------------------------------------------------------------------------
(* GasPrice: the sum of the gas *)

\* Sets of naturals have a least element.
LEMMA LeastElement ==
    ASSUME NEW T \in SUBSET Nat, T # {}
    PROVE  \E m \in T : \A k \in T : m <= k
<1>1. PICK m \in T : \A k \in T : ~(<<k, m>> \in OpToRel(<, Nat))
  BY WFMin, NatLessThanWellFounded
<1>2. \A k \in T : ~(k < m)
  BY <1>1 DEF OpToRel
<1> QED BY <1>2

\* Sets of pending transactions are finite.
LEMMA PendingFinite ==
    ASSUME NEW S \in SUBSET Pending
    PROVE  IsFiniteSet(S) /\ Cardinality(S) \in Nat
  BY GasAssumption, FS_Subset, FS_CardinalityType

\* One transaction less.
LEMMA PendingLess ==
    ASSUME NEW S \in SUBSET Pending, NEW u \in S
    PROVE  S \ {u} \in SUBSET Pending /\ Cardinality(S \ {u}) = Cardinality(S) - 1
  BY PendingFinite, FS_RemoveElement

PickTx(S) == CHOOSE t \in S : TRUE
LEMMA PickIn == ASSUME NEW S, S # {} PROVE PickTx(S) \in S
  BY DEF PickTx

\* The recursive definition of the sum has a solution.
LEMMA GasOfExists ==
    \E g \in [SUBSET Pending -> Nat] : g =
        [txs \in SUBSET Pending |-> IF txs = {} THEN 0 ELSE PickTx(txs).gas + g[txs \ {PickTx(txs)}]]
<1> DEFINE Small(n) == {S \in SUBSET Pending : Cardinality(S) <= n}
<1> DEFINE Solves(g, n) ==
        \A S \in Small(n) : g[S] = IF S = {} THEN 0 ELSE PickTx(S).gas + g[S \ {PickTx(S)}]
<1> DEFINE Bad == {n \in Nat : ~ \E g \in [Small(n) -> Nat] : Solves(g, n)}
<1>1. Bad = {}
  <2> SUFFICES ASSUME Bad # {} PROVE FALSE
    OBVIOUS
  <2>1. PICK n \in Bad : \A k \in Bad : n <= k
    <3>1. Bad \in SUBSET Nat
      OBVIOUS
    <3> HIDE DEF Bad
    <3> QED BY <3>1, LeastElement
  <2>2. CASE n = 0
    <3> DEFINE g == [S \in Small(0) |-> 0]
    <3>1. \A S \in Small(0) : S = {}
      BY PendingFinite, FS_EmptySet
    <3>2. g \in [Small(0) -> Nat] /\ Solves(g, 0)
      BY <3>1
    <3> QED BY <2>1, <2>2, <3>2
  <2>3. CASE n # 0
    <3>1. n \in Nat /\ n - 1 \in Nat /\ n - 1 \notin Bad
      <4>1. Bad \subseteq Nat
        OBVIOUS
      <4> HIDE DEF Bad
      <4> QED BY <2>1, <2>3, <4>1
    <3>2. PICK h \in [Small(n - 1) -> Nat] : Solves(h, n - 1)
      BY <3>1
    <3>3. ASSUME NEW S \in Small(n), S # {}
          PROVE  /\ PickTx(S) \in Pending /\ PickTx(S).gas \in Nat
                 /\ S \ {PickTx(S)} \in Small(n - 1) /\ S \ {PickTx(S)} \in Small(n)
      <4>1. PickTx(S) \in S /\ S \in SUBSET Pending /\ Cardinality(S) \in Nat /\ Cardinality(S) <= n
        BY <3>3, PickIn, PendingFinite
      <4>2. PickTx(S).gas \in Nat
        BY <4>1, GasAssumption
      <4> QED BY <3>1, <4>1, <4>2, PendingLess
    <3> DEFINE g == [S \in Small(n) |-> IF S = {} THEN 0 ELSE PickTx(S).gas + h[S \ {PickTx(S)}]]
    <3>4. g \in [Small(n) -> Nat]
      <4>1. ASSUME NEW S \in Small(n), S # {} PROVE PickTx(S).gas + h[S \ {PickTx(S)}] \in Nat
        <5>1. h[S \ {PickTx(S)}] \in Nat
          BY <3>2, <3>3, <4>1
        <5> HIDE DEF Small
        <5> QED BY <3>3, <4>1, <5>1
      <4> HIDE DEF Small
      <4> QED BY <4>1
    <3>5. ASSUME NEW S \in Small(n - 1) PROVE S \in Small(n) /\ g[S] = h[S]
      <4>1. S \in Small(n)
        BY <3>1, PendingFinite
      <4>2. h[S] = IF S = {} THEN 0 ELSE PickTx(S).gas + h[S \ {PickTx(S)}]
        BY <3>2
      <4> HIDE DEF Small
      <4> QED BY <4>1, <4>2
    <3>6. Solves(g, n)
      <4> SUFFICES ASSUME NEW S \in Small(n)
                   PROVE  g[S] = IF S = {} THEN 0 ELSE PickTx(S).gas + g[S \ {PickTx(S)}]
        OBVIOUS
      <4>1. S # {} => g[S \ {PickTx(S)}] = h[S \ {PickTx(S)}]
        <5> HIDE DEF g, Small
        <5> QED BY <3>3, <3>5
      <4>2. g[S] = IF S = {} THEN 0 ELSE PickTx(S).gas + h[S \ {PickTx(S)}]
        OBVIOUS
      <4> HIDE DEF g, Small
      <4> QED BY <4>1, <4>2
    <3> QED BY <2>1, <3>4, <3>6
  <2> QED BY <2>2, <2>3
<1> DEFINE all == Cardinality(Pending)
<1>2. all \in Nat /\ Small(all) = SUBSET Pending
  BY PendingFinite, FS_Subset, GasAssumption
<1>3. PICK g \in [Small(all) -> Nat] : Solves(g, all)
  BY <1>1, <1>2
<1>4. g \in [SUBSET Pending -> Nat]
  BY <1>2, <1>3
<1>5. \A S \in SUBSET Pending : g[S] = IF S = {} THEN 0 ELSE PickTx(S).gas + g[S \ {PickTx(S)}]
  BY <1>2, <1>3
<1> QED BY <1>4, <1>5

LEMMA GasOfType ==
    /\ GasOf \in [SUBSET Pending -> Nat]
    /\ GasOf[{}] = 0
    /\ \A S \in SUBSET Pending : S # {} => GasOf[S] = PickTx(S).gas + GasOf[S \ {PickTx(S)}]
<1>1. GasOf = CHOOSE g : g =
        [txs \in SUBSET Pending |-> IF txs = {} THEN 0 ELSE PickTx(txs).gas + g[txs \ {PickTx(txs)}]]
  BY DEF GasOf, PickTx
<1>2. GasOf =
        [txs \in SUBSET Pending |-> IF txs = {} THEN 0 ELSE PickTx(txs).gas + GasOf[txs \ {PickTx(txs)}]]
  BY <1>1, GasOfExists
<1>3. \A S \in SUBSET Pending : GasOf[S] = IF S = {} THEN 0 ELSE PickTx(S).gas + GasOf[S \ {PickTx(S)}]
  BY <1>2
<1> DEFINE Bad == {n \in Nat : \E S \in SUBSET Pending : Cardinality(S) = n /\ GasOf[S] \notin Nat}
<1>4. Bad = {}
  <2> SUFFICES ASSUME Bad # {} PROVE FALSE
    OBVIOUS
  <2>1. PICK n \in Bad : \A k \in Bad : n <= k
    <3>1. Bad \in SUBSET Nat
      OBVIOUS
    <3> HIDE DEF Bad
    <3> QED BY <3>1, LeastElement
  <2>2. PICK S \in SUBSET Pending : Cardinality(S) = n /\ GasOf[S] \notin Nat
    BY <2>1
  <2>3. S # {} /\ PickTx(S) \in S /\ PickTx(S).gas \in Nat
    <3>1. S # {}
      BY <1>3, <2>2
    <3>2. PickTx(S) \in Pending
      BY <2>2, <3>1, PickIn
    <3> QED BY <3>1, <3>2, PickIn, GasAssumption
  <2>4. S \ {PickTx(S)} \in SUBSET Pending /\ Cardinality(S \ {PickTx(S)}) = n - 1
    BY <2>2, <2>3, PendingLess
  <2>5. Cardinality(S \ {PickTx(S)}) \in Nat
    BY <2>4, PendingFinite
  <2>6. GasOf[S \ {PickTx(S)}] \in Nat
    BY <2>1, <2>4, <2>5
  <2> QED BY <1>3, <2>2, <2>3, <2>6
<1>5. \A S \in SUBSET Pending : GasOf[S] \in Nat
  BY <1>4, PendingFinite
<1>6. GasOf \in [SUBSET Pending -> Nat]
  <2>1. \E F : GasOf = [S \in SUBSET Pending |-> F[S]]
    <3>1. GasOf = [S \in SUBSET Pending |-> GasOf[S]]
      BY <1>2
    <3> QED BY <3>1
  <2> QED BY <1>5, <2>1
<1> QED BY <1>3, <1>6

\* The sum does not depend on the order.
LEMMA GasOfSplit ==
    ASSUME NEW S \in SUBSET Pending, NEW u \in S
    PROVE  GasOf[S] = u.gas + GasOf[S \ {u}]
<1> DEFINE Differs(T) == \E v \in T : GasOf[T] # v.gas + GasOf[T \ {v}]
<1> DEFINE Bad == {n \in Nat : \E T \in SUBSET Pending : Cardinality(T) = n /\ Differs(T)}
<1>1. Bad = {}
  <2> SUFFICES ASSUME Bad # {} PROVE FALSE
    OBVIOUS
  <2>1. PICK n \in Bad : \A k \in Bad : n <= k
    <3>1. Bad \in SUBSET Nat
      OBVIOUS
    <3> HIDE DEF Bad
    <3> QED BY <3>1, LeastElement
  <2>2. PICK T \in SUBSET Pending : Cardinality(T) = n /\ Differs(T)
    BY <2>1
  <2>3. PICK v \in T : GasOf[T] # v.gas + GasOf[T \ {v}]
    BY <2>2
  <2> DEFINE t == PickTx(T)
  <2>4. t \in T /\ GasOf[T] = t.gas + GasOf[T \ {t}] /\ t # v
    BY <2>2, <2>3, PickIn, GasOfType
  <2> HIDE DEF t
  <2>5. ASSUME NEW w \in T, NEW x \in T, x # w
        PROVE  GasOf[T \ {w}] = x.gas + GasOf[(T \ {w}) \ {x}]
    <3>1. T \ {w} \in SUBSET Pending /\ Cardinality(T \ {w}) = n - 1
      BY <2>2, PendingLess
    <3>2. Cardinality(T \ {w}) \in Nat /\ n \in Nat
      BY <3>1, <2>1, PendingFinite
    <3>3. ~Differs(T \ {w})
      BY <2>1, <3>1, <3>2
    <3> QED BY <2>5, <3>3
  <2>6. (T \ {t}) \ {v} = (T \ {v}) \ {t}
    OBVIOUS
  <2>7. GasOf[(T \ {t}) \ {v}] \in Nat /\ t.gas \in Nat /\ v.gas \in Nat
    BY <2>2, <2>4, GasOfType, GasAssumption
  <2>8. GasOf[T] = t.gas + (v.gas + GasOf[(T \ {t}) \ {v}])
    BY <2>4, <2>5
  <2>9. GasOf[T \ {v}] = t.gas + GasOf[(T \ {t}) \ {v}]
    BY <2>4, <2>5, <2>6
  <2> QED BY <2>3, <2>7, <2>8, <2>9
<1> QED BY <1>1, PendingFinite

\* More transactions do not need less gas.
LEMMA GasOfGrows ==
    ASSUME NEW S \in SUBSET Pending, NEW T \in SUBSET S
    PROVE  GasOf[T] <= GasOf[S]
<1> DEFINE Less(R) == T \subseteq R /\ ~(GasOf[T] <= GasOf[R])
<1> DEFINE Bad == {n \in Nat : \E R \in SUBSET Pending : Cardinality(R) = n /\ Less(R)}
<1>1. Bad = {}
  <2> SUFFICES ASSUME Bad # {} PROVE FALSE
    OBVIOUS
  <2>1. PICK n \in Bad : \A k \in Bad : n <= k
    <3>1. Bad \in SUBSET Nat
      OBVIOUS
    <3> HIDE DEF Bad
    <3> QED BY <3>1, LeastElement
  <2>2. PICK R \in SUBSET Pending : Cardinality(R) = n /\ Less(R)
    BY <2>1
  <2>3. PICK u \in R : u \notin T
    <3>1. GasOf[R] \in Nat
      BY <2>2, GasOfType
    <3>2. R # T
      BY <2>2, <3>1
    <3> QED BY <2>2, <3>2
  <2>4. R \ {u} \in SUBSET Pending /\ Cardinality(R \ {u}) = n - 1
    BY <2>2, PendingLess
  <2>5. Cardinality(R \ {u}) \in Nat /\ n \in Nat
    BY <2>1, <2>4, PendingFinite
  <2>6. GasOf[T] <= GasOf[R \ {u}]
    BY <2>1, <2>2, <2>3, <2>4, <2>5
  <2>7. GasOf[R] = u.gas + GasOf[R \ {u}] /\ u.gas \in Nat
    BY <2>2, GasOfSplit, GasAssumption
  <2>8. GasOf[T] \in Nat /\ GasOf[R] \in Nat /\ GasOf[R \ {u}] \in Nat
    BY <2>2, <2>4, GasOfType
  <2> QED BY <2>2, <2>6, <2>7, <2>8
<1> QED BY <1>1, PendingFinite

\* The highest and the lowest price.
LEMMA PriceMaxIs ==
    ASSUME NEW S \in SUBSET Pending
    PROVE  PriceMax(S) \in Nat /\ \A t \in S : t.price <= PriceMax(S)
<1>1. \A t \in S : t.price \in Nat
  BY GasAssumption
<1>2. CASE S = {}
  BY <1>2 DEF PriceMax
<1>3. CASE S # {}
  <2> DEFINE Above(t) == {u \in S : u.price > t.price}
  <2>1. \A t \in S : IsFiniteSet(Above(t)) /\ Cardinality(Above(t)) \in Nat
    BY PendingFinite
  <2> DEFINE counts == {Cardinality(Above(t)) : t \in S}
  <2>2. PICK m \in counts : \A k \in counts : m <= k
    <3>1. counts \in SUBSET Nat /\ counts # {}
      BY <1>3, <2>1
    <3> HIDE DEF counts
    <3> QED BY <3>1, LeastElement
  <2>3. PICK t \in S : m = Cardinality(Above(t))
    BY <2>2
  <2>4. \A u \in S : u.price <= t.price
    <3> SUFFICES ASSUME NEW u \in S, u.price > t.price PROVE FALSE
      BY <1>1
    <3>1. Above(u) \in SUBSET Above(t) /\ u \in Above(t) /\ u \notin Above(u)
      BY <1>1
    <3>2. Cardinality(Above(u)) <= Cardinality(Above(t)) /\ Cardinality(Above(u)) # Cardinality(Above(t))
      <4> HIDE DEF Above
      <4> QED BY <2>1, <3>1, FS_Subset
    <3>3. m <= Cardinality(Above(u)) /\ m \in Nat
      BY <2>1, <2>2
    <3> HIDE DEF Above
    <3> QED BY <2>1, <2>3, <3>2, <3>3
  <2>5. \E p \in {u.price : u \in S} : \A u \in S : u.price <= p
    BY <2>4
  <2> QED BY <1>1, <1>3, <2>5 DEF PriceMax
<1> QED BY <1>2, <1>3

LEMMA PriceMinIs ==
    ASSUME NEW S \in SUBSET Pending, S # {}
    PROVE  \E t \in S : PriceMin(S) = t.price
<1> DEFINE prices == {t.price : t \in S}
<1>1. prices \in SUBSET Nat /\ prices # {}
  BY GasAssumption
<1>2. PICK p \in prices : \A q \in prices : p <= q
  <2> HIDE DEF prices
  <2> QED BY <1>1, LeastElement
<1>3. \E q \in {t.price : t \in S} : \A t \in S : t.price >= q
  BY <1>1, <1>2
<1>4. PriceMin(S) \in {t.price : t \in S}
  BY <1>3 DEF PriceMin
<1> QED BY <1>4

\* The lowest price of a block is that of a transaction which leaves room, if one does.
LEMMA LowestIs ==
    ASSUME NEW S \in SUBSET Pending
    PROVE  /\ S = {} => LowestInBlock(S) = 0
           /\ S # {} => \E t \in S : LowestInBlock(S) = t.price
           /\ (\E t \in S : Fits(t, S)) => \E t \in S : Fits(t, S) /\ LowestInBlock(S) = t.price
<1> DEFINE within == {t \in S : Fits(t, S)}
<1>1. LowestInBlock(S) = IF within = {} THEN PriceMin(S) ELSE PriceMin(within)
  BY DEF LowestInBlock
<1>2. within # {} => \E t \in within : PriceMin(within) = t.price
  BY PriceMinIs
<1>3. S # {} => \E t \in S : PriceMin(S) = t.price
  BY PriceMinIs
<1>4. S = {} => PriceMin(S) = 0
  BY DEF PriceMin
<1> QED BY <1>1, <1>2, <1>3, <1>4

-----------------------------------------------------------------------------
(* GasPrice: the prices of the attempts *)

GasPhases == {"idle", "stats", "rivals", "node", "decide", "skipped", "sending", "sent"}
Attempt == [phase : GasPhases, seen : SUBSET Pending, full : BOOLEAN, lowest : Nat,
            rivals : SUBSET Pending, price : Nat, floor : BOOLEAN, sent : Nat]

GasTypeOK ==
    /\ mempool \subseteq Pending /\ nodePrice \in NodePrice
    /\ attempt \in Attempt
    /\ lastGasPrice \in Nat /\ dearest \in Nat

Outbids == \A t \in attempt.rivals : attempt.price > t.price

\* What is read stays what is decided on; no competitor was seen when the node is
\* asked; a raised price is that of the lowest in the block, with the buffer.
GasInv ==
    /\ GasTypeOK
    /\ attempt.lowest = LowestInBlock(attempt.seen)
    /\ attempt.phase \in {"idle", "stats", "rivals", "node"} => ~attempt.floor /\ attempt.rivals = {}
    /\ Outbids
    /\ attempt.floor => Offered /\ attempt.price = Buffer(attempt.lowest) /\ attempt.lowest > 0
    /\ LastPriceAffordable

LEMMA GasStart == GasInit => GasInv
<1> SUFFICES ASSUME GasInit PROVE GasInv
  OBVIOUS
<1>1. NoAttempt \in Attempt
  BY DEF NoAttempt, Attempt, GasPhases
<1>2. LowestInBlock({}) = 0
  BY LowestIs
<1> QED BY <1>1, <1>2
    DEF GasInit, GasInv, GasTypeOK, NoAttempt, Outbids, Offered, LastPriceAffordable

\* The price of an attempt that is given up or begins anew.
LEMMA NoAttemptGas ==
    ASSUME GasInv, attempt' = NoAttempt \/ attempt' = [NoAttempt EXCEPT !.phase = "stats"],
           UNCHANGED <<mempool, nodePrice, lastGasPrice, dearest>>
    PROVE  GasInv'
<1>1. attempt' \in Attempt /\ attempt'.phase \in {"idle", "stats"}
  <2>1. NoAttempt \in Attempt /\ NoAttempt.phase = "idle"
    BY DEF NoAttempt, Attempt, GasPhases
  <2>2. [NoAttempt EXCEPT !.phase = "stats"] \in Attempt
    BY <2>1 DEF Attempt, GasPhases
  <2>3. [NoAttempt EXCEPT !.phase = "stats"].phase = "stats"
    BY DEF NoAttempt
  <2> QED BY <2>1, <2>2, <2>3
<1>2. attempt'.seen = {} /\ attempt'.lowest = 0 /\ attempt'.rivals = {} /\ ~attempt'.floor
  BY DEF NoAttempt
<1>3. LowestInBlock({}) = 0
  BY LowestIs
<1> QED BY <1>1, <1>2, <1>3 DEF GasInv, GasTypeOK, Outbids, LastPriceAffordable

LEMMA StatsGas ==
    ASSUME GasInv, NEW txs \in SUBSET Pending, NEW fault, Stats(txs, fault)
    PROVE  GasInv'
<1>1. LowestInBlock(txs) \in Nat /\ IsBlockFull(txs) \in BOOLEAN
  BY LowestIs, GasAssumption DEF IsBlockFull
<1>2. /\ attempt' \in Attempt /\ attempt'.phase = "rivals" /\ attempt'.seen = txs
      /\ attempt'.lowest = LowestInBlock(txs)
      /\ attempt'.rivals = attempt.rivals /\ attempt'.floor = attempt.floor
      /\ attempt'.price = attempt.price /\ attempt.phase = "stats"
  BY <1>1 DEF Stats, Answers, GasInv, GasTypeOK, Attempt, GasPhases
<1>3. UNCHANGED <<mempool, nodePrice, lastGasPrice, dearest>>
  BY DEF Stats
<1> QED BY <1>2, <1>3 DEF GasInv, GasTypeOK, Outbids, LastPriceAffordable

LEMMA RivalsGas ==
    ASSUME GasInv, NEW txs \in SUBSET Pending, NEW fault, Rivals(txs, fault)
    PROVE  GasInv'
<1> DEFINE rivals == {t \in txs : t.rival}
<1>1. rivals \in SUBSET Pending /\ PriceMax(rivals) \in Nat /\ \A t \in rivals : t.price <= PriceMax(rivals)
  BY PriceMaxIs
<1>2. Outbid(rivals) \in Nat /\ \A t \in rivals : t.price \in Nat /\ Outbid(rivals) > t.price
  <2>1. IncreaseValue \in Nat /\ IncreaseValue > 0
    BY GasAssumption
  <2>2. \A t \in rivals : t.price \in Nat
    BY GasAssumption
  <2> HIDE DEF rivals
  <2> QED BY <1>1, <2>1, <2>2 DEF Outbid
<1>3. /\ attempt.phase = "rivals" /\ UNCHANGED <<mempool, nodePrice, lastGasPrice, dearest>>
      /\ attempt' = [attempt EXCEPT !.phase = IF rivals = {} THEN "node" ELSE "decide",
                                    !.rivals = rivals,
                                    !.price = IF rivals = {} THEN 0 ELSE Outbid(rivals)]
  BY DEF Rivals, Answers
<1> HIDE DEF rivals
<1>4. /\ attempt' \in Attempt /\ attempt'.phase = IF rivals = {} THEN "node" ELSE "decide"
      /\ attempt'.seen = attempt.seen /\ attempt'.lowest = attempt.lowest
      /\ attempt'.rivals = rivals /\ attempt'.floor = attempt.floor
      /\ attempt'.price = IF rivals = {} THEN 0 ELSE Outbid(rivals)
  BY <1>1, <1>2, <1>3 DEF GasInv, GasTypeOK, Attempt, GasPhases
<1> QED BY <1>2, <1>3, <1>4 DEF GasInv, GasTypeOK, Outbids, LastPriceAffordable

LEMMA NodeGas == ASSUME GasInv, NodeAnswers PROVE GasInv'
<1>1. Buffer(nodePrice) \in Nat
  BY GasAssumption DEF GasInv, GasTypeOK
<1>2. /\ attempt' \in Attempt /\ attempt'.phase = "decide" /\ attempt.phase = "node"
      /\ attempt'.seen = attempt.seen /\ attempt'.lowest = attempt.lowest
      /\ attempt'.rivals = attempt.rivals /\ attempt'.floor = attempt.floor
      /\ UNCHANGED <<mempool, nodePrice, lastGasPrice, dearest>>
  BY <1>1 DEF NodeAnswers, GasInv, GasTypeOK, Attempt, GasPhases
<1> QED BY <1>2 DEF GasInv, GasTypeOK, Outbids, LastPriceAffordable

LEMMA DecideGas == ASSUME GasInv, NEW reward \in Reward, Decide(reward) PROVE GasInv'
<1> USE DEF GasInv, GasTypeOK
<1>1. attempt.lowest \in Nat /\ attempt.price \in Nat /\ reward \in Nat
  BY GasAssumption DEF Attempt
<1>2. ASSUME Raised PROVE /\ attempt.lowest > 0 /\ Buffer(attempt.lowest) \in Nat
                          /\ Buffer(attempt.lowest) > attempt.lowest
  <2>1. attempt.lowest > attempt.price /\ attempt.lowest # 0
    BY <1>1, <1>2 DEF Raised
  <2>2. attempt.seen \in SUBSET Pending
    BY DEF Attempt
  <2>3. PICK t \in attempt.seen : attempt.lowest = t.price
    BY <2>1, <2>2, LowestIs
  <2> QED BY <1>1, <2>1, <2>2, <2>3, GasAssumption
<1>3. Offer \in Nat /\ Offer >= attempt.price
  BY <1>1, <1>2 DEF Offer, Raised
<1>4. /\ attempt' \in Attempt /\ attempt'.phase \in {"skipped", "sending"}
      /\ attempt'.seen = attempt.seen /\ attempt'.lowest = attempt.lowest
      /\ attempt'.rivals = attempt.rivals /\ attempt'.floor = Raised /\ attempt'.price = Offer
      /\ UNCHANGED <<mempool, nodePrice>>
  <2>1. Raised \in BOOLEAN
    BY DEF Raised, Attempt
  <2> QED BY <1>3, <2>1 DEF Decide, Attempt, GasPhases
<1>5. lastGasPrice' \in Nat /\ dearest' \in Nat /\ lastGasPrice' <= dearest'
  BY <1>1, <1>3 DEF Decide, LastPriceAffordable
<1>6. Outbids'
  <2>1. \A t \in attempt.rivals : t.price \in Nat
    BY GasAssumption DEF Attempt
  <2> QED BY <1>1, <1>3, <1>4, <2>1 DEF Outbids
<1>7. Raised => Offer = Buffer(attempt.lowest)
  BY DEF Offer
<1> QED BY <1>2, <1>4, <1>5, <1>6, <1>7 DEF Offered, LastPriceAffordable

LEMMA SendGas == ASSUME GasInv, Send PROVE GasInv'
<1>1. nodePrice \in Nat
  BY GasAssumption DEF GasInv, GasTypeOK
<1>2. /\ attempt' \in Attempt /\ attempt'.phase = "sent" /\ attempt.phase = "sending"
      /\ attempt'.seen = attempt.seen /\ attempt'.lowest = attempt.lowest
      /\ attempt'.rivals = attempt.rivals /\ attempt'.floor = attempt.floor
      /\ attempt'.price = attempt.price
      /\ UNCHANGED <<mempool, nodePrice, lastGasPrice, dearest>>
  BY <1>1 DEF Send, GasInv, GasTypeOK, Attempt, GasPhases
<1> QED BY <1>2 DEF GasInv, GasTypeOK, Outbids, Offered, LastPriceAffordable

LEMMA GasStep == GasInv /\ [GasNext]_gasVars => GasInv'
<1> SUFFICES ASSUME GasInv, [GasNext]_gasVars PROVE GasInv'
  OBVIOUS
<1>0. mempool \in SUBSET Pending /\ {} \in SUBSET Pending
  BY DEF GasInv, GasTypeOK
<1>1. CASE Begin \/ Fails
  <2>1. attempt' = NoAttempt \/ attempt' = [NoAttempt EXCEPT !.phase = "stats"]
    BY <1>1 DEF Begin, Fails
  <2>2. UNCHANGED <<mempool, nodePrice, lastGasPrice, dearest>>
    BY <1>1 DEF Begin, Fails
  <2> QED BY <2>1, <2>2, NoAttemptGas
<1>2. CASE Stats(mempool, 0) \/ Stats({}, 1)
  BY <1>0, <1>2, StatsGas
<1>3. CASE Rivals(mempool, 0) \/ Rivals({}, 1)
  BY <1>0, <1>3, RivalsGas
<1>4. CASE NodeAnswers
  BY <1>4, NodeGas
<1>5. CASE Send
  BY <1>5, SendGas
<1>6. ASSUME NEW reward \in Reward, Decide(reward) PROVE GasInv'
  BY <1>6, DecideGas
<1>7. ASSUME NEW t \in Pending, PoolChanges(t) PROVE GasInv'
  <2>1. mempool' \in SUBSET Pending
    BY <1>0, <1>7 DEF PoolChanges
  <2> QED BY <1>7, <2>1 DEF PoolChanges, GasInv, GasTypeOK, Outbids, Offered, LastPriceAffordable
<1>8. ASSUME NEW p \in NodePrice, NodeChanges(p) PROVE GasInv'
  BY <1>8 DEF NodeChanges, GasInv, GasTypeOK, Outbids, Offered, LastPriceAffordable
<1>9. CASE UNCHANGED gasVars
  BY <1>9 DEF gasVars, GasInv, GasTypeOK, Outbids, Offered, LastPriceAffordable
<1> QED BY <1>1, <1>2, <1>3, <1>4, <1>5, <1>6, <1>7, <1>8, <1>9 DEF GasNext

\* Together with the invariant the transactions that pay at least the raised price
\* are among those up to one that leaves room.
LEMMA RaisedFits == GasInv => RaisedPriceFits
<1> SUFFICES ASSUME GasInv, attempt.floor, \E t \in attempt.seen : Fits(t, attempt.seen)
             PROVE  GasOf[{t \in attempt.seen : t.price >= attempt.price}] + LiquidationGas < MaxBlockGas
  BY DEF RaisedPriceFits
<1>1. attempt.seen \in SUBSET Pending
  BY DEF GasInv, GasTypeOK, Attempt
<1>2. PICK u \in attempt.seen : Fits(u, attempt.seen) /\ attempt.lowest = u.price
  BY <1>1, LowestIs DEF GasInv
<1> DEFINE dear == {t \in attempt.seen : t.price >= attempt.price}
<1>3. attempt.price > u.price /\ attempt.price \in Nat /\ u.price \in Nat
  BY <1>1, <1>2, GasAssumption DEF GasInv, GasTypeOK, Attempt
<1>4. dear \in SUBSET UpTo(u, attempt.seen) /\ UpTo(u, attempt.seen) \in SUBSET Pending
  BY <1>1, <1>3, GasAssumption DEF UpTo
<1>5. GasOf[dear] <= GasOf[UpTo(u, attempt.seen)]
  BY <1>4, GasOfGrows
<1>6. dear \in SUBSET Pending
  BY <1>1
<1> HIDE DEF dear
<1>7. GasOf[dear] \in Nat /\ GasOf[UpTo(u, attempt.seen)] \in Nat
  BY <1>4, <1>6, GasOfType
<1>8. GasOf[dear] + LiquidationGas < MaxBlockGas
  BY <1>2, <1>5, <1>7, GasAssumption DEF Fits
<1> QED BY <1>8 DEF dear

LEMMA GasAlways == GasSpec => []GasInv
  BY GasStart, GasStep, PTL DEF GasSpec

\* A price that was raised because the block is full leaves room for the liquidation
\* among the transactions seen that pay as much, if the dearest one leaves any.
THEOREM RaisedPriceLeavesRoom == GasSpec => []RaisedPriceFits
  BY GasAlways, RaisedFits, PTL

\* The price that is offered exceeds that of every competitor that was found.
THEOREM OffersOutbid == GasSpec => []OutbidsSeen
<1>1. GasInv => OutbidsSeen
  BY DEF GasInv, Outbids, OutbidsSeen
<1> QED BY <1>1, GasAlways, PTL

\* What later attempts start from was profitable for an earlier one.
THEOREM LastPriceWasProfitable == GasSpec => []LastPriceAffordable
<1>1. GasInv => LastPriceAffordable
  BY DEF GasInv
<1> QED BY <1>1, GasAlways, PTL
=============================================================================
