----------------------------- MODULE ViewProofs ------------------------------
(***************************************************************************)
(* Proofs about what users see: that a watch function settles on the newest *)
(* value, for any number of filters and blocks, and that the table of      *)
(* troves shows what was chosen and a total that fits, for any number of   *)
(* rows, requests and changes.                                             *)
(***************************************************************************)
EXTENDS Observers, Dashboard, SequenceTheorems, TLAPS

\* The state of a watch function.
WatchType ==
    /\ head \in Nat /\ latest \in Nat /\ shown \in Nat
    /\ emitted \in [Filter -> Seq(Nat)] /\ asked \in Seq(Nat)
    /\ timeoutId \in BOOLEAN /\ overtaken \in BOOLEAN

\* No block is newer than the head, neither one on the way nor the remembered one.
NoneBeyondHead ==
    /\ latest <= head
    /\ \A f \in Filter : \A i \in 1..Len(emitted[f]) : emitted[f][i] <= head

\* While the listener is registered, the head has been delivered, or is on the
\* way to it.
HeadArrives ==
    listening = Filter =>
        latest = head \/ \E f \in Filter : \E i \in 1..Len(emitted[f]) : emitted[f][i] = head

\* When no timeout is pending, the last read is for the highest block delivered,
\* and so is the value shown when all reads are answered in order.
LastAsked ==
    ~timeoutId /\ ~overtaken =>
        /\ asked = <<>> => shown = latest
        /\ asked # <<>> => asked[Len(asked)] = latest

WatchInv == WatchType /\ NoneBeyondHead /\ HeadArrives /\ LastAsked

-----------------------------------------------------------------------------
(* Sequences *)

\* What is left of the reads without one of them.
LEMMA Without ==
    ASSUME NEW S, NEW s \in Seq(S), NEW k \in 1..Len(s),
           NEW t, t = [i \in 1..(Len(s) - 1) |-> s[IF i < k THEN i ELSE i + 1]]
    PROVE  /\ t \in Seq(S) /\ Len(t) = Len(s) - 1
           /\ \A i \in 1..Len(t) : t[i] = s[IF i < k THEN i ELSE i + 1]
<1>1. Len(s) - 1 \in Nat
  OBVIOUS
<1>2. \A i \in 1..(Len(s) - 1) : s[IF i < k THEN i ELSE i + 1] \in S
  <2> SUFFICES ASSUME NEW i \in 1..(Len(s) - 1)
               PROVE  s[IF i < k THEN i ELSE i + 1] \in S
    OBVIOUS
  <2>1. i \in 1..Len(s) /\ i + 1 \in 1..Len(s)
    OBVIOUS
  <2> QED BY <2>1, ElementOfSeq
<1>3. t \in Seq(S)
  BY <1>1, <1>2, SeqDef
<1>4. DOMAIN t = 1..(Len(s) - 1)
  OBVIOUS
<1>5. Len(t) = Len(s) - 1
  BY <1>1, <1>3, <1>4, LenProperties
<1> QED BY <1>3, <1>5

-----------------------------------------------------------------------------
(* The invariant *)

\* Initially nothing has happened.
LEMMA WatchInit == ObserversInit => WatchInv
<1> SUFFICES ASSUME ObserversInit PROVE WatchInv
  OBVIOUS
<1> USE DEF ObserversInit
<1>1. WatchType
  <2>1. <<>> \in Seq(Nat)
    OBVIOUS
  <2> QED BY <2>1 DEF WatchType
<1>2. NoneBeyondHead /\ HeadArrives /\ LastAsked
  BY DEF NoneBeyondHead, HeadArrives, LastAsked
<1> QED BY <1>1, <1>2 DEF WatchInv

\* Every step keeps the invariant.
LEMMA WatchStep == WatchInv /\ [ObserversNext]_observerVars => WatchInv'
<1> SUFFICES ASSUME WatchInv, [ObserversNext]_observerVars PROVE WatchInv'
  OBVIOUS
<1> USE DEF WatchInv
<1>1. ASSUME NEW filters \in SUBSET Filter, Emit(filters) PROVE WatchInv'
  <2> USE <1>1 DEF Emit
  <2>1. WatchType'
    BY DEF WatchType
  <2>2. \A f \in Filter :
            \/ emitted'[f] = emitted[f]
            \/ /\ f \in filters /\ f \in listening
               /\ emitted'[f] = Append(emitted[f], head + 1)
    BY DEF WatchType
  <2>3. NoneBeyondHead'
    <3>1. latest' <= head'
      BY DEF NoneBeyondHead, WatchType
    <3>2. ASSUME NEW f \in Filter, NEW i \in 1..Len(emitted'[f])
          PROVE  emitted'[f][i] <= head'
      <4>1. CASE emitted'[f] = emitted[f]
        <5>1. emitted[f][i] <= head /\ emitted[f] \in Seq(Nat) /\ i \in 1..Len(emitted[f])
          BY <3>2, <4>1 DEF NoneBeyondHead, WatchType
        <5>2. emitted[f][i] \in Nat
          BY <5>1, ElementOfSeq
        <5> QED BY <4>1, <5>1, <5>2 DEF WatchType
      <4>2. CASE emitted'[f] = Append(emitted[f], head + 1)
        <5>1. emitted[f] \in Seq(Nat) /\ head \in Nat
          BY DEF WatchType
        <5>2. CASE i = Len(emitted[f]) + 1
          BY <4>2, <5>1, <5>2
        <5>3. CASE i \in 1..Len(emitted[f])
          <6>1. emitted[f][i] <= head /\ emitted[f][i] \in Nat
            BY <5>1, <5>3, ElementOfSeq DEF NoneBeyondHead
          <6> QED BY <4>2, <5>1, <5>3, <6>1
        <5> QED BY <3>2, <4>2, <5>1, <5>2, <5>3
      <4> QED BY <2>2, <4>1, <4>2
    <3> QED BY <3>1, <3>2 DEF NoneBeyondHead
  <2>4. HeadArrives'
    <3> SUFFICES ASSUME listening = Filter
                 PROVE  \E f \in Filter : \E i \in 1..Len(emitted'[f]) : emitted'[f][i] = head'
      BY DEF HeadArrives
    <3>1. PICK f \in filters : TRUE
      OBVIOUS
    <3>2. emitted'[f] = Append(emitted[f], head + 1) /\ emitted[f] \in Seq(Nat)
      BY <3>1 DEF WatchType
    <3>3. Len(emitted'[f]) \in 1..Len(emitted'[f]) /\ emitted'[f][Len(emitted'[f])] = head'
      BY <3>2 DEF WatchType
    <3> QED BY <3>1, <3>3
  <2>5. LastAsked'
    BY DEF LastAsked
  <2> QED BY <2>1, <2>3, <2>4, <2>5
<1>2. ASSUME NEW f \in Filter, Deliver(f) PROVE WatchInv'
  <2> USE <1>2 DEF Deliver
  <2> DEFINE b == Head(emitted[f])
  <2>1. /\ emitted[f] \in Seq(Nat) /\ emitted[f] # <<>>
        /\ b = emitted[f][1] /\ b \in Nat /\ b <= head
    <3>1. emitted[f] \in Seq(Nat) /\ emitted[f] # <<>>
      BY DEF WatchType
    <3>2. 1 \in 1..Len(emitted[f])
      BY <3>1, EmptySeq
    <3> QED BY <3>1, <3>2, ElementOfSeq DEF NoneBeyondHead
  <2>2. /\ latest' \in Nat /\ latest' <= head /\ latest <= latest' /\ b <= latest'
        /\ latest' = latest \/ latest' = b
    BY <2>1 DEF LatestBlock, WatchType, NoneBeyondHead
  <2>3. /\ emitted'[f] = Tail(emitted[f]) /\ emitted'[f] \in Seq(Nat)
        /\ Len(emitted'[f]) = Len(emitted[f]) - 1
        /\ \A i \in 1..Len(emitted'[f]) : emitted'[f][i] = emitted[f][i + 1]
    BY <2>1, HeadTailProperties DEF WatchType
  <2>4. \A g \in Filter \ {f} : emitted'[g] = emitted[g]
    BY DEF WatchType
  <2>5. WatchType'
    BY <2>1, <2>2, <2>3 DEF WatchType
  <2>6. NoneBeyondHead'
    <3>1. ASSUME NEW i \in 1..Len(emitted'[f]) PROVE emitted'[f][i] <= head
      <4>1. i + 1 \in 1..Len(emitted[f])
        BY <2>1, <2>3, <3>1
      <4> QED BY <2>3, <4>1 DEF NoneBeyondHead
    <3> QED BY <2>2, <2>4, <3>1 DEF NoneBeyondHead
  <2>7. HeadArrives'
    <3> SUFFICES ASSUME listening = Filter, latest' # head
                 PROVE  \E g \in Filter : \E i \in 1..Len(emitted'[g]) : emitted'[g][i] = head
      BY DEF HeadArrives
    <3>1. latest # head
      BY <2>2 DEF WatchType
    <3>2. PICK g \in Filter : \E i \in 1..Len(emitted[g]) : emitted[g][i] = head
      BY <3>1 DEF HeadArrives
    <3>3. PICK i \in 1..Len(emitted[g]) : emitted[g][i] = head
      BY <3>2
    <3>4. CASE g # f
      BY <2>4, <3>3, <3>4
    <3>5. CASE g = f
      <4>1. i # 1
        BY <2>1, <2>2, <3>3, <3>5 DEF WatchType
      <4>2. i - 1 \in 1..Len(emitted'[f]) /\ (i - 1) + 1 = i
        BY <2>1, <2>3, <3>5, <4>1
      <4>3. emitted'[f][i - 1] = head
        BY <2>3, <3>3, <3>5, <4>2
      <4> QED BY <4>2, <4>3
    <3> QED BY <3>4, <3>5
  <2>8. LastAsked'
    BY DEF LastAsked
  <2> QED BY <2>5, <2>6, <2>7, <2>8
<1>3. CASE Timeout
  <2> USE <1>3 DEF Timeout
  <2>1. /\ asked' \in Seq(Nat) /\ asked' # <<>> /\ asked'[Len(asked')] = latest
    BY DEF WatchType
  <2>2. WatchType' /\ NoneBeyondHead' /\ HeadArrives'
    BY <2>1 DEF WatchType, NoneBeyondHead, HeadArrives
  <2>3. LastAsked'
    BY <2>1 DEF LastAsked
  <2> QED BY <2>2, <2>3
<1>4. CASE Unsubscribe
  <2> USE <1>4 DEF Unsubscribe
  <2>1. WatchType'
    BY DEF WatchType
  <2>2. \A f \in Filter : 1..Len(emitted'[f]) = {}
    OBVIOUS
  <2>3. NoneBeyondHead'
    BY <2>2 DEF NoneBeyondHead
  <2>4. HeadArrives'
    <3>1. CASE Filter = {}
      BY <3>1 DEF HeadArrives
    <3>2. CASE Filter # {}
      BY <3>2 DEF HeadArrives
    <3> QED BY <3>1, <3>2
  <2>5. LastAsked'
    BY DEF LastAsked
  <2> QED BY <2>1, <2>3, <2>4, <2>5
<1>5. ASSUME NEW k \in 1..Len(asked), ReadAnswered(k) \/ ReadFailed(k) PROVE WatchInv'
  <2> USE <1>5 DEF ReadAnswered, ReadFailed
  <2>1. /\ asked' \in Seq(Nat) /\ Len(asked') = Len(asked) - 1
        /\ \A i \in 1..Len(asked') : asked'[i] = asked[IF i < k THEN i ELSE i + 1]
    <3>1. asked \in Seq(Nat) /\ asked' = [i \in 1..(Len(asked) - 1) |-> asked[IF i < k THEN i ELSE i + 1]]
      BY DEF WatchType
    <3> HIDE <1>5 DEF ReadAnswered, ReadFailed
    <3> DEFINE a == asked
               b == asked'
    <3>2. a \in Seq(Nat) /\ k \in 1..Len(a)
          /\ b = [i \in 1..(Len(a) - 1) |-> a[IF i < k THEN i ELSE i + 1]]
      BY <3>1
    <3> HIDE DEF a, b
    <3>3. /\ b \in Seq(Nat) /\ Len(b) = Len(a) - 1
          /\ \A i \in 1..Len(b) : b[i] = a[IF i < k THEN i ELSE i + 1]
      BY <3>2, Without
    <3> QED BY <3>3 DEF a, b
  <2>2. asked \in Seq(Nat) /\ asked[k] \in Nat
    BY ElementOfSeq DEF WatchType
  <2>3. WatchType' /\ NoneBeyondHead' /\ HeadArrives'
    BY <2>1, <2>2 DEF WatchType, NoneBeyondHead, HeadArrives
  <2>4. LastAsked'
    <3> SUFFICES ASSUME ~timeoutId', ~overtaken'
                 PROVE  /\ asked' = <<>> => shown' = latest'
                        /\ asked' # <<>> => asked'[Len(asked')] = latest'
      BY DEF LastAsked
    <3>1. ReadAnswered(k) /\ k = 1 /\ ~overtaken /\ ~timeoutId /\ latest' = latest
      <4>1. ~ReadFailed(k)
        BY DEF ReadFailed
      <4>2. ReadAnswered(k)
        BY <4>1, <1>5
      <4>3. ~(overtaken \/ k # 1)
        BY <4>2
      <4> QED BY <4>2, <4>3
    <3>2. asked # <<>> /\ asked[Len(asked)] = latest
      BY <2>2, <3>1 DEF LastAsked
    <3>3. ASSUME asked' = <<>> PROVE shown' = latest'
      <4>1. Len(asked) = 1
        BY <2>1, <2>2, <3>3
      <4> QED BY <3>1, <3>2, <4>1
    <3>4. ASSUME asked' # <<>> PROVE asked'[Len(asked')] = latest'
      <4>1. Len(asked') \in 1..Len(asked') /\ Len(asked') + 1 = Len(asked)
        BY <2>1, <2>2, <3>4, EmptySeq
      <4>2. asked'[Len(asked')] = asked[Len(asked') + 1]
        BY <2>1, <3>1, <4>1
      <4> QED BY <3>1, <3>2, <4>1, <4>2
    <3> QED BY <3>3, <3>4
  <2> QED BY <2>3, <2>4
<1>6. CASE UNCHANGED observerVars
  BY <1>6 DEF observerVars, WatchType, NoneBeyondHead, HeadArrives, LastAsked
<1> QED BY <1>1, <1>2, <1>3, <1>4, <1>5, <1>6 DEF ObserversNext

\* ObservableEthersLiquity.ts:21-36: the last read that the debounced function
\* starts is for the newest block with an event, however the events of several
\* filters, the timeouts and the answers follow each other.
THEOREM WatchSettles == ObserversSpec => []SettlesOnNewest
<1>1. WatchInv => SettlesOnNewest
  <2> SUFFICES ASSUME WatchInv, listening = Filter, \A f \in Filter : emitted[f] = <<>>,
                      ~timeoutId, asked = <<>>, ~overtaken
               PROVE  shown = head
    BY DEF SettlesOnNewest
  <2>1. latest = head
    BY DEF WatchInv, HeadArrives
  <2> QED BY <2>1 DEF WatchInv, LastAsked
<1> QED BY <1>1, WatchInit, WatchStep, PTL DEF ObserversSpec

-----------------------------------------------------------------------------
(* Dashboard *)

\* The page that an offset was calculated from.
LEMMA PageOfOffset == ASSUME NEW p \in Nat PROVE Offset(p) \in Int /\ PageOf(Offset(p)) = p
<1>1. ASSUME NEW q \in Int, NEW b \in Nat \ {0} PROVE (q * b) \div b = q
  OBVIOUS
<1> QED BY <1>1, PageAssumption DEF PageOf, Offset

Offsets == {Offset(p) : p \in Nat}
TableRequest ==
    [offset : Offsets, status : StatusFilter, count : Nat, listed : BOOLEAN, total : Nat,
     counted : BOOLEAN, moved : BOOLEAN]
Table ==
    [page : Nat, status : StatusFilter, count : Nat, offset : Int, total : Nat,
     shows : StatusFilter, moved : BOOLEAN]

TableType ==
    /\ rows \in [Status -> Nat] /\ table \in Table /\ requests \in Seq(TableRequest)
    /\ chosen \in Nat /\ lost \in BOOLEAN

\* A list and a total that were read of the same table fit each other, and a list
\* fits the table as long as that has not changed.
Fitting(r) ==
    /\ r.counted => r.listed
    /\ ~r.moved /\ r.counted => r.count = Fewer(PageSize, Rest(r.total, r.offset))
    /\ ~r.moved /\ r.listed /\ ~r.counted =>
          r.count = Fewer(PageSize, Rest(Matching(r.status), r.offset))
AllFit == \A k \in 1..Len(requests) : Fitting(requests[k])

\* The last request is for what was chosen; without one it is shown.
LastChosen ==
    ~lost =>
        IF requests = <<>>
        THEN table.page = chosen /\ table.shows = table.status
        ELSE requests[Len(requests)].offset = Offset(chosen)
             /\ requests[Len(requests)].status = table.status

TableInv == TableType /\ AllFit /\ LastChosen /\ TotalFitsList

LEMMA TableStart == TableInit => TableInv
<1> SUFFICES ASSUME TableInit PROVE TableInv
  OBVIOUS
<1> DEFINE r == NewRequest(0, "")
<1>1. r \in TableRequest
  BY DEF NewRequest, TableRequest, Offsets, StatusFilter
<1>2. ~r.listed /\ ~r.counted /\ r.offset = Offset(0) /\ r.status = ""
  BY DEF NewRequest
<1>3. NoTable \in Table
  BY DEF NoTable, Table, StatusFilter
<1>4. /\ requests = <<r>> /\ table = NoTable /\ chosen = 0 /\ lost = FALSE
      /\ rows = [s \in Status |-> 0]
  BY DEF TableInit
<1> HIDE DEF r
<1>5. requests \in Seq(TableRequest) /\ Len(requests) = 1 /\ requests[1] = r /\ requests # <<>>
  BY <1>1, <1>4
<1>6. TableType
  BY <1>3, <1>4, <1>5 DEF TableType
<1>7. AllFit
  <2>1. Fitting(r)
    BY <1>2 DEF Fitting
  <2>2. \A k \in 1..Len(requests) : requests[k] = r
    BY <1>5
  <2> QED BY <2>1, <2>2 DEF AllFit
<1>8. LastChosen /\ TotalFitsList
  BY <1>2, <1>4, <1>5 DEF LastChosen, NoTable, TotalFitsList
<1> QED BY <1>6, <1>7, <1>8 DEF TableInv

\* How many rows match.
LEMMA MatchingType ==
    ASSUME TableType, NEW filter \in StatusFilter
    PROVE  Matching(filter) \in Nat
<1>1. rows["open"] \in Nat /\ rows["liquidated"] \in Nat /\ rows["closedByLiquidation"] \in Nat
  BY DEF TableType, Status
<1>2. filter = "" \/ filter = "open" \/ filter = "liquidated"
  BY DEF StatusFilter
<1>3. CASE filter = ""
  <2>1. Matching(filter) = rows["open"] + rows["liquidated"] + rows["closedByLiquidation"]
    BY <1>3, Zenon DEF Matching
  <2> QED BY <1>1, <2>1
<1>4. CASE filter = "open"
  BY <1>1, <1>4 DEF Matching
<1>5. CASE filter = "liquidated"
  BY <1>1, <1>5 DEF Matching
<1> QED BY <1>2, <1>3, <1>4, <1>5

LEMMA FewerType ==
    ASSUME NEW total \in Nat, NEW offset \in Int
    PROVE  Fewer(PageSize, Rest(total, offset)) \in Nat
  BY PageAssumption DEF Fewer, Rest

\* A request is made for what is chosen.
LEMMA AskStep ==
    ASSUME TableInv, NEW page \in Nat, NEW filter \in StatusFilter,
           requests' = Append(requests, NewRequest(page, filter)),
           table' \in Table, table'.status = filter, chosen' \in Nat, lost' \in BOOLEAN,
           UNCHANGED rows, ~lost' => page = chosen',
           \A f \in {"count", "total", "offset", "moved"} : table'[f] = table[f]
    PROVE  TableInv'
<1> USE DEF TableInv
<1> DEFINE r == NewRequest(page, filter)
<1>1. r \in TableRequest
  BY DEF NewRequest, TableRequest, Offsets
<1>2. ~r.listed /\ ~r.counted /\ r.offset = Offset(page) /\ r.status = filter
  BY DEF NewRequest
<1> HIDE DEF r
<1>3. /\ requests' \in Seq(TableRequest) /\ Len(requests') = Len(requests) + 1 /\ requests' # <<>>
      /\ Len(requests) \in Nat /\ requests'[Len(requests')] = r
      /\ \A k \in 1..Len(requests) : requests'[k] = requests[k]
  BY <1>1 DEF TableType, r
<1>4. TableType'
  BY <1>3 DEF TableType
<1>5. AllFit'
  <2> SUFFICES ASSUME NEW k \in 1..Len(requests') PROVE Fitting(requests[k])'
    BY DEF AllFit
  <2>1. CASE k = Len(requests')
    BY <1>2, <1>3, <2>1 DEF Fitting
  <2>2. CASE k # Len(requests')
    <3>1. k \in 1..Len(requests) /\ requests'[k] = requests[k]
      BY <1>3, <2>2
    <3>2. Fitting(requests[k])
      BY <3>1 DEF AllFit
    <3> QED BY <3>1, <3>2 DEF Fitting, Matching
  <2> QED BY <2>1, <2>2
<1>6. LastChosen'
  BY <1>2, <1>3 DEF LastChosen
<1>7. TotalFitsList'
  BY DEF TotalFitsList
<1> QED BY <1>4, <1>5, <1>6, <1>7

\* One request is changed: it stays the request for the same rows.
LEMMA RequestStep ==
    ASSUME TableInv, NEW k \in 1..Len(requests), NEW r \in TableRequest,
           requests' = [requests EXCEPT ![k] = r],
           r.offset = requests[k].offset, r.status = requests[k].status, Fitting(r),
           UNCHANGED <<rows, table, chosen, lost>>
    PROVE  TableInv'
<1> USE DEF TableInv
<1>1. /\ requests' \in Seq(TableRequest) /\ Len(requests') = Len(requests) /\ Len(requests) \in Nat
      /\ requests'[k] = r /\ \A i \in 1..Len(requests) : i # k => requests'[i] = requests[i]
      /\ requests' # <<>> /\ requests # <<>>
  BY DEF TableType
<1>2. TableType'
  BY <1>1 DEF TableType
<1>3. AllFit'
  <2> SUFFICES ASSUME NEW i \in 1..Len(requests') PROVE Fitting(requests[i])'
    BY DEF AllFit
  <2>1. requests'[i] = r \/ (requests'[i] = requests[i] /\ Fitting(requests[i]))
    BY <1>1 DEF AllFit
  <2> QED BY <2>1 DEF Fitting, Matching
<1>4. LastChosen'
  <2>1. /\ requests'[Len(requests')].offset = requests[Len(requests)].offset
        /\ requests'[Len(requests')].status = requests[Len(requests)].status
    <3>1. Len(requests) \in 1..Len(requests)
      BY <1>1
    <3>2. k = Len(requests) \/ requests'[Len(requests)] = requests[Len(requests)]
      BY <1>1, <3>1
    <3> QED BY <1>1, <3>2
  <2> QED BY <1>1, <2>1 DEF LastChosen
<1>5. TotalFitsList'
  BY DEF TotalFitsList
<1> QED BY <1>2, <1>3, <1>4, <1>5

LEMMA ListStep ==
    ASSUME TableInv, NEW k \in 1..Len(requests), ListRows(k) \/ CountRows(k)
    PROVE  TableInv'
<1> DEFINE q == requests[k]
<1>1. /\ q \in TableRequest /\ Fitting(q) /\ Matching(q.status) \in Nat
      /\ Fewer(PageSize, Rest(Matching(q.status), q.offset)) \in Nat
  <2>1. q \in TableRequest /\ Fitting(q)
    BY ElementOfSeq DEF TableInv, TableType, AllFit
  <2>2. q.status \in StatusFilter /\ q.offset \in Int
    BY <2>1, PageOfOffset DEF TableRequest, Offsets
  <2> HIDE DEF q
  <2> QED BY <2>1, <2>2, MatchingType, FewerType DEF TableInv
<1>2. UNCHANGED <<rows, table, chosen, lost>>
  BY DEF ListRows, CountRows
<1>3. requests \in Seq(TableRequest)
  BY DEF TableInv, TableType
<1>4. CASE ListRows(k)
  <2> DEFINE r == [q EXCEPT !.listed = TRUE, !.moved = FALSE,
                            !.count = Fewer(PageSize, Rest(Matching(q.status), q.offset))]
  <2>1. ~q.counted
    BY <1>1, <1>4 DEF ListRows, Fitting
  <2>2. requests' = [requests EXCEPT ![k] = r]
    BY <1>3, <1>4 DEF ListRows
  <2>3. r \in TableRequest /\ r.offset = q.offset /\ r.status = q.status /\ Fitting(r)
    <3> HIDE DEF q
    <3> QED BY <1>1, <2>1 DEF TableRequest, Fitting
  <2> HIDE DEF r
  <2> QED BY <1>2, <2>2, <2>3, RequestStep
<1>5. CASE CountRows(k)
  <2> DEFINE r == [q EXCEPT !.counted = TRUE, !.total = Matching(q.status)]
  <2>1. q.listed /\ ~q.counted
    BY <1>5 DEF CountRows
  <2>2. requests' = [requests EXCEPT ![k] = r]
    BY <1>3, <1>5 DEF CountRows, Total
  <2>3. r \in TableRequest /\ r.offset = q.offset /\ r.status = q.status /\ Fitting(r)
    <3> HIDE DEF q
    <3> QED BY <1>1, <2>1 DEF TableRequest, Fitting
  <2> HIDE DEF r
  <2> QED BY <1>2, <2>2, <2>3, RequestStep
<1> QED BY <1>4, <1>5

\* The first answer leaves the last request, or is its own.
LEMMA ReplyStep == ASSUME TableInv, NEW k \in 1..Len(requests), Reply(k) PROVE TableInv'
<1> USE DEF TableInv
<1> DEFINE q == requests[k]
<1>1. q \in TableRequest /\ Fitting(q) /\ q.counted
  BY ElementOfSeq DEF TableType, AllFit, Reply
<1>2. PICK p \in Nat : q.offset = Offset(p)
  BY <1>1 DEF TableRequest, Offsets
<1>3. q.offset \in Int /\ PageOf(q.offset) = p
  BY <1>2, PageOfOffset
<1>4. /\ table' = [table EXCEPT !.count = q.count, !.total = q.total, !.page = PageOf(q.offset),
                                !.shows = q.status, !.offset = q.offset, !.moved = q.moved]
      /\ lost' = (lost \/ k # 1) /\ UNCHANGED <<rows, chosen>>
  BY DEF Reply
<1>5. /\ requests' \in Seq(TableRequest) /\ Len(requests') = Len(requests) - 1
      /\ \A i \in 1..Len(requests') : requests'[i] = requests[IF i < k THEN i ELSE i + 1]
      /\ Len(requests) \in Nat
  <2>1. /\ requests \in Seq(TableRequest)
        /\ requests' = [i \in 1..(Len(requests) - 1) |-> requests[IF i < k THEN i ELSE i + 1]]
    BY DEF TableType, Reply
  <2> QED BY <2>1, Without
<1> HIDE DEF q
<1>6. /\ table' \in Table /\ table'.page = p /\ table'.shows = q.status /\ table'.status = table.status
      /\ table'.count = q.count /\ table'.total = q.total /\ table'.offset = q.offset
      /\ table'.moved = q.moved
  BY <1>1, <1>3, <1>4 DEF TableType, Table, TableRequest
<1>7. TableType'
  BY <1>4, <1>5, <1>6 DEF TableType
<1>8. AllFit'
  <2> SUFFICES ASSUME NEW i \in 1..Len(requests') PROVE Fitting(requests[i])'
    BY DEF AllFit
  <2>1. \E j \in 1..Len(requests) : requests'[i] = requests[j]
    BY <1>5
  <2> QED BY <1>4, <2>1 DEF AllFit, Fitting, Matching
<1>9. LastChosen'
  <2> SUFFICES ASSUME ~lost' PROVE IF requests' = <<>>
                                   THEN table'.page = chosen /\ table'.shows = table'.status
                                   ELSE requests'[Len(requests')].offset = Offset(chosen)
                                        /\ requests'[Len(requests')].status = table'.status
    BY <1>4 DEF LastChosen
  <2>1. k = 1 /\ ~lost /\ requests # <<>>
    <3>1. requests \in Seq(TableRequest) /\ k \in 1..Len(requests)
      BY DEF TableType
    <3>2. ~(lost \/ k # 1)
      BY <1>4
    <3>3. requests # <<>>
      BY <3>1
    <3> QED BY <3>2, <3>3
  <2>2. requests[Len(requests)].offset = Offset(chosen) /\ requests[Len(requests)].status = table.status
    BY <2>1 DEF LastChosen
  <2>3. CASE Len(requests) = 1
    <3>1. requests' = <<>> /\ q = requests[Len(requests)]
      BY <1>5, <2>1, <2>3 DEF q
    <3>2. p = chosen
      BY <1>2, <2>2, <3>1, PageOfOffset DEF TableType
    <3> QED BY <1>6, <2>2, <3>1, <3>2
  <2>4. CASE Len(requests) # 1
    <3>1. requests' # <<>> /\ requests'[Len(requests')] = requests[Len(requests)]
      BY <1>5, <2>1, <2>4
    <3> QED BY <1>6, <2>2, <3>1
  <2> QED BY <2>3, <2>4
<1>10. TotalFitsList'
  BY <1>1, <1>6 DEF TotalFitsList, Fitting
<1> QED BY <1>7, <1>8, <1>9, <1>10

\* A change of the table counts for requests between their two queries.
LEMMA ChangeStep == ASSUME TableInv, TableChanges PROVE TableInv'
<1> USE DEF TableInv
<1>1. /\ requests' = [k \in DOMAIN requests |->
                        [requests[k] EXCEPT !.moved = @ \/ (requests[k].listed /\ ~requests[k].counted)]]
      /\ UNCHANGED <<table, chosen, lost>>
  BY DEF TableChanges
<1>2. rows' \in [Status -> Nat]
  <2>1. rows \in [Status -> Nat] /\ \A s \in Status : rows[s] \in Nat
    BY DEF TableType
  <2>2. CASE rows' = [rows EXCEPT !["open"] = @ + 1]
    BY <2>1, <2>2 DEF Status
  <2>3. ASSUME rows["open"] > 0, NEW s \in {"liquidated", "closedByLiquidation"},
               rows' = [rows EXCEPT !["open"] = @ - 1, ![s] = @ + 1]
        PROVE  rows' \in [Status -> Nat]
    <3>1. rows["open"] - 1 \in Nat /\ rows[s] + 1 \in Nat /\ s # "open" /\ s \in Status
      BY <2>1, <2>3 DEF Status
    <3>2. rows' = [c \in Status |-> IF c = s THEN rows[s] + 1 ELSE IF c = "open" THEN rows["open"] - 1 ELSE rows[c]]
      BY <2>1, <2>3, <3>1 DEF Status
    <3> QED BY <2>1, <3>1, <3>2
  <2> QED BY <2>2, <2>3 DEF TableChanges
<1>3. requests \in Seq(TableRequest) /\ Len(requests) \in Nat /\ DOMAIN requests = 1..Len(requests)
  BY DEF TableType
<1>4. ASSUME NEW k \in 1..Len(requests)
      PROVE  /\ requests'[k] \in TableRequest
             /\ requests'[k].offset = requests[k].offset /\ requests'[k].status = requests[k].status
             /\ Fitting(requests[k])'
  <2> DEFINE q == requests[k]
  <2>1. q \in TableRequest /\ Fitting(q)
    BY <1>3, ElementOfSeq DEF AllFit
  <2>2. requests'[k] = [q EXCEPT !.moved = @ \/ (q.listed /\ ~q.counted)]
    BY <1>1, <1>3
  <2> HIDE DEF q
  <2>3. (q.moved \/ (q.listed /\ ~q.counted)) \in BOOLEAN
    OBVIOUS
  <2>4. /\ requests'[k] \in TableRequest /\ requests'[k].offset = q.offset
        /\ requests'[k].status = q.status /\ requests'[k].count = q.count
        /\ requests'[k].listed = q.listed /\ requests'[k].counted = q.counted
        /\ requests'[k].total = q.total
        /\ requests'[k].moved = (q.moved \/ (q.listed /\ ~q.counted))
    BY <2>1, <2>2, <2>3 DEF TableRequest
  <2>5. Fitting(requests[k])'
    BY <2>1, <2>4 DEF Fitting
  <2> QED BY <2>4, <2>5 DEF q
<1>5. requests' \in Seq(TableRequest) /\ Len(requests') = Len(requests)
  <2>1. \A k \in 1..Len(requests) : requests'[k] \in TableRequest
    BY <1>4
  <2>2. DOMAIN requests' = 1..Len(requests)
    BY <1>1, <1>3
  <2> QED BY <1>1, <1>3, <2>1, <2>2, SeqDef, LenProperties
<1>6. TableType' /\ AllFit'
  BY <1>1, <1>2, <1>4, <1>5 DEF TableType, AllFit
<1>7. LastChosen'
  <2>1. requests' = <<>> <=> requests = <<>>
    BY <1>3, <1>5
  <2>2. requests # <<>> => Len(requests) \in 1..Len(requests)
    BY <1>3
  <2> QED BY <1>1, <1>4, <1>5, <2>1, <2>2 DEF LastChosen
<1> QED BY <1>1, <1>6, <1>7 DEF TotalFitsList

LEMMA TableStep == TableInv /\ [TableNext]_tableVars => TableInv'
<1> SUFFICES ASSUME TableInv, [TableNext]_tableVars PROVE TableInv'
  OBVIOUS
<1>0. table \in Table /\ table.page \in Nat /\ table.status \in StatusFilter /\ chosen \in Nat /\ lost \in BOOLEAN
  BY DEF TableInv, TableType, Table
<1>1. CASE Interval
  BY <1>0, <1>1, AskStep DEF Interval, Ask
<1>2. ASSUME NEW page \in 1..2, Turn(page) PROVE TableInv'
  <2>1. table' = [table EXCEPT !.page = page] /\ page \in Nat
    BY <1>2 DEF Turn
  <2>2. table' \in Table /\ table'.status = table.status
        /\ \A f \in {"count", "total", "offset", "moved"} : table'[f] = table[f]
    BY <1>0, <2>1 DEF Table
  <2> QED BY <1>0, <1>2, <2>1, <2>2, AskStep DEF Turn, Ask
<1>3. ASSUME NEW filter \in StatusFilter, Select(filter) PROVE TableInv'
  <2>1. table' = [table EXCEPT !.status = filter]
    BY <1>3 DEF Select
  <2>2. table' \in Table /\ table'.status = filter
        /\ \A f \in {"count", "total", "offset", "moved"} : table'[f] = table[f]
    BY <1>0, <2>1 DEF Table
  <2> QED BY <1>0, <1>3, <2>2, AskStep DEF Select, Ask
<1>4. ASSUME NEW k \in DOMAIN requests, ListRows(k) \/ CountRows(k) \/ Reply(k) PROVE TableInv'
  <2>1. k \in 1..Len(requests)
    BY DEF TableInv, TableType
  <2> QED BY <1>4, <2>1, ListStep, ReplyStep
<1>5. CASE TableChanges
  BY <1>5, ChangeStep
<1>6. CASE UNCHANGED tableVars
  BY <1>6 DEF tableVars, TableInv, TableType, AllFit, Fitting, Matching, LastChosen, TotalFitsList
<1> QED BY <1>1, <1>2, <1>3, <1>4, <1>5, <1>6 DEF TableNext

LEMMA TableAlways == TableSpec => []TableInv
  BY TableStart, TableStep, PTL DEF TableSpec

\* The rows that are shown are as many as the total allows, unless the table changed
\* between the two queries.
THEOREM TotalFits == TableSpec => []TotalFitsList
<1>1. TableInv => TotalFitsList
  BY DEF TableInv
<1> QED BY <1>1, TableAlways, PTL

\* Once all is answered the table shows what the user chose last, unless answers
\* came out of order or an older one had put back a page.
THEOREM ChoiceIsKept == TableSpec => []ChoiceKept
<1>1. TableInv => ChoiceKept
  BY DEF TableInv, LastChosen, ChoiceKept
<1> QED BY <1>1, TableAlways, PTL
=============================================================================
