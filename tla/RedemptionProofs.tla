-------------------------- MODULE RedemptionProofs ---------------------------
(***************************************************************************)
(* Proofs about redemptions and the search for hints.  What they need of   *)
(* fixed-point numbers and rates is proved with the borrowings.            *)
(***************************************************************************)
EXTENDS BorrowingProofs, Redemption, HintSearch, FiniteSetTheorems, SequenceTheorems

-----------------------------------------------------------------------------
(* HintSearch: the random numbers *)

\* How many are drawn altogether: the root exists.
LEMMA TrialsType ==
    ASSUME NEW n \in Nat
    PROVE  TotalTrials(n) \in Nat
<1>1. Factor \in Nat /\ Factor # 0
  BY SearchAssumption
<1> DEFINE all == Factor * n
<1> DEFINE Enough(t) == t * t >= Factor * Factor * n
<1>2. all \in Nat
  BY <1>1
<1>3. Enough(all)
  <2>1. n * n >= n
    OBVIOUS
  <2>2. all * all = Factor * Factor * (n * n)
    BY <1>1
  <2>3. \A f, a, b \in Nat : a >= b => f * a >= f * b
    OBVIOUS
  <2>4. Factor * Factor * (n * n) >= Factor * Factor * n
    BY <1>1, <2>1, <2>3
  <2> QED BY <2>2, <2>4
<1> DEFINE T == {t \in 0..all : Enough(t)}
<1>4. PICK m \in T : \A k \in T : m <= k
  <2>1. T \in SUBSET Nat /\ T # {}
    BY <1>2, <1>3
  <2> HIDE DEF T
  <2> QED BY <2>1, LeastElement
<1>5. \A u \in 0..(m - 1) : u * u < Factor * Factor * n
  <2> SUFFICES ASSUME NEW u \in 0..(m - 1), ~(u * u < Factor * Factor * n) PROVE FALSE
    OBVIOUS
  <2>1. u * u \in Int /\ Factor * Factor * n \in Int
    BY <1>1
  <2>2. u \in T
    BY <1>2, <1>4, <2>1
  <2> QED BY <1>2, <1>4, <2>2
<1>6. m \in 0..(Factor * n) /\ m * m >= Factor * Factor * n
  BY <1>4
<1>7. TotalTrials(n) \in 0..(Factor * n)
  BY <1>5, <1>6 DEF TotalTrials
<1> QED BY <1>2, <1>7

Calls(total) == (total + MaxTrials - 1) \div MaxTrials

\* The calls are as many as it takes.
LEMMA CallsEnough ==
    ASSUME NEW total \in Nat
    PROVE  /\ Calls(total) \in Nat /\ Calls(total) * MaxTrials >= total
           /\ \A j \in Nat : j < Calls(total) => j * MaxTrials < total
<1>1. MaxTrials \in Nat /\ MaxTrials # 0 /\ total + MaxTrials - 1 \in Nat
  BY SearchAssumption
<1> DEFINE c == Calls(total)
<1>2. /\ c \in Nat /\ MaxTrials * c <= total + MaxTrials - 1
      /\ total + MaxTrials - 1 < MaxTrials * c + MaxTrials
  BY <1>1, DivBounds DEF Calls
<1> HIDE DEF c
<1>3. ASSUME NEW j \in Nat, j < c PROVE j * MaxTrials < total
  <2>1. (j + 1) * MaxTrials <= c * MaxTrials
    <3>1. \A a, b, f \in Nat : a <= b => a * f <= b * f
      OBVIOUS
    <3> QED BY <1>1, <1>2, <1>3, <3>1
  <2>2. (j + 1) * MaxTrials = j * MaxTrials + MaxTrials
    BY <1>1
  <2> QED BY <1>1, <1>2, <2>1, <2>2
<1>4. MaxTrials * c = c * MaxTrials /\ c * MaxTrials \in Nat
  BY <1>1, <1>2
<1> QED BY <1>1, <1>2, <1>3, <1>4 DEF c

\* What is drawn after the j-th call, and by the next one.
LEMMA CallDraws ==
    ASSUME NEW total \in Nat, NEW j \in Nat, j < Calls(total)
    PROVE  /\ GenerateTrials(total)[j + 1] \in Nat
           /\ Least(j * MaxTrials, total) + GenerateTrials(total)[j + 1]
                = Least((j + 1) * MaxTrials, total)
<1>1. MaxTrials \in Nat /\ MaxTrials # 0
  BY SearchAssumption
<1>2. j * MaxTrials < total /\ j * MaxTrials \in Nat /\ (j + 1) * MaxTrials = j * MaxTrials + MaxTrials
  BY <1>1, CallsEnough
<1>3. GenerateTrials(total)[j + 1] =
        IF (j + 1) * MaxTrials <= total THEN MaxTrials ELSE total % MaxTrials
  <2>1. j + 1 \in 1..Calls(total)
    BY CallsEnough
  <2> QED BY <2>1 DEF GenerateTrials, Calls
<1>4. CASE (j + 1) * MaxTrials <= total
  BY <1>1, <1>2, <1>3, <1>4 DEF Least
<1>5. CASE ~((j + 1) * MaxTrials <= total)
  <2>1. total % MaxTrials = total - j * MaxTrials
    <3> DEFINE r == total - j * MaxTrials
    <3>1. r \in 0..(MaxTrials - 1) /\ total = j * MaxTrials + r
      BY <1>1, <1>2, <1>5
    <3>2. \A m \in Nat \ {0} : \A q \in Nat : \A s \in 0..(m - 1) : (q * m + s) % m = s
      OBVIOUS
    <3> HIDE DEF r
    <3> QED BY <1>1, <3>1, <3>2 DEF r
  <2> QED BY <1>1, <1>2, <1>3, <1>5, <2>1 DEF Least
<1> QED BY <1>4, <1>5

Fields == {"phase", "ratio", "count", "trials", "seed", "hint", "diff", "found"}

\* The calls that are made of a search, of those that it began with, and what they
\* have drawn: the numbers that follow on the first seed.
Made == Calls(TotalTrials(search.count)) - Len(search.trials)
Remaining ==
    LET generated == GenerateTrials(TotalTrials(search.count)) IN
    /\ Made \in Nat
    /\ \A k \in 1..Len(search.trials) : search.trials[k] = generated[Made + k]
Successive ==
    \E s \in Nat : search.seed = s + Len(drawn) /\ \A k \in 1..Len(drawn) : drawn[k] = s + k

HintType ==
    /\ sorted \subseteq Row /\ DOMAIN search = Fields
    /\ search.phase \in {"idle", "first", "approx", "done"}
    /\ search.count \in Nat /\ search.trials \in Seq(Nat) /\ search.seed \in Nat /\ drawn \in Seq(Nat)

HintInv ==
    /\ HintType
    /\ search.phase = "idle" => drawn = <<>> /\ search.trials = <<>>
    /\ search.phase = "first" => search.ratio = Infinite
    /\ search.phase = "approx" =>
          /\ Remaining /\ Successive
          /\ Len(drawn) = Least(Made * MaxTrials, TotalTrials(search.count))
    /\ search.phase = "done" /\ search.ratio # Infinite /\ search.count > 0 =>
          Successive /\ Len(drawn) = TotalTrials(search.count)

LEMMA HintStart == HintInit => HintInv
  BY DEF HintInit, HintInv, HintType, NoSearch, Fields

\* What is generated first.
LEMMA GeneratedType ==
    ASSUME NEW total \in Nat
    PROVE  /\ GenerateTrials(total) \in Seq(Nat) /\ Len(GenerateTrials(total)) = Calls(total)
           /\ Calls(total) \in Nat
<1>1. Calls(total) \in Nat
  BY CallsEnough
<1>2. \A k \in 1..Calls(total) : GenerateTrials(total)[k] \in Nat
  <2> SUFFICES ASSUME NEW k \in 1..Calls(total) PROVE GenerateTrials(total)[k] \in Nat
    OBVIOUS
  <2>1. k - 1 \in Nat /\ k - 1 < Calls(total) /\ (k - 1) + 1 = k
    BY <1>1
  <2>2. GenerateTrials(total)[(k - 1) + 1] \in Nat
    BY <2>1, CallDraws
  <2> QED BY <2>1, <2>2
<1>3. DOMAIN GenerateTrials(total) = 1..Calls(total)
  BY DEF GenerateTrials, Calls
<1>4. GenerateTrials(total) = [k \in 1..Calls(total) |-> GenerateTrials(total)[k]]
  BY DEF GenerateTrials, Calls
<1> HIDE DEF GenerateTrials, Calls
<1>5. GenerateTrials(total) \in Seq(Nat)
  BY <1>1, <1>2, <1>4, SeqDef
<1> QED BY <1>1, <1>3, <1>5, LenProperties

LEMMA CountTrovesStep ==
    ASSUME HintInv, NEW ratio \in Ratio, NEW seed \in Seeds, CountTroves(ratio, seed)
    PROVE  HintInv'
<1> USE DEF HintInv, HintType
<1> DEFINE n == Cardinality(sorted)
<1> DEFINE start == [NoSearch EXCEPT !.ratio = ratio, !.count = n, !.seed = seed]
<1>1. n \in Nat /\ seed \in Nat
  BY SearchAssumption, FS_Subset, FS_CardinalityType
<1>2. /\ DOMAIN start = Fields /\ start.count = n /\ start.seed = seed /\ start.ratio = ratio
      /\ start.trials = <<>>
  BY DEF NoSearch, Fields
<1>3. /\ search.phase = "idle" /\ drawn = <<>> /\ UNCHANGED <<sorted, drawn, listChanges>>
      /\ search' = CASE n = 0 -> [start EXCEPT !.phase = "done"]
                     [] n # 0 /\ ratio = Infinite -> [start EXCEPT !.phase = "first"]
                     [] OTHER -> [start EXCEPT !.phase = "approx",
                                               !.trials = GenerateTrials(TotalTrials(n))]
  BY DEF CountTroves
<1> HIDE DEF n, start
<1>4. CASE n = 0
  <2>1. search' = [start EXCEPT !.phase = "done"]
    BY <1>3, <1>4
  <2>2. /\ DOMAIN search' = Fields /\ search'.phase = "done" /\ search'.count = 0
        /\ search'.seed = seed /\ search'.trials = <<>>
    BY <1>2, <1>4, <2>1 DEF Fields
  <2> QED BY <1>1, <1>3, <2>2
<1>5. CASE n # 0 /\ ratio = Infinite
  <2>1. search' = [start EXCEPT !.phase = "first"]
    BY <1>3, <1>5
  <2>2. /\ DOMAIN search' = Fields /\ search'.phase = "first" /\ search'.count = n
        /\ search'.seed = seed /\ search'.trials = <<>> /\ search'.ratio = Infinite
    BY <1>2, <1>5, <2>1 DEF Fields
  <2> QED BY <1>1, <1>3, <2>2
<1>6. CASE n # 0 /\ ratio # Infinite
  <2> DEFINE total == TotalTrials(n)
  <2> DEFINE generated == GenerateTrials(total)
  <2>1. search' = [start EXCEPT !.phase = "approx", !.trials = generated]
    BY <1>3, <1>6
  <2>2. total \in Nat /\ generated \in Seq(Nat) /\ Len(generated) = Calls(total) /\ Calls(total) \in Nat
    BY <1>1, TrialsType, GeneratedType
  <2> HIDE DEF generated
  <2>3. /\ DOMAIN search' = Fields /\ search'.phase = "approx" /\ search'.count = n
        /\ search'.seed = seed /\ search'.trials = generated
    BY <1>2, <2>1 DEF Fields
  <2>4. Made' = 0
    BY <2>2, <2>3 DEF Made
  <2>5. Remaining'
    <3>1. \A k \in 1..Len(generated) : generated[k] = generated[0 + k]
      OBVIOUS
    <3> QED BY <2>3, <2>4, <3>1 DEF Remaining, generated
  <2>6. Successive' /\ Len(drawn') = 0
    BY <1>1, <1>3, <2>3 DEF Successive
  <2>7. Least(0 * MaxTrials, total) = 0
    BY <2>2, SearchAssumption DEF Least
  <2> QED BY <1>1, <1>3, <2>2, <2>3, <2>4, <2>5, <2>6, <2>7
<1> QED BY <1>4, <1>5, <1>6

\* One call: its numbers follow on those before.
LEMMA ApproxStep == ASSUME HintInv, Approx PROVE HintInv'
<1> USE DEF HintInv, HintType
<1> DEFINE n == Head(search.trials)
<1> DEFINE total == TotalTrials(search.count)
<1> DEFINE more == [k \in 1..n |-> search.seed + k]
<1>1. search.phase = "approx" /\ search.trials # <<>> /\ drawn' = drawn \o more /\ sorted' = sorted
  BY DEF Approx
<1>2. /\ n \in Nat /\ n = search.trials[1] /\ Tail(search.trials) \in Seq(Nat)
      /\ Len(search.trials) \in Nat \ {0} /\ Len(Tail(search.trials)) = Len(search.trials) - 1
      /\ \A k \in 1..(Len(search.trials) - 1) : Tail(search.trials)[k] = search.trials[k + 1]
  BY <1>1
<1>3. /\ DOMAIN search' = Fields /\ search'.phase = "approx" /\ search'.count = search.count
      /\ search'.trials = Tail(search.trials) /\ search'.seed = search.seed + n
  <2>1. CASE search' = [search EXCEPT !.trials = Tail(@), !.seed = NextSeed(@, n)]
    BY <1>1, <2>1 DEF Fields, NextSeed
  <2>2. ASSUME NEW h, NEW d,
               search' = [search EXCEPT !.trials = Tail(@), !.seed = NextSeed(@, n), !.hint = h, !.diff = d]
        PROVE  /\ DOMAIN search' = Fields /\ search'.phase = "approx" /\ search'.count = search.count
               /\ search'.trials = Tail(search.trials) /\ search'.seed = search.seed + n
    BY <1>1, <2>2 DEF Fields, NextSeed
  <2>3. \/ search' = [search EXCEPT !.trials = Tail(@), !.seed = NextSeed(@, n)]
        \/ \E h, d : search' = [search EXCEPT !.trials = Tail(@), !.seed = NextSeed(@, n),
                                              !.hint = h, !.diff = d]
    <3> SUFFICES ASSUME NEW r \in sorted,
                        LET diff == Abs(r - search.ratio)
                            nearer == search.diff = NoRow \/ diff <= search.diff
                        IN search' = [search EXCEPT !.trials = Tail(@), !.seed = NextSeed(@, n),
                                                    !.hint = IF nearer THEN r ELSE @,
                                                    !.diff = IF nearer THEN diff ELSE @]
                 PROVE  \E h, d : search' = [search EXCEPT !.trials = Tail(@), !.seed = NextSeed(@, n),
                                                           !.hint = h, !.diff = d]
      BY DEF Approx
    <3> QED OBVIOUS
  <2> QED BY <2>1, <2>2, <2>3
<1>4. more \in Seq(Nat) /\ Len(more) = n /\ \A k \in 1..n : more[k] = search.seed + k
  <2>1. n \in Nat /\ search.seed \in Nat
    BY <1>2
  <2> HIDE DEF n
  <2> QED BY <2>1
<1> HIDE DEF more
<1>5. /\ drawn' \in Seq(Nat) /\ Len(drawn') = Len(drawn) + n
      /\ \A k \in 1..Len(drawn) : drawn'[k] = drawn[k]
      /\ \A k \in (Len(drawn) + 1)..(Len(drawn) + n) : drawn'[k] = search.seed + (k - Len(drawn))
  <2>1. n \in Nat /\ drawn \in Seq(Nat) /\ drawn' = drawn \o more
    BY <1>1, <1>2
  <2>2. ASSUME NEW a \in Seq(Nat), NEW b \in Seq(Nat)
        PROVE  /\ a \o b \in Seq(Nat) /\ Len(a \o b) = Len(a) + Len(b)
               /\ \A k \in 1..Len(a) : (a \o b)[k] = a[k]
               /\ \A k \in (Len(a) + 1)..(Len(a) + Len(b)) : (a \o b)[k] = b[k - Len(a)]
    OBVIOUS
  <2> HIDE DEF n
  <2>3. /\ drawn' \in Seq(Nat) /\ Len(drawn') = Len(drawn) + n
        /\ \A k \in 1..Len(drawn) : drawn'[k] = drawn[k]
        /\ \A k \in (Len(drawn) + 1)..(Len(drawn) + n) : drawn'[k] = more[k - Len(drawn)]
    <3> DEFINE a == drawn
    <3>1. a \in Seq(Nat) /\ more \in Seq(Nat) /\ Len(more) = n /\ drawn' = a \o more
      BY <1>4, <2>1
    <3> HIDE DEF a
    <3>2. /\ a \o more \in Seq(Nat) /\ Len(a \o more) = Len(a) + Len(more)
          /\ \A k \in 1..Len(a) : (a \o more)[k] = a[k]
          /\ \A k \in (Len(a) + 1)..(Len(a) + Len(more)) : (a \o more)[k] = more[k - Len(a)]
      BY <2>2, <3>1
    <3>3. /\ drawn' \in Seq(Nat) /\ Len(drawn') = Len(a) + n
          /\ \A k \in 1..Len(a) : drawn'[k] = a[k]
          /\ \A k \in (Len(a) + 1)..(Len(a) + n) : drawn'[k] = more[k - Len(a)]
      BY <3>1, <3>2
    <3> QED BY <3>3 DEF a
  <2>4. \A k \in (Len(drawn) + 1)..(Len(drawn) + n) : k - Len(drawn) \in 1..n
    BY <2>1
  <2> QED BY <1>4, <2>3, <2>4
<1> HIDE DEF n
<1>6. Successive'
  <2>1. PICK s \in Nat : search.seed = s + Len(drawn) /\ \A k \in 1..Len(drawn) : drawn[k] = s + k
    BY <1>1 DEF Successive
  <2>2. search'.seed = s + Len(drawn')
    BY <1>2, <1>3, <1>5, <2>1
  <2>3. ASSUME NEW k \in 1..Len(drawn') PROVE drawn'[k] = s + k
    <3>1. CASE k \in 1..Len(drawn)
      BY <1>5, <2>1, <3>1
    <3>2. CASE k \notin 1..Len(drawn)
      <4>1. k \in (Len(drawn) + 1)..(Len(drawn) + n)
        BY <1>2, <1>5, <3>2
      <4>2. drawn'[k] = search.seed + (k - Len(drawn))
        BY <1>5, <4>1
      <4> QED BY <2>1, <4>2
    <3> QED BY <3>1, <3>2
  <2> QED BY <2>2, <2>3 DEF Successive
<1>7. /\ Remaining /\ total \in Nat /\ Calls(total) \in Nat /\ Made < Calls(total)
      /\ Made' = Made + 1 /\ n = GenerateTrials(total)[Made + 1]
  <2>1. Remaining /\ total \in Nat /\ Calls(total) \in Nat
    BY <1>1, TrialsType, CallsEnough
  <2> HIDE DEF total
  <2>2. Made = Calls(total) - Len(search.trials) /\ Made' = Calls(total) - (Len(search.trials) - 1)
    BY <1>2, <1>3 DEF Made, total
  <2>3. search.trials[1] = GenerateTrials(total)[Made + 1]
    BY <1>2, <2>1 DEF Remaining, total
  <2> QED BY <1>2, <2>1, <2>2, <2>3
<1>8. Remaining'
  <2> HIDE DEF total
  <2>1. ASSUME NEW k \in 1..Len(search'.trials)
        PROVE  search'.trials[k] = GenerateTrials(total)[Made' + k]
    <3>1. search'.trials[k] = search.trials[k + 1] /\ k + 1 \in 1..Len(search.trials)
      BY <1>2, <1>3
    <3>2. search.trials[k + 1] = GenerateTrials(total)[Made + (k + 1)]
      BY <1>7, <3>1 DEF Remaining, total
    <3>3. Made + (k + 1) = Made' + k
      BY <1>2, <1>3, <1>7 DEF Remaining
    <3> QED BY <3>1, <3>2, <3>3
  <2> QED BY <1>3, <1>7, <2>1 DEF Remaining, total
<1>9. Len(drawn') = Least(Made' * MaxTrials, total)
  <2>1. Made \in Nat
    BY <1>7 DEF Remaining
  <2> QED BY <1>1, <1>5, <1>7, <2>1, CallDraws
<1>10. HintType'
  BY <1>1, <1>2, <1>3, <1>5
<1>11. Len(drawn') = Least(Made' * MaxTrials, TotalTrials(search'.count))
  BY <1>3, <1>9
<1> HIDE DEF HintType, total
<1> QED BY <1>3, <1>6, <1>8, <1>10, <1>11

LEMMA OverStep == ASSUME HintInv, First \/ Insert PROVE HintInv'
<1> USE DEF HintInv, HintType
<1>1. PICK f : search' = [search EXCEPT !.phase = "done", !.found = f]
  BY DEF First, Insert
<1>2. /\ DOMAIN search' = Fields /\ search'.phase = "done" /\ search'.ratio = search.ratio
      /\ search'.count = search.count /\ search'.trials = search.trials /\ search'.seed = search.seed
  BY <1>1 DEF Fields
<1>3. UNCHANGED <<sorted, drawn>>
  BY DEF First, Insert
<1>4. CASE First
  BY <1>2, <1>3, <1>4 DEF First
<1>5. CASE Insert
  <2> DEFINE total == TotalTrials(search.count)
  <2>1. search.phase = "approx" /\ search.trials = <<>>
    BY <1>5 DEF Insert
  <2>2. total \in Nat /\ Calls(total) \in Nat /\ Calls(total) * MaxTrials >= total
    BY TrialsType, CallsEnough
  <2>3. Made = Calls(total)
    BY <2>1, <2>2 DEF Made
  <2>4. Calls(total) * MaxTrials \in Nat
    BY <2>2, SearchAssumption
  <2>5. Len(drawn) = total
    BY <2>1, <2>2, <2>3, <2>4 DEF Least
  <2>6. Successive'
    BY <1>2, <1>3, <2>1 DEF Successive
  <2> QED BY <1>2, <1>3, <2>5, <2>6
<1> QED BY <1>4, <1>5

LEMMA HintStep == HintInv /\ [HintNext]_hintVars => HintInv'
<1> SUFFICES ASSUME HintInv, [HintNext]_hintVars PROVE HintInv'
  OBVIOUS
<1>1. ASSUME NEW ratio \in Ratio, NEW seed \in Seeds, CountTroves(ratio, seed) PROVE HintInv'
  BY <1>1, CountTrovesStep
<1>2. CASE Approx
  BY <1>2, ApproxStep
<1>3. CASE First \/ Insert
  BY <1>3, OverStep
<1>4. CASE UNCHANGED <<search, drawn>> /\ sorted' \subseteq Row
  BY <1>4 DEF HintInv, HintType, Remaining, Made, Successive
<1>5. ASSUME NEW r \in Row, ListChanges(r) PROVE UNCHANGED <<search, drawn>> /\ sorted' \subseteq Row
  BY <1>5 DEF ListChanges, HintInv, HintType
<1>6. UNCHANGED hintVars => UNCHANGED <<search, drawn>> /\ sorted' \subseteq Row
  BY DEF hintVars, HintInv, HintType
<1> QED BY <1>1, <1>2, <1>3, <1>4, <1>5, <1>6 DEF HintNext

\* Numbers that follow on each other are different.
LEMMA AllDifferent ==
    ASSUME drawn \in Seq(Nat), Successive
    PROVE  Cardinality({drawn[k] : k \in 1..Len(drawn)}) = Len(drawn)
<1>1. PICK s \in Nat : \A k \in 1..Len(drawn) : drawn[k] = s + k
  BY DEF Successive
<1>2. {drawn[k] : k \in 1..Len(drawn)} = (s + 1)..(s + Len(drawn))
  <2> DEFINE n == Len(drawn)
  <2>1. n \in Nat /\ \A k \in 1..n : drawn[k] = s + k
    BY <1>1
  <2> HIDE DEF n
  <2>2. ASSUME NEW x \in (s + 1)..(s + n) PROVE \E k \in 1..n : x = drawn[k]
    <3>1. x - s \in 1..n /\ x = s + (x - s)
      BY <2>1
    <3> QED BY <2>1, <3>1
  <2>3. ASSUME NEW k \in 1..n PROVE drawn[k] \in (s + 1)..(s + n)
    <3>1. drawn[k] = s + k /\ k \in Int /\ 1 <= k /\ k <= n
      BY <2>1
    <3> QED BY <2>1, <3>1
  <2>4. {drawn[k] : k \in 1..n} = (s + 1)..(s + n)
    BY <2>2, <2>3
  <2> QED BY <2>4 DEF n
<1>3. Len(drawn) \in Nat /\ s + 1 \in Int /\ s + Len(drawn) \in Int
  OBVIOUS
<1>4. Cardinality((s + 1)..(s + Len(drawn))) =
        IF s + 1 > s + Len(drawn) THEN 0 ELSE s + Len(drawn) - (s + 1) + 1
  <2> DEFINE a == s + 1
  <2> DEFINE b == s + Len(drawn)
  <2>1. a \in Int /\ b \in Int
    BY <1>3
  <2> HIDE DEF a, b
  <2>2. Cardinality(a..b) = IF a > b THEN 0 ELSE b - a + 1
    BY <2>1, FS_Interval
  <2> QED BY <2>2 DEF a, b
<1>5. (IF s + 1 > s + Len(drawn) THEN 0 ELSE s + Len(drawn) - (s + 1) + 1) = Len(drawn)
  BY <1>3
<1> QED BY <1>2, <1>4, <1>5

\* A search that is over has drawn as many random numbers as the number of troves
\* calls for, in however many calls, and none of them twice.
THEOREM SearchDrawsEnough == HintSpec => []DrawsEnough
<1>1. HintInv => DrawsEnough
  BY AllDifferent DEF HintInv, HintType, DrawsEnough
<1> QED BY <1>1, HintStart, HintStep, PTL DEF HintSpec

-----------------------------------------------------------------------------
(* Redemption: recursion over the list of troves *)

ListedTrove == [trove : STRING, net : Nat]

\* A function is determined by where it starts and how it goes on.
Follows(g, n, S, s0, F) ==
    g \in [0..n -> S] /\ g[0] = s0 /\ \A k \in 1..n : g[k] = F[<<k, g[k - 1]>>]

LEMMA RecursionExists ==
    ASSUME NEW n \in Nat, NEW S, NEW s0 \in S, NEW F \in [(1..n) \X S -> S]
    PROVE  \E g : Follows(g, n, S, s0, F)
<1> DEFINE Solves(g, m) == g[0] = s0 /\ \A k \in 1..m : g[k] = F[<<k, g[k - 1]>>]
           Bad == {m \in 0..n : ~ \E g \in [0..m -> S] : Solves(g, m)}
<1>1. Bad = {}
  <2> SUFFICES ASSUME Bad # {} PROVE FALSE
    OBVIOUS
  <2>1. PICK m \in Bad : \A k \in Bad : m <= k
    <3>1. Bad \in SUBSET Nat
      OBVIOUS
    <3> HIDE DEF Bad
    <3> QED BY <3>1, LeastElement
  <2>2. CASE m = 0
    <3> DEFINE g == [k \in 0..0 |-> s0]
    <3>1. g \in [0..0 -> S] /\ g[0] = s0 /\ 1..0 = {}
      OBVIOUS
    <3> QED BY <2>1, <2>2, <3>1
  <2>3. CASE m # 0
    <3>1. m \in 1..n /\ m - 1 \in 0..n /\ m - 1 \notin Bad
      <4>1. m \in 1..n /\ m - 1 \in 0..n /\ ~(m <= m - 1)
        BY <2>1, <2>3
      <4> HIDE DEF Bad
      <4> QED BY <2>1, <4>1
    <3>2. PICK h \in [0..(m - 1) -> S] : Solves(h, m - 1)
      BY <3>1
    <3> DEFINE last == F[<<m, h[m - 1]>>]
               g == [k \in 0..m |-> IF k = m THEN last ELSE h[k]]
    <3>3. last \in S
      BY <3>1
    <3> HIDE DEF last
    <3>4. g \in [0..m -> S]
      BY <3>1, <3>3
    <3>5. g[0] = s0
      BY <3>1, <3>2
    <3>6. ASSUME NEW k \in 1..m PROVE g[k] = F[<<k, g[k - 1]>>]
      <4>1. CASE k = m
        <5>1. g[k] = last /\ g[k - 1] = h[m - 1]
          BY <3>1, <4>1
        <5> QED BY <4>1, <5>1 DEF last
      <4>2. CASE k # m
        <5>1. k \in 1..(m - 1) /\ g[k] = h[k] /\ g[k - 1] = h[k - 1]
          BY <3>1, <4>2
        <5> QED BY <3>2, <5>1
      <4> QED BY <4>1, <4>2
    <3> HIDE DEF g
    <3>7. Solves(g, m)
      BY <3>5, <3>6
    <3> QED BY <2>1, <3>4, <3>7
  <2> QED BY <2>2, <2>3
<1>2. \E g \in [0..n -> S] : Solves(g, n)
  <2>1. n \in 0..n
    OBVIOUS
  <2> QED BY <1>1, <2>1
<1> QED BY <1>2 DEF Follows

\* The total debt is a sum over the troves.
IsSum(list, sum) ==
    /\ sum \in [0..Len(list) -> Nat] /\ sum[0] = 0
    /\ \A k \in 1..Len(list) : sum[k] = sum[k - 1] + list[k].net + Reserve

LEMMA TotalDebtSum ==
    ASSUME NEW list \in Seq(ListedTrove)
    PROVE  \E sum : IsSum(list, sum) /\ TotalDebt(list) = sum[Len(list)]
<1> DEFINE n == Len(list)
           F == [e \in (1..n) \X Nat |-> e[2] + list[e[1]].net + Reserve]
<1>1. n \in Nat /\ Reserve \in Nat /\ \A k \in 1..n : list[k] \in ListedTrove
  BY RedemptionAssumption
<1>2. \A k \in 1..n : list[k].net \in Nat
  BY <1>1 DEF ListedTrove
<1>3. F \in [(1..n) \X Nat -> Nat]
  BY <1>1, <1>2
<1>4. \A k \in 1..n, v \in Nat : F[<<k, v>>] = v + list[k].net + Reserve
  OBVIOUS
<1> HIDE DEF F
<1>5. PICK g \in [0..n -> Nat] : g[0] = 0 /\ \A k \in 1..n : g[k] = F[<<k, g[k - 1]>>]
  <2> DEFINE S == Nat
             s0 == 0
  <2>1. n \in Nat /\ s0 \in S /\ F \in [(1..n) \X S -> S]
    BY <1>1, <1>3
  <2> HIDE DEF n, S, s0
  <2>2. \E g : Follows(g, n, S, s0, F)
    BY <2>1, RecursionExists
  <2> QED BY <2>2 DEF S, s0, Follows
<1>6. IsSum(list, g)
  <2>1. \A k \in 1..n : k - 1 \in 0..n
    BY <1>1
  <2> QED BY <1>4, <1>5, <2>1 DEF IsSum
<1> DEFINE sum == CHOOSE s : s = [k \in 0..n |-> IF k = 0 THEN 0 ELSE s[k - 1] + list[k].net + Reserve]
<1>7. g = [k \in 0..n |-> IF k = 0 THEN 0 ELSE g[k - 1] + list[k].net + Reserve]
  <2>1. \A k \in 0..n : g[k] = IF k = 0 THEN 0 ELSE g[k - 1] + list[k].net + Reserve
    <3>1. \A k \in 0..n : k = 0 \/ k \in 1..n
      BY <1>1
    <3> QED BY <1>6, <3>1 DEF IsSum
  <2> QED BY <2>1
<1>8. sum = [k \in 0..n |-> IF k = 0 THEN 0 ELSE sum[k - 1] + list[k].net + Reserve]
  BY <1>7
<1>9. TotalDebt(list) = sum[n]
  BY DEF TotalDebt
<1> HIDE DEF sum
<1>10. IsSum(list, sum)
  <2>1. \A k \in 0..n : sum[k] = IF k = 0 THEN 0 ELSE sum[k - 1] + list[k].net + Reserve
    BY <1>8
  <2>2. sum[0] = 0 /\ \A k \in 1..n : sum[k] = sum[k - 1] + list[k].net + Reserve
    BY <1>1, <2>1
  <2> DEFINE Bad == {k \in 0..n : sum[k] \notin Nat}
  <2>3. Bad = {}
    <3> SUFFICES ASSUME Bad # {} PROVE FALSE
      OBVIOUS
    <3>1. PICK m \in Bad : \A k \in Bad : m <= k
      <4>1. Bad \in SUBSET Nat
        OBVIOUS
      <4> HIDE DEF Bad
      <4> QED BY <4>1, LeastElement
    <3>2. m # 0
      BY <2>2, <3>1
    <3>3. m \in 1..n /\ m - 1 \in 0..n /\ m - 1 \notin Bad
      BY <3>1, <3>2
    <3>4. sum[m - 1] \in Nat /\ list[m].net \in Nat /\ sum[m] \notin Nat
      BY <1>2, <3>1, <3>3
    <3>5. sum[m] = sum[m - 1] + list[m].net + Reserve
      BY <2>2, <3>3
    <3>6. Reserve \in Nat
      BY <1>1
    <3> HIDE DEF n, Bad
    <3>7. sum[m - 1] + list[m].net + Reserve \in Nat
      BY <3>4, <3>6
    <3> QED BY <3>4, <3>5, <3>7
  <2>4. sum \in [0..n -> Nat]
    BY <1>8, <2>3
  <2> QED BY <2>2, <2>4 DEF IsSum
<1> QED BY <1>9, <1>10

LEMMA TotalDebtType == ASSUME NEW list \in Seq(ListedTrove) PROVE TotalDebt(list) \in Nat
<1>1. PICK a : IsSum(list, a) /\ TotalDebt(list) = a[Len(list)]
  BY TotalDebtSum
<1>2. Len(list) \in 0..Len(list)
  OBVIOUS
<1> QED BY <1>1, <1>2 DEF IsSum

\* It grows with each of the debts.
LEMMA TotalDebtGrows ==
    ASSUME NEW list \in Seq(ListedTrove), NEW more \in Seq(ListedTrove), Len(more) = Len(list),
           \A k \in 1..Len(list) : list[k].net <= more[k].net
    PROVE  /\ TotalDebt(list) \in Nat /\ TotalDebt(more) \in Nat
           /\ TotalDebt(list) <= TotalDebt(more)
<1>1. PICK a : IsSum(list, a) /\ TotalDebt(list) = a[Len(list)]
  BY TotalDebtSum
<1>2. PICK b : IsSum(more, b) /\ TotalDebt(more) = b[Len(list)]
  BY TotalDebtSum
<1> DEFINE n == Len(list)
           Bad == {k \in 0..n : ~(a[k] <= b[k])}
<1>3. n \in Nat /\ Reserve \in Nat
  BY RedemptionAssumption
<1>4. Bad = {}
  <2> SUFFICES ASSUME Bad # {} PROVE FALSE
    OBVIOUS
  <2>1. PICK m \in Bad : \A k \in Bad : m <= k
    <3>1. Bad \in SUBSET Nat
      OBVIOUS
    <3> HIDE DEF Bad
    <3> QED BY <3>1, LeastElement
  <2>2. m # 0
    BY <1>1, <1>2, <2>1 DEF IsSum
  <2>3. m \in 1..n /\ m - 1 \in 0..n /\ m - 1 \notin Bad
    BY <2>1, <2>2
  <2>4. /\ a[m] = a[m - 1] + list[m].net + Reserve /\ b[m] = b[m - 1] + more[m].net + Reserve
        /\ a[m - 1] \in Nat /\ b[m - 1] \in Nat
    BY <1>1, <1>2, <2>3 DEF IsSum
  <2>5. list[m].net \in Nat /\ more[m].net \in Nat /\ list[m].net <= more[m].net
    <3>1. list[m] \in ListedTrove /\ more[m] \in ListedTrove
      BY <2>3
    <3> QED BY <2>3, <3>1 DEF ListedTrove
  <2>6. a[m - 1] <= b[m - 1]
    BY <2>3
  <2>7. a[m] <= b[m]
    BY <1>3, <2>4, <2>5, <2>6
  <2> QED BY <2>1, <2>7
<1>5. a[n] <= b[n] /\ a[n] \in Nat /\ b[n] \in Nat
  <2>1. n \in 0..n /\ n \notin Bad
    BY <1>3, <1>4
  <2> QED BY <1>1, <1>2, <2>1 DEF IsSum
<1> QED BY <1>1, <1>2, <1>5

\* It is nothing only if there is no trove.
LEMMA TotalDebtPositive ==
    ASSUME NEW list \in Seq(ListedTrove), TotalDebt(list) = 0
    PROVE  Len(list) = 0
<1>1. PICK a : IsSum(list, a) /\ TotalDebt(list) = a[Len(list)]
  BY TotalDebtSum
<1> DEFINE n == Len(list)
<1> SUFFICES ASSUME n # 0 PROVE FALSE
  OBVIOUS
<1>2. n \in 1..n /\ n - 1 \in 0..n /\ Reserve \in Nat /\ Reserve # 0
  BY RedemptionAssumption
<1>3. list[n].net \in Nat
  <2>1. list[n] \in ListedTrove
    BY <1>2
  <2> QED BY <2>1 DEF ListedTrove
<1>4. a[n] = a[n - 1] + list[n].net + Reserve /\ a[n - 1] \in Nat
  BY <1>1, <1>2 DEF IsSum
<1> QED BY <1>1, <1>2, <1>3, <1>4

-----------------------------------------------------------------------------
(* Redemption: the walk along the list *)

WalkState == [rest : Nat, at : Nat]
WalkEnd(list) == Least(Len(list), MaxIterations)
WalkNext(list, s, k) ==
    IF s.at # 0 \/ s.rest = 0 THEN s
    ELSE IF list[k].net <= s.rest THEN [s EXCEPT !.rest = @ - list[k].net]
    ELSE [s EXCEPT !.at = k]

\* The states of a walk with an amount.
IsWalk(list, amount, step) ==
    /\ step \in [0..WalkEnd(list) -> WalkState]
    /\ step[0] = [rest |-> amount, at |-> 0]
    /\ \A k \in 1..WalkEnd(list) : step[k] = WalkNext(list, step[k - 1], k)

\* A list as the contracts keep it.
Listed(list) ==
    /\ list \in Seq(ListedTrove)
    /\ \A k \in 1..Len(list) : list[k].net >= LeastNetDebt

LEMMA WalkEndType ==
    ASSUME NEW list, Listed(list)
    PROVE  /\ WalkEnd(list) \in Nat /\ WalkEnd(list) <= Len(list) /\ Len(list) \in Nat
           /\ \A k \in 1..WalkEnd(list) :
                 list[k] \in ListedTrove /\ list[k].net \in Nat /\ list[k].net >= 1
<1>1. Len(list) \in Nat /\ MaxIterations \in Nat /\ LeastNetDebt \in Nat /\ LeastNetDebt # 0
  BY RedemptionAssumption DEF Listed
<1>2. WalkEnd(list) \in Nat /\ WalkEnd(list) <= Len(list)
  BY <1>1 DEF WalkEnd, Least
<1>3. ASSUME NEW k \in 1..WalkEnd(list)
      PROVE  list[k] \in ListedTrove /\ list[k].net \in Nat /\ list[k].net >= 1
  <2>1. k \in 1..Len(list)
    BY <1>1, <1>2
  <2>2. list[k] \in ListedTrove /\ list[k].net >= LeastNetDebt
    BY <2>1 DEF Listed
  <2>3. list[k].net \in Nat
    BY <2>2 DEF ListedTrove
  <2> QED BY <1>1, <2>2, <2>3
<1> QED BY <1>1, <1>2, <1>3

\* A step of the walk.
LEMMA WalkNextType ==
    ASSUME NEW list, Listed(list), NEW k \in 1..WalkEnd(list), NEW s \in WalkState
    PROVE  /\ WalkNext(list, s, k) \in WalkState
           /\ WalkNext(list, s, k).rest <= s.rest
           /\ s.at # 0 \/ s.rest = 0 => WalkNext(list, s, k) = s
           /\ s.at = 0 /\ s.rest # 0 /\ list[k].net <= s.rest =>
                 WalkNext(list, s, k) = [rest |-> s.rest - list[k].net, at |-> 0]
           /\ s.at = 0 /\ s.rest # 0 /\ ~(list[k].net <= s.rest) =>
                 WalkNext(list, s, k) = [rest |-> s.rest, at |-> k]
<1>1. list[k].net \in Nat /\ k \in Nat
  BY WalkEndType
<1>2. s.rest \in Nat /\ s.at \in Nat /\ s = [rest |-> s.rest, at |-> s.at]
  BY DEF WalkState
<1>3. CASE s.at # 0 \/ s.rest = 0
  BY <1>2, <1>3 DEF WalkNext
<1>4. CASE s.at = 0 /\ s.rest # 0 /\ list[k].net <= s.rest
  <2>1. WalkNext(list, s, k) = [rest |-> s.rest - list[k].net, at |-> 0]
    BY <1>2, <1>4 DEF WalkNext
  <2>2. s.rest - list[k].net \in Nat /\ s.rest - list[k].net <= s.rest
    BY <1>1, <1>2, <1>4
  <2> QED BY <1>4, <2>1, <2>2 DEF WalkState
<1>5. CASE s.at = 0 /\ s.rest # 0 /\ ~(list[k].net <= s.rest)
  <2>1. WalkNext(list, s, k) = [rest |-> s.rest, at |-> k]
    BY <1>2, <1>5 DEF WalkNext
  <2> QED BY <1>1, <1>2, <1>5, <2>1 DEF WalkState
<1> QED BY <1>3, <1>4, <1>5

LEMMA WalkSteps ==
    ASSUME NEW list, Listed(list), NEW amount \in Nat
    PROVE  \E step : IsWalk(list, amount, step) /\ Walk(list, amount) = step[WalkEnd(list)]
<1> DEFINE n == WalkEnd(list)
           S == WalkState
           s0 == [rest |-> amount, at |-> 0]
           F == [e \in (1..n) \X S |-> WalkNext(list, e[2], e[1])]
<1>1. n \in Nat /\ s0 \in S
  BY WalkEndType DEF WalkState
<1>2. \A k \in 1..n, s \in S : WalkNext(list, s, k) \in S
  BY WalkNextType
<1>3. F \in [(1..n) \X S -> S]
  BY <1>2
<1>4. \A k \in 1..n, v \in S : F[<<k, v>>] = WalkNext(list, v, k)
  OBVIOUS
<1> HIDE DEF F, S, s0, n
<1>5. PICK g : Follows(g, n, S, s0, F)
  BY <1>1, <1>3, RecursionExists
<1>6. \A k \in 0..n : k = 0 \/ (k \in 1..n /\ k - 1 \in 0..n)
  BY <1>1
<1>7. g = [k \in 0..n |-> IF k = 0 THEN s0 ELSE WalkNext(list, g[k - 1], k)]
  <2>1. \A k \in 1..n : k - 1 \in 0..n /\ k # 0
    BY <1>1
  <2>2. \A k \in 0..n : g[k] = IF k = 0 THEN s0 ELSE WalkNext(list, g[k - 1], k)
    BY <1>4, <1>5, <1>6, <2>1 DEF Follows
  <2> QED BY <1>5, <2>2 DEF Follows
<1> DEFINE step == CHOOSE f : f = [k \in 0..n |-> IF k = 0 THEN s0 ELSE WalkNext(list, f[k - 1], k)]
<1>8. step = [k \in 0..n |-> IF k = 0 THEN s0 ELSE WalkNext(list, step[k - 1], k)]
  BY <1>7
<1>9. Walk(list, amount) = step[n]
  BY DEF Walk, WalkNext, WalkEnd, n, s0
<1> HIDE DEF step
<1>10. IsWalk(list, amount, step)
  <2>1. \A k \in 0..n : step[k] = IF k = 0 THEN s0 ELSE WalkNext(list, step[k - 1], k)
    BY <1>8
  <2>2. step[0] = s0 /\ \A k \in 1..n : step[k] = WalkNext(list, step[k - 1], k)
    <3>1. 0 \in 0..n /\ \A k \in 1..n : k \in 0..n /\ k # 0
      BY <1>1
    <3> QED BY <2>1, <3>1
  <2> DEFINE Bad == {k \in 0..n : step[k] \notin S}
  <2>3. Bad = {}
    <3> SUFFICES ASSUME Bad # {} PROVE FALSE
      OBVIOUS
    <3>1. PICK m \in Bad : \A k \in Bad : m <= k
      <4>1. Bad \in SUBSET Nat
        OBVIOUS
      <4> HIDE DEF Bad
      <4> QED BY <4>1, LeastElement
    <3>2. m # 0
      BY <1>1, <2>2, <3>1
    <3>3. m \in 1..n /\ m - 1 \in 0..n /\ m - 1 \notin Bad
      BY <1>1, <3>1, <3>2
    <3>4. step[m - 1] \in S /\ step[m] \notin S
      BY <3>1, <3>3
    <3>5. step[m] = WalkNext(list, step[m - 1], m)
      BY <2>2, <3>3
    <3> QED BY <1>2, <3>3, <3>4, <3>5
  <2>4. step \in [0..n -> S]
    BY <1>8, <2>3
  <2> QED BY <2>2, <2>4 DEF IsWalk, n, S, s0
<1> QED BY <1>9, <1>10 DEF n

\* Once it has ended, or nothing is left, nothing changes any more; the rest never
\* grows.
LEMMA WalkStays ==
    ASSUME NEW list, Listed(list), NEW amount \in Nat, NEW f, IsWalk(list, amount, f),
           NEW i \in 0..WalkEnd(list), NEW j \in i..WalkEnd(list)
    PROVE  /\ f[j].rest <= f[i].rest
           /\ f[i].at # 0 \/ f[i].rest = 0 => f[j] = f[i]
<1> DEFINE n == WalkEnd(list)
           Good(m) == f[m].rest <= f[i].rest /\ (f[i].at # 0 \/ f[i].rest = 0 => f[m] = f[i])
           Bad == {m \in i..n : ~Good(m)}
<1>1. n \in Nat /\ \A m \in 0..n : f[m] \in WalkState /\ f[m].rest \in Nat
  BY WalkEndType DEF IsWalk, WalkState
<1>2. Bad = {}
  <2> SUFFICES ASSUME Bad # {} PROVE FALSE
    OBVIOUS
  <2>1. PICK m \in Bad : \A k \in Bad : m <= k
    <3>1. Bad \in SUBSET Nat
      OBVIOUS
    <3> HIDE DEF Bad
    <3> QED BY <3>1, LeastElement
  <2>2. m # i
    BY <1>1, <2>1
  <2>3. m - 1 \in i..n /\ m - 1 \in 0..n /\ m \in 1..n /\ m - 1 \notin Bad
    BY <1>1, <2>1, <2>2
  <2>4. Good(m - 1)
    BY <2>3
  <2>5. f[m] = WalkNext(list, f[m - 1], m)
    BY <2>3 DEF IsWalk
  <2>6. /\ f[m].rest <= f[m - 1].rest
        /\ f[m - 1].at # 0 \/ f[m - 1].rest = 0 => f[m] = f[m - 1]
    BY <1>1, <2>3, <2>5, WalkNextType
  <2>7. f[m].rest \in Nat /\ f[m - 1].rest \in Nat /\ f[i].rest \in Nat
    BY <1>1, <2>3
  <2>8. Good(m)
    BY <2>4, <2>6, <2>7
  <2> QED BY <2>1, <2>8
<1>3. j \in i..n /\ j \notin Bad
  BY <1>2
<1> QED BY <1>3

\* Where it has ended, a trove is larger than what was left.
LEMMA WalkStops ==
    ASSUME NEW list, Listed(list), NEW amount \in Nat, NEW f, IsWalk(list, amount, f),
           NEW w, w = f[WalkEnd(list)], w.at # 0
    PROVE  /\ w.at \in 1..WalkEnd(list) /\ w.rest > 0 /\ w.rest < list[w.at].net
           /\ f[w.at - 1] = [rest |-> w.rest, at |-> 0]
<1> DEFINE n == WalkEnd(list)
           T == {m \in 0..n : f[m].at # 0}
<1>1. n \in Nat /\ n \in 0..n /\ \A m \in 0..n : f[m] \in WalkState
  <2>1. n \in Nat
    BY WalkEndType
  <2>2. f \in [0..n -> WalkState]
    BY DEF IsWalk
  <2> HIDE DEF n
  <2> QED BY <2>1, <2>2
<1>2. PICK m \in T : \A k \in T : m <= k
  <2>1. T \in SUBSET Nat /\ T # {}
    BY <1>1
  <2> HIDE DEF T
  <2> QED BY <2>1, LeastElement
<1>3. m # 0
  BY <1>2 DEF IsWalk
<1>4. m \in 1..n /\ m - 1 \in 0..n /\ m - 1 \notin T /\ n \in m..n
  BY <1>1, <1>2, <1>3
<1>5. f[m - 1].at = 0 /\ f[m] = WalkNext(list, f[m - 1], m) /\ f[m].at # 0
  BY <1>2, <1>4 DEF IsWalk
<1>6. f[m - 1] \in WalkState /\ list[m].net \in Nat
  BY <1>1, <1>4, WalkEndType
<1>7. /\ f[m - 1].rest # 0 /\ ~(list[m].net <= f[m - 1].rest)
      /\ f[m] = [rest |-> f[m - 1].rest, at |-> m]
  BY <1>4, <1>5, <1>6, WalkNextType
<1>8. f[n] = f[m]
  BY <1>4, <1>5, WalkStays
<1>9. w = [rest |-> f[m - 1].rest, at |-> m]
  BY <1>7, <1>8
<1>10. /\ f[m - 1].rest \in Nat /\ f[m - 1] = [rest |-> f[m - 1].rest, at |-> f[m - 1].at]
  BY <1>6 DEF WalkState
<1>11. w.at = m /\ w.rest = f[m - 1].rest
  BY <1>9
<1> QED BY <1>4, <1>5, <1>6, <1>7, <1>10, <1>11

\* Another amount takes the same troves, as far as it suffices.
LEMMA WalkShift ==
    ASSUME NEW list, Listed(list), NEW x \in Nat, NEW y \in Nat, NEW f, NEW g,
           IsWalk(list, x, f), IsWalk(list, y, g), NEW k \in 0..WalkEnd(list),
           f[k].at = 0, y + f[k].rest >= x, f[k].rest > 0 \/ y <= x
    PROVE  g[k].at = 0 /\ g[k].rest + x = f[k].rest + y
<1> DEFINE n == WalkEnd(list)
           Good(m) == f[m].at = 0 /\ g[m].at = 0 /\ g[m].rest + x = f[m].rest + y
           Bad == {m \in 0..k : ~Good(m)}
<1>1. /\ n \in Nat
      /\ \A m \in 0..n : f[m] \in WalkState /\ f[m].rest \in Nat /\ f[m].at \in Nat
                      /\ g[m] \in WalkState /\ g[m].rest \in Nat
  BY WalkEndType DEF IsWalk, WalkState
<1>2. \A m \in 0..k : f[m].at = 0 /\ f[k].rest <= f[m].rest
  <2> SUFFICES ASSUME NEW m \in 0..k PROVE f[m].at = 0 /\ f[k].rest <= f[m].rest
    OBVIOUS
  <2>1. m \in 0..n /\ k \in m..n
    BY <1>1
  <2> QED BY <2>1, WalkStays
<1>3. Bad = {}
  <2> SUFFICES ASSUME Bad # {} PROVE FALSE
    OBVIOUS
  <2>1. PICK m \in Bad : \A j \in Bad : m <= j
    <3>1. Bad \in SUBSET Nat
      OBVIOUS
    <3> HIDE DEF Bad
    <3> QED BY <3>1, LeastElement
  <2>2. m # 0
    <3>1. Good(0)
      BY DEF IsWalk
    <3> QED BY <2>1, <3>1
  <2>3. m - 1 \in 0..k /\ m - 1 \in 0..n /\ m \in 0..k /\ m \in 0..n /\ m \in 1..n /\ m - 1 \notin Bad
    BY <1>1, <2>1, <2>2
  <2> DEFINE s == f[m - 1]
             t == g[m - 1]
  <2>4. s.at = 0 /\ t.at = 0 /\ t.rest + x = s.rest + y
    BY <2>3
  <2>5. f[m] = WalkNext(list, s, m) /\ g[m] = WalkNext(list, t, m)
    BY <2>3 DEF IsWalk
  <2>6. /\ s \in WalkState /\ t \in WalkState /\ s.rest \in Nat /\ t.rest \in Nat
        /\ f[k].rest \in Nat /\ f[m].rest \in Nat /\ g[m].rest \in Nat
        /\ list[m].net \in Nat /\ list[m].net >= 1
    BY <1>1, <2>3, WalkEndType
  <2>7. f[m].at = 0 /\ f[k].rest <= f[m].rest
    BY <1>2, <2>3
  <2> HIDE DEF s, t, Bad
  <2>8. CASE s.rest = 0
    <3>1. f[m] = s
      <4>1. WalkNext(list, s, m) = s
        BY <2>3, <2>6, <2>8, WalkNextType
      <4> QED BY <2>5, <4>1
    <3>2. f[k].rest = 0
      BY <2>6, <2>7, <2>8, <3>1
    <3>3. x = y /\ t.rest = 0
      BY <2>4, <2>6, <2>8, <3>2
    <3>4. g[m] = t
      <4>1. WalkNext(list, t, m) = t
        BY <2>3, <2>6, <3>3, WalkNextType
      <4> QED BY <2>5, <4>1
    <3> QED BY <2>1, <2>4, <3>1, <3>4 DEF Bad
  <2>9. CASE s.rest # 0
    <3>1. list[m].net <= s.rest
      <4>1. CASE ~(list[m].net <= s.rest)
        <5>1. f[m] = [rest |-> s.rest, at |-> m]
          BY <2>3, <2>4, <2>5, <2>6, <2>9, <4>1, WalkNextType
        <5> QED BY <2>3, <2>7, <5>1
      <4> QED BY <4>1
    <3>2. f[m] = [rest |-> s.rest - list[m].net, at |-> 0]
      BY <2>3, <2>4, <2>5, <2>6, <2>9, <3>1, WalkNextType
    <3>3. f[m].rest = s.rest - list[m].net
      BY <3>2
    <3>4. list[m].net <= t.rest /\ t.rest # 0
      BY <2>4, <2>6, <2>7, <3>3
    <3>5. g[m] = [rest |-> t.rest - list[m].net, at |-> 0]
      BY <2>3, <2>4, <2>5, <2>6, <3>4, WalkNextType
    <3>6. g[m].at = 0 /\ g[m].rest = t.rest - list[m].net
      BY <3>5
    <3>7. g[m].rest + x = f[m].rest + y
      BY <2>4, <2>6, <3>3, <3>6
    <3> QED BY <2>1, <2>7, <3>6, <3>7 DEF Bad
  <2> QED BY <2>8, <2>9
<1>4. k \in 0..k /\ k \notin Bad
  BY <1>3
<1> QED BY <1>4

\* What a walk leaves is part of the amount; of an empty list nothing is taken.
LEMMA WalkType ==
    ASSUME NEW list, Listed(list), NEW x \in Nat
    PROVE  /\ Walk(list, x) \in WalkState /\ Walk(list, x).rest \in Nat
           /\ Walk(list, x).rest <= x
           /\ Len(list) = 0 => Walk(list, x) = [rest |-> x, at |-> 0]
           /\ Walk(list, x).at # 0 =>
                 /\ Walk(list, x).at \in 1..WalkEnd(list)
                 /\ Walk(list, x).rest > 0 /\ Walk(list, x).rest < list[Walk(list, x).at].net
<1> DEFINE n == WalkEnd(list)
<1>1. PICK f : IsWalk(list, x, f) /\ Walk(list, x) = f[n]
  BY WalkSteps
<1>2. n \in Nat /\ 0 \in 0..n /\ n \in 0..n /\ MaxIterations \in Nat
  BY WalkEndType, RedemptionAssumption
<1>3. f[n] \in WalkState /\ f[0] = [rest |-> x, at |-> 0]
  BY <1>1, <1>2 DEF IsWalk
<1>4. f[n].rest <= f[0].rest
  BY <1>1, <1>2, WalkStays
<1>5. Len(list) = 0 => n = 0
  BY <1>2 DEF WalkEnd, Least
<1>6. f[n].at # 0 => f[n].at \in 1..n /\ f[n].rest > 0 /\ f[n].rest < list[f[n].at].net
  BY <1>1, WalkStops
<1> QED BY <1>1, <1>3, <1>4, <1>5, <1>6 DEF WalkState

\* The hints are for an amount that is no higher.
LEMMA HintsType ==
    ASSUME NEW list, Listed(list), NEW x \in Nat
    PROVE  Hints(list, x).amount \in Nat /\ Hints(list, x).amount <= x
<1> DEFINE w == Walk(list, x)
           part == IF w.at = 0 THEN 0 ELSE Least(w.rest, list[w.at].net - LeastNetDebt)
<1>1. /\ w.rest \in Nat /\ w.rest <= x
      /\ w.at # 0 => w.at \in 1..WalkEnd(list) /\ w.rest > 0 /\ w.rest < list[w.at].net
  BY WalkType
<1>2. Hints(list, x).amount = (x - w.rest) + part
  BY DEF Hints
<1>3. part \in Nat /\ part <= w.rest
  <2>1. CASE w.at = 0
    BY <1>1, <2>1
  <2>2. CASE w.at # 0
    <3>1. w.at \in 1..Len(list)
      BY <1>1, <2>2, WalkEndType
    <3>2. list[w.at].net >= LeastNetDebt /\ list[w.at].net \in Nat /\ LeastNetDebt \in Nat
      BY <1>1, <2>2, <3>1, WalkEndType, RedemptionAssumption DEF Listed
    <3> HIDE DEF w
    <3> QED BY <1>1, <2>2, <3>2 DEF Least
  <2> QED BY <2>1, <2>2
<1> HIDE DEF w, part
<1> QED BY <1>1, <1>2, <1>3

\* What is redeemed is part of the amount.
LEMMA RedeemedType ==
    ASSUME NEW list, Listed(list), NEW amount \in Nat, NEW partial
    PROVE  /\ RedeemedAmount(list, amount, partial) \in Nat
           /\ RedeemedAmount(list, amount, partial) <= amount
           /\ Len(list) = 0 => RedeemedAmount(list, amount, partial) = 0
<1> DEFINE w == Walk(list, amount)
           all == w.at # 0 /\ partial = [list[w.at] EXCEPT !.net = @ - w.rest]
                  /\ partial.net >= LeastNetDebt
<1>1. /\ w.rest \in Nat /\ w.rest <= amount
      /\ Len(list) = 0 => w = [rest |-> amount, at |-> 0]
  BY WalkType
<1>2. RedeemedAmount(list, amount, partial) = IF all THEN amount ELSE amount - w.rest
  BY DEF RedeemedAmount
<1>3. Len(list) = 0 => ~all /\ w.rest = amount
  BY <1>1
<1> HIDE DEF w, all
<1> QED BY <1>1, <1>2, <1>3

\* The hints for an amount are right for the amount that they say.
LEMMA HintsHold ==
    ASSUME NEW list, Listed(list), NEW x \in Nat, NEW h, h = Hints(list, x)
    PROVE  RedeemedAmount(list, h.amount, h.partial) = h.amount
<1> DEFINE n == WalkEnd(list)
           w == Walk(list, x)
           part == IF w.at = 0 THEN 0 ELSE Least(w.rest, list[w.at].net - LeastNetDebt)
           y == h.amount
           v == Walk(list, y)
<1>1. /\ w.rest \in Nat /\ w.rest <= x /\ w.at \in Nat
      /\ w.at # 0 => w.at \in 1..n /\ w.rest > 0 /\ w.rest < list[w.at].net
  BY WalkType DEF WalkState
<1>2. /\ y = (x - w.rest) + part
      /\ h.partial = IF part = 0 THEN NoHint ELSE [list[w.at] EXCEPT !.net = @ - part]
  BY DEF Hints
<1>3. y \in Nat /\ y <= x
  BY HintsType
<1>4. PICK f : IsWalk(list, x, f) /\ w = f[n]
  BY WalkSteps
<1>5. PICK g : IsWalk(list, y, g) /\ v = g[n]
  BY <1>3, WalkSteps
<1>6. n \in 0..n /\ n \in Nat /\ LeastNetDebt \in Nat /\ LeastNetDebt # 0
  BY WalkEndType, RedemptionAssumption
<1>7. v \in WalkState /\ v.rest \in Nat
  BY <1>3, WalkType
<1>8. RedeemedAmount(list, y, h.partial) =
         IF v.at # 0 /\ h.partial = [list[v.at] EXCEPT !.net = @ - v.rest]
            /\ h.partial.net >= LeastNetDebt
         THEN y ELSE y - v.rest
  BY DEF RedeemedAmount
<1> HIDE DEF n, w, y, v
<1>9. CASE w.at = 0
  <2>1. part = 0 /\ y + w.rest = x
    BY <1>1, <1>2, <1>3, <1>9
  <2>2. f[n].at = 0 /\ y + f[n].rest >= x /\ y <= x
    BY <1>1, <1>3, <1>4, <1>9, <2>1
  <2>3. v.rest + x = w.rest + y
    BY <1>3, <1>4, <1>5, <1>6, <2>2, WalkShift DEF n
  <2>4. v.rest = 0
    BY <1>1, <1>3, <1>7, <2>1, <2>3
  <2> QED BY <1>3, <1>8, <2>4 DEF y
<1>10. CASE w.at # 0
  <2> DEFINE k == w.at
             t == list[k]
  <2>1. k \in 1..n /\ w.rest > 0 /\ w.rest < t.net /\ f[k - 1] = [rest |-> w.rest, at |-> 0]
    BY <1>4, <1>10, WalkStops DEF n
  <2>2. /\ k - 1 \in 0..n /\ k \in 0..n /\ n \in (k - 1)..n /\ n \in k..n
        /\ f[k - 1].at = 0 /\ f[k - 1].rest = w.rest
    BY <1>6, <2>1
  <2>3. t \in ListedTrove /\ t.net \in Nat /\ t.net >= LeastNetDebt
    <3>1. k \in 1..Len(list)
      BY <1>6, <2>1, WalkEndType DEF n
    <3> QED BY <2>1, <3>1, WalkEndType DEF n, Listed
  <2>4. part \in Nat /\ part <= w.rest /\ part <= t.net - LeastNetDebt /\ part < t.net
    BY <1>1, <1>6, <1>10, <2>1, <2>3 DEF Least
  <2> HIDE DEF part
  <2>5. g[k - 1].at = 0 /\ g[k - 1].rest + x = w.rest + y
    <3>1. y + f[k - 1].rest >= x
      BY <1>1, <1>2, <1>3, <2>2, <2>4
    <3>2. k - 1 \in 0..WalkEnd(list) /\ IsWalk(list, x, f) /\ IsWalk(list, y, g)
      BY <1>4, <1>5, <2>2 DEF n
    <3> HIDE DEF k
    <3>3. g[k - 1].at = 0 /\ g[k - 1].rest + x = f[k - 1].rest + y
      BY <1>3, <2>2, <3>1, <3>2, WalkShift
    <3> QED BY <2>2, <3>3
  <2>6. g[k - 1] \in WalkState /\ g[k - 1].rest \in Nat
    BY <1>5, <2>2 DEF IsWalk, n, WalkState
  <2>7. g[k - 1].rest = part
    BY <1>1, <1>2, <1>3, <2>4, <2>5, <2>6
  <2>8. CASE part = 0
    <3>1. g[n] = g[k - 1]
      BY <1>3, <1>5, <2>2, <2>7, <2>8, WalkStays DEF n
    <3>2. v.rest = 0
      BY <1>5, <2>7, <2>8, <3>1
    <3> QED BY <1>3, <1>8, <3>2 DEF y
  <2>9. CASE part # 0
    <3>1. g[k] = WalkNext(list, g[k - 1], k)
      BY <1>5, <2>1 DEF IsWalk, n
    <3>2. ~(list[k].net <= g[k - 1].rest)
      BY <2>3, <2>4, <2>7
    <3>3. g[k] = [rest |-> part, at |-> k]
      <4>1. k \in 1..WalkEnd(list)
        BY <2>1 DEF n
      <4>2. WalkNext(list, g[k - 1], k) = [rest |-> g[k - 1].rest, at |-> k]
        BY <2>5, <2>6, <2>7, <2>9, <3>2, <4>1, WalkNextType
      <4> QED BY <2>7, <3>1, <4>2
    <3>4. g[n] = g[k]
      <4>1. g[k].at # 0
        BY <2>1, <3>3
      <4> QED BY <1>3, <1>5, <2>2, <4>1, WalkStays DEF n
    <3>5. v.at = k /\ v.rest = part
      BY <1>5, <3>3, <3>4
    <3>6. h.partial = [t EXCEPT !.net = t.net - part]
      BY <1>2, <2>9
    <3>7. h.partial.net = t.net - part
      BY <2>3, <3>6 DEF ListedTrove
    <3>8. h.partial.net >= LeastNetDebt
      BY <1>6, <2>3, <2>4, <3>7
    <3>9. h.partial = [list[v.at] EXCEPT !.net = @ - v.rest]
      BY <3>5, <3>6
    <3> QED BY <1>8, <2>1, <3>5, <3>8, <3>9 DEF y
  <2> QED BY <2>8, <2>9
<1> QED BY <1>9, <1>10

\* A truncated amount that is increased by the minimum net debt closes the trove
\* at which the walk ended, and no amount in between can be redeemed.
LEMMA NextHolds ==
    ASSUME NEW list, Listed(list), NEW x \in Nat, NEW h, h = Hints(list, x),
           h.stopped, h.amount < x, NEW next, next = h.amount + LeastNetDebt
    PROVE  /\ RedeemedAmount(list, next, NoHint) = next
           /\ Hints(list, next).amount = next
           /\ \A a \in (h.amount + 1)..(next - 1) : Hints(list, a).amount < a
<1> DEFINE n == WalkEnd(list)
           w == Walk(list, x)
           k == w.at
           t == list[k]
           part == Least(w.rest, t.net - LeastNetDebt)
<1>1. h.stopped = (k # 0) /\ h.amount = (x - w.rest) + (IF k = 0 THEN 0 ELSE part)
  BY DEF Hints
<1>2. k # 0 /\ h.amount = (x - w.rest) + part
  BY <1>1
<1>3. PICK f : IsWalk(list, x, f) /\ w = f[n]
  BY WalkSteps
<1>4. n \in Nat /\ LeastNetDebt \in Nat /\ LeastNetDebt # 0
  BY WalkEndType, RedemptionAssumption
<1>5. w.rest \in Nat /\ w.rest <= x
  BY WalkType
<1> HIDE DEF w
<1>6. k \in 1..n /\ w.rest > 0 /\ w.rest < t.net /\ f[k - 1] = [rest |-> w.rest, at |-> 0]
  BY <1>2, <1>3, WalkStops
<1>7. /\ k - 1 \in 0..n /\ k \in 0..n /\ n \in (k - 1)..n /\ n \in k..n
      /\ f[k - 1].at = 0 /\ f[k - 1].rest = w.rest
  BY <1>4, <1>6
<1>8. t \in ListedTrove /\ t.net \in Nat /\ t.net >= LeastNetDebt
  <2>1. k \in 1..Len(list)
    BY <1>4, <1>6, WalkEndType
  <2> QED BY <1>6, <2>1, WalkEndType DEF Listed
<1>9. part = t.net - LeastNetDebt /\ part < w.rest
  <2>1. part \in {w.rest, t.net - LeastNetDebt}
    BY DEF Least
  <2> HIDE DEF part
  <2> QED BY <1>2, <1>4, <1>5, <1>8, <2>1
<1> DEFINE base == x - w.rest
<1>10. base \in Nat /\ h.amount = base + (t.net - LeastNetDebt) /\ next = base + t.net
  BY <1>2, <1>4, <1>5, <1>8, <1>9
\* How a walk with an amount from there on gets to that trove.
<1>11. ASSUME NEW y \in Nat, y >= base, NEW g, IsWalk(list, y, g)
       PROVE  g[k - 1] = [rest |-> y - base, at |-> 0] /\ g[k] = WalkNext(list, g[k - 1], k)
  <2>1. y + f[k - 1].rest >= x /\ f[k - 1].rest > 0
    BY <1>5, <1>6, <1>7, <1>11
  <2>2. k - 1 \in 0..n /\ f[k - 1].at = 0 /\ f[k - 1].rest = w.rest
    BY <1>7
  <2>3. g[k - 1].at = 0 /\ g[k - 1].rest + x = w.rest + y
    <3> HIDE DEF k
    <3> QED BY <1>3, <1>11, <2>1, <2>2, WalkShift
  <2>4. g[k - 1] \in WalkState /\ g[k] = WalkNext(list, g[k - 1], k)
    BY <1>6, <1>11, <2>2 DEF IsWalk
  <2>5. g[k - 1].rest \in Nat /\ g[k - 1] = [rest |-> g[k - 1].rest, at |-> g[k - 1].at]
    BY <2>4 DEF WalkState
  <2>6. g[k - 1].rest = y - base
    BY <1>5, <2>3, <2>5
  <2> QED BY <2>3, <2>4, <2>5, <2>6
<1> HIDE DEF base
<1>12. next \in Nat /\ next >= base
  BY <1>8, <1>10
<1>13. Walk(list, next) = [rest |-> 0, at |-> 0]
  <2>1. PICK g : IsWalk(list, next, g) /\ Walk(list, next) = g[n]
    BY <1>12, WalkSteps
  <2>2. g[k - 1] = [rest |-> next - base, at |-> 0] /\ g[k] = WalkNext(list, g[k - 1], k)
    BY <1>11, <1>12, <2>1
  <2> DEFINE s == g[k - 1]
  <2>3. s.rest = t.net /\ s.at = 0 /\ s \in WalkState /\ t.net # 0
    BY <1>4, <1>8, <1>10, <2>2 DEF WalkState
  <2> HIDE DEF s
  <2>4. WalkNext(list, s, k) = [rest |-> s.rest - t.net, at |-> 0]
    <3>1. list[k].net <= s.rest /\ s.rest # 0
      BY <1>8, <2>3
    <3> QED BY <1>6, <2>3, <3>1, WalkNextType
  <2>5. g[k] = [rest |-> 0, at |-> 0]
    BY <1>8, <2>2, <2>3, <2>4 DEF s
  <2>6. g[n] = g[k]
    <3>1. g[k].rest = 0
      BY <2>5
    <3> QED BY <1>7, <1>12, <2>1, <3>1, WalkStays
  <2> QED BY <2>1, <2>5, <2>6
<1>14. RedeemedAmount(list, next, NoHint) = next
  <2> DEFINE v == Walk(list, next)
  <2>1. v.at = 0 /\ v.rest = 0
    BY <1>13
  <2>2. RedeemedAmount(list, next, NoHint) =
          IF v.at # 0 /\ NoHint = [list[v.at] EXCEPT !.net = @ - v.rest] /\ NoHint.net >= LeastNetDebt
          THEN next ELSE next - v.rest
    BY DEF RedeemedAmount
  <2> HIDE DEF v
  <2> QED BY <1>12, <2>1, <2>2
<1>15. Hints(list, next).amount = next
  <2> DEFINE v == Walk(list, next)
  <2>1. v.at = 0 /\ v.rest = 0
    BY <1>13
  <2>2. Hints(list, next).amount =
          (next - v.rest) + (IF v.at = 0 THEN 0 ELSE Least(v.rest, list[v.at].net - LeastNetDebt))
    BY DEF Hints
  <2> HIDE DEF v
  <2> QED BY <1>12, <2>1, <2>2
<1>16. ASSUME NEW a \in (h.amount + 1)..(next - 1) PROVE Hints(list, a).amount < a
  <2>1. a \in Nat /\ a >= base /\ a - base > t.net - LeastNetDebt /\ a - base < t.net
    BY <1>4, <1>8, <1>10
  <2>2. PICK g : IsWalk(list, a, g) /\ Walk(list, a) = g[n]
    BY <2>1, WalkSteps
  <2>3. g[k - 1] = [rest |-> a - base, at |-> 0] /\ g[k] = WalkNext(list, g[k - 1], k)
    BY <1>11, <2>1, <2>2
  <2> DEFINE s == g[k - 1]
  <2>4. s.rest = a - base /\ s.at = 0 /\ s \in WalkState /\ s.rest # 0 /\ ~(t.net <= s.rest)
    BY <1>4, <1>8, <1>10, <2>1, <2>3 DEF WalkState
  <2> HIDE DEF s
  <2>5. WalkNext(list, s, k) = [rest |-> s.rest, at |-> k]
    BY <1>6, <2>4, WalkNextType
  <2>6. g[k] = [rest |-> s.rest, at |-> k]
    BY <2>3, <2>5 DEF s
  <2>7. g[n] = g[k]
    <3>1. g[k].at # 0
      BY <1>2, <2>6
    <3> QED BY <1>7, <2>1, <2>2, <3>1, WalkStays
  <2> DEFINE v == Walk(list, a)
  <2>8. v.at = k /\ v.rest = a - base
    BY <2>2, <2>4, <2>6, <2>7
  <2>9. Hints(list, a).amount =
          (a - v.rest) + (IF v.at = 0 THEN 0 ELSE Least(v.rest, list[v.at].net - LeastNetDebt))
    BY DEF Hints
  <2> HIDE DEF v
  <2>10. Least(a - base, t.net - LeastNetDebt) = t.net - LeastNetDebt
    BY <1>4, <1>8, <1>10, <2>1 DEF Least
  <2>11. Hints(list, a).amount = (a - (a - base)) + (t.net - LeastNetDebt)
    BY <1>2, <2>8, <2>9, <2>10
  <2> QED BY <1>4, <1>8, <1>10, <2>1, <2>11
<1> QED BY <1>14, <1>15, <1>16

-----------------------------------------------------------------------------
(* Redemption: the invariant *)

ViewFees(v) == [base |-> v["base"], last |-> v["last"], now |-> v["now"], recovery |-> FALSE]

\* What the ledger is, until the redemption is mined.
LedgerTyped ==
    /\ ledger = [base |-> ledger.base, last |-> ledger.last, now |-> ledger.now,
                 troves |-> ledger.troves]
    /\ ledger.base \in Nat /\ ledger.last \in Nat /\ ledger.now \in Nat
    /\ ledger.now <= MaxMoments
    /\ Listed(ledger.troves)

RedemptionShape(r) ==
    /\ r = [phase |-> r.phase, attempt |-> r.attempt, max |-> r.max, got |-> r.got,
            view |-> r.view, amount |-> r.amount, partial |-> r.partial, limit |-> r.limit,
            increased |-> r.increased, result |-> r.result, since |-> r.since, torn |-> r.torn]
    /\ r.view = [p \in RedemptionPart |-> r.view[p]]

RedemptionTyped(r) ==
    /\ RedemptionShape(r)
    /\ r.attempt \in Nat /\ r.amount \in Nat /\ r.got \subseteq RedemptionPart
    /\ \A p \in RedemptionPart \ {"hints"} : r.view[p] \in Nat
    /\ r.view["hints"].amount \in Nat
    /\ r.phase \in {"ready", "sent"} => r.got = RedemptionPart

\* As long as nothing happened that RedemptionRefusedOnlyIfRaised excuses, the base
\* rate that was read, and the limit set from it, are high enough.  The fees are
\* read for good once the last answer is in; the total is read by itself.
FeesTrusted(r) == "raise" \notin r.since /\ "decay" \notin r.torn
FeesRead(r) ==
    r.phase = "reading" /\ FeesTrusted(r) =>
        /\ \A p \in r.got \cap {"base", "last"} : r.view[p] = ledger[p]
        /\ "now" \in r.got => r.view["now"] <= ledger.now
FeesKept(r) ==
    r.phase \in {"ready", "sent"} /\ FeesTrusted(r) =>
        BaseRate(FeesNow) <= BaseRate(ViewFees(r.view))
TotalKept(r) ==
    r.phase \in {"reading", "ready", "sent"} /\ "total" \in r.got =>
        /\ r.view["total"] = 0 => Len(ledger.troves) = 0
        /\ "shrink" \notin r.since => r.view["total"] <= TotalDebt(ledger.troves)
LimitKept(r) ==
    r.phase \in {"ready", "sent"} /\ r.max = NoLimit =>
        r.limit = Least(RedemptionRate(ViewFees(r.view), Div(r.amount, r.view["total"]))
                        + RateTolerance, Digits)
RefusalKept(r) ==
    r.phase = "refused" /\ r.max = NoLimit =>
        {"raise", "shrink"} \cap r.since # {} \/ "decay" \in r.torn

\* As long as the troves stay as they were when the hints were read, the hints are
\* those for the amount asked for, and all of the amount that is sent is redeemed.
HintsKept(r) ==
    r.phase \in {"reading", "ready"} /\ "hints" \in r.got /\ ~r.increased /\ "list" \notin r.since =>
        r.view["hints"] = Hints(ledger.troves, r.attempt)
AmountKept(r) ==
    r.phase = "ready" => r.amount = IF r.increased THEN r.attempt ELSE r.view["hints"].amount
RedeemsAll(r) ==
    /\ r.phase \in {"ready", "sent"} /\ "list" \notin r.since
    /\ r.increased => r.view["hints"].stopped
    => RedeemedAmount(ledger.troves, r.amount, r.partial) = r.amount

\* The parts of the invariant.
FeeInv(r) == FeesRead(r) /\ FeesKept(r) /\ TotalKept(r) /\ LimitKept(r) /\ RefusalKept(r)
HintsInv(r) ==
    /\ r.phase = "reading" => ~r.increased
    /\ HintsKept(r) /\ AmountKept(r) /\ RedeemsAll(r)
RedemptionInv ==
    IF redemption.phase = "mined" THEN RedeemsWhatItSays
    ELSE LedgerTyped /\ RedemptionTyped(redemption) /\ FeeInv(redemption) /\ HintsInv(redemption)

-----------------------------------------------------------------------------
(* Redemption: the rates *)

\* A smaller share of a larger total.
LEMMA ShareOrder ==
    ASSUME NEW a \in Nat, NEW b \in Nat, a <= b, NEW d \in Nat, NEW e \in Nat, 0 < d, d <= e
    PROVE  Div(a, e) \in Nat /\ Div(b, d) \in Nat /\ Div(a, e) <= Div(b, d)
<1> DEFINE x == a * Digits
           y == b * Digits
           p == x \div e
           q == y \div d
<1>1. Digits \in Nat /\ x \in Nat /\ y \in Nat /\ x <= y
  BY DigitsAssumption
<1>2. Div(a, e) = p /\ Div(b, d) = q
  BY DEF Div
<1> HIDE DEF x, y
<1>3. p \in Nat /\ q \in Nat /\ e * p <= x /\ y < d * q + d
  BY <1>1, DivBounds
<1>4. d * p <= e * p /\ d * q + d = d * (q + 1)
  BY <1>3
<1> HIDE DEF p, q
<1>5. d * p < d * (q + 1)
  BY <1>1, <1>3, <1>4
<1>6. p < q + 1
  BY <1>3, <1>5
<1> QED BY <1>2, <1>3, <1>6

\* The rate of a fraction and a base rate grows with both.
LEMMA RedemptionRateOrder ==
    ASSUME NEW f \in FeeState, NEW g \in FeeState, BaseRate(f) <= BaseRate(g),
           NEW x \in Nat, NEW y \in Nat, x <= y
    PROVE  /\ RedemptionRate(f, x) \in Nat /\ RedemptionRate(g, y) \in Nat
           /\ RedemptionRate(f, x) <= RedemptionRate(g, y)
           /\ RedemptionRate(f, x) <= Digits /\ RedemptionRate(g, y) >= MinimumRate
<1> DEFINE s(z) == IF z = 0 THEN 0 ELSE Div(z, Beta)
<1>1. BaseRate(f) \in Nat /\ BaseRate(g) \in Nat
  BY RateType
<1>2. s(x) \in Nat /\ s(y) \in Nat /\ s(x) <= s(y)
  <2>1. Beta \in Nat /\ Infinity \in Nat
    BY RateAssumption, DigitsAssumption
  <2>2. CASE Beta = 0
    BY <2>1, <2>2 DEF Div
  <2>3. CASE Beta # 0
    <3>1. Div(x, Beta) \in Nat /\ Div(y, Beta) \in Nat /\ Div(x, Beta) <= Div(y, Beta)
      BY <2>1, <2>3, ShareOrder
    <3> QED BY <3>1
  <2> QED BY <2>2, <2>3
<1>3. /\ RedemptionRate(f, x) = Least(MinimumRate + s(x) + BaseRate(f), Digits)
      /\ RedemptionRate(g, y) = Least(MinimumRate + s(y) + BaseRate(g), Digits)
  BY DEF RedemptionRate
<1> HIDE DEF s
<1> QED BY <1>1, <1>2, <1>3, RateAssumption, DigitsAssumption DEF Least

\* The fees of the ledger.
LEMMA FeesNowType ==
    ASSUME LedgerTyped
    PROVE  FeesNow \in FeeState /\ BaseRate(FeesNow) \in Nat
<1>1. FeesNow \in FeeState
  BY DEF LedgerTyped, FeesNow, FeeState
<1> QED BY <1>1, RateType

LEMMA FeesNowNat == LedgerTyped => BaseRate(FeesNow) \in Nat
  BY FeesNowType

\* What has been read of them.
LEMMA ViewFeesType ==
    ASSUME NEW r, RedemptionTyped(r)
    PROVE  ViewFees(r.view) \in FeeState /\ r.view["total"] \in Nat
  BY DEF RedemptionTyped, RedemptionPart, ViewFees, FeeState

\* A redemption of no more than the amount is accepted with the limit for it.
LEMMA RedemptionLimitSuffices ==
    ASSUME LedgerTyped, NEW fees \in FeeState, BaseRate(FeesNow) <= BaseRate(fees),
           NEW total \in Nat, total # 0, total <= TotalDebt(ledger.troves),
           NEW amount \in Nat, NEW redeemed \in Nat, redeemed <= amount,
           NEW limit, limit = Least(RedemptionRate(fees, Div(amount, total)) + RateTolerance, Digits)
    PROVE  RateAccepted(redeemed, limit)
<1> DEFINE now == TotalDebt(ledger.troves)
           x == Div(redeemed, now)
           y == Div(amount, total)
<1>1. now \in Nat
  <2>1. ledger.troves \in Seq(ListedTrove)
    BY DEF LedgerTyped, Listed
  <2> QED BY <2>1, TotalDebtType
<1> HIDE DEF now
<1>2. x \in Nat /\ y \in Nat /\ x <= y
  BY <1>1, ShareOrder DEF now
<1> HIDE DEF x, y
<1>3. /\ RedemptionRate(FeesNow, x) \in Nat /\ RedemptionRate(fees, y) \in Nat
      /\ RedemptionRate(FeesNow, x) <= RedemptionRate(fees, y)
      /\ RedemptionRate(FeesNow, x) <= Digits /\ RedemptionRate(fees, y) >= MinimumRate
  BY <1>2, FeesNowType, RedemptionRateOrder
<1>4. RateTolerance \in Nat /\ MinimumRate \in Nat /\ MinimumRate <= Digits /\ Digits \in Nat
  BY RedemptionAssumption, RateAssumption, DigitsAssumption
<1>5. limit = Least(RedemptionRate(fees, y) + RateTolerance, Digits)
  BY DEF y
<1>6. limit >= MinimumRate /\ RedemptionRate(FeesNow, x) <= limit
  BY <1>3, <1>4, <1>5 DEF Least
<1> QED BY <1>6 DEF RateAccepted, Fraction, x, now

\* A fee operation notes the rate and its time.
LEMMA NotingParts ==
    ASSUME LedgerTyped, NEW base, NEW troves, NEW l, l = Noting(base, troves)
    PROVE  /\ l = [base |-> l.base, last |-> l.last, now |-> l.now, troves |-> l.troves]
           /\ l.base = base /\ l.troves = troves /\ l.now = ledger.now
           /\ l.last = IF Minus(ledger.now, ledger.last) >= TicksPerMinute THEN ledger.now
                       ELSE ledger.last
<1> DEFINE last == IF Minus(ledger.now, ledger.last) >= TicksPerMinute THEN ledger.now
                   ELSE ledger.last
<1>1. l = [ledger EXCEPT !.base = base, !.troves = troves, !.last = last]
  BY DEF Noting
<1> HIDE DEF last
<1>2. l = [base |-> base, last |-> last, now |-> ledger.now, troves |-> troves]
  BY <1>1 DEF LedgerTyped
<1> QED BY <1>2 DEF last

\* The base rate of a fee operation is what the fees are right after.
LEMMA NotingRate ==
    ASSUME LedgerTyped, NEW base \in Nat, NEW troves, ledger' = Noting(base, troves)
    PROVE  BaseRate(FeesNow)' = base
<1>1. /\ ledger'.base = base /\ ledger'.now = ledger.now
      /\ ledger'.last = IF Minus(ledger.now, ledger.last) >= TicksPerMinute THEN ledger.now
                        ELSE ledger.last
  BY NotingParts
<1>2. ledger.now \in Nat /\ ledger.last \in Nat /\ TicksPerMinute \in Nat /\ TicksPerMinute # 0
  BY DecayAssumption DEF LedgerTyped
<1>3. Minus(ledger'.now, ledger'.last) \in Nat /\ Minus(ledger'.now, ledger'.last) < TicksPerMinute
  BY <1>1, <1>2 DEF Minus
<1>4. Minus(ledger'.now, ledger'.last) \div TicksPerMinute = 0
  BY <1>2, <1>3, DivUnique
<1>5. Mul(Pow(DecayFactor, 0), base) = base
  BY MulOne DEF Pow
<1>6. BaseRate(FeesNow)' =
         Mul(Pow(DecayFactor, Minus(ledger'.now, ledger'.last) \div TicksPerMinute), ledger'.base)
  BY DEF BaseRate, FeesNow
<1> QED BY <1>1, <1>4, <1>5, <1>6

-----------------------------------------------------------------------------
(* Redemption: the ledger moves *)

\* The redemption notes events of these kinds.
Notes(r, l, kinds) ==
    /\ RedemptionShape(l)
    /\ l.phase = r.phase /\ l.attempt = r.attempt /\ l.max = r.max /\ l.got = r.got
    /\ l.view = r.view /\ l.amount = r.amount /\ l.partial = r.partial /\ l.limit = r.limit
    /\ l.increased = r.increased /\ l.result = r.result
    /\ r.since \subseteq l.since /\ r.torn \subseteq l.torn
    /\ r.phase \in {"reading", "ready", "sent"} /\ r.got # {} => kinds \subseteq l.since
    /\ r.phase = "reading" /\ r.got # {} => kinds \subseteq l.torn

\* What events of these kinds keep.
LedgerKeeps(kinds) ==
    /\ LedgerTyped'
    /\ "list" \notin kinds => ledger'.troves = ledger.troves
    /\ "raise" \notin kinds => BaseRate(FeesNow)' <= BaseRate(FeesNow)
    /\ {"raise", "decay"} \cap kinds = {} =>
          ledger'.base = ledger.base /\ ledger'.last = ledger.last /\ ledger.now <= ledger'.now
    /\ "shrink" \notin kinds => TotalDebt(ledger.troves) <= TotalDebt(ledger'.troves)
    /\ Len(ledger.troves) = 0 => Len(ledger'.troves) = 0

LEMMA NotedTradeNotes ==
    ASSUME RedemptionTyped(redemption), NEW kinds, redemption' = NotedTrade(kinds)
    PROVE  Notes(redemption, redemption', kinds)
<1> DEFINE r == redemption
           l == redemption'
           torn == IF r.phase = "reading" THEN r.torn \cup kinds ELSE r.torn
<1>1. RedemptionShape(r)
  BY DEF RedemptionTyped
<1>2. CASE ~Redeeming \/ r.got = {}
  <2>1. l = r
    BY <1>2 DEF NotedTrade
  <2> QED BY <1>1, <1>2, <2>1 DEF Notes, Redeeming
<1>3. CASE ~(~Redeeming \/ r.got = {})
  <2>1. l = [r EXCEPT !.since = r.since \cup kinds, !.torn = torn]
    BY <1>3 DEF NotedTrade
  <2>2. r.torn \subseteq torn /\ (r.phase = "reading" => kinds \subseteq torn)
    OBVIOUS
  <2> HIDE DEF r, l, torn
  <2>3. l = [phase |-> r.phase, attempt |-> r.attempt, max |-> r.max, got |-> r.got,
             view |-> r.view, amount |-> r.amount, partial |-> r.partial, limit |-> r.limit,
             increased |-> r.increased, result |-> r.result, since |-> r.since \cup kinds,
             torn |-> torn]
    BY <1>1, <2>1 DEF RedemptionShape
  <2>4. /\ l.phase = r.phase /\ l.attempt = r.attempt /\ l.max = r.max /\ l.got = r.got
        /\ l.view = r.view /\ l.amount = r.amount /\ l.partial = r.partial /\ l.limit = r.limit
        /\ l.increased = r.increased /\ l.result = r.result
        /\ l.since = r.since \cup kinds /\ l.torn = torn
    BY <2>3
  <2>5. RedemptionShape(l)
    BY <1>1, <2>3, <2>4 DEF RedemptionShape
  <2>6. Notes(r, l, kinds)
    BY <2>2, <2>4, <2>5 DEF Notes
  <2> QED BY <2>6 DEF r, l
<1> QED BY <1>2, <1>3

\* A redemption that notes what happens keeps its invariant.
LEMMA LedgerMoves ==
    ASSUME RedemptionInv, redemption.phase # "mined", NEW kinds,
           Notes(redemption, redemption', kinds), LedgerKeeps(kinds)
    PROVE  RedemptionInv'
<1> DEFINE r == redemption
           l == redemption'
<1>1. LedgerTyped /\ RedemptionTyped(r) /\ FeeInv(r) /\ HintsInv(r) /\ LedgerTyped'
  BY DEF RedemptionInv, LedgerKeeps
<1>2. l.phase = r.phase /\ l.got = r.got /\ l.view = r.view /\ l.increased = r.increased
  BY DEF Notes
<1>3. RedemptionTyped(l)
  <2> HIDE DEF r, l
  <2>1. Notes(r, l, kinds)
    BY DEF r, l
  <2> QED BY <1>1, <2>1 DEF RedemptionTyped, Notes
<1>4. FeesTrusted(l) =>
         /\ FeesTrusted(r)
         /\ r.phase \in {"reading", "ready", "sent"} /\ r.got # {} => "raise" \notin kinds
         /\ r.phase = "reading" /\ r.got # {} => {"raise", "decay"} \cap kinds = {}
  BY DEF FeesTrusted, Notes
<1>5. r.phase \in {"ready", "sent"} => r.got # {}
  BY <1>1 DEF RedemptionTyped, RedemptionPart
<1>6. FeesRead(redemption)'
  <2> SUFFICES ASSUME r.phase = "reading", FeesTrusted(l)
               PROVE  /\ \A p \in r.got \cap {"base", "last"} : r.view[p] = ledger'[p]
                      /\ "now" \in r.got => r.view["now"] <= ledger'.now
    BY <1>2 DEF FeesRead
  <2>1. /\ \A p \in r.got \cap {"base", "last"} : r.view[p] = ledger[p]
        /\ "now" \in r.got => r.view["now"] <= ledger.now
    BY <1>1, <1>4 DEF FeeInv, FeesRead
  <2>2. r.got # {} =>
          ledger'.base = ledger.base /\ ledger'.last = ledger.last /\ ledger.now <= ledger'.now
    BY <1>4 DEF LedgerKeeps
  <2>3. r.view["now"] \in Nat /\ ledger.now \in Nat /\ ledger'.now \in Nat
    BY <1>1 DEF LedgerTyped, RedemptionTyped, RedemptionPart
  <2> HIDE DEF r, l
  <2> QED BY <2>1, <2>2, <2>3
<1>7. FeesKept(redemption)'
  <2> SUFFICES ASSUME r.phase \in {"ready", "sent"}, FeesTrusted(l)
               PROVE  BaseRate(FeesNow)' <= BaseRate(ViewFees(r.view))
    BY <1>2 DEF FeesKept
  <2>1. BaseRate(FeesNow) <= BaseRate(ViewFees(r.view))
    BY <1>1, <1>4 DEF FeeInv, FeesKept
  <2>2. BaseRate(FeesNow)' <= BaseRate(FeesNow)
    BY <1>4, <1>5 DEF LedgerKeeps
  <2>3. BaseRate(FeesNow) \in Nat
    BY <1>1, FeesNowType
  <2>4. LedgerTyped' => (BaseRate(FeesNow) \in Nat)'
    BY FeesNowNat, PTL
  <2>5. BaseRate(ViewFees(r.view)) \in Nat
    BY <1>1, ViewFeesType, RateType
  <2> QED BY <1>1, <2>1, <2>2, <2>3, <2>4, <2>5
<1>8. TotalKept(redemption)'
  <2> SUFFICES ASSUME r.phase \in {"reading", "ready", "sent"}, "total" \in r.got
               PROVE  /\ r.view["total"] = 0 => Len(ledger'.troves) = 0
                      /\ "shrink" \notin l.since => r.view["total"] <= TotalDebt(ledger'.troves)
    BY <1>2 DEF TotalKept
  <2>1. /\ r.view["total"] = 0 => Len(ledger.troves) = 0
        /\ "shrink" \notin r.since => r.view["total"] <= TotalDebt(ledger.troves)
    BY <1>1 DEF FeeInv, TotalKept
  <2>2. "shrink" \notin l.since => "shrink" \notin r.since /\ "shrink" \notin kinds
    BY DEF Notes
  <2>3. r.view["total"] \in Nat
    BY <1>1, ViewFeesType
  <2>4. TotalDebt(ledger.troves) \in Nat /\ TotalDebt(ledger'.troves) \in Nat
    <3>1. ledger.troves \in Seq(ListedTrove) /\ ledger'.troves \in Seq(ListedTrove)
      BY <1>1 DEF LedgerTyped, Listed
    <3> QED BY <3>1, TotalDebtType
  <2>5. Len(ledger.troves) = 0 => Len(ledger'.troves) = 0
    BY DEF LedgerKeeps
  <2>6. "shrink" \notin kinds => TotalDebt(ledger.troves) <= TotalDebt(ledger'.troves)
    BY DEF LedgerKeeps
  <2> QED BY <2>1, <2>2, <2>3, <2>4, <2>5, <2>6
<1>9. LimitKept(redemption)'
  BY <1>1 DEF FeeInv, LimitKept, Notes
<1>10. RefusalKept(redemption)'
  BY <1>1 DEF FeeInv, RefusalKept, Notes
<1>11. r.phase \in {"reading", "ready", "sent"} /\ r.got # {} /\ "list" \notin l.since =>
          "list" \notin r.since /\ ledger'.troves = ledger.troves
  BY DEF Notes, LedgerKeeps
<1>12. HintsKept(redemption)'
  BY <1>1, <1>11 DEF HintsInv, HintsKept, Notes
<1>13. AmountKept(redemption)' /\ (redemption.phase = "reading" => ~redemption.increased)'
  BY <1>1 DEF HintsInv, AmountKept, Notes
<1>14. RedeemsAll(redemption)'
  <2> SUFFICES ASSUME r.phase \in {"ready", "sent"}, "list" \notin l.since,
                      r.increased => r.view["hints"].stopped
               PROVE  RedeemedAmount(ledger'.troves, r.amount, r.partial) = r.amount
    BY DEF RedeemsAll, Notes
  <2>1. "list" \notin r.since /\ ledger'.troves = ledger.troves
    BY <1>5, <1>11
  <2>2. RedeemedAmount(ledger.troves, r.amount, r.partial) = r.amount
    BY <1>1, <2>1 DEF HintsInv, RedeemsAll
  <2> QED BY <2>1, <2>2
<1>15. FeeInv(redemption)' /\ HintsInv(redemption)'
  BY <1>6, <1>7, <1>8, <1>9, <1>10, <1>12, <1>13, <1>14 DEF FeeInv, HintsInv
<1>16. RedemptionTyped(redemption)' /\ redemption'.phase # "mined"
  BY <1>2, <1>3
<1> QED BY <1>1, <1>15, <1>16 DEF RedemptionInv

\* Time passes.
LEMMA TimeStep ==
    ASSUME RedemptionInv, redemption.phase # "mined", TimePasses
    PROVE  RedemptionInv'
<1>1. LedgerTyped /\ RedemptionTyped(redemption) /\ redemption' = redemption
  BY DEF RedemptionInv, TimePasses
<1> DEFINE g == [base |-> ledger.base, last |-> ledger.last, now |-> ledger.now + 1,
                 recovery |-> FALSE]
<1>2. /\ ledger.now \in Nat /\ MaxMoments \in Nat /\ ledger.now < MaxMoments
      /\ ledger' = [ledger EXCEPT !.now = ledger.now + 1]
  BY <1>1, RedemptionAssumption DEF TimePasses, LedgerTyped
<1>3. ledger' = [base |-> ledger.base, last |-> ledger.last, now |-> ledger.now + 1,
                 troves |-> ledger.troves]
  BY <1>1, <1>2 DEF LedgerTyped
<1>4. /\ ledger'.base = ledger.base /\ ledger'.last = ledger.last
      /\ ledger'.now = ledger.now + 1 /\ ledger'.troves = ledger.troves
  BY <1>3
<1>5. ledger'.now \in Nat /\ ledger'.now <= MaxMoments /\ ledger.now <= ledger'.now
  BY <1>2, <1>4
<1>6. LedgerTyped'
  BY <1>1, <1>3, <1>4, <1>5 DEF LedgerTyped
<1>7. BaseRate(FeesNow)' <= BaseRate(FeesNow)
  <2>1. FeesNow' = g /\ FeesNow \in FeeState /\ g \in FeeState
    BY <1>1, <1>2, <1>4, FeesNowType DEF FeesNow, LedgerTyped, FeeState
  <2> DEFINE f == FeesNow
  <2>2. /\ g.base = f.base /\ g.last = f.last /\ g.recovery = f.recovery
        /\ f.now <= g.now /\ g.now <= MaxMoments
    BY <1>2 DEF FeesNow
  <2>3. DecaysUpTo(MaxMoments \div TicksPerMinute)
    BY RedemptionAssumption
  <2>4. f \in FeeState
    BY <2>1
  <2> HIDE DEF f, g
  <2>5. BaseRate(g) <= BaseRate(f)
    BY <1>2, <2>1, <2>2, <2>3, <2>4, RateFalls
  <2> QED BY <2>1, <2>5 DEF f
<1>8. TotalDebt(ledger.troves) <= TotalDebt(ledger'.troves)
  <2>1. TotalDebt(ledger.troves) \in Nat
    BY <1>1, TotalDebtType DEF LedgerTyped, Listed
  <2> QED BY <1>4, <2>1
<1>9. LedgerKeeps({})
  BY <1>4, <1>5, <1>6, <1>7, <1>8 DEF LedgerKeeps
<1>10. Notes(redemption, redemption', {})
  BY <1>1 DEF Notes, RedemptionTyped
<1> QED BY <1>9, <1>10, LedgerMoves

\* Somebody else changes the troves.
LEMMA TradeStep ==
    ASSUME RedemptionInv, NEW kinds, redemption' = NotedTrade(kinds),
           redemption.phase # "mined" => LedgerKeeps(kinds)
    PROVE  RedemptionInv'
<1>1. CASE redemption.phase = "mined"
  <2>1. redemption' = redemption
    BY <1>1 DEF NotedTrade, Redeeming
  <2> QED BY <1>1, <2>1 DEF RedemptionInv, RedeemsWhatItSays
<1>2. CASE redemption.phase # "mined"
  <2>1. Notes(redemption, redemption', kinds)
    BY <1>2, NotedTradeNotes DEF RedemptionInv
  <2> QED BY <1>2, <2>1, LedgerMoves
<1> QED BY <1>1, <1>2

\* A list in which the debt of one trove changes.
LEMMA NetChanges ==
    ASSUME NEW list, Listed(list), NEW k \in DOMAIN list, NEW net \in Nat, net >= LeastNetDebt,
           NEW more, more = [list EXCEPT ![k].net = net]
    PROVE  /\ Listed(more) /\ Len(more) = Len(list) /\ list[k].net \in Nat
           /\ more[k].net = net /\ \A j \in 1..Len(list) : j # k => more[j] = list[j]
<1> DEFINE t == [list[k] EXCEPT !.net = net]
<1>1. list \in Seq(ListedTrove) /\ k \in 1..Len(list) /\ list[k] \in ListedTrove
  BY DEF Listed
<1>2. t = [trove |-> list[k].trove, net |-> net] /\ list[k].net \in Nat
  BY <1>1 DEF ListedTrove
<1>3. t \in ListedTrove /\ t.net = net
  BY <1>1, <1>2 DEF ListedTrove
<1> HIDE DEF t
<1>4. more = [list EXCEPT ![k] = t]
  BY DEF t
<1>5. /\ more \in Seq(ListedTrove) /\ Len(more) = Len(list) /\ more[k] = t
      /\ \A j \in 1..Len(list) : j # k => more[j] = list[j]
  BY <1>1, <1>3, <1>4
<1>6. \A j \in 1..Len(more) : more[j].net >= LeastNetDebt
  BY <1>3, <1>5 DEF Listed
<1> QED BY <1>2, <1>3, <1>5, <1>6 DEF Listed

\* Somebody borrows.
LEMMA BorrowedKeeps ==
    ASSUME LedgerTyped, NEW k \in DOMAIN ledger.troves, BorrowedBy(k)
    PROVE  LedgerKeeps({"decay", "list"})
<1> DEFINE list == ledger.troves
           more == [ledger.troves EXCEPT ![k].net = ledger.troves[k].net + 1]
<1>1. ledger' = Noting(BaseRate(FeesNow), more)
  BY DEF BorrowedBy, Traded
<1>2. Listed(list) /\ k \in 1..Len(list) /\ list[k] \in ListedTrove
  BY DEF LedgerTyped, Listed
<1>3. list[k].net + 1 \in Nat /\ list[k].net + 1 >= LeastNetDebt /\ list[k].net \in Nat
  BY <1>2, RedemptionAssumption DEF ListedTrove, Listed
<1>4. /\ Listed(more) /\ Len(more) = Len(list) /\ more[k].net = list[k].net + 1
      /\ \A j \in 1..Len(list) : j # k => more[j] = list[j]
  BY <1>2, <1>3, NetChanges
<1> HIDE DEF more
<1>5. TotalDebt(list) <= TotalDebt(more)
  <2>1. ASSUME NEW j \in 1..Len(list) PROVE list[j].net <= more[j].net
    <3>1. list[j].net \in Nat
      <4>1. list \in Seq(ListedTrove)
        BY <1>2 DEF Listed
      <4>2. list[j] \in ListedTrove
        BY <4>1
      <4> QED BY <4>2 DEF ListedTrove
    <3>2. CASE j = k
      BY <1>3, <1>4, <3>2
    <3>3. CASE j # k
      BY <1>4, <3>1, <3>3
    <3> QED BY <3>2, <3>3
  <2>2. list \in Seq(ListedTrove) /\ more \in Seq(ListedTrove)
    BY <1>2, <1>4 DEF Listed
  <2> HIDE DEF list
  <2> QED BY <1>4, <2>1, <2>2, TotalDebtGrows
<1>6. /\ ledger' = [base |-> ledger'.base, last |-> ledger'.last, now |-> ledger'.now,
                    troves |-> ledger'.troves]
      /\ ledger'.base = BaseRate(FeesNow) /\ ledger'.troves = more
      /\ ledger'.now = ledger.now /\ ledger'.last \in {ledger.now, ledger.last}
  BY <1>1, NotingParts
<1>7. BaseRate(FeesNow) \in Nat
  BY FeesNowType
<1>8. BaseRate(FeesNow)' = BaseRate(FeesNow)
  BY <1>1, <1>7, NotingRate
<1>9. LedgerTyped'
  <2>1. /\ ledger'.base \in Nat /\ ledger'.last \in Nat /\ ledger'.now \in Nat
        /\ ledger'.now <= MaxMoments
    BY <1>6, <1>7 DEF LedgerTyped
  <2>2. Listed(ledger'.troves)
    BY <1>4, <1>6
  <2> QED BY <1>6, <2>1, <2>2 DEF LedgerTyped
<1>10. BaseRate(FeesNow)' <= BaseRate(FeesNow)
  BY <1>7, <1>8
<1> QED BY <1>4, <1>5, <1>6, <1>9, <1>10 DEF LedgerKeeps

\* Somebody repays.
LEMMA RepaidKeeps ==
    ASSUME LedgerTyped, NEW k \in DOMAIN ledger.troves, RepaidBy(k)
    PROVE  LedgerKeeps({"shrink", "list"})
<1> DEFINE list == ledger.troves
           less == [ledger.troves EXCEPT ![k].net = ledger.troves[k].net - 1]
<1>1. ledger' = [ledger EXCEPT !.troves[k].net = list[k].net - 1] /\ list[k].net > LeastNetDebt
  BY DEF RepaidBy, Traded
<1>2. Listed(list) /\ k \in 1..Len(list) /\ list[k] \in ListedTrove
  BY DEF LedgerTyped, Listed
<1>3. list[k].net - 1 \in Nat /\ list[k].net - 1 >= LeastNetDebt
  BY <1>1, <1>2, RedemptionAssumption DEF ListedTrove
<1>4. Listed(less) /\ Len(less) = Len(list)
  BY <1>2, <1>3, NetChanges
<1>5. ledger' = [base |-> ledger.base, last |-> ledger.last, now |-> ledger.now, troves |-> less]
  BY <1>1 DEF LedgerTyped
<1> HIDE DEF less
<1>6. /\ ledger'.base = ledger.base /\ ledger'.last = ledger.last /\ ledger'.now = ledger.now
      /\ ledger'.troves = less
  BY <1>5
<1>7. LedgerTyped'
  BY <1>4, <1>5, <1>6 DEF LedgerTyped
<1>8. BaseRate(FeesNow)' = BaseRate(FeesNow)
  BY <1>6 DEF FeesNow
<1>9. BaseRate(FeesNow)' <= BaseRate(FeesNow) /\ ledger.now <= ledger'.now
  BY <1>6, <1>8, FeesNowType DEF LedgerTyped
<1> QED BY <1>4, <1>6, <1>7, <1>9 DEF LedgerKeeps

\* Somebody redeems the first trove.
LEMMA RedeemedKeeps ==
    ASSUME LedgerTyped, RedeemedFirst
    PROVE  LedgerKeeps({"raise", "shrink", "list"})
<1> DEFINE list == ledger.troves
           raised == Raised(ledger.troves[1].net)
           fraction == Fraction(list[1].net)
<1>1. ledger' = Noting(raised, Tail(list)) /\ Len(list) > 1
  BY DEF RedeemedFirst, Traded
<1>2. Listed(list) /\ list \in Seq(ListedTrove) /\ list[1] \in ListedTrove
  BY <1>1 DEF LedgerTyped, Listed
<1>3. Listed(Tail(list))
  <2>1. Tail(list) \in Seq(ListedTrove) /\ Len(Tail(list)) = Len(list) - 1
    BY <1>1, <1>2
  <2>2. \A j \in 1..Len(Tail(list)) : j + 1 \in 1..Len(list) /\ Tail(list)[j] = list[j + 1]
    BY <1>1, <1>2
  <2>3. \A j \in 1..Len(list) : list[j].net >= LeastNetDebt
    BY <1>2 DEF Listed
  <2> HIDE DEF list
  <2>4. \A j \in 1..Len(Tail(list)) : Tail(list)[j].net >= LeastNetDebt
    BY <2>2, <2>3
  <2> QED BY <2>1, <2>4 DEF Listed
<1>4. raised \in Nat
  <2>1. TotalDebt(list) \in Nat /\ list[1].net \in Nat
    BY <1>2, TotalDebtType DEF ListedTrove
  <2>2. \A a, b \in Nat : Div(a, b) \in Nat
    <3>1. \A a \in Nat : a * Digits \in Nat
      BY DigitsAssumption
    <3> QED BY <3>1, DivBounds, DigitsAssumption DEF Div
  <2>3. fraction \in Nat
    BY <2>1, <2>2 DEF Fraction
  <2>4. raised = Least(BaseRate(FeesNow) + Div(fraction, Beta), Digits)
    BY DEF Raised
  <2> HIDE DEF fraction, raised
  <2>5. Div(fraction, Beta) \in Nat
    BY <2>2, <2>3, RateAssumption
  <2> QED BY <2>4, <2>5, FeesNowType, DigitsAssumption DEF Least
<1> HIDE DEF raised
<1>5. /\ ledger' = [base |-> ledger'.base, last |-> ledger'.last, now |-> ledger'.now,
                    troves |-> ledger'.troves]
      /\ ledger'.base = raised /\ ledger'.troves = Tail(list)
      /\ ledger'.now = ledger.now /\ ledger'.last \in {ledger.now, ledger.last}
  BY <1>1, NotingParts
<1>6. LedgerTyped'
  <2>1. /\ ledger'.base \in Nat /\ ledger'.last \in Nat /\ ledger'.now \in Nat
        /\ ledger'.now <= MaxMoments
    BY <1>4, <1>5 DEF LedgerTyped
  <2>2. Listed(ledger'.troves)
    BY <1>3, <1>5
  <2> QED BY <1>5, <2>1, <2>2 DEF LedgerTyped
<1> QED BY <1>1, <1>6 DEF LedgerKeeps

-----------------------------------------------------------------------------
(* Redemption: what the library does *)

\* A step of the library leaves the ledger alone until the transaction is mined.
LEMMA LibraryStep ==
    ASSUME LedgerTyped, ledger' = ledger, NEW l, l = redemption', l.phase # "mined",
           RedemptionTyped(l), FeeInv(l), HintsInv(l)
    PROVE  RedemptionInv'
<1>1. LedgerTyped'
  BY DEF LedgerTyped
<1>2. RedemptionTyped(redemption)' /\ (redemption.phase # "mined")'
  OBVIOUS
<1>3. FeeInv(redemption)'
  BY DEF FeeInv, FeesRead, FeesKept, TotalKept, LimitKept, RefusalKept, FeesNow
<1>4. HintsInv(redemption)'
  BY DEF HintsInv, HintsKept, AmountKept, RedeemsAll
<1> QED BY <1>1, <1>2, <1>3, <1>4 DEF RedemptionInv

\* A change of the phase alone.
LEMMA PhaseChanges ==
    ASSUME NEW r, RedemptionTyped(r), NEW phase, phase \in {"ready", "sent"} => r.got = RedemptionPart,
           NEW l, l = [r EXCEPT !.phase = phase]
    PROVE  /\ RedemptionTyped(l) /\ l.phase = phase
           /\ l.attempt = r.attempt /\ l.max = r.max /\ l.got = r.got /\ l.view = r.view
           /\ l.amount = r.amount /\ l.partial = r.partial /\ l.limit = r.limit
           /\ l.increased = r.increased /\ l.since = r.since /\ l.torn = r.torn
<1>1. l = [phase |-> phase, attempt |-> r.attempt, max |-> r.max, got |-> r.got,
           view |-> r.view, amount |-> r.amount, partial |-> r.partial, limit |-> r.limit,
           increased |-> r.increased, result |-> r.result, since |-> r.since, torn |-> r.torn]
  BY DEF RedemptionTyped, RedemptionShape
<1>2. /\ l.phase = phase
      /\ l.attempt = r.attempt /\ l.max = r.max /\ l.got = r.got /\ l.view = r.view
      /\ l.amount = r.amount /\ l.partial = r.partial /\ l.limit = r.limit
      /\ l.increased = r.increased /\ l.since = r.since /\ l.torn = r.torn
  BY <1>1
<1>3. RedemptionShape(l)
  BY <1>1, <1>2 DEF RedemptionTyped, RedemptionShape
<1> QED BY <1>2, <1>3 DEF RedemptionTyped

\* A redemption that only changes its phase, to one that claims nothing.
LEMMA EndedStep ==
    ASSUME RedemptionInv, ledger' = ledger,
           NEW phase \in {"idle", "reverted", "thrown"}, redemption.phase # "mined",
           redemption' = [redemption EXCEPT !.phase = phase] \/ redemption' = [NoRedemption EXCEPT !.phase = phase]
    PROVE  RedemptionInv'
<1> DEFINE r == redemption
           l == redemption'
<1>1. LedgerTyped /\ RedemptionTyped(r)
  BY DEF RedemptionInv
<1>2. CASE l = [NoRedemption EXCEPT !.phase = phase]
  <2>1. l = [phase |-> phase, attempt |-> 0, max |-> NoLimit, got |-> {}, view |-> NoAnswers,
             amount |-> 0, partial |-> NoHint, limit |-> 0, increased |-> FALSE,
             result |-> 0, since |-> {}, torn |-> {}]
    BY <1>2 DEF NoRedemption
  <2> HIDE DEF l
  <2>2. RedemptionTyped(l) /\ l.phase = phase
    <3>1. /\ NoAnswers = [p \in RedemptionPart |-> NoAnswers[p]]
          /\ \A p \in RedemptionPart \ {"hints"} : NoAnswers[p] = 0
          /\ NoAnswers["hints"].amount = 0
      BY DEF NoAnswers, RedemptionPart
    <3>2. RedemptionShape(l)
      BY <2>1, <3>1 DEF RedemptionShape
    <3> QED BY <2>1, <3>1, <3>2 DEF RedemptionTyped
  <2>3. FeeInv(l) /\ HintsInv(l)
    BY <2>2 DEF FeeInv, FeesRead, FeesKept, TotalKept, LimitKept, RefusalKept,
                HintsInv, HintsKept, AmountKept, RedeemsAll
  <2> QED BY <1>1, <2>2, <2>3, LibraryStep DEF l
<1>3. CASE l = [r EXCEPT !.phase = phase]
  <2> HIDE DEF l, r
  <2>1. RedemptionTyped(l) /\ l.phase = phase
    BY <1>1, <1>3, PhaseChanges
  <2>2. FeeInv(l) /\ HintsInv(l)
    BY <2>1 DEF FeeInv, FeesRead, FeesKept, TotalKept, LimitKept, RefusalKept,
                HintsInv, HintsKept, AmountKept, RedeemsAll
  <2>3. l.phase # "mined"
    BY <2>1
  <2> QED BY <1>1, <2>1, <2>2, <2>3, LibraryStep DEF l
<1> QED BY <1>2, <1>3

\* redeemZUSD is called.
LEMMA RedeemStep ==
    ASSUME RedemptionInv, NEW attempt \in Attempt, NEW max \in Limit, Redeem(attempt, max)
    PROVE  RedemptionInv'
<1> DEFINE l == redemption'
<1>1. LedgerTyped /\ ledger' = ledger
  BY DEF RedemptionInv, Redeem
<1>2. l = [phase |-> "reading", attempt |-> attempt, max |-> max, got |-> {}, view |-> NoAnswers,
           amount |-> 0, partial |-> NoHint, limit |-> 0, increased |-> FALSE,
           result |-> 0, since |-> {}, torn |-> {}]
  BY DEF Redeem, NoRedemption
<1> HIDE DEF l
<1>3. attempt \in Nat
  BY RedemptionAssumption
<1>4. RedemptionTyped(l) /\ l.phase = "reading" /\ l.got = {} /\ l.increased = FALSE
  <2>1. /\ NoAnswers = [p \in RedemptionPart |-> NoAnswers[p]]
        /\ \A p \in RedemptionPart \ {"hints"} : NoAnswers[p] = 0
        /\ NoAnswers["hints"].amount = 0
    BY DEF NoAnswers, RedemptionPart
  <2>2. RedemptionShape(l)
    BY <1>2, <2>1 DEF RedemptionShape
  <2> QED BY <1>2, <1>3, <2>1, <2>2 DEF RedemptionTyped
<1>5. FeeInv(l) /\ HintsInv(l)
  BY <1>4 DEF FeeInv, FeesRead, FeesKept, TotalKept, LimitKept, RefusalKept,
              HintsInv, HintsKept, AmountKept, RedeemsAll
<1> QED BY <1>1, <1>4, <1>5, LibraryStep DEF l

\* A call is answered.
LEMMA PartAnsweredStep ==
    ASSUME RedemptionInv, NEW p \in RedemptionPart, PartAnswered(p)
    PROVE  RedemptionInv'
<1> DEFINE r == redemption
           l == redemption'
           answer == Current(p)
           since == r.since \ (CASE p = "hints" -> {"list"} [] p = "total" -> {"shrink"}
                                 [] OTHER -> {})
           view == [r.view EXCEPT ![p] = answer]
<1>1. /\ r.phase = "reading" /\ ledger' = ledger /\ LedgerTyped /\ RedemptionTyped(r)
      /\ FeeInv(r) /\ HintsInv(r) /\ p \notin r.got
      /\ l = [r EXCEPT !.got = r.got \cup {p}, !.view = view, !.since = since]
  BY DEF PartAnswered, RedemptionInv
<1>2. Listed(ledger.troves) /\ ledger.troves \in Seq(ListedTrove)
  BY <1>1 DEF LedgerTyped, Listed
<1>3. /\ p = "hints" => answer = Hints(ledger.troves, r.attempt) /\ answer.amount \in Nat
      /\ p = "total" => answer = TotalDebt(ledger.troves)
      /\ p # "hints" => answer \in Nat
      /\ p \in {"base", "last", "now"} => answer = ledger[p]
  <2>1. p = "hints" => answer = Hints(ledger.troves, r.attempt) /\ answer.amount \in Nat
    BY <1>1, <1>2, HintsType DEF Current, RedemptionTyped
  <2>2. p = "total" => answer = TotalDebt(ledger.troves) /\ answer \in Nat
    BY <1>2, TotalDebtType DEF Current
  <2>3. p \in {"base", "last", "now"} => answer = ledger[p]
    BY DEF Current
  <2>4. ledger["base"] \in Nat /\ ledger["last"] \in Nat /\ ledger["now"] \in Nat
    BY <1>1 DEF LedgerTyped
  <2> QED BY <2>1, <2>2, <2>3, <2>4 DEF RedemptionPart
<1>4. /\ "raise" \in since <=> "raise" \in r.since
      /\ p # "hints" => ("list" \in since <=> "list" \in r.since)
      /\ p # "total" => ("shrink" \in since <=> "shrink" \in r.since)
  OBVIOUS
<1>5. /\ view = [q \in RedemptionPart |-> view[q]] /\ view[p] = answer
      /\ \A q \in RedemptionPart \ {p} : view[q] = r.view[q]
  <2> HIDE DEF answer, r
  <2> QED BY <1>1 DEF RedemptionTyped, RedemptionShape
<1> HIDE DEF r, l, answer, since, view
<1>6. l = [phase |-> "reading", attempt |-> r.attempt, max |-> r.max, got |-> r.got \cup {p},
           view |-> view, amount |-> r.amount, partial |-> r.partial, limit |-> r.limit,
           increased |-> r.increased, result |-> r.result, since |-> since, torn |-> r.torn]
  BY <1>1 DEF RedemptionTyped, RedemptionShape
<1>7. /\ l.phase = "reading" /\ l.attempt = r.attempt /\ l.got = r.got \cup {p}
      /\ l.view = view /\ l.amount = r.amount /\ l.increased = r.increased
      /\ l.since = since /\ l.torn = r.torn
  BY <1>6
<1>8. RedemptionTyped(l)
  <2>1. RedemptionShape(l)
    BY <1>5, <1>6, <1>7 DEF RedemptionShape
  <2>2. \A q \in RedemptionPart \ {"hints"} : view[q] \in Nat
    BY <1>1, <1>3, <1>5 DEF RedemptionTyped
  <2>3. view["hints"].amount \in Nat
    BY <1>1, <1>3, <1>5 DEF RedemptionTyped, RedemptionPart
  <2> QED BY <1>1, <1>7, <2>1, <2>2, <2>3 DEF RedemptionTyped
<1>9. FeesRead(l)
  <2> SUFFICES ASSUME FeesTrusted(l)
               PROVE  /\ \A q \in l.got \cap {"base", "last"} : l.view[q] = ledger[q]
                      /\ "now" \in l.got => l.view["now"] <= ledger.now
    BY DEF FeesRead
  <2>1. FeesTrusted(r)
    BY <1>4, <1>7 DEF FeesTrusted
  <2>2. /\ \A q \in r.got \cap {"base", "last"} : r.view[q] = ledger[q]
        /\ "now" \in r.got => r.view["now"] <= ledger.now
    BY <1>1, <2>1 DEF FeeInv, FeesRead
  <2>3. {"base", "last", "now"} \subseteq RedemptionPart /\ ledger.now \in Nat /\ ledger.now <= ledger.now
    BY <1>1 DEF RedemptionPart, LedgerTyped
  <2>4. \A q \in l.got \cap {"base", "last"} : l.view[q] = ledger[q]
    BY <1>3, <1>5, <1>7, <2>2, <2>3
  <2>5. "now" \in l.got => l.view["now"] <= ledger.now
    BY <1>3, <1>5, <1>7, <2>2, <2>3
  <2> QED BY <2>4, <2>5
<1>10. TotalKept(l)
  <2> SUFFICES ASSUME "total" \in l.got
               PROVE  /\ l.view["total"] = 0 => Len(ledger.troves) = 0
                      /\ "shrink" \notin l.since => l.view["total"] <= TotalDebt(ledger.troves)
    BY DEF TotalKept
  <2>1. CASE p = "total"
    <3>1. l.view["total"] = TotalDebt(ledger.troves) /\ TotalDebt(ledger.troves) \in Nat
      BY <1>2, <1>3, <1>5, <1>7, <2>1, TotalDebtType
    <3> QED BY <1>2, <3>1, TotalDebtPositive
  <2>2. CASE p # "total"
    <3>1. "total" \in r.got /\ l.view["total"] = r.view["total"]
      BY <1>5, <1>7, <2>2 DEF RedemptionPart
    <3>2. "shrink" \notin l.since => "shrink" \notin r.since
      BY <1>4, <1>7, <2>2
    <3> QED BY <1>1, <3>1, <3>2 DEF FeeInv, TotalKept
  <2> QED BY <2>1, <2>2
<1>11. FeesKept(l) /\ LimitKept(l) /\ RefusalKept(l) /\ AmountKept(l) /\ RedeemsAll(l)
  BY <1>7 DEF FeesKept, LimitKept, RefusalKept, AmountKept, RedeemsAll
<1>12. HintsKept(l)
  <2> SUFFICES ASSUME "hints" \in l.got, ~l.increased, "list" \notin l.since
               PROVE  l.view["hints"] = Hints(ledger.troves, l.attempt)
    BY DEF HintsKept
  <2>1. CASE p = "hints"
    BY <1>3, <1>5, <1>7, <2>1
  <2>2. CASE p # "hints"
    <3>1. "hints" \in r.got /\ l.view["hints"] = r.view["hints"] /\ "list" \notin r.since
      BY <1>4, <1>5, <1>7, <2>2 DEF RedemptionPart
    <3> QED BY <1>1, <1>7, <3>1 DEF HintsInv, HintsKept
  <2> QED BY <2>1, <2>2
<1>13. l.phase = "reading" => ~l.increased
  BY <1>1, <1>7 DEF HintsInv
<1>14. FeeInv(l) /\ HintsInv(l) /\ l.phase # "mined" /\ l = redemption'
  BY <1>7, <1>9, <1>10, <1>11, <1>12, <1>13 DEF FeeInv, HintsInv, l
<1> QED BY <1>1, <1>8, <1>14, LibraryStep

\* The limit for an amount by what has been read suffices for what is redeemed,
\* unless something has happened that excuses the refusal.
LEMMA LimitHolds ==
    ASSUME LedgerTyped, NEW r, RedemptionTyped(r), TotalKept(r),
           r.phase \in {"reading", "ready", "sent"}, r.got = RedemptionPart,
           FeesTrusted(r) => BaseRate(FeesNow) <= BaseRate(ViewFees(r.view)),
           {"raise", "shrink"} \cap r.since = {}, "decay" \notin r.torn,
           NEW amount \in Nat, NEW partial, NEW redeemed,
           redeemed = RedeemedAmount(ledger.troves, amount, partial), redeemed # 0, NEW limit,
           limit = Least(RedemptionRate(ViewFees(r.view), Div(amount, r.view["total"]))
                         + RateTolerance, Digits)
    PROVE  RateAccepted(redeemed, limit)
<1> DEFINE fees == ViewFees(r.view)
           total == r.view["total"]
<1>1. BaseRate(FeesNow) <= BaseRate(fees) /\ fees \in FeeState /\ total \in Nat
  BY ViewFeesType DEF FeesTrusted
<1>2. redeemed \in Nat /\ redeemed <= amount /\ (Len(ledger.troves) = 0 => redeemed = 0)
  <2>1. Listed(ledger.troves)
    BY DEF LedgerTyped
  <2> QED BY <2>1, RedeemedType
<1>3. total # 0 /\ total <= TotalDebt(ledger.troves)
  <2>1. "total" \in r.got /\ "shrink" \notin r.since
    BY DEF RedemptionPart
  <2> QED BY <1>2, <2>1 DEF TotalKept
<1> HIDE DEF fees, total
<1>4. limit = Least(RedemptionRate(fees, Div(amount, total)) + RateTolerance, Digits)
  BY DEF fees, total
<1> QED BY <1>1, <1>2, <1>3, <1>4, RedemptionLimitSuffices

\* A redemption is populated: first, or for an increased amount.
LEMMA RedemptionPopulatedStep ==
    ASSUME RedemptionInv, redemption.phase \in {"reading", "ready"},
           redemption.got = RedemptionPart, ledger' = ledger,
           NEW amount \in Nat, NEW attempt \in Nat, NEW max, NEW partial, NEW increased \in BOOLEAN,
           PopulateRedemption(amount, attempt, max, partial, increased),
           amount = IF increased THEN attempt ELSE redemption.view["hints"].amount,
           ~increased /\ "list" \notin redemption.since =>
               redemption.view["hints"] = Hints(ledger.troves, attempt),
           /\ "list" \notin redemption.since
           /\ increased => redemption.view["hints"].stopped
           => RedeemedAmount(ledger.troves, amount, partial) = amount
    PROVE  RedemptionInv'
<1> DEFINE r == redemption
           l == redemption'
           redeemed == RedeemedAmount(ledger.troves, amount, partial)
           limit == RedemptionLimit(max, amount)
<1>1. LedgerTyped /\ RedemptionTyped(r) /\ FeeInv(r) /\ HintsInv(r)
  BY DEF RedemptionInv
<1>2. FeesTrusted(r) => BaseRate(FeesNow) <= BaseRate(ViewFees(r.view))
  <2>1. CASE r.phase = "reading" /\ FeesTrusted(r)
    <3> DEFINE f == ViewFees(r.view)
               g == FeesNow
    <3>1. /\ r.view["base"] = ledger.base /\ r.view["last"] = ledger.last
          /\ r.view["now"] <= ledger.now
      BY <1>1, <2>1 DEF FeeInv, FeesRead, RedemptionPart
    <3>2. /\ g.base = f.base /\ g.last = f.last /\ g.recovery = f.recovery
          /\ f.now <= g.now /\ g.now <= MaxMoments
      BY <1>1, <3>1 DEF ViewFees, FeesNow, LedgerTyped
    <3>3. f \in FeeState /\ g \in FeeState
      BY <1>1, FeesNowType, ViewFeesType
    <3>4. MaxMoments \in Nat /\ DecaysUpTo(MaxMoments \div TicksPerMinute)
      BY RedemptionAssumption
    <3> HIDE DEF f, g
    <3>5. BaseRate(g) <= BaseRate(f)
      BY <3>2, <3>3, <3>4, RateFalls
    <3> QED BY <3>5 DEF f, g
  <2>2. CASE r.phase = "ready" /\ FeesTrusted(r)
    BY <1>1, <2>2 DEF FeeInv, FeesKept
  <2> QED BY <2>1, <2>2
<1>3. limit = IF max # NoLimit THEN max
              ELSE Least(RedemptionRate(ViewFees(r.view), Div(amount, r.view["total"]))
                         + RateTolerance, Digits)
  BY DEF RedemptionLimit, ViewFees
<1>4. CASE redeemed = 0
  <2>1. l = [NoRedemption EXCEPT !.phase = "thrown"]
    BY <1>4 DEF PopulateRedemption, Thrown
  <2> QED BY <2>1, EndedStep
<1>5. CASE redeemed # 0
  <2> DEFINE phase == IF RateAccepted(redeemed, limit) THEN "ready" ELSE "refused"
  <2>1. l = [r EXCEPT !.phase = phase, !.amount = amount, !.attempt = attempt, !.max = max,
                      !.limit = limit, !.partial = partial, !.increased = increased]
    <3> HIDE DEF redeemed, limit
    <3>1. CASE RateAccepted(redeemed, limit)
      BY <1>5, <3>1 DEF PopulateRedemption, redeemed, limit
    <3>2. CASE ~RateAccepted(redeemed, limit)
      <4>1. l = [[r EXCEPT !.phase = "ready", !.amount = amount, !.attempt = attempt,
                           !.max = max, !.limit = limit, !.partial = partial,
                           !.increased = increased] EXCEPT !.phase = "refused"]
        BY <1>5, <3>2 DEF PopulateRedemption, redeemed, limit
      <4> HIDE DEF r, l
      <4> QED BY <1>1, <3>2, <4>1 DEF RedemptionTyped, RedemptionShape
    <3> QED BY <3>1, <3>2
  <2> HIDE DEF l, r, phase, redeemed, limit
  <2>2. l = [phase |-> phase, attempt |-> attempt, max |-> max, got |-> r.got, view |-> r.view,
             amount |-> amount, partial |-> partial, limit |-> limit, increased |-> increased,
             result |-> r.result, since |-> r.since, torn |-> r.torn]
    BY <1>1, <2>1 DEF RedemptionTyped, RedemptionShape
  <2>3. /\ l.phase = phase /\ l.attempt = attempt /\ l.max = max /\ l.got = r.got
        /\ l.view = r.view /\ l.amount = amount /\ l.partial = partial /\ l.limit = limit
        /\ l.increased = increased /\ l.since = r.since /\ l.torn = r.torn
    BY <2>2
  <2>4. phase \in {"ready", "refused"} /\ (phase = "refused" => ~RateAccepted(redeemed, limit))
    BY DEF phase
  <2>5. r.got = RedemptionPart /\ r.phase \in {"reading", "ready"}
    BY DEF r
  <2>6. RedemptionTyped(l)
    <3>1. RedemptionShape(l)
      BY <1>1, <2>2, <2>3 DEF RedemptionTyped, RedemptionShape
    <3> QED BY <1>1, <2>3, <2>5, <3>1 DEF RedemptionTyped
  <2>7. FeesRead(l) /\ FeesKept(l)
    BY <1>2, <2>3, <2>4 DEF FeesRead, FeesKept, FeesTrusted
  <2>8. TotalKept(r) /\ TotalKept(l)
    BY <1>1, <2>3, <2>5 DEF FeeInv, TotalKept
  <2>9. LimitKept(l)
    BY <1>3, <2>3 DEF LimitKept
  <2>10. RefusalKept(l)
    <3> SUFFICES ASSUME phase = "refused", max = NoLimit,
                        {"raise", "shrink"} \cap r.since = {}, "decay" \notin r.torn
                 PROVE  FALSE
      BY <2>3 DEF RefusalKept
    <3>1. limit = Least(RedemptionRate(ViewFees(r.view), Div(amount, r.view["total"]))
                        + RateTolerance, Digits)
      BY <1>3
    <3>2. redeemed = RedeemedAmount(ledger.troves, amount, partial)
      BY DEF redeemed
    <3>3. RateAccepted(redeemed, limit)
      BY <1>1, <1>2, <1>5, <2>5, <2>8, <3>1, <3>2, LimitHolds
    <3> QED BY <2>4, <3>3
  <2>11. HintsInv(l)
    BY <2>3, <2>4 DEF HintsInv, HintsKept, AmountKept, RedeemsAll, r
  <2>12. FeeInv(l) /\ l.phase # "mined"
    BY <2>3, <2>4, <2>7, <2>8, <2>9, <2>10 DEF FeeInv
  <2> QED BY <1>1, <2>6, <2>11, <2>12, LibraryStep DEF l
<1> QED BY <1>4, <1>5

\* The last answer is in.
LEMMA RedemptionAnsweredStep ==
    ASSUME RedemptionInv, Answered
    PROVE  RedemptionInv'
<1> DEFINE r == redemption
           h == redemption.view["hints"]
<1>1. /\ LedgerTyped /\ RedemptionTyped(r) /\ HintsInv(r)
      /\ r.phase = "reading" /\ r.got = RedemptionPart /\ ledger' = ledger
  BY DEF RedemptionInv, Answered
<1>2. CASE redemption' = Thrown
  BY <1>1, <1>2, EndedStep DEF Thrown
<1>3. CASE PopulateRedemption(Redeemable(h), r.attempt, r.max, h.partial, FALSE)
  <2>1. PopulateRedemption(h.amount, r.attempt, r.max, h.partial, FALSE)
    BY <1>3 DEF Redeemable
  <2>2. h.amount \in Nat /\ r.attempt \in Nat
    BY <1>1 DEF RedemptionTyped
  <2>3. "list" \notin r.since => h = Hints(ledger.troves, r.attempt)
    BY <1>1 DEF HintsInv, HintsKept, RedemptionPart
  <2>4. "list" \notin r.since => RedeemedAmount(ledger.troves, h.amount, h.partial) = h.amount
    <3>1. Listed(ledger.troves)
      BY <1>1 DEF LedgerTyped
    <3> DEFINE x == r.attempt
               list == ledger.troves
    <3>2. x \in Nat /\ Listed(list) /\ ("list" \notin r.since => h = Hints(list, x))
      BY <2>2, <2>3, <3>1
    <3>3. h = Hints(list, x) => RedeemedAmount(list, h.amount, h.partial) = h.amount
      <4> HIDE DEF h, list, x
      <4> QED BY <3>2, HintsHold
    <3> QED BY <3>2, <3>3
  <2> QED BY <1>1, <2>1, <2>2, <2>3, <2>4, RedemptionPopulatedStep
<1> QED BY <1>2, <1>3 DEF Answered

\* The amount that is increased is that of the hints, as long as they are those
\* of the troves.
LEMMA TruncatedParts ==
    ASSUME RedemptionInv, redemption.phase = "ready", IsTruncated
    PROVE  /\ redemption.got = RedemptionPart /\ redemption.amount \in Nat
           /\ redemption.attempt \in Nat /\ redemption.amount < redemption.attempt
           /\ redemption.amount = redemption.view["hints"].amount
           /\ "list" \notin redemption.since =>
                 redemption.view["hints"] = Hints(ledger.troves, redemption.attempt)
<1>1. RedemptionTyped(redemption) /\ HintsInv(redemption)
  BY DEF RedemptionInv
<1>2. /\ redemption.amount \in Nat /\ redemption.attempt \in Nat
      /\ redemption.amount < redemption.attempt /\ redemption.got = RedemptionPart
  BY <1>1 DEF RedemptionTyped, IsTruncated
<1>3. ~redemption.increased /\ redemption.amount = redemption.view["hints"].amount
  BY <1>1, <1>2 DEF HintsInv, AmountKept
<1> QED BY <1>1, <1>2, <1>3 DEF HintsInv, HintsKept, RedemptionPart

\* increaseAmountByMinimumNetDebt.
LEMMA RedemptionIncreasedStep ==
    ASSUME RedemptionInv, NEW max, IncreaseAmount(max)
    PROVE  RedemptionInv'
<1> DEFINE r == redemption
           h == redemption.view["hints"]
           limit == IF max = NoLimit THEN redemption.max ELSE max
<1>1. /\ LedgerTyped /\ r.phase = "ready" /\ IsTruncated /\ ledger' = ledger
      /\ PopulateRedemption(NextAmount, NextAmount, limit, NoHint, TRUE)
  BY DEF RedemptionInv, IncreaseAmount
<1>2. /\ r.got = RedemptionPart /\ r.amount \in Nat /\ r.attempt \in Nat
      /\ r.amount < r.attempt /\ r.amount = h.amount
      /\ "list" \notin r.since => h = Hints(ledger.troves, r.attempt)
  BY <1>1, TruncatedParts
<1>3. NextAmount \in Nat /\ NextAmount = h.amount + LeastNetDebt
  BY <1>2, RedemptionAssumption DEF NextAmount
<1> HIDE DEF limit
<1>4. "list" \notin r.since /\ h.stopped =>
         RedeemedAmount(ledger.troves, NextAmount, NoHint) = NextAmount
  <2> DEFINE x == r.attempt
             list == ledger.troves
             next == NextAmount
  <2>1. /\ x \in Nat /\ Listed(list) /\ h.amount < x /\ next = h.amount + LeastNetDebt
        /\ "list" \notin r.since => h = Hints(list, x)
    BY <1>1, <1>2, <1>3 DEF LedgerTyped
  <2>2. h = Hints(list, x) /\ h.stopped => RedeemedAmount(list, next, NoHint) = next
    <3> HIDE DEF h, list, x, next
    <3> QED BY <2>1, NextHolds
  <2> QED BY <2>1, <2>2
<1> QED BY <1>1, <1>2, <1>3, <1>4, RedemptionPopulatedStep

\* The redemption is sent.
LEMMA RedemptionSentStep ==
    ASSUME RedemptionInv, SendRedemption
    PROVE  RedemptionInv'
<1> DEFINE r == redemption
           l == redemption'
<1>1. /\ LedgerTyped /\ RedemptionTyped(r) /\ FeeInv(r) /\ HintsInv(r) /\ r.phase = "ready"
      /\ l = [r EXCEPT !.phase = "sent"] /\ ledger' = ledger
  BY DEF RedemptionInv, SendRedemption
<1> HIDE DEF r, l
<1>2. r.got = RedemptionPart
  BY <1>1 DEF RedemptionTyped
<1>3. /\ RedemptionTyped(l) /\ l.phase = "sent"
      /\ l.attempt = r.attempt /\ l.max = r.max /\ l.got = r.got /\ l.view = r.view
      /\ l.amount = r.amount /\ l.partial = r.partial /\ l.limit = r.limit
      /\ l.increased = r.increased /\ l.since = r.since /\ l.torn = r.torn
  BY <1>1, <1>2, PhaseChanges
<1>4. FeeInv(l)
  BY <1>1, <1>3 DEF FeeInv, FeesRead, FeesKept, FeesTrusted, TotalKept, LimitKept, RefusalKept
<1>5. HintsInv(l)
  BY <1>1, <1>3 DEF HintsInv, HintsKept, AmountKept, RedeemsAll
<1> QED BY <1>1, <1>3, <1>4, <1>5, LibraryStep DEF l

\* The transaction is mined.
LEMMA RedemptionMinedStep ==
    ASSUME RedemptionInv, MineRedemption
    PROVE  RedemptionInv'
<1> DEFINE r == redemption
           l == redemption'
           redeemed == RedeemedAmount(ledger.troves, redemption.amount, redemption.partial)
<1>1. LedgerTyped /\ RedemptionTyped(r) /\ FeeInv(r) /\ HintsInv(r) /\ r.phase = "sent"
  BY DEF RedemptionInv, MineRedemption
<1>2. r.got = RedemptionPart /\ r.amount \in Nat
  BY <1>1 DEF RedemptionTyped
<1>3. CASE l = [r EXCEPT !.phase = "reverted"] /\ ledger' = ledger
  BY <1>1, <1>3, EndedStep
<1>4. CASE /\ redeemed # 0 /\ ~RateAccepted(redeemed, r.limit)
           /\ l = [r EXCEPT !.phase = "refused"] /\ ledger' = ledger
  <2> HIDE DEF r, l
  <2>1. /\ RedemptionTyped(l) /\ l.phase = "refused"
        /\ l.attempt = r.attempt /\ l.max = r.max /\ l.got = r.got /\ l.view = r.view
        /\ l.amount = r.amount /\ l.partial = r.partial /\ l.limit = r.limit
        /\ l.increased = r.increased /\ l.since = r.since /\ l.torn = r.torn
    BY <1>1, <1>2, <1>4, PhaseChanges
  <2>2. RefusalKept(l)
    <3> SUFFICES ASSUME r.max = NoLimit, {"raise", "shrink"} \cap r.since = {}, "decay" \notin r.torn
                 PROVE  FALSE
      BY <2>1 DEF RefusalKept
    <3>1. r.limit = Least(RedemptionRate(ViewFees(r.view), Div(r.amount, r.view["total"]))
                          + RateTolerance, Digits)
      BY <1>1 DEF FeeInv, LimitKept
    <3>2. FeesTrusted(r) => BaseRate(FeesNow) <= BaseRate(ViewFees(r.view))
      BY <1>1 DEF FeeInv, FeesKept
    <3>3. redeemed = RedeemedAmount(ledger.troves, r.amount, r.partial)
      BY DEF r
    <3>4. TotalKept(r)
      BY <1>1 DEF FeeInv
    <3> HIDE DEF redeemed
    <3>5. RateAccepted(redeemed, r.limit)
      BY <1>1, <1>2, <1>4, <3>1, <3>2, <3>3, <3>4, LimitHolds
    <3> QED BY <1>4, <3>5
  <2>3. FeeInv(l)
    BY <2>1, <2>2 DEF FeeInv, FeesRead, FeesKept, TotalKept, LimitKept
  <2>4. HintsInv(l)
    BY <2>1 DEF HintsInv, HintsKept, AmountKept, RedeemsAll
  <2>5. ledger' = ledger
    BY <1>4
  <2> QED BY <1>1, <2>1, <2>3, <2>4, <2>5, LibraryStep DEF l
<1>5. CASE l = [[r EXCEPT !.phase = "mined"] EXCEPT !.result = redeemed]
  <2>1. /\ l.phase = "mined" /\ l.result = redeemed /\ l.since = r.since /\ l.view = r.view
        /\ l.increased = r.increased /\ l.amount = r.amount
    <3> HIDE DEF r, l, redeemed
    <3> QED BY <1>1, <1>5 DEF RedemptionTyped, RedemptionShape
  <2>2. /\ "list" \notin r.since
        /\ r.increased => r.view["hints"].stopped
        => redeemed = r.amount
    BY <1>1 DEF HintsInv, RedeemsAll
  <2> HIDE DEF redeemed
  <2>3. RedeemsWhatItSays'
    BY <2>1, <2>2 DEF RedeemsWhatItSays
  <2> QED BY <2>1, <2>3 DEF RedemptionInv
<1> QED BY <1>3, <1>4, <1>5 DEF MineRedemption

-----------------------------------------------------------------------------
(* Redemption: the theorems *)

LEMMA RedemptionStart == ASSUME RedemptionInit PROVE RedemptionInv
<1> DEFINE r == redemption
<1>1. r = NoRedemption
  BY DEF RedemptionInit
<1>2. LedgerTyped
  <2>1. PICK list \in TroveList, base \in Base :
           ledger = [base |-> base, last |-> 0, now |-> 0, troves |-> list]
    BY DEF RedemptionInit
  <2>2. Listed(list) /\ base \in Nat /\ MaxMoments \in Nat
    BY RedemptionAssumption DEF Listed, ListedTrove
  <2> QED BY <2>1, <2>2 DEF LedgerTyped
<1>3. RedemptionTyped(r) /\ r.phase = "idle"
  <2>1. /\ NoAnswers = [p \in RedemptionPart |-> NoAnswers[p]]
        /\ \A p \in RedemptionPart \ {"hints"} : NoAnswers[p] = 0
        /\ NoAnswers["hints"].amount = 0
    BY DEF NoAnswers, RedemptionPart
  <2> HIDE DEF r
  <2>2. RedemptionShape(r)
    BY <1>1, <2>1 DEF RedemptionShape, NoRedemption
  <2> QED BY <1>1, <2>1, <2>2 DEF RedemptionTyped, NoRedemption
<1>4. FeeInv(r) /\ HintsInv(r)
  BY <1>3 DEF FeeInv, FeesRead, FeesKept, TotalKept, LimitKept, RefusalKept,
              HintsInv, HintsKept, AmountKept, RedeemsAll
<1> QED BY <1>2, <1>3, <1>4 DEF RedemptionInv

LEMMA RedemptionStep ==
    ASSUME RedemptionInv, [RedemptionNext]_redemptionVars
    PROVE  RedemptionInv'
\* A mined redemption stays as it is.
<1>1. CASE redemption.phase = "mined"
  <2>1. redemption' = redemption
    BY <1>1 DEF RedemptionNext, redemptionVars, Redeem, PartAnswered, Answered, SendRedemption,
                MineRedemption, IncreaseAmount, TimePasses, RedeemedFirst, BorrowedBy, RepaidBy,
                Traded, NotedTrade, Redeeming
  <2> QED BY <1>1, <2>1 DEF RedemptionInv, RedeemsWhatItSays
<1>2. CASE redemption.phase # "mined"
  <2>1. ASSUME NEW attempt \in Attempt, NEW max \in Limit, Redeem(attempt, max)
        PROVE  RedemptionInv'
    BY <2>1, RedeemStep
  <2>2. ASSUME NEW p \in RedemptionPart, PartAnswered(p) PROVE RedemptionInv'
    BY <2>2, PartAnsweredStep
  <2>3. CASE Answered
    BY <2>3, RedemptionAnsweredStep
  <2>4. CASE SendRedemption
    BY <2>4, RedemptionSentStep
  <2>5. CASE MineRedemption
    BY <2>5, RedemptionMinedStep
  <2>6. ASSUME NEW max \in Limit, IncreaseAmount(max) PROVE RedemptionInv'
    BY <2>6, RedemptionIncreasedStep
  <2>7. CASE TimePasses
    BY <1>2, <2>7, TimeStep
  <2>8. LedgerTyped
    BY <1>2 DEF RedemptionInv
  <2>9. CASE RedeemedFirst
    BY <1>2, <2>8, <2>9, RedeemedKeeps, TradeStep DEF RedeemedFirst, Traded
  <2>10. ASSUME NEW k \in DOMAIN ledger.troves, BorrowedBy(k) PROVE RedemptionInv'
    BY <1>2, <2>8, <2>10, BorrowedKeeps, TradeStep DEF BorrowedBy, Traded
  <2>11. ASSUME NEW k \in DOMAIN ledger.troves, RepaidBy(k) PROVE RedemptionInv'
    BY <1>2, <2>8, <2>11, RepaidKeeps, TradeStep DEF RepaidBy, Traded
  <2>12. CASE UNCHANGED redemptionVars
    BY <2>12 DEF redemptionVars, RedemptionInv, LedgerTyped, FeeInv, HintsInv, FeesRead, FeesKept,
                 TotalKept, LimitKept, RefusalKept, HintsKept, AmountKept, RedeemsAll, FeesNow,
                 RedeemsWhatItSays
  <2> QED BY <2>1, <2>2, <2>3, <2>4, <2>5, <2>6, <2>7, <2>9, <2>10, <2>11, <2>12 DEF RedemptionNext
<1> QED BY <1>1, <1>2

\* The invariant holds for every list of troves, amount, limit and rate.
LEMMA RedemptionInvariant == RedemptionSpec => []RedemptionInv
<1>1. RedemptionInit => RedemptionInv
  BY RedemptionStart
<1>2. RedemptionInv /\ [RedemptionNext]_redemptionVars => RedemptionInv'
  BY RedemptionStep
<1> QED BY <1>1, <1>2, PTL DEF RedemptionSpec

\* Liquity.test.ts:804-826: whatever the troves are and however the chain moves, a
\* redemption that is mined redeems exactly the amount that it announced, first or
\* increased, unless the troves have changed since the hints for it were read or no
\* trove had ended the walk for them.
THEOREM RedeemsAnnounced == RedemptionSpec => []RedeemsWhatItSays
<1>1. RedemptionInv => RedeemsWhatItSays
  BY DEF RedemptionInv, RedeemsWhatItSays
<1> QED BY <1>1, RedemptionInvariant, PTL

\* PopulatableLiquity.ts:50-54: as long as the troves stay as they are, the amount
\* increased by the minimum net debt can be redeemed in full, and none of those
\* between it and the truncated amount can.
THEOREM IncreasesToNext == RedemptionSpec => []IncreaseIsNext
<1>1. RedemptionInv => IncreaseIsNext
  <2> DEFINE h == redemption.view["hints"]
  <2> SUFFICES ASSUME RedemptionInv, redemption.phase = "ready", IsTruncated,
                      "list" \notin redemption.since, h.stopped
               PROVE  /\ Hints(ledger.troves, NextAmount).amount = NextAmount
                      /\ \A a \in (redemption.amount + 1)..(NextAmount - 1) :
                            Hints(ledger.troves, a).amount < a
    BY DEF IncreaseIsNext
  <2>1. /\ redemption.attempt \in Nat /\ redemption.amount < redemption.attempt
        /\ redemption.amount = h.amount /\ h = Hints(ledger.troves, redemption.attempt)
    BY TruncatedParts
  <2>2. NextAmount = h.amount + LeastNetDebt
    BY <2>1 DEF NextAmount
  <2>3. Listed(ledger.troves)
    BY DEF RedemptionInv, LedgerTyped
  <2> HIDE DEF h
  <2>4. h.stopped /\ h.amount < redemption.attempt
    BY <2>1 DEF h
  <2> DEFINE next == NextAmount
  <2> HIDE DEF next
  <2>5. next = h.amount + LeastNetDebt
    BY <2>2 DEF next
  <2>6. /\ Hints(ledger.troves, next).amount = next
        /\ \A a \in (h.amount + 1)..(next - 1) : Hints(ledger.troves, a).amount < a
    BY <2>1, <2>3, <2>4, <2>5, NextHolds
  <2> QED BY <2>1, <2>6 DEF next
<1> QED BY <1>1, RedemptionInvariant, PTL

\* PopulatableEthersLiquity.ts:997-1001: for every base rate, tolerance and total,
\* the default limit for the rate suffices for what is redeemed until the
\* transaction is mined, unless a redemption or a repayment came in between, or a
\* borrowing between the reads.
THEOREM RedemptionRefusalsExplained == RedemptionSpec => []RedemptionRefusedOnlyIfRaised
<1>1. RedemptionInv => RedemptionRefusedOnlyIfRaised
  BY DEF RedemptionInv, FeeInv, RefusalKept, RedemptionRefusedOnlyIfRaised
<1> QED BY <1>1, RedemptionInvariant, PTL
=============================================================================
