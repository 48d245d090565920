----------------------------- MODULE HintSearch -----------------------------
(***************************************************************************)
(* _findHintsForNominalCollateralRatio: where in the sorted list a trove   *)
(* belongs.  The number of troves decides how many random troves are       *)
(* tried, in calls of at most MaxTrials that are made one after another,   *)
(* each with the random seed that the one before returned; the nearest     *)
(* trove is the start of a last call that finds the exact position.  The   *)
(* list, the random numbers and HintHelpers are external.                  *)
(***************************************************************************)
EXTENDS Integers, Sequences, FiniteSets

CONSTANTS
    Ratio,      \* inputs: ratios that are searched, Infinite among them
    Infinite,   \* the ratio of a trove without debt
    Row,        \* external: ratios that troves may have
    Factor,     \* 10: trials per square root of the number of troves
    MaxTrials,  \* maxNumberOfTrialsAtOnce
    Seeds,      \* randomInteger
    MaxListChanges   \* bound: changes of the list

ASSUME SearchAssumption ==
    /\ Ratio \subseteq Int /\ Row \subseteq Nat /\ IsFiniteSet(Row) /\ Infinite \in Ratio \ Row
    /\ Factor \in Nat \ {0} /\ MaxTrials \in Nat \ {0} /\ Seeds \subseteq Nat /\ MaxListChanges \in Nat

VARIABLES
    sorted,     \* external: the ratios in the sorted list
    search,     \* the search: phase, ratio, trials to come, seed, nearest, hints
    drawn,      \* history: random numbers drawn, in order
    listChanges

hintVars == <<sorted, search, drawn, listChanges>>

NoRow == -1
NoSearch == [phase |-> "idle", ratio |-> 0, count |-> 0, trials |-> <<>>, seed |-> 0,
         hint |-> NoRow, diff |-> NoRow, found |-> <<NoRow, NoRow>>]

HintInit == sorted \in SUBSET Row /\ search = NoSearch /\ drawn = <<>> /\ listChanges = 0

-----------------------------------------------------------------------------
\* Math.ceil(10 * Math.sqrt(numberOfTroves))
TotalTrials(n) ==
    CHOOSE t \in 0..(Factor * n) :
       /\ t * t >= Factor * Factor * n
       /\ \A u \in 0..(t - 1) : u * u < Factor * Factor * n

\* Wrong variant: what does not fill a last call is forgotten.
GenerateTrialsFull(total) == [k \in 1..(total \div MaxTrials) |-> MaxTrials]

\* generateTrials: full calls, and one for the rest.
GenerateTrials(total) ==
    [k \in 1..((total + MaxTrials - 1) \div MaxTrials) |->
       IF k * MaxTrials <= total THEN MaxTrials ELSE total % MaxTrials]

Abs(x) == IF x < 0 THEN -x ELSE x
\* findInsertPosition: the neighbours, higher ratio first.
Position(ratio) ==
    LET above == {r \in sorted : r >= ratio}
        below == {r \in sorted : r < ratio}
    IN <<IF above = {} THEN NoRow ELSE CHOOSE r \in above : \A s \in above : r <= s,
         IF below = {} THEN NoRow ELSE CHOOSE r \in below : \A s \in below : r >= s>>

\* A search begins with getNumberOfTroves; without troves it is over.
CountTroves(ratio, seed) ==
    LET n == Cardinality(sorted)
        start == [NoSearch EXCEPT !.ratio = ratio, !.count = n, !.seed = seed]
    IN
    /\ search.phase = "idle"
    /\ search' = CASE n = 0 -> [start EXCEPT !.phase = "done"]
                   [] n # 0 /\ ratio = Infinite -> [start EXCEPT !.phase = "first"]
                   [] OTHER -> [start EXCEPT !.phase = "approx",
                                             !.trials = GenerateTrials(TotalTrials(n))]
    /\ UNCHANGED <<sorted, drawn, listChanges>>

\* An infinite ratio comes before the first trove.
First ==
    /\ search.phase = "first"
    /\ search' = [search EXCEPT !.phase = "done", !.found = Position(Infinite)]
    /\ UNCHANGED <<sorted, drawn, listChanges>>

NextSeed(seed, trials) == seed + trials

\* getApproxHint, for the list of the moment: the nearest of the troves that the
\* random numbers after the seed name.  A later result wins a tie.
Approx ==
    LET n == Head(search.trials) IN
    /\ search.phase = "approx" /\ search.trials # <<>>
    /\ drawn' = drawn \o [k \in 1..n |-> search.seed + k]
    /\ \/ sorted = {} /\ search' = [search EXCEPT !.trials = Tail(@), !.seed = NextSeed(@, n)]
       \/ \E r \in sorted :
             LET diff == Abs(r - search.ratio)
                 nearer == search.diff = NoRow \/ diff <= search.diff
             IN search' = [search EXCEPT !.trials = Tail(@), !.seed = NextSeed(@, n),
                                         !.hint = IF nearer THEN r ELSE @,
                                         !.diff = IF nearer THEN diff ELSE @]
    /\ UNCHANGED <<sorted, listChanges>>

\* findInsertPosition from the nearest trove, which may be gone by now.
Insert ==
    /\ search.phase = "approx" /\ search.trials = <<>>
    /\ search' = [search EXCEPT !.phase = "done", !.found = Position(search.ratio)]
    /\ UNCHANGED <<sorted, drawn, listChanges>>

\* A trove comes or goes.
ListChanges(r) ==
    /\ listChanges < MaxListChanges /\ listChanges' = listChanges + 1
    /\ sorted' = IF r \in sorted THEN sorted \ {r} ELSE sorted \cup {r}
    /\ UNCHANGED <<search, drawn>>

HintNext ==
    \/ \E ratio \in Ratio, seed \in Seeds : CountTroves(ratio, seed)
    \/ First \/ Approx \/ Insert
    \/ \E r \in Row : ListChanges(r)

HintSpec == HintInit /\ [][HintNext]_hintVars

-----------------------------------------------------------------------------
\* PopulatableEthersLiquity.ts:87-102, 516-539: a search that is over has drawn
\* as many random numbers as the number of troves it started with calls for,
\* however many calls that took, none of them twice.
DrawsEnough ==
    search.phase = "done" /\ search.ratio # Infinite /\ search.count > 0 =>
        /\ Len(drawn) = TotalTrials(search.count)
        /\ Cardinality({drawn[k] : k \in 1..Len(drawn)}) = Len(drawn)
=============================================================================
