-------------------------- MODULE MtuSearchProofs --------------------------
(***************************************************************************)
(* Proofs about MtuSearch for every payload range Low..High, every route   *)
(* and every set of adapters.                                              *)
(***************************************************************************)
EXTENDS MtuSearch, TLAPS

\* low + (high - low) / 2 lies between the bounds it halves.
LEMMA Midpoint ==
  ASSUME NEW a \in Int, NEW b \in Int, a <= b
  PROVE  LET mid == a + (b - a) \div 2 IN mid \in Int /\ a <= mid /\ mid <= b
OBVIOUS

\* The MtuResult of an MTU the search can produce is well formed.
LEMMA ResultType ==
  ASSUME NEW mtu \in 0..StandardMtu, NEW found \in BOOLEAN
  PROVE  MtuResult(mtu, found) \in Result
BY SearchAssumption DEF MtuResult, Result, StandardMtu, Headers

\* The standard MTU and every payload in range plus its headers are such MTUs.
LEMMA MtuInRange ==
  /\ StandardMtu \in 0..StandardMtu
  /\ \A p \in Low..High : p + Headers \in 0..StandardMtu
BY SearchAssumption DEF StandardMtu, Headers

\* The program starts in the menu with nothing found.
LEMMA InitIInv == Init => IInv
<1> SUFFICES ASSUME Init PROVE IInv
  OBVIOUS
<1>1. result \in Result
  BY MtuInRange, ResultType DEF Init
<1>2. result.found = FALSE
  BY DEF Init, MtuResult
<1>3. mtuOf \in [Nic -> 0..StandardMtu]
  BY SearchAssumption DEF Init, StandardMtu, Headers
<1>4. path \in Nat /\ low \in Low..(High + 1) /\ high \in (Low - 1)..High
  BY SearchAssumption DEF Init
<1>5. TypeOK
  BY <1>1, <1>3, <1>4 DEF Init, TypeOK
<1> QED
  BY <1>2, <1>5
  DEF Init, IInv, BeforeSearch, Bracket, FoundNeverFragments, ExactWhenReliable

\* Starting a discovery keeps IInv.
LEMMA BeginIInv ==
  ASSUME IInv, NEW g \in {"show", "apply"}, Begin(g)
  PROVE  IInv'
<1>1. result' \in Result
  BY MtuInRange, ResultType DEF Begin
<1>2. result'.found = FALSE
  BY DEF Begin, MtuResult
<1>3. low' \in Low..(High + 1) /\ high' \in (Low - 1)..High
  BY SearchAssumption DEF Begin
<1>4. path' \in Nat
  BY SearchAssumption DEF Begin
<1>5. TypeOK'
  BY <1>1, <1>3, <1>4 DEF Begin, IInv, TypeOK
<1> QED
  BY <1>2, <1>5
  DEF Begin, IInv, BeforeSearch, Bracket, FoundNeverFragments, ExactWhenReliable

\* A round of the binary search keeps the bracket.
LEMMA HalveIInv == ASSUME IInv, Halve PROVE IInv'
<1> DEFINE mid == low + (high - low) \div 2
<1>1. /\ low \in Int /\ high \in Int /\ path \in Nat
      /\ Low <= low /\ low <= high /\ high <= High
  BY SearchAssumption DEF Halve, IInv, TypeOK
<1>2. mid \in Int /\ low <= mid /\ mid <= high
  BY <1>1, Midpoint
<1> HIDE DEF mid
<1>3. PICK ok \in BOOLEAN :
        /\ Probe(mid, ok)
        /\ IF ok
             THEN optimal' = mid /\ low' = mid + 1 /\ UNCHANGED high
             ELSE high' = mid - 1 /\ UNCHANGED <<low, optimal>>
  BY DEF Halve, mid
<1>4. /\ pc = "search"
      /\ UNCHANGED <<path, pc, goal, result, todo, mtuOf>>
  BY DEF Halve
<1>5. TypeOK'
  <2>1. lost' \in BOOLEAN
    BY <1>3 DEF Probe
  <2> QED
    BY <1>1, <1>2, <1>3, <1>4, <2>1, SearchAssumption DEF IInv, TypeOK
<1>6. Bracket'
  <2>1. CASE ok = TRUE
    <3>1. mid <= path /\ lost' = lost
      BY <1>3, <2>1 DEF Probe, IInv, TypeOK
    <3>2. optimal' = mid /\ low' = mid + 1 /\ high' = high /\ path' = path
      BY <1>3, <1>4, <2>1
    <3>3. ~lost' => Low <= path /\ path <= high
      BY <1>4, <3>1 DEF IInv, Bracket
    <3> QED
      BY <1>1, <1>2, <3>1, <3>2, <3>3, SearchAssumption DEF Bracket
  <2>2. CASE ok = FALSE
    <3>1. ~lost' => ~lost /\ ~(mid <= path)
      BY <1>3, <2>2, Zenon DEF Probe
    <3>2. high' = mid - 1 /\ low' = low /\ optimal' = optimal /\ path' = path
      BY <1>3, <1>4, <2>2
    <3>3. ~lost' => Low <= path /\ path <= high'
      BY <1>1, <1>2, <1>4, <3>1, <3>2 DEF IInv, Bracket
    <3> QED
      BY <1>1, <1>2, <1>4, <3>2, <3>3 DEF IInv, Bracket
  <2> QED
    BY <2>1, <2>2
<1> QED
  BY <1>4, <1>5, <1>6 DEF IInv, BeforeSearch, FoundNeverFragments, ExactWhenReliable

\* The result of a search that is over satisfies what is said of results.
LEMMA ConvergedIInv == ASSUME IInv, Converged PROVE IInv'
<1>1. /\ low \in Int /\ high \in Int /\ path \in Nat
      /\ low = high + 1 /\ optimal \in {-1} \union Low..High
      /\ optimal = -1 => low = Low
      /\ optimal # -1 => optimal = low - 1 /\ optimal <= path
      /\ ~lost => Low <= path /\ path <= high /\ high <= High
  BY SearchAssumption DEF Converged, IInv, TypeOK, Bracket
<1>2. CASE optimal > 0
  <2>1. optimal \in Low..High
    BY <1>1, <1>2
  <2>2. result' = MtuResult(optimal + Headers, TRUE)
    BY <1>2 DEF Converged
  <2>3. result' \in Result
    BY <2>1, <2>2, MtuInRange, ResultType
  <2>4. result'.found = TRUE /\ result'.mtu - Headers = optimal
    BY <2>1, <2>2, SearchAssumption DEF MtuResult, Headers
  <2>5. optimal <= path /\ (~lost => optimal = path /\ Low <= path /\ path <= High)
    BY <1>1, <2>1, SearchAssumption
  <2>6. TypeOK'
    BY <2>3 DEF Converged, IInv, TypeOK
  <2>7. pc' = "result" /\ path' = path /\ lost' = lost
    BY DEF Converged
  <2>8. FoundNeverFragments'
    BY <2>4, <2>5, <2>7 DEF FoundNeverFragments
  <2>9. ExactWhenReliable'
    BY <1>1, <2>4, <2>5, <2>7, SearchAssumption DEF ExactWhenReliable
  <2> QED
    BY <2>6, <2>7, <2>8, <2>9 DEF IInv, BeforeSearch, Bracket
<1>3. CASE ~(optimal > 0)
  <2>1. optimal = -1 /\ lost
    BY <1>1, <1>3, SearchAssumption
  <2>2. result' \in Result /\ result'.found = FALSE
    BY <1>3, MtuInRange, ResultType DEF Converged, MtuResult
  <2>3. TypeOK'
    BY <2>2 DEF Converged, IInv, TypeOK
  <2> QED
    BY <2>1, <2>2, <2>3
    DEF Converged, IInv, BeforeSearch, Bracket, FoundNeverFragments, ExactWhenReliable
<1> QED
  BY <1>2, <1>3

\* The two checks before the search keep IInv.
LEMMA ChecksIInv == ASSUME IInv, Sanity \/ Direct PROVE IInv'
<1>1. CASE Sanity
  <2>1. PICK ok \in BOOLEAN :
          /\ Probe(Low, ok)
          /\ IF ok
               THEN pc' = "direct" /\ UNCHANGED result
               ELSE pc' = "result" /\ result' = MtuResult(StandardMtu, FALSE)
    BY <1>1 DEF Sanity
  <2>2. /\ pc = "sanity" /\ low = Low /\ high = High /\ optimal = -1
        /\ UNCHANGED <<path, goal, low, high, optimal, todo, mtuOf>>
    BY <1>1 DEF Sanity, IInv, BeforeSearch
  <2>3. CASE ok = TRUE
    <3>1. Low <= path
      BY <2>1, <2>3 DEF Probe
    <3>2. lost' = lost /\ pc' = "direct" /\ result' = result
      BY <2>1, <2>3 DEF Probe, IInv, TypeOK
    <3> QED
      BY <2>2, <3>1, <3>2
      DEF IInv, TypeOK, BeforeSearch, Bracket, FoundNeverFragments, ExactWhenReliable
  <2>4. CASE ok = FALSE
    <3>1. ~lost' => ~(Low <= path)
      BY <2>1, <2>4, Zenon DEF Probe
    <3>2. lost' \in BOOLEAN /\ pc' = "result"
      BY <2>1, <2>4 DEF Probe
    <3>3. result' \in Result /\ result'.found = FALSE
      <4>1. result' = MtuResult(StandardMtu, FALSE)
        BY <2>1, <2>4
      <4>2. result' \in Result
        BY <4>1, MtuInRange, ResultType
      <4>3. result'.found = FALSE
        BY <4>1 DEF MtuResult
      <4> QED
        BY <4>2, <4>3
    <3>4. ExactWhenReliable'
      BY <2>2, <3>1, <3>3, SearchAssumption DEF ExactWhenReliable, IInv, TypeOK
    <3>5. TypeOK'
      BY <2>2, <3>2, <3>3 DEF IInv, TypeOK
    <3> QED
      BY <3>2, <3>3, <3>4, <3>5 DEF IInv, BeforeSearch, Bracket, FoundNeverFragments
  <2> QED
    BY <2>3, <2>4
<1>2. CASE Direct
  <2>1. PICK ok \in BOOLEAN :
          /\ Probe(High, ok)
          /\ IF ok
               THEN pc' = "result" /\ result' = MtuResult(StandardMtu, TRUE)
               ELSE pc' = "search" /\ UNCHANGED result
    BY <1>2 DEF Direct
  <2>2. /\ pc = "direct" /\ low = Low /\ high = High /\ optimal = -1
        /\ UNCHANGED <<path, goal, low, high, optimal, todo, mtuOf>>
        /\ ~lost => Low <= path
        /\ path \in Nat
    BY <1>2 DEF Direct, IInv, TypeOK, BeforeSearch
  <2>3. CASE ok = TRUE
    <3>1. High <= path
      BY <2>1, <2>3 DEF Probe
    <3>2. lost' = lost /\ pc' = "result"
      BY <2>1, <2>3 DEF Probe, IInv, TypeOK
    <3>3. result' \in Result
      BY <2>1, <2>3, MtuInRange, ResultType
    <3>4. result'.found = TRUE /\ result'.mtu - Headers = High
      BY <2>1, <2>3, SearchAssumption DEF MtuResult, StandardMtu, Headers
    <3>5. FoundNeverFragments'
      BY <2>2, <3>1, <3>4 DEF FoundNeverFragments
    <3>6. ExactWhenReliable'
      BY <2>2, <3>1, <3>4, SearchAssumption DEF ExactWhenReliable
    <3>7. TypeOK'
      BY <2>2, <3>2, <3>3 DEF IInv, TypeOK
    <3> QED
      BY <3>2, <3>5, <3>6, <3>7 DEF IInv, BeforeSearch, Bracket
  <2>4. CASE ok = FALSE
    <3>1. ~lost' => ~lost /\ ~(High <= path)
      BY <2>1, <2>4, Zenon DEF Probe
    <3>2. lost' \in BOOLEAN /\ pc' = "search" /\ result' = result
      BY <2>1, <2>4 DEF Probe
    <3>3. ~lost' => Low <= path /\ path <= High
      BY <2>2, <3>1, SearchAssumption
    <3>4. Bracket'
      BY <2>2, <3>3, SearchAssumption DEF Bracket
    <3>5. TypeOK'
      BY <2>2, <3>2 DEF IInv, TypeOK
    <3> QED
      BY <2>2, <3>2, <3>4, <3>5
      DEF IInv, BeforeSearch, FoundNeverFragments, ExactWhenReliable
  <2> QED
    BY <2>3, <2>4
<1> QED
  BY <1>1, <1>2

\* Showing the result, and setting the adapters, keep IInv.
LEMMA ApplyIInv ==
  ASSUME IInv, AnswerNo \/ Show \/ BeginApply \/ ApplyOne \/ Applied
  PROVE  IInv'
<1>1. CASE ApplyOne
  <2>1. PICK n \in todo :
          /\ todo' = todo \ {n}
          /\ mtuOf' = mtuOf \/ mtuOf' = [mtuOf EXCEPT ![n] = result.mtu]
    BY <1>1 DEF ApplyOne
  <2>2. result.mtu \in 0..StandardMtu
    BY DEF IInv, TypeOK, Result
  <2>3. mtuOf' \in [Nic -> 0..StandardMtu] /\ todo' \in SUBSET Nic
    BY <2>1, <2>2 DEF IInv, TypeOK
  <2> QED
    BY <1>1, <2>3
    DEF ApplyOne, IInv, TypeOK, BeforeSearch, Bracket, FoundNeverFragments,
        ExactWhenReliable
<1>2. CASE AnswerNo \/ Show \/ BeginApply \/ Applied
  BY <1>2, SearchAssumption
  DEF AnswerNo, Show, BeginApply, Applied, IInv, TypeOK, BeforeSearch, Bracket,
      FoundNeverFragments, ExactWhenReliable
<1> QED
  BY <1>1, <1>2

\* IInv holds in every reachable state.
THEOREM Invariance == Spec => []IInv
<1>1. IInv /\ [Next]_vars => IInv'
  <2> SUFFICES ASSUME IInv, [Next]_vars PROVE IInv'
    OBVIOUS
  <2>1. CASE Menu5 \/ CliMtu \/ AnswerYes
    BY <2>1, BeginIInv DEF Menu5, CliMtu, AnswerYes
  <2>2. CASE Sanity \/ Direct
    BY <2>2, ChecksIInv
  <2>3. CASE Halve
    BY <2>3, HalveIInv
  <2>4. CASE Converged
    BY <2>4, ConvergedIInv
  <2>5. CASE AnswerNo \/ Show \/ BeginApply \/ ApplyOne \/ Applied
    BY <2>5, ApplyIInv
  <2>6. CASE UNCHANGED vars
    BY <2>6 DEF vars, IInv, TypeOK, BeforeSearch, Bracket, FoundNeverFragments,
                ExactWhenReliable
  <2> QED
    BY <2>1, <2>2, <2>3, <2>4, <2>5, <2>6 DEF Next, Discover
<1> QED
  BY InitIInv, <1>1, PTL DEF Spec

\* The locals of the search stay in the payload range (and so in uint16_t).
THEOREM TypeCorrect == Spec => []TypeOK
<1>1. IInv => TypeOK
  BY DEF IInv
<1> QED
  BY Invariance, <1>1, PTL

\* A result marked found never exceeds the route, whichever probes are lost.
THEOREM FoundIsSafe == Spec => []FoundNeverFragments
<1>1. IInv => FoundNeverFragments
  BY DEF IInv
<1> QED
  BY Invariance, <1>1, PTL

\* Without a lost probe the binary search returns the exact maximum.
THEOREM SearchIsExact == Spec => []ExactWhenReliable
<1>1. IInv => ExactWhenReliable
  BY DEF IInv
<1> QED
  BY Invariance, <1>1, PTL

\* Each round narrows the interval, so the loop cannot run for ever.
THEOREM EachRoundNarrows == Spec => SearchNarrows
<1>1. IInv /\ [Next]_vars =>
        [pc = "search" /\ pc' = "search" => high' - low' < high - low]_vars
  <2> SUFFICES ASSUME IInv, [Next]_vars, pc = "search", pc' = "search", ~UNCHANGED vars
               PROVE  high' - low' < high - low
    OBVIOUS
  <2>1. Halve
    BY DEF Next, Discover, Menu5, CliMtu, AnswerYes, AnswerNo, Sanity, Direct,
           Converged, Show, BeginApply, ApplyOne, Applied
  <2> DEFINE mid == low + (high - low) \div 2
  <2>2. low \in Int /\ high \in Int /\ low <= high
    BY <2>1, SearchAssumption DEF Halve, IInv, TypeOK
  <2>3. mid \in Int /\ low <= mid /\ mid <= high
    BY <2>2, Midpoint
  <2>4. \/ low' = mid + 1 /\ high' = high
        \/ high' = mid - 1 /\ low' = low
    BY <2>1 DEF Halve
  <2> HIDE DEF mid
  <2> QED
    BY <2>2, <2>3, <2>4
<1> QED
  BY Invariance, <1>1, PTL DEF Spec, SearchNarrows

\* Only physical adapters come up for setting, after a discovery made for it.
LEMMA AppliedStep == AppliedHolds /\ [Next]_vars => AppliedHolds'
<1> SUFFICES ASSUME AppliedHolds, [Next]_vars PROVE AppliedHolds'
  OBVIOUS
<1> USE DEF AppliedHolds
<1>1. CASE Menu5 \/ CliMtu \/ AnswerYes
  BY <1>1 DEF Menu5, CliMtu, AnswerYes, Begin
<1>2. CASE Discover
  BY <1>2 DEF Discover, Sanity, Direct, Halve, Converged
<1>3. CASE BeginApply
  BY <1>3 DEF BeginApply
<1>4. CASE ApplyOne
  BY <1>4 DEF ApplyOne
<1>5. CASE AnswerNo \/ Show \/ Applied \/ UNCHANGED vars
  BY <1>5 DEF AnswerNo, Show, Applied, vars
<1> QED
  BY <1>1, <1>2, <1>3, <1>4, <1>5 DEF Next

\* However often the menu discovers and applies, an adapter is only ever set to the
\* MTU of the discovery just made, which does not fragment if it was found, and a
\* tunnel is never set.
THEOREM AppliedSafe == Spec => AppliedIsSafe
<1> DEFINE A == mtuOf' # mtuOf =>
                  \E n \in Physical :
                    /\ mtuOf' = [mtuOf EXCEPT ![n] = result.mtu]
                    /\ pc = "apply" /\ goal = "apply"
                    /\ result.found => result.mtu - Headers <= path
<1>1. Init => AppliedHolds
  BY DEF Init, AppliedHolds
<1>2. IInv /\ AppliedHolds /\ [Next]_vars => [A]_vars
  <2> SUFFICES ASSUME IInv, AppliedHolds, [Next]_vars, mtuOf' # mtuOf PROVE A
    OBVIOUS
  <2>1. ApplyOne
    BY DEF Next, vars, Discover, Menu5, CliMtu, AnswerYes, AnswerNo, Begin, Sanity, Direct,
           Halve, Converged, Show, BeginApply, Applied
  <2>2. PICK n \in todo : mtuOf' = mtuOf \/ mtuOf' = [mtuOf EXCEPT ![n] = result.mtu]
    BY <2>1 DEF ApplyOne
  <2>3. n \in Physical /\ pc = "apply" /\ goal = "apply"
    BY <2>1 DEF ApplyOne, AppliedHolds
  <2>4. result.found => result.mtu - Headers <= path
    BY DEF IInv, FoundNeverFragments
  <2> QED
    BY <2>2, <2>3, <2>4
<1>3. Spec => [][A]_vars
  BY Invariance, AppliedStep, <1>1, <1>2, PTL DEF Spec
<1> QED
  BY <1>3 DEF AppliedIsSafe

-----------------------------------------------------------------------------
(* The search implements MtuMeasurement.  Its probes do not show there, except *)
(* for those that are lost; what ends it is the measurement.                   *)

\* The results of the code are the answers of the specification.
LEMMA ResultsAreAnswers ==
  /\ MtuResult(StandardMtu, FALSE) = Measurement!Fallback
  /\ MtuResult(StandardMtu, TRUE) = Measurement!Answer(High, TRUE)
  /\ \A p \in Int : MtuResult(p + Headers, TRUE) = Measurement!Answer(p, TRUE)
<1>1. ASSUME NEW p, NEW found
      PROVE  MtuResult(p + Headers, found) = Measurement!Answer(p, found)
  BY DEF MtuResult, Measurement!Answer
<1> QED
  BY <1>1 DEF StandardMtu, Measurement!Fallback

\* The program starts like the specification.
LEMMA InitRefines == Init => Measurement!Init
BY ResultsAreAnswers DEF Init, Measurement!Init

\* A discovery that begins is a request.
LEMMA BeginRefines ==
  ASSUME pc \in {"menu", "answer"}, NEW g, Begin(g)
  PROVE  Measurement!Request
BY ResultsAreAnswers DEF Begin, Measurement!Request

\* A probe that does not end the search is lost, or leaves no trace.
LEMMA ProbeRefines ==
  ASSUME IInv, pc \in {"sanity", "direct", "search"},
         pc' \in {"sanity", "direct", "search"},
         lost' = lost \/ lost' = TRUE,
         UNCHANGED <<path, result, mtuOf>>
  PROVE  [Measurement!Next]_(Measurement!vars)
<1>1. CASE lost' = lost
  BY <1>1 DEF Measurement!vars
<1>2. CASE lost' = TRUE
  BY <1>2 DEF Measurement!Next, Measurement!Lose
<1> QED
  BY <1>1, <1>2

\* A search that ends with a safe result, an exact one if no probe was lost, is
\* a measurement.
LEMMA ResultRefines ==
  ASSUME pc \in {"sanity", "direct", "search"}, pc' = "result",
         ~lost' => ~lost,
         result' \in Measurement!Safe,
         ~lost' => result' = Measurement!Exact,
         UNCHANGED <<path, mtuOf>>
  PROVE  Measurement!Measure
BY DEF Measurement!Measure

\* Which answers are safe, and which is exact, on a route.
LEMMA SafeAnswers ==
  ASSUME path \in Nat
  PROVE  /\ Measurement!Fallback \in Measurement!Safe
         /\ path < Low => Measurement!Fallback = Measurement!Exact
         /\ \A p \in Low..High :
              /\ p <= path => Measurement!Answer(p, TRUE) \in Measurement!Safe
              /\ p <= path /\ (p = path \/ p = High) =>
                   Measurement!Answer(p, TRUE) = Measurement!Exact
<1> USE SearchAssumption
<1>1. ASSUME NEW p \in Low..High, p <= path
      PROVE  p \in Low..Measurement!Largest /\ ~(path < Low)
  BY <1>1 DEF Measurement!Largest
<1>2. ASSUME NEW p \in Low..High, p <= path, p = path \/ p = High
      PROVE  p = Measurement!Largest /\ ~(path < Low)
  BY <1>2 DEF Measurement!Largest
<1> QED
  BY <1>1, <1>2 DEF Measurement!Safe, Measurement!Exact

\* The two checks before the search.
LEMMA ChecksRefine ==
  ASSUME IInv, Sanity \/ Direct
  PROVE  [Measurement!Next]_(Measurement!vars)
<1> USE SearchAssumption
<1>0. path \in Nat /\ lost \in BOOLEAN
  BY DEF IInv, TypeOK
<1>1. CASE Sanity
  <2>1. PICK ok \in BOOLEAN :
          /\ Probe(Low, ok)
          /\ IF ok
               THEN pc' = "direct" /\ UNCHANGED result
               ELSE pc' = "result" /\ result' = MtuResult(StandardMtu, FALSE)
    BY <1>1 DEF Sanity
  <2>2. pc = "sanity" /\ UNCHANGED <<path, mtuOf>> /\ (~lost' => ~lost)
    BY <1>1, <2>1 DEF Sanity, Probe
  <2>3. CASE ok = TRUE
    BY <1>0, <2>1, <2>2, <2>3, ProbeRefines DEF Probe
  <2>4. CASE ok = FALSE
    <3>1. ~lost' => path < Low
      <4>1. ~lost' => ~(Low <= path)
        BY <2>1, <2>4, Zenon DEF Probe
      <4> QED
        BY <1>0, <4>1
    <3>2. result' = Measurement!Fallback /\ pc' = "result"
      BY <2>1, <2>4, ResultsAreAnswers
    <3>3. Measurement!Measure
      BY <1>0, <2>2, <3>1, <3>2, SafeAnswers, ResultRefines
    <3> QED
      BY <3>3 DEF Measurement!Next
  <2> QED
    BY <2>3, <2>4
<1>2. CASE Direct
  <2>1. PICK ok \in BOOLEAN :
          /\ Probe(High, ok)
          /\ IF ok
               THEN pc' = "result" /\ result' = MtuResult(StandardMtu, TRUE)
               ELSE pc' = "search" /\ UNCHANGED result
    BY <1>2 DEF Direct
  <2>2. pc = "direct" /\ UNCHANGED <<path, mtuOf>> /\ (~lost' => ~lost)
    BY <1>2, <2>1 DEF Direct, Probe
  <2>3. CASE ok = TRUE
    <3>1. High <= path /\ High \in Low..High
      BY <2>1, <2>3 DEF Probe
    <3>2. result' = Measurement!Answer(High, TRUE) /\ pc' = "result"
      BY <2>1, <2>3, ResultsAreAnswers
    <3>3. Measurement!Measure
      BY <1>0, <2>2, <3>1, <3>2, SafeAnswers, ResultRefines
    <3> QED
      BY <3>3 DEF Measurement!Next
  <2>4. CASE ok = FALSE
    <3>1. lost' = lost \/ lost' = TRUE
      BY <1>0, <2>1, Zenon DEF Probe
    <3> QED
      BY <2>1, <2>2, <2>4, <3>1, ProbeRefines
  <2> QED
    BY <2>3, <2>4
<1> QED
  BY <1>1, <1>2

\* The rounds of the binary search, and its end.
LEMMA SearchRefines ==
  ASSUME IInv, Halve \/ Converged
  PROVE  [Measurement!Next]_(Measurement!vars)
<1> USE SearchAssumption
<1>0. path \in Nat /\ lost \in BOOLEAN
  BY DEF IInv, TypeOK
<1>1. CASE Halve
  <2>1. /\ pc = "search" /\ pc' = "search" /\ UNCHANGED <<path, result, mtuOf>>
        /\ \E size, ok : lost' = (lost \/ (~ok /\ size <= path))
    BY <1>1 DEF Halve, Probe
  <2>2. lost' = lost \/ lost' = TRUE
    BY <1>0, <2>1, Zenon
  <2> QED
    BY <2>1, <2>2, ProbeRefines
<1>2. CASE Converged
  <2>1. /\ pc = "search" /\ pc' = "result" /\ lost' = lost
        /\ UNCHANGED <<path, mtuOf>>
    BY <1>2 DEF Converged
  <2>2. /\ optimal \in {-1} \union Low..High
        /\ optimal # -1 => optimal <= path
        /\ ~lost => optimal = path /\ Low <= path
    BY <1>2 DEF Converged, IInv, TypeOK, Bracket
  <2>3. CASE optimal > 0
    <3>1. optimal \in Low..High /\ optimal \in Int /\ optimal # -1
      BY <2>2, <2>3
    <3>2. result' = MtuResult(optimal + Headers, TRUE)
      BY <1>2, <2>3 DEF Converged
    <3>3. result' = Measurement!Answer(optimal, TRUE)
      BY <3>1, <3>2, ResultsAreAnswers
    <3>4. Measurement!Measure
      BY <1>0, <2>1, <2>2, <3>1, <3>3, SafeAnswers, ResultRefines
    <3> QED
      BY <3>4 DEF Measurement!Next
  <2>4. CASE ~(optimal > 0)
    <3>1. result' = Measurement!Fallback /\ lost
      <4>1. result' = MtuResult(StandardMtu, FALSE)
        BY <1>2, <2>4 DEF Converged
      <4>2. lost
        BY <2>2, <2>4
      <4> QED
        BY <4>1, <4>2, ResultsAreAnswers
    <3>2. Measurement!Measure
      BY <1>0, <2>1, <3>1, SafeAnswers, ResultRefines
    <3> QED
      BY <3>2 DEF Measurement!Next
  <2> QED
    BY <2>3, <2>4
<1> QED
  BY <1>1, <1>2

\* netsh sets a physical adapter, or fails.
LEMMA ApplyRefines ==
  ASSUME IInv, AppliedHolds, ApplyOne
  PROVE  [Measurement!Next]_(Measurement!vars)
<1>1. PICK n \in todo : mtuOf' = mtuOf \/ mtuOf' = [mtuOf EXCEPT ![n] = result.mtu]
  BY DEF ApplyOne
<1>2. n \in Physical
  BY DEF AppliedHolds
<1>3. pc = "apply" /\ UNCHANGED <<pc, path, lost, result>>
  BY DEF ApplyOne
<1>4. CASE mtuOf' = mtuOf
  BY <1>3, <1>4 DEF Measurement!vars
<1>5. CASE mtuOf' = [mtuOf EXCEPT ![n] = result.mtu]
  BY <1>2, <1>3, <1>5 DEF Measurement!Next, Measurement!Set
<1> QED
  BY <1>1, <1>4, <1>5

\* To the user of the result, and to the adapters, DiscoverOptimalMtu is one
\* measurement: exact if no probe was lost, safe otherwise; and ApplyMtuToInterface
\* sets what was measured last, on physical adapters.
THEOREM Refinement == Spec => ImplementsMeasurement
<1>1. IInv /\ AppliedHolds /\ [Next]_vars => [Measurement!Next]_(Measurement!vars)
  <2> SUFFICES ASSUME IInv, AppliedHolds, [Next]_vars
               PROVE  [Measurement!Next]_(Measurement!vars)
    OBVIOUS
  <2>1. CASE Menu5 \/ CliMtu \/ AnswerYes
    BY <2>1, BeginRefines DEF Menu5, CliMtu, AnswerYes, Measurement!Next
  <2>2. CASE Sanity \/ Direct
    BY <2>2, ChecksRefine
  <2>3. CASE Halve \/ Converged
    BY <2>3, SearchRefines
  <2>4. CASE BeginApply
    BY <2>4 DEF BeginApply, Measurement!Next, Measurement!Apply
  <2>5. CASE ApplyOne
    BY <2>5, ApplyRefines
  <2>6. CASE Applied
    BY <2>6 DEF Applied, Measurement!Next, Measurement!Finish
  <2>7. CASE AnswerNo \/ Show \/ UNCHANGED vars
    BY <2>7 DEF AnswerNo, Show, vars, Measurement!vars
  <2> QED
    BY <2>1, <2>2, <2>3, <2>4, <2>5, <2>6, <2>7 DEF Next, Discover
<1>2. Init => AppliedHolds
  BY DEF Init, AppliedHolds
<1> QED
  BY Invariance, AppliedStep, InitRefines, <1>1, <1>2, PTL
  DEF Spec, ImplementsMeasurement, Measurement!Spec
=============================================================================
