-------------------------- MODULE BenchmarkProofs --------------------------
(***************************************************************************)
(* Proofs about what RunComparisonBenchmark measures with:                 *)
(*                                                                         *)
(*   - the timer, for every bound on the unmatched periods: the inductive  *)
(*     invariant IInv of TimerResolution and what follows from it;         *)
(*   - the ping monitors, for any targets, number of pings and round-trip  *)
(*     times: what the statistics of a list of times are, by induction     *)
(*     over the list, and the inductive invariant PingIInv.                *)
(***************************************************************************)
EXTENDS TimerResolution, PingMonitor, FiniteSetTheorems, TLAPS

-----------------------------------------------------------------------------
(* The timer. *)

\* Nothing is raised at first.
LEMMA InitIInv == Init => IInv
<1> SUFFICES ASSUME Init PROVE IInv
  OBVIOUS
<1> USE DEF Init
<1>1. 0 \in 0..MaxPeriods
  BY PeriodsAssumption
<1>2. \A o \in Object : timerSet[o] = FALSE
  OBVIOUS
<1>3. TypeOK
  BY <1>1 DEF TypeOK
<1>4. DaemonOwned /\ RequestIsOwned /\ RequestNeedsNt
  BY DEF DaemonOwned, RequestIsOwned, RequestNeedsNt
<1>5. DaemonAlone
  BY <1>2 DEF DaemonAlone, Raised, Object
<1> QED
  BY <1>3, <1>4, <1>5 DEF IInv

\* An object that raises the resolution is then known to have done so, if
\* anything changed; at most one period is added.
LEMMA SetLemma ==
  ASSUME TypeOK, NEW o \in Object, SetHighResolutionTimer(o)
  PROVE  /\ ntRequest' \in BOOLEAN
         /\ periods' \in 0..MaxPeriods /\ periods' <= periods + 1
         /\ timerSet' \in [Object -> BOOLEAN]
         /\ \A x \in Object \ {o} : timerSet'[x] = timerSet[x]
         /\ timerSet[o] => timerSet'[o]
         /\ ~timerSet'[o] => ntRequest' = ntRequest /\ periods' = periods
         /\ ntRequest' => ntRequest \/ (hasNt /\ timerSet'[o])
<1> USE PeriodsAssumption DEF TypeOK
<1>1. CASE hasNt /\ ntRequest' = TRUE /\ UNCHANGED periods
           /\ timerSet' = [timerSet EXCEPT ![o] = TRUE]
  BY <1>1
<1>2. CASE /\ periods < MaxPeriods /\ periods' = periods + 1
           /\ UNCHANGED ntRequest
           /\ timerSet' = [timerSet EXCEPT ![o] = TRUE]
  BY <1>2
<1>3. CASE UNCHANGED <<ntRequest, periods, timerSet>>
  BY <1>3
<1> QED
  BY <1>1, <1>2, <1>3 DEF SetHighResolutionTimer

\* An object that restores the resolution no longer believes to hold it; if it
\* did, no request is left, and one period less.
LEMMA RestoreLemma ==
  ASSUME TypeOK, RequestNeedsNt, NEW o \in Object, RestoreTimerResolution(o)
  PROVE  /\ ntRequest' \in BOOLEAN /\ (ntRequest' => ntRequest)
         /\ periods' \in 0..MaxPeriods /\ periods' <= periods
         /\ periods <= 1 /\ timerSet[o] => periods' = 0
         /\ timerSet' \in [Object -> BOOLEAN]
         /\ \A x \in Object \ {o} : timerSet'[x] = timerSet[x]
         /\ ~timerSet'[o]
         /\ timerSet[o] => ~ntRequest'
         /\ ~timerSet[o] => ntRequest' = ntRequest /\ periods' = periods
<1> USE PeriodsAssumption DEF TypeOK
<1>1. CASE timerSet[o]
  <2>1. /\ ntRequest' = (ntRequest /\ ~hasNt)
        /\ periods' = IF periods > 0 THEN periods - 1 ELSE 0
        /\ timerSet' = [timerSet EXCEPT ![o] = FALSE]
    BY <1>1 DEF RestoreTimerResolution
  <2>2. ntRequest' \in BOOLEAN /\ ~ntRequest'
    BY <2>1 DEF RequestNeedsNt
  <2>3. periods' \in 0..MaxPeriods /\ periods' <= periods
        /\ (periods <= 1 => periods' = 0)
    BY <2>1
  <2>4. /\ timerSet' \in [Object -> BOOLEAN]
        /\ \A x \in Object \ {o} : timerSet'[x] = timerSet[x]
        /\ ~timerSet'[o]
    BY <2>1
  <2> QED
    BY <1>1, <2>2, <2>3, <2>4
<1>2. CASE ~timerSet[o]
  <2>1. UNCHANGED <<ntRequest, periods, timerSet>>
    BY <1>2 DEF RestoreTimerResolution
  <2> QED
    BY <1>2, <2>1
<1> QED
  BY <1>1, <1>2

\* The steps of the menu keep IInv.
LEMMA MenuIInv ==
  ASSUME IInv,
         OpenMenu \/ MenuTimer \/ BenchmarkBegin \/ BenchmarkEnd
         \/ RestoreDefaults \/ BackToMenu \/ Quit
  PROVE  IInv'
<1> USE DEF IInv
<1>1. CASE OpenMenu \/ BackToMenu
  BY <1>1 DEF OpenMenu, BackToMenu, os, TypeOK, RequestIsOwned, DaemonOwned,
              RequestNeedsNt, DaemonAlone, Raised
<1>2. CASE MenuTimer
  <2>1. SetHighResolutionTimer("latencyOpt")
    BY <1>2 DEF MenuTimer
  <2> QED
    BY <1>2, <2>1, SetLemma
    DEF MenuTimer, Object, TypeOK, RequestIsOwned, DaemonOwned, RequestNeedsNt,
        DaemonAlone
<1>3. CASE BenchmarkBegin
  <2>1. SetHighResolutionTimer("latOpt")
    BY <1>3 DEF BenchmarkBegin
  <2> QED
    BY <1>3, <2>1, SetLemma
    DEF BenchmarkBegin, Object, TypeOK, RequestIsOwned, DaemonOwned,
        RequestNeedsNt, DaemonAlone
<1>4. CASE BenchmarkEnd
  <2>1. RestoreTimerResolution("latOpt")
    BY <1>4 DEF BenchmarkEnd
  <2> QED
    BY <1>4, <2>1, RestoreLemma
    DEF BenchmarkEnd, Object, TypeOK, RequestIsOwned, DaemonOwned,
        RequestNeedsNt, DaemonAlone
<1>5. CASE RestoreDefaults
  <2>1. RestoreTimerResolution("timerOpt")
    BY <1>5 DEF RestoreDefaults
  <2> QED
    BY <1>5, <2>1, RestoreLemma
    DEF RestoreDefaults, Object, TypeOK, RequestIsOwned, DaemonOwned,
        RequestNeedsNt, DaemonAlone
<1>6. CASE Quit
  <2>1. RestoreTimerResolution("latencyOpt")
    BY <1>6 DEF Quit
  <2> QED
    BY <1>6, <2>1, RestoreLemma
    DEF Quit, Object, TypeOK, RequestIsOwned, DaemonOwned, RequestNeedsNt,
        DaemonAlone
<1> QED
  BY <1>1, <1>2, <1>3, <1>4, <1>5, <1>6

\* The steps of --timer on the main thread, and the destructor, keep IInv.
LEMMA StopIInv ==
  ASSUME IInv,
         StartTimerDaemon \/ EnterPressed \/ StopClear \/ StopJoin \/ Destroy
  PROVE  IInv'
<1> USE DEF IInv
<1>1. CASE StartTimerDaemon
  BY <1>1 DEF StartTimerDaemon, os, TypeOK, RequestIsOwned, DaemonOwned,
              RequestNeedsNt, DaemonAlone, Raised
<1>2. CASE EnterPressed
  BY <1>2 DEF EnterPressed, os, TypeOK, RequestIsOwned, DaemonOwned,
              RequestNeedsNt, DaemonAlone, Raised
<1>3. CASE StopClear
  BY <1>3 DEF StopClear, os, TypeOK, RequestIsOwned, DaemonOwned,
              RequestNeedsNt, DaemonAlone, Raised
<1>4. CASE StopJoin
  BY <1>4 DEF StopJoin, os, TypeOK, RequestIsOwned, DaemonOwned,
              RequestNeedsNt, DaemonAlone, Raised
<1>5. CASE Destroy
  <2>1. RestoreTimerResolution("latencyOpt")
    BY <1>5 DEF Destroy
  <2> QED
    BY <1>5, <2>1, RestoreLemma
    DEF Destroy, Object, TypeOK, RequestIsOwned, DaemonOwned, RequestNeedsNt,
        DaemonAlone
<1> QED
  BY <1>1, <1>2, <1>3, <1>4, <1>5

\* The daemon keeps IInv.
LEMMA DaemonIInv == ASSUME IInv, Daemon PROVE IInv'
<1> USE DEF IInv
<1>1. CASE DaemonSet
  <2>1. SetHighResolutionTimer("latencyOpt")
    BY <1>1 DEF DaemonSet
  <2>2. ~timerSet["latencyOpt"] /\ ~timerSet["latOpt"] /\ ~ntRequest /\ periods = 0
    BY <1>1 DEF DaemonSet, DaemonAlone, Raised, TypeOK
  <2> QED
    BY <1>1, <2>1, <2>2, SetLemma
    DEF DaemonSet, Object, TypeOK, RequestIsOwned, DaemonOwned, RequestNeedsNt,
        DaemonAlone, Raised
<1>2. CASE DaemonLoop
  BY <1>2 DEF DaemonLoop, os, TypeOK, RequestIsOwned, DaemonOwned,
              RequestNeedsNt, DaemonAlone, Raised
<1>3. CASE DaemonRestore
  <2>1. RestoreTimerResolution("latencyOpt")
    BY <1>3 DEF DaemonRestore
  <2> QED
    BY <1>3, <2>1, RestoreLemma
    DEF DaemonRestore, Object, TypeOK, RequestIsOwned, DaemonOwned,
        RequestNeedsNt, DaemonAlone, Raised
<1> QED
  BY <1>1, <1>2, <1>3 DEF Daemon

\* The inductive invariant holds in every reachable state.
THEOREM Invariance == Spec => []IInv
<1>1. IInv /\ [Next]_vars => IInv'
  <2> SUFFICES ASSUME IInv, [Next]_vars PROVE IInv'
    OBVIOUS
  <2>1. CASE Next
    BY <2>1, MenuIInv, StopIInv, DaemonIInv DEF Next
  <2>2. CASE UNCHANGED vars
    BY <2>2 DEF vars, IInv, TypeOK, RequestIsOwned, DaemonOwned,
                RequestNeedsNt, DaemonAlone, Raised
  <2> QED
    BY <2>1, <2>2
<1> QED
  BY InitIInv, <1>1, PTL DEF Spec

\* Every variable stays within the values the code can give it.
THEOREM TypeCorrect == Spec => []TypeOK
<1>1. IInv => TypeOK
  BY DEF IInv
<1> QED
  BY Invariance, <1>1, PTL

\* A request the process holds can always be given back by an object that knows
\* of it: m_timerSet never loses one, although the objects share it.
THEOREM RequestHasOwner == Spec => []RequestIsOwned
<1>1. IInv => RequestIsOwned
  BY DEF IInv
<1> QED
  BY Invariance, <1>1, PTL

\* The destructor reads m_timerSet only when the daemon is over.
THEOREM FlagRaceFree == Spec => []NoFlagRace
<1>1. IInv => NoFlagRace
  BY DEF IInv, DaemonOwned, NoFlagRace
<1> QED
  BY Invariance, <1>1, PTL

\* StopTimerDaemon returns with everything given back.
THEOREM DaemonLeavesNothing == Spec => DaemonGivesBack
<1>1. IInv /\ [Next]_vars =>
        [main = "join" /\ main' = "dtor" => ~ntRequest /\ periods = 0]_vars
  <2> SUFFICES ASSUME IInv, [Next]_vars, main = "join", main' = "dtor"
               PROVE  ~ntRequest /\ periods = 0
    OBVIOUS
  <2>1. daemon = "done"
    BY DEF Next, vars, OpenMenu, MenuTimer, BenchmarkBegin, BenchmarkEnd,
           RestoreDefaults, BackToMenu, Quit, StartTimerDaemon, EnterPressed,
           StopClear, StopJoin, Destroy, Daemon, DaemonSet, DaemonLoop, DaemonRestore
  <2> QED
    BY <2>1 DEF IInv, TypeOK, DaemonAlone, Raised
<1> QED
  BY Invariance, <1>1, PTL DEF Spec, DaemonGivesBack

\* Which objects believe to have raised the resolution, and when.
LEMMA ScopeStep == ASSUME IInv, OwnersInScope, [Next]_vars PROVE OwnersInScope'
<1> USE DEF IInv, OwnersInScope, Object
<1>1. CASE MenuTimer \/ DaemonSet
  <2>1. /\ SetHighResolutionTimer("latencyOpt") /\ main' = main
        /\ main # "exited"
    BY <1>1 DEF MenuTimer, DaemonSet, DaemonOwned
  <2> QED
    BY <2>1, SetLemma
<1>2. CASE BenchmarkBegin
  <2>1. SetHighResolutionTimer("latOpt") /\ main' = "benchmark"
    BY <1>2 DEF BenchmarkBegin
  <2> QED
    BY <2>1, SetLemma
<1>3. CASE BenchmarkEnd
  <2>1. RestoreTimerResolution("latOpt") /\ main' = "menu"
    BY <1>3 DEF BenchmarkEnd
  <2> QED
    BY <2>1, RestoreLemma
<1>4. CASE RestoreDefaults
  <2>1. RestoreTimerResolution("timerOpt") /\ main = "menu" /\ main' = "restored"
    BY <1>4 DEF RestoreDefaults
  <2> QED
    BY <2>1, RestoreLemma
<1>5. CASE Quit \/ Destroy \/ DaemonRestore
  <2>1. RestoreTimerResolution("latencyOpt") /\ main # "benchmark"
    BY <1>5 DEF Quit, Destroy, DaemonRestore, DaemonOwned
  <2> QED
    BY <2>1, RestoreLemma
<1>6. CASE OpenMenu \/ BackToMenu \/ StartTimerDaemon \/ EnterPressed \/ StopClear
           \/ StopJoin \/ DaemonLoop \/ UNCHANGED vars
  <2>1. timerSet' = timerSet /\ (main' # main => main # "benchmark" /\ main' # "exited")
    BY <1>6 DEF OpenMenu, BackToMenu, StartTimerDaemon, EnterPressed, StopClear,
                StopJoin, DaemonLoop, vars
  <2> QED
    BY <2>1
<1> QED
  BY <1>1, <1>2, <1>3, <1>4, <1>5, <1>6 DEF Next, Daemon

\* The objects of the benchmark and of the restore never outlive their functions
\* with a resolution raised, nor does main's the process.
LEMMA Scope == Spec => []OwnersInScope
<1>1. Init => OwnersInScope
  BY DEF Init, OwnersInScope, Object
<1> QED
  BY Invariance, ScopeStep, <1>1, PTL DEF Spec

\* However often and by whichever object the resolution was raised with
\* NtSetTimerResolution, ~SystemLatencyOptimizer of main's object leaves no request.
THEOREM NothingLeftAtExit == Spec => []ExitLeavesNoRequest
<1>1. IInv /\ OwnersInScope => ExitLeavesNoRequest
  BY DEF IInv, RequestIsOwned, OwnersInScope, ExitLeavesNoRequest
<1> QED
  BY Invariance, Scope, <1>1, PTL

\* Step 5 of RestoreFactoryDefaults never has an effect: its object is new.
THEOREM RestoreHasNoEffect == Spec => RestoreIsVoid
<1>1. OwnersInScope /\ [Next]_vars => [RestoreDefaults => UNCHANGED <<os, timerSet>>]_vars
  BY DEF OwnersInScope, RestoreDefaults, RestoreTimerResolution, os
<1> QED
  BY Scope, <1>1, PTL DEF Spec, RestoreIsVoid

\* The daemon StopTimerDaemon joins has at most three steps to go.
THEOREM DaemonIsBounded == Spec => DaemonWindsDown
<1>1. IInv => (main = "join" => ~daemonRunning /\ daemon # "none")
  BY DEF IInv, DaemonOwned
<1>2. IInv /\ [Next]_vars =>
        [main = "join" => /\ StepsLeft' <= StepsLeft
                          /\ Daemon => StepsLeft' < StepsLeft]_vars
  <2> SUFFICES ASSUME IInv, [Next]_vars, main = "join"
               PROVE  /\ StepsLeft' <= StepsLeft
                      /\ Daemon => StepsLeft' < StepsLeft
    OBVIOUS
  <2> USE DEF StepsLeft
  <2>1. CASE Daemon
    BY <2>1 DEF Daemon, DaemonSet, DaemonLoop, DaemonRestore
  <2>2. CASE ~Daemon
    <3>1. daemon' = daemon \/ daemon' = "none"
      BY <2>2 DEF Next, vars, OpenMenu, MenuTimer, BenchmarkBegin, BenchmarkEnd,
                  RestoreDefaults, BackToMenu, Quit, StartTimerDaemon, EnterPressed,
                  StopClear, StopJoin, Destroy
    <3>2. daemon \in {"none", "set", "loop", "restore", "done"}
      BY DEF IInv, TypeOK
    <3> QED
      BY <2>2, <3>1, <3>2
  <2> QED
    BY <2>1, <2>2
<1> QED
  BY Invariance, <1>1, <1>2, PTL DEF Spec, DaemonWindsDown

-----------------------------------------------------------------------------
(* Induction over the naturals, for a set of them. *)

\* A set that has 0 and the successor of each of its numbers has them all: of the
\* intervals 1..n with n outside none would be minimal.
LEMMA SetInduction ==
  ASSUME NEW S, 0 \in S, \A n \in Nat : n \in S => n + 1 \in S
  PROVE  Nat \subseteq S
<1> DEFINE Bad == {n \in Nat : n \notin S}
           Below == {1..n : n \in Bad}
<1> SUFFICES ASSUME Bad # {} PROVE FALSE
  OBVIOUS
<1>1. Below \subseteq FiniteSubsetsOf(Nat) /\ Below # {}
  <2>1. ASSUME NEW n \in Nat PROVE 1..n \in FiniteSubsetsOf(Nat)
    BY FS_Interval DEF FiniteSubsetsOf
  <2> QED BY <2>1
<1>2. \E x \in Below : \A y \in Below : <<y, x>> \notin StrictSubsetOrdering(Nat)
  <2> HIDE DEF Below
  <2> QED BY <1>1, WFMin, FS_StrictSubsetOrderingWellFounded
<1>3. PICK n \in Bad : \A y \in Below : <<y, 1..n>> \notin StrictSubsetOrdering(Nat)
  BY <1>2
<1>4. n # 0 /\ n - 1 \in Nat
  OBVIOUS
<1>5. n - 1 \in Bad
  BY <1>4
<1>6. <<1..(n - 1), 1..n>> \in StrictSubsetOrdering(Nat)
  <2>1. 1..(n - 1) \in SUBSET Nat /\ 1..n \in SUBSET Nat /\ 1..(n - 1) \subseteq 1..n
    BY <1>4
  <2>2. n \in 1..n /\ n \notin 1..(n - 1)
    BY <1>4
  <2> QED BY <2>1, <2>2 DEF StrictSubsetOrdering
<1> QED BY <1>3, <1>5, <1>6

-----------------------------------------------------------------------------
(* asm_calc_ping_stats_simd *)

\* A reply counts at least one millisecond, so zero always means that none came.
LEMMA TimesAreNumbers == Rtts \subseteq Nat \ {0}
BY PingAssumption

\* What the monitor knows of a list of times.
LEMMA TimesType ==
  ASSUME NEW v \in Seq(Rtts)
  PROVE  /\ Len(v) \in Nat /\ DOMAIN v = 1..Len(v)
         /\ \A i \in 1..Len(v) : v[i] \in Rtts /\ v[i] \in Nat
         /\ v # <<>> => Len(v) > 0
<1>1. /\ Len(v) \in Nat /\ DOMAIN v = 1..Len(v)
      /\ \A i \in 1..Len(v) : v[i] \in Rtts
      /\ v # <<>> => Len(v) > 0
  OBVIOUS
<1> QED BY <1>1, TimesAreNumbers

\* What a function of the registers after each time has to be.
IsPass(f, v, n) ==
  f = [k \in 0..n |-> IF k = 0 THEN First(v[1]) ELSE Accumulate(f[k - 1], v[k])]

Pass(v) == CHOOSE f : IsPass(f, v, Len(v))

\* There is one, however many times there are.
LEMMA PassExists ==
  ASSUME NEW v
  PROVE  \A n \in Nat : \E f : IsPass(f, v, n)
<1> DEFINE S == {n \in Nat : \E f : IsPass(f, v, n)}
<1>1. 0 \in S
  <2>1. IsPass([k \in 0..0 |-> First(v[1])], v, 0)
    BY DEF IsPass
  <2> QED BY <2>1
<1>2. ASSUME NEW n \in Nat, n \in S PROVE n + 1 \in S
  <2>1. PICK f : IsPass(f, v, n)
    BY <1>2
  <2> DEFINE g == [k \in 0..(n + 1) |->
                     IF k = n + 1 THEN Accumulate(f[n], v[n + 1]) ELSE f[k]]
             h == [k \in 0..(n + 1) |->
                     IF k = 0 THEN First(v[1]) ELSE Accumulate(g[k - 1], v[k])]
  <2>2. ASSUME NEW k \in 0..(n + 1) PROVE g[k] = h[k]
    <3>1. CASE k = n + 1
      <4>1. g[k - 1] = f[n]
        BY <3>1
      <4> QED BY <3>1, <4>1
    <3>2. CASE k \in 1..n
      <4>1. g[k - 1] = f[k - 1]
        BY <3>2
      <4>2. f[k] = Accumulate(f[k - 1], v[k])
        BY <2>1, <3>2 DEF IsPass
      <4> QED BY <3>2, <4>1, <4>2
    <3>3. CASE k = 0
      BY <2>1, <3>3 DEF IsPass
    <3> QED BY <3>1, <3>2, <3>3
  <2>3. g = h
    BY <2>2
  <2>4. IsPass(g, v, n + 1)
    BY <2>3 DEF IsPass
  <2> QED BY <2>4
<1>3. Nat \subseteq S
  <2> HIDE DEF S
  <2> QED BY <1>1, <1>2, SetInduction
<1> QED BY <1>3

\* The accumulators over a non-empty list, value by value: the first sets them,
\* each later one is taken into what the one before it left.
LEMMA PassIs ==
  ASSUME NEW T, NEW v \in Seq(T)
  PROVE  /\ Pass(v)[0] = First(v[1])
         /\ \A k \in 1..Len(v) : Pass(v)[k] = Accumulate(Pass(v)[k - 1], v[k])
<1>1. Len(v) \in Nat
  OBVIOUS
<1>2. IsPass(Pass(v), v, Len(v))
  <2>1. \E f : IsPass(f, v, Len(v))
    BY <1>1, PassExists
  <2> QED BY <2>1 DEF Pass
<1> DEFINE f == Pass(v)
<1>3. f = [k \in 0..Len(v) |-> IF k = 0 THEN First(v[1]) ELSE Accumulate(f[k - 1], v[k])]
  BY <1>2 DEF IsPass
<1> HIDE DEF f
<1>4. f[0] = First(v[1])
  BY <1>1, <1>3
<1>5. ASSUME NEW k \in 1..Len(v) PROVE f[k] = Accumulate(f[k - 1], v[k])
  BY <1>1, <1>3
<1> QED BY <1>4, <1>5 DEF f

\* The statistics are read off the accumulators of the whole list; a variance
\* that rounds below zero is clipped.
LEMMA StatsOfPass ==
  ASSUME NEW v
  PROVE  LET all == Pass(v)[Len(v)]
             variance == Len(v) * all.sq - all.sum * all.sum
         IN Stats(v) = [lo |-> all.lo, hi |-> all.hi, sum |-> all.sum,
                        spread |-> IF variance > 0 THEN variance ELSE 0]
BY DEF Stats, Pass, IsPass


\* The extremes are times of the list, and nothing read so far lies outside them.
LEMMA PassExtremes ==
  ASSUME NEW v \in Seq(Rtts), v # <<>>
  PROVE  \A n \in 0..Len(v) :
           /\ Pass(v)[n].lo \in {v[i] : i \in DOMAIN v}
           /\ Pass(v)[n].hi \in {v[i] : i \in DOMAIN v}
           /\ \A i \in 1..n : Pass(v)[n].lo <= v[i] /\ v[i] <= Pass(v)[n].hi
<1> DEFINE p == Pass(v)
           Vals == {v[i] : i \in DOMAIN v}
           Good(n) == /\ p[n].lo \in Vals /\ p[n].hi \in Vals
                      /\ \A i \in 1..n : p[n].lo <= v[i] /\ v[i] <= p[n].hi
           S == {n \in Nat : n <= Len(v) => Good(n)}
<1>1. Len(v) \in Nat \ {0} /\ \A i \in 1..Len(v) : v[i] \in Vals
  BY TimesType
<1>2. Vals \subseteq Nat
  BY TimesType
<1>3. /\ p[0] = First(v[1])
      /\ \A k \in 1..Len(v) : p[k] = Accumulate(p[k - 1], v[k])
  BY PassIs
<1> HIDE DEF p, Vals
<1>4. 0 \in S
  BY <1>1, <1>3 DEF First
<1>5. ASSUME NEW n \in Nat, n \in S PROVE n + 1 \in S
  <2> SUFFICES ASSUME n + 1 <= Len(v) PROVE Good(n + 1)
    OBVIOUS
  <2> DEFINE x == v[n + 1]
  <2>1. n <= Len(v) /\ n + 1 \in 1..Len(v)
    BY <1>1
  <2>2. Good(n) /\ x \in Vals
    BY <1>1, <1>5, <2>1
  <2>3. /\ p[n + 1].lo = IF x < p[n].lo THEN x ELSE p[n].lo
        /\ p[n + 1].hi = IF x > p[n].hi THEN x ELSE p[n].hi
    <3>1. p[n + 1] = Accumulate(p[(n + 1) - 1], v[n + 1])
      BY <1>3, <2>1
    <3>2. (n + 1) - 1 = n
      OBVIOUS
    <3> QED BY <3>1, <3>2 DEF Accumulate
  <2>4. /\ p[n].lo \in Nat /\ p[n].hi \in Nat /\ x \in Nat
        /\ p[n + 1].lo \in Vals /\ p[n + 1].hi \in Vals
    BY <1>2, <2>2, <2>3
  <2>5. /\ p[n + 1].lo \in Nat /\ p[n + 1].hi \in Nat
        /\ p[n + 1].lo <= p[n].lo /\ p[n].hi <= p[n + 1].hi
        /\ p[n + 1].lo <= x /\ x <= p[n + 1].hi
    BY <2>3, <2>4
  <2>6. ASSUME NEW i \in 1..(n + 1) PROVE p[n + 1].lo <= v[i] /\ v[i] <= p[n + 1].hi
    <3>1. CASE i = n + 1
      BY <2>5, <3>1
    <3>2. CASE i # n + 1
      <4>1. i \in 1..n /\ i \in 1..Len(v)
        BY <1>1, <2>1, <3>2
      <4>2. v[i] \in Nat /\ p[n].lo <= v[i] /\ v[i] <= p[n].hi
        BY <1>1, <1>2, <2>2, <4>1
      <4> HIDE DEF Good, S
      <4> QED BY <2>4, <2>5, <4>2
    <3> QED BY <3>1, <3>2
  <2> QED BY <2>4, <2>6
<1>6. Nat \subseteq S
  <2> HIDE DEF S
  <2> QED BY <1>4, <1>5, SetInduction
<1>7. \A n \in 0..Len(v) : Good(n)
  BY <1>1, <1>6
<1> QED BY <1>7 DEF p, Vals

\* (x - lo) * (hi - x) >= 0, for the squares.
LEMMA SquareBetween ==
  ASSUME NEW lo \in Nat, NEW hi \in Nat, NEW x \in Nat, lo <= x, x <= hi
  PROVE  x * x <= (lo + hi) * x - lo * hi
<1>1. PICK a \in Nat : x = lo + a
  <2>1. x - lo \in Nat /\ x = lo + (x - lo)
    OBVIOUS
  <2> QED BY <2>1
<1>2. PICK b \in Nat : hi = x + b
  <2>1. hi - x \in Nat /\ hi = x + (hi - x)
    OBVIOUS
  <2> QED BY <2>1
<1>3. a * b \in Nat
  OBVIOUS
<1>4. (lo + hi) * x - lo * hi = x * x + a * b
  <2>1. hi = lo + a + b
    BY <1>1, <1>2
  <2>2. (lo + hi) * x = (lo + lo + a + b) * (lo + a)
    BY <1>1, <2>1
  <2>3. lo * hi = lo * (lo + a + b)
    BY <2>1
  <2>4. x * x = (lo + a) * (lo + a)
    BY <1>1
  <2> QED BY <2>2, <2>3, <2>4
<1> QED BY <1>3, <1>4

\* The sums are those of times between lo and hi.
LEMMA PassSums ==
  ASSUME NEW v \in Seq(Rtts), NEW lo \in Nat, NEW hi \in Nat,
         \A i \in 1..Len(v) : lo <= v[i] /\ v[i] <= hi
  PROVE  \A n \in 0..Len(v) :
           /\ Pass(v)[n].sum \in Nat /\ Pass(v)[n].sq \in Nat
           /\ n * lo <= Pass(v)[n].sum /\ Pass(v)[n].sum <= n * hi
           /\ Pass(v)[n].sq <= (lo + hi) * Pass(v)[n].sum - n * (lo * hi)
<1> DEFINE p == Pass(v)
           Good(n) == /\ p[n].sum \in Nat /\ p[n].sq \in Nat
                      /\ n * lo <= p[n].sum /\ p[n].sum <= n * hi
                      /\ p[n].sq <= (lo + hi) * p[n].sum - n * (lo * hi)
           S == {n \in Nat : n <= Len(v) => Good(n)}
<1>1. /\ Len(v) \in Nat
      /\ \A i \in 1..Len(v) : v[i] \in Nat
  BY TimesType
<1>2. /\ p[0] = First(v[1])
      /\ \A k \in 1..Len(v) : p[k] = Accumulate(p[k - 1], v[k])
  BY PassIs
<1> HIDE DEF p
<1>3. 0 \in S
  <2>1. p[0].sum = 0 /\ p[0].sq = 0
    BY <1>2 DEF First
  <2>2. lo * hi \in Nat /\ (lo + hi) * 0 = 0 /\ 0 * lo = 0 /\ 0 * hi = 0 /\ 0 * (lo * hi) = 0
    OBVIOUS
  <2>3. Good(0)
    BY <2>1, <2>2
  <2> QED BY <2>3
<1>4. ASSUME NEW n \in Nat, n \in S PROVE n + 1 \in S
  <2> SUFFICES ASSUME n + 1 <= Len(v) PROVE Good(n + 1)
    OBVIOUS
  <2> DEFINE x == v[n + 1]
             s == p[n].sum
             q == p[n].sq
  <2>1. /\ x \in Nat /\ s \in Nat /\ q \in Nat /\ lo <= x /\ x <= hi
        /\ n * lo <= s /\ s <= n * hi
        /\ q <= (lo + hi) * s - n * (lo * hi)
    BY <1>1, <1>4
  <2>2. p[n + 1].sum = s + x /\ p[n + 1].sq = q + x * x
    <3>1. p[n + 1] = Accumulate(p[(n + 1) - 1], v[n + 1])
      BY <1>1, <1>2
    <3>2. (n + 1) - 1 = n
      OBVIOUS
    <3> QED BY <3>1, <3>2 DEF Accumulate
  <2> HIDE DEF x, s, q
  <2>3. x * x \in Nat /\ x * x <= (lo + hi) * x - lo * hi
    BY <2>1, SquareBetween
  <2>4. (n + 1) * lo = n * lo + lo /\ (n + 1) * hi = n * hi + hi
        /\ n * lo \in Nat /\ n * hi \in Nat
    OBVIOUS
  <2>5. (n + 1) * lo <= s + x /\ s + x <= (n + 1) * hi
    BY <2>1, <2>4
  <2>6. (lo + hi) * (s + x) = (lo + hi) * s + (lo + hi) * x
    BY <2>1
  <2>7. (n + 1) * (lo * hi) = n * (lo * hi) + lo * hi
    <3>1. lo * hi \in Nat
      OBVIOUS
    <3> QED BY <3>1
  <2>8. /\ (lo + hi) * s \in Nat /\ (lo + hi) * x \in Nat
        /\ n * (lo * hi) \in Nat /\ lo * hi \in Nat
    BY <2>1
  <2>9. q + x * x <= (lo + hi) * (s + x) - (n + 1) * (lo * hi)
    BY <2>1, <2>3, <2>6, <2>7, <2>8
  <2>10. s + x \in Nat /\ q + x * x \in Nat
    BY <2>1, <2>3
  <2>11. Good(n + 1)
    BY <2>2, <2>5, <2>9, <2>10 DEF s, q
  <2> QED BY <2>11
<1>5. Nat \subseteq S
  <2> HIDE DEF S
  <2> QED BY <1>3, <1>4, SetInduction
<1>6. \A n \in 0..Len(v) : Good(n)
  BY <1>1, <1>5
<1> QED BY <1>6 DEF p

\* Two parts of a whole: their product is at most its square.
LEMMA ProductOfParts ==
  ASSUME NEW a \in Nat, NEW b \in Nat
  PROVE  a * b <= (a + b) * (a + b)
<1>1. a * a \in Nat /\ b * b \in Nat /\ a * b \in Nat
  OBVIOUS
<1>2. (a + b) * (a + b) = a * a + 2 * (a * b) + b * b
  OBVIOUS
<1> QED BY <1>1, <1>2

\* n * n times the variance of n times between lo and hi is at most that of as many
\* at the two ends, and that is at most the square of n times their distance.
LEMMA VarianceBound ==
  ASSUME NEW n \in Nat, NEW lo \in Nat, NEW hi \in Nat, lo <= hi,
         NEW s \in Nat, NEW q \in Nat,
         n * lo <= s, s <= n * hi, q <= (lo + hi) * s - n * (lo * hi)
  PROVE  n * q - s * s <= n * n * (hi - lo) * (hi - lo)
<1> DEFINE a == s - n * lo
           b == n * hi - s
<1>1. n * lo \in Nat /\ n * hi \in Nat /\ lo * hi \in Nat
  OBVIOUS
<1>2. a \in Nat /\ b \in Nat
  BY <1>1
<1>3. a * b <= (a + b) * (a + b)
  BY <1>2, ProductOfParts
<1>4. a + b = n * (hi - lo)
  OBVIOUS
<1>5. n * q <= n * ((lo + hi) * s - n * (lo * hi))
  <2> DEFINE t == (lo + hi) * s - n * (lo * hi)
  <2>1. t \in Int /\ q <= t
    BY <1>1
  <2>2. t - q \in Nat
    BY <2>1
  <2>3. n * (t - q) \in Nat
    <3> HIDE DEF t
    <3> QED BY <2>2
  <2>4. n * (t - q) = n * t - n * q /\ n * t \in Int /\ n * q \in Int
    <3> HIDE DEF t
    <3> QED BY <2>1
  <2> QED BY <2>3, <2>4
<1>6. n * ((lo + hi) * s - n * (lo * hi)) - s * s = a * b
  OBVIOUS
<1>7. n * q - s * s <= a * b
  <2>1. n * q \in Int /\ s * s \in Int /\ n * ((lo + hi) * s - n * (lo * hi)) \in Int
    BY <1>1
  <2> QED BY <1>5, <1>6, <2>1
<1>8. (n * (hi - lo)) * (n * (hi - lo)) = n * n * (hi - lo) * (hi - lo)
  OBVIOUS
<1>9. n * q - s * s \in Int /\ a * b \in Int /\ (a + b) * (a + b) \in Int
  BY <1>2
<1>10. (a + b) * (a + b) = n * n * (hi - lo) * (hi - lo)
  BY <1>4, <1>8
<1> HIDE DEF a, b
<1> QED BY <1>3, <1>7, <1>9, <1>10

\* What asm_calc_ping_stats_simd computes: extremes that are times of the list and
\* bound all of it, a sum and a variance such times can have.
LEMMA StatsOfTimes ==
  ASSUME NEW v \in Seq(Rtts), v # <<>>
  PROVE  /\ Stats(v).lo \in {v[i] : i \in DOMAIN v}
         /\ Stats(v).hi \in {v[i] : i \in DOMAIN v}
         /\ \A i \in DOMAIN v : Stats(v).lo <= v[i] /\ v[i] <= Stats(v).hi
         /\ Stats(v).sum \in Nat
         /\ Stats(v).lo * Len(v) <= Stats(v).sum
         /\ Stats(v).sum <= Stats(v).hi * Len(v)
         /\ Stats(v).spread \in Nat
         /\ Stats(v).spread
              <= Len(v) * Len(v) * (Stats(v).hi - Stats(v).lo) * (Stats(v).hi - Stats(v).lo)
<1> DEFINE n == Len(v)
           all == Pass(v)[n]
           lo == all.lo
           hi == all.hi
           variance == n * all.sq - all.sum * all.sum
           spread == IF variance > 0 THEN variance ELSE 0
<1>1. n \in Nat /\ n > 0 /\ DOMAIN v = 1..n /\ \A i \in 1..n : v[i] \in Nat
  BY TimesType
<1>2. /\ lo \in {v[i] : i \in DOMAIN v} /\ hi \in {v[i] : i \in DOMAIN v}
      /\ \A i \in 1..n : lo <= v[i] /\ v[i] <= hi
  <2>1. n \in 0..n
    BY <1>1
  <2> QED BY <2>1, PassExtremes
<1>3. lo \in Nat /\ hi \in Nat
  BY <1>1, <1>2
<1>4. lo <= hi
  <2>1. v[1] \in Nat /\ lo <= v[1] /\ v[1] <= hi
    BY <1>1, <1>2
  <2> HIDE DEF lo, hi
  <2> QED BY <1>3, <2>1
<1>5. /\ all.sum \in Nat /\ all.sq \in Nat
      /\ n * lo <= all.sum /\ all.sum <= n * hi
      /\ all.sq <= (lo + hi) * all.sum - n * (lo * hi)
  <2>1. n \in 0..n
    BY <1>1
  <2> HIDE DEF lo, hi
  <2> QED BY <1>2, <1>3, <2>1, PassSums
<1>6. variance <= n * n * (hi - lo) * (hi - lo)
  <2> HIDE DEF n, all, lo, hi
  <2> QED BY <1>1, <1>3, <1>4, <1>5, VarianceBound
<1>7. Stats(v) = [lo |-> lo, hi |-> hi, sum |-> all.sum, spread |-> spread]
  BY StatsOfPass
<1>8. variance \in Int /\ n * n * (hi - lo) * (hi - lo) \in Nat
  <2>1. hi - lo \in Nat
    BY <1>3, <1>4
  <2>2. n * n \in Nat /\ n * all.sq \in Nat /\ all.sum * all.sum \in Nat
    BY <1>1, <1>5
  <2> DEFINE d == hi - lo
  <2> HIDE DEF n, d
  <2>3. n * n * d * d \in Nat
    BY <2>1, <2>2 DEF d
  <2> QED BY <2>2, <2>3 DEF d
<1>9. spread \in Nat /\ spread <= n * n * (hi - lo) * (hi - lo)
  <2> DEFINE bound == n * n * (hi - lo) * (hi - lo)
  <2>1. variance \in Int /\ bound \in Nat /\ variance <= bound
    BY <1>6, <1>8
  <2> HIDE DEF variance, bound
  <2>2. spread \in Nat /\ spread <= bound
    BY <2>1
  <2> QED BY <2>2 DEF bound
<1>10. n * lo = lo * n /\ n * hi = hi * n
  <2> HIDE DEF n, lo, hi
  <2> QED BY <1>1, <1>3
<1> HIDE DEF n, all, lo, hi, spread
<1>11. /\ Stats(v).lo = lo /\ Stats(v).hi = hi /\ Stats(v).sum = all.sum
       /\ Stats(v).spread = spread
  BY <1>7
<1>12. Len(v) = n
  BY DEF n
<1> QED BY <1>1, <1>2, <1>5, <1>9, <1>10, <1>11, <1>12

-----------------------------------------------------------------------------
(* asm_calc_jitter_rfc3550 *)

\* The jitter stays a fraction, and below any distance that bounds it and the
\* difference it learns of.
LEMMA JitterBound ==
  ASSUME NEW j \in [num : Nat, den : Nat \ {0}], NEW d \in Int, NEW w \in Nat,
         -w <= d, d <= w, j.num <= w * j.den
  PROVE  /\ Jitter(j, d) \in [num : Nat, den : Nat \ {0}]
         /\ Jitter(j, d).num <= w * Jitter(j, d).den
<1>1. j.num \in Nat /\ j.den \in Nat /\ j.den > 0
  OBVIOUS
<1>2. Abs(d) \in Nat /\ Abs(d) <= w
  BY DEF Abs
<1>3. PICK r \in Nat : w = Abs(d) + r
  <2>1. w - Abs(d) \in Nat /\ w = Abs(d) + (w - Abs(d))
    BY <1>2
  <2> QED BY <2>1
<1>4. Abs(d) * j.den \in Nat /\ r * j.den \in Nat /\ w * j.den = Abs(d) * j.den + r * j.den
  <2>1. ASSUME NEW x \in Nat, NEW y \in Nat, NEW z \in Nat
        PROVE  x * z \in Nat /\ y * z \in Nat /\ (x + y) * z = x * z + y * z
    OBVIOUS
  <2> QED BY <1>1, <1>2, <1>3, <2>1
<1>5. Jitter(j, d).num = 15 * j.num + Abs(d) * j.den /\ Jitter(j, d).den = 16 * j.den
  BY DEF Jitter
<1>6. w * (16 * j.den) = 16 * (w * j.den) /\ w * j.den \in Nat
  BY <1>1
<1>7. 15 * j.num + Abs(d) * j.den <= 16 * (w * j.den)
  <2> DEFINE wd == w * j.den
             ad == Abs(d) * j.den
  <2>1. wd \in Nat /\ ad \in Nat /\ ad <= wd /\ j.num <= wd
    BY <1>4, <1>6
  <2> HIDE DEF wd, ad
  <2>2. 15 * j.num + ad <= 16 * wd
    BY <1>1, <2>1
  <2> QED BY <2>2 DEF wd, ad
<1>8. Jitter(j, d) \in [num : Nat, den : Nat \ {0}]
  BY <1>1, <1>4 DEF Jitter
<1> QED BY <1>5, <1>6, <1>7, <1>8

-----------------------------------------------------------------------------
(* GenerateSparkline *)

\* Whole quotients keep the order, and no quotient of parts of a range exceeds the
\* number of parts.
LEMMA QuotientBound ==
  ASSUME NEW x \in Nat, NEW r \in Nat \ {0}, NEW k \in Nat, x <= r
  PROVE  (x * k) \div r \in 0..k
<1>1. x * k \in Nat /\ x * k <= r * k
  <2>1. PICK y \in Nat : r = x + y
    <3>1. r - x \in Nat /\ r = x + (r - x)
      OBVIOUS
    <3> QED BY <3>1
  <2>2. r * k = x * k + y * k /\ x * k \in Nat /\ y * k \in Nat
    BY <2>1
  <2> QED BY <2>2
<1> DEFINE p == x * k
           q == p \div r
<1>2. p \in Nat
  BY <1>1
<1>3. q \in Nat /\ r * q <= p
  <2> HIDE DEF p
  <2> QED BY <1>2
<1>4. q <= k
  <2> SUFFICES ASSUME q >= k + 1 PROVE FALSE
    BY <1>3
  <2> HIDE DEF q, p
  <2>1. r * q >= r * (k + 1)
    <3>1. PICK y \in Nat : q = (k + 1) + y
      <4>1. q - (k + 1) \in Nat /\ q = (k + 1) + (q - (k + 1))
        BY <1>3
      <4> QED BY <4>1
    <3>2. r * q = r * (k + 1) + r * y /\ r * y \in Nat /\ r * (k + 1) \in Nat
      BY <3>1
    <3> QED BY <3>2
  <2>2. r * (k + 1) = r * k + r /\ r * k \in Nat
    OBVIOUS
  <2>3. p <= r * k
    BY <1>1 DEF p
  <2>4. r * q \in Nat
    BY <1>3
  <2> QED BY <1>2, <1>3, <2>1, <2>2, <2>3, <2>4
<1> QED BY <1>3, <1>4

\* A whole quotient does not fall when its dividend grows.
LEMMA QuotientMonotone ==
  ASSUME NEW x \in Nat, NEW y \in Nat, NEW r \in Nat \ {0}, x <= y
  PROVE  x \div r <= y \div r
<1> DEFINE p == x \div r
           q == y \div r
<1>1. p \in Nat /\ q \in Nat /\ r * p <= x /\ y < r * q + r
  <2>1. r * (x \div r) + (x % r) = x /\ r * (y \div r) + (y % r) = y
    OBVIOUS
  <2>2. x % r \in 0..(r - 1) /\ y % r \in 0..(r - 1) /\ x \div r \in Nat /\ y \div r \in Nat
    OBVIOUS
  <2> QED BY <2>1, <2>2
<1> HIDE DEF p, q
<1>2. p <= q
  <2> SUFFICES ASSUME p >= q + 1 PROVE FALSE
    BY <1>1
  <2>1. PICK z \in Nat : p = (q + 1) + z
    <3>1. p - (q + 1) \in Nat /\ p = (q + 1) + (p - (q + 1))
      BY <1>1
    <3> QED BY <3>1
  <2>2. r * p = r * q + r + r * z /\ r * z \in Nat /\ r * q \in Nat
    BY <1>1, <2>1
  <2> QED BY <1>1, <2>2
<1> QED BY <1>2 DEF p, q

\* Nor does it when the dividends are scaled alike.
LEMMA ScaleMonotone ==
  ASSUME NEW x \in Nat, NEW y \in Nat, NEW r \in Nat \ {0}, NEW k \in Nat, x <= y
  PROVE  (x * k) \div r <= (y * k) \div r
<1>1. PICK z \in Nat : y = x + z
  <2>1. y - x \in Nat /\ y = x + (y - x)
    OBVIOUS
  <2> QED BY <2>1
<1>2. y * k = x * k + z * k /\ z * k \in Nat /\ x * k \in Nat /\ y * k \in Nat
  BY <1>1
<1>3. x * k <= y * k
  BY <1>2
<1> QED BY <1>2, <1>3, QuotientMonotone

\* The line shows the answers: lost ones by their own glyph, replies by glyphs
\* ordered as they are.
LEMMA SparkFitsAnswers ==
  ASSUME NEW a \in Seq(Rtts \cup {Lost}), NEW lo, NEW hi,
         Replies(a) # {} =>
           /\ {lo, hi} \subseteq {a[i] : i \in Replies(a)}
           /\ \A i \in Replies(a) : lo <= a[i] /\ a[i] <= hi
  PROVE  SparkFits(GenerateSparkline(a), a)
<1> DEFINE got == Replies(a)
           valid == {a[i] : i \in DOMAIN a} \ {Lost}
           low == CHOOSE x \in valid : \A y \in valid : x <= y
           high == CHOOSE x \in valid : \A y \in valid : x >= y
           range == IF high = low THEN 1 ELSE high - low
           spark == GenerateSparkline(a)
<1>1. Lost \notin Nat /\ Lost = -1
  BY DEF Lost
<1>2. valid = {a[i] : i \in got} /\ got \subseteq DOMAIN a
      /\ \A i \in got : a[i] \in Nat \ {0} /\ a[i] \in valid
  <2>1. \A i \in DOMAIN a : a[i] \in Rtts \cup {Lost}
    OBVIOUS
  <2>2. got = {i \in DOMAIN a : a[i] # Lost}
    BY DEF Replies
  <2>3. \A i \in got : i \in DOMAIN a /\ a[i] \in Rtts /\ a[i] \in valid
    <3> HIDE DEF got
    <3> QED BY <2>1, <2>2
  <2>4. valid = {a[i] : i \in got}
    <3> HIDE DEF got
    <3> QED BY <2>2
  <2> HIDE DEF got, valid
  <2> QED BY <2>3, <2>4, TimesAreNumbers
<1>3. CASE got = {}
  <2>1. valid = {}
    BY <1>2, <1>3
  <2>2. spark = <<>>
    BY <2>1 DEF GenerateSparkline
  <2> QED BY <1>3, <2>2 DEF SparkFits
<1>4. CASE got # {}
  <2>1. valid # {} /\ valid \subseteq Nat /\ lo \in valid /\ hi \in valid
        /\ \A y \in valid : lo <= y /\ y <= hi
    BY <1>2, <1>4
  <2>2. low \in valid /\ \A y \in valid : low <= y
    <3>1. \E x \in valid : \A y \in valid : x <= y
      BY <2>1
    <3> HIDE DEF valid
    <3> QED BY <3>1
  <2>3. high \in valid /\ \A y \in valid : high >= y
    <3>1. hi \in valid /\ \A y \in valid : hi >= y
      BY <2>1
    <3>2. \E x \in valid : \A y \in valid : x >= y
      BY <3>1
    <3> HIDE DEF valid
    <3> QED BY <3>2
  <2>4. low \in Nat /\ high \in Nat /\ low <= high
    BY <2>1, <2>2, <2>3
  <2>5. spark = [i \in DOMAIN a |->
                   IF a[i] = Lost THEN LostGlyph
                   ELSE ((a[i] - low) * (Glyphs - 1)) \div range]
    BY <2>1 DEF GenerateSparkline
  <2> HIDE DEF low, high, valid, spark
  <2>6. range \in Nat \ {0}
    BY <2>4
  <2>7. ASSUME NEW i \in got
        PROVE  /\ a[i] - low \in Nat /\ a[i] - low <= range
               /\ spark[i] = ((a[i] - low) * 6) \div range
               /\ spark[i] \in 0..6
    <3>1. a[i] \in Nat /\ low <= a[i] /\ a[i] <= high
      BY <1>2, <2>2, <2>3
    <3>2. a[i] - low \in Nat /\ a[i] - low <= range
      BY <2>4, <3>1
    <3>3. spark[i] = ((a[i] - low) * 6) \div range
      <4>1. i \in DOMAIN a /\ a[i] # Lost
        BY <1>2, <3>1, <1>1
      <4> HIDE DEF range
      <4> QED BY <2>5, <4>1 DEF Glyphs
    <3>4. ((a[i] - low) * 6) \div range \in 0..6
      <4> HIDE DEF range
      <4> QED BY <2>6, <3>2, QuotientBound
    <3> QED BY <3>2, <3>3, <3>4
  <2> HIDE DEF range
  <2>8. ASSUME NEW i \in DOMAIN a PROVE i \notin got <=> spark[i] = LostGlyph
    <3>1. CASE i \in got
      <4>1. spark[i] \in 0..6
        BY <2>7, <3>1
      <4> QED BY <3>1, <4>1 DEF LostGlyph
    <3>2. CASE i \notin got
      BY <2>5, <3>2 DEF Replies
    <3> QED BY <3>1, <3>2
  <2>9. ASSUME NEW i \in got, NEW j \in got, a[i] <= a[j]
        PROVE  spark[i] <= spark[j]
    <3>1. a[i] - low <= a[j] - low
      BY <1>2, <2>4, <2>9
    <3>2. ((a[i] - low) * 6) \div range <= ((a[j] - low) * 6) \div range
      BY <2>6, <2>7, <3>1, ScaleMonotone
    <3> QED BY <2>7, <3>2
  <2> QED BY <1>4, <2>7, <2>8, <2>9 DEF SparkFits, Glyphs, spark
<1> QED BY <1>3, <1>4

-----------------------------------------------------------------------------
(* Answers and monitors. *)

Answers == Seq(Rtts \cup {Lost})

\* The replies are finitely many, and as many as the answers at most.
LEMMA RepliesCounted ==
  ASSUME NEW a \in Answers
  PROVE  /\ IsFiniteSet(Replies(a)) /\ Replies(a) \subseteq 1..Len(a)
         /\ Cardinality(Replies(a)) \in 0..Len(a)
<1>1. Len(a) \in Nat /\ DOMAIN a = 1..Len(a)
  BY DEF Answers
<1>2. Replies(a) \subseteq 1..Len(a)
  BY <1>1 DEF Replies
<1>3. IsFiniteSet(1..Len(a)) /\ Cardinality(1..Len(a)) = Len(a)
  <2>1. ASSUME NEW n \in Nat PROVE IsFiniteSet(1..n) /\ Cardinality(1..n) = n
    BY FS_Interval
  <2> QED BY <1>1, <2>1
<1>4. IsFiniteSet(Replies(a)) /\ Cardinality(Replies(a)) <= Cardinality(1..Len(a))
  BY <1>2, <1>3, FS_Subset
<1>5. Cardinality(Replies(a)) \in Nat
  BY <1>4, FS_CardinalityType
<1> QED BY <1>1, <1>2, <1>3, <1>4, <1>5

\* One answer more.
LEMMA AppendedAnswer ==
  ASSUME NEW a \in Answers, NEW x \in Rtts \cup {Lost}
  PROVE  /\ Append(a, x) \in Answers /\ Len(Append(a, x)) = Len(a) + 1
         /\ \A i \in Replies(a) : Append(a, x)[i] = a[i]
         /\ Append(a, x)[Len(a) + 1] = x
         /\ Replies(Append(a, x)) =
              IF x = Lost THEN Replies(a) ELSE Replies(a) \cup {Len(a) + 1}
<1> DEFINE b == Append(a, x)
           n == Len(a)
<1>1. n \in Nat /\ DOMAIN a = 1..n
  BY DEF Answers
<1>2. /\ b \in Answers /\ Len(b) = n + 1 /\ DOMAIN b = 1..(n + 1)
      /\ \A i \in 1..n : b[i] = a[i]
      /\ b[n + 1] = x
  BY <1>1 DEF Answers
<1>3. Replies(a) = {i \in 1..n : a[i] # Lost} /\ Replies(b) = {i \in 1..(n + 1) : b[i] # Lost}
  BY <1>1, <1>2 DEF Replies
<1> HIDE DEF b, n
<1>4. Replies(b) = IF x = Lost THEN Replies(a) ELSE Replies(a) \cup {n + 1}
  <2>1. ASSUME NEW i \in 1..n PROVE i \in Replies(b) <=> i \in Replies(a)
    BY <1>1, <1>2, <1>3
  <2>2. n + 1 \in Replies(b) <=> x # Lost
    BY <1>1, <1>2, <1>3
  <2>3. n + 1 \notin Replies(a) /\ Replies(a) \subseteq 1..n /\ Replies(b) \subseteq 1..n \cup {n + 1}
    BY <1>1, <1>3
  <2> QED BY <2>1, <2>2, <2>3
<1> QED BY <1>2, <1>3, <1>4 DEF b, n

\* A monitor that pings nothing yet.
LEMMA IdleHolds ==
  /\ Idle \in Monitors /\ <<>> \in Answers
  /\ Follows(Idle, <<>>) /\ StatsFit(Idle, <<>>)
<1>1. Count \in Nat \ {0}
  BY PingAssumption
<1>2. Replies(<<>>) = {} /\ Len(<<>>) = 0 /\ <<>> \in Answers
  BY DEF Replies, Answers
<1>3. Cardinality({}) = 0
  BY FS_EmptySet
<1>4. Idle \in Monitors
  BY <1>1 DEF Idle, Monitors
<1>5. {Idle.valid[i] : i \in DOMAIN Idle.valid} = {} /\ Len(Idle.valid) = 0
  BY DEF Idle
<1>6. Follows(Idle, <<>>)
  <2>1. /\ Idle.at = "off" /\ Idle.history = <<>> /\ Idle.sent = 0 /\ Idle.received = 0
        /\ Idle.lost = 0 /\ Idle.previous = Lost
    BY DEF Idle
  <2>2. {<<>>[i] : i \in Replies(<<>>)} = {}
    BY <1>2
  <2>3. Cardinality(Replies(<<>>)) = 0
    BY <1>2, <1>3
  <2> HIDE DEF Idle
  <2> QED BY <1>2, <1>5, <2>1, <2>2, <2>3 DEF Follows
<1>7. StatsFit(Idle, <<>>)
  BY <1>2 DEF StatsFit, Idle
<1> QED BY <1>2, <1>4, <1>6, <1>7

\* What the invariant says of one target.
MonitorHolds(m, a) ==
  /\ m \in Monitors /\ a \in Answers
  /\ Follows(m, a) /\ StatsFit(m, a)

\* A lost ping changes the counters and the history only.
LEMMA LossHolds ==
  ASSUME NEW m, NEW a, MonitorHolds(m, a), m.at = "ping"
  PROVE  LET m2 == [m EXCEPT !.lost = m.lost + 1, !.history = Append(m.history, Lost),
                             !.at = "loop"]
         IN MonitorHolds(m2, Append(a, Lost))
<1> DEFINE b == Append(a, Lost)
           m2 == [m EXCEPT !.lost = m.lost + 1, !.history = Append(m.history, Lost),
                           !.at = "loop"]
<1>1. m \in Monitors /\ a \in Answers /\ Follows(m, a) /\ StatsFit(m, a)
  BY DEF MonitorHolds
<1>2. /\ b \in Answers /\ Len(b) = Len(a) + 1 /\ Replies(b) = Replies(a)
      /\ \A i \in Replies(a) : b[i] = a[i]
  BY <1>1, AppendedAnswer
<1>3. Len(a) \in Nat /\ Cardinality(Replies(a)) \in 0..Len(a)
  BY <1>1, RepliesCounted DEF Answers
<1>4. m2 = [m EXCEPT !.lost = m.lost + 1, !.history = b, !.at = "loop"]
  BY <1>1 DEF Follows
<1> HIDE DEF b, m2
<1>5. /\ m2.at = "loop" /\ m2.history = b /\ m2.lost = m.lost + 1
      /\ m2.sent = m.sent /\ m2.received = m.received /\ m2.previous = m.previous
      /\ m2.valid = m.valid /\ m2.lo = m.lo /\ m2.hi = m.hi /\ m2.sum = m.sum
      /\ m2.spread = m.spread /\ m2.jitter = m.jitter
  BY <1>1, <1>4 DEF Monitors
<1>6. m.sent = Len(a) + 1 /\ m.received = Cardinality(Replies(a)) /\ m.lost = Len(a) - m.received
  BY <1>1 DEF Follows
<1>7. m2 \in Monitors
  <2>1. Count \in Nat /\ m.sent \in 0..Count
    BY <1>1, PingAssumption DEF Monitors
  <2>2. m.lost + 1 \in 0..Count
    BY <1>3, <1>6, <2>1
  <2> QED BY <1>1, <1>2, <1>4, <2>2 DEF Monitors, Answers
<1>8. {b[i] : i \in Replies(b)} = {a[i] : i \in Replies(a)}
  BY <1>2
<1>9. Follows(m2, b)
  <2>1. m2.lost = Len(b) - m2.received
    BY <1>2, <1>3, <1>5, <1>6
  <2>2. m2.sent = Len(b) + 0
    BY <1>2, <1>3, <1>5, <1>6
  <2>3. m.received = Cardinality(Replies(b))
    BY <1>2, <1>6
  <2>4. {m.valid[i] : i \in DOMAIN m.valid} = {b[i] : i \in Replies(b)} /\ Len(m.valid) = m.received
    BY <1>1, <1>8 DEF Follows
  <2>5. m.previous \in IF Replies(b) = {} THEN {Lost} ELSE {b[i] : i \in Replies(b)}
    BY <1>1, <1>2, <1>8 DEF Follows
  <2> QED BY <1>5, <2>1, <2>2, <2>3, <2>4, <2>5 DEF Follows
<1>10. StatsFit(m2, b)
  BY <1>1, <1>2, <1>5, <1>8 DEF StatsFit
<1> QED BY <1>2, <1>7, <1>9, <1>10 DEF MonitorHolds, b, m2

\* A reply: the statistics are those of the times with this one more, and the jitter
\* learns the difference to the reply before it, if there is one.
LEMMA ReplyHolds ==
  ASSUME NEW m, NEW a, MonitorHolds(m, a), m.at = "ping", NEW rtt \in Rtts
  PROVE  LET valid == Append(m.valid, rtt)
             s == Stats(valid)
             m2 == [at |-> "loop", sent |-> m.sent, received |-> m.received + 1,
                    lost |-> m.lost, previous |-> rtt, valid |-> valid,
                    history |-> Append(m.history, rtt),
                    lo |-> s.lo, hi |-> s.hi, sum |-> s.sum, spread |-> s.spread,
                    jitter |-> IF m.previous = Lost THEN m.jitter
                               ELSE Jitter(m.jitter, rtt - m.previous)]
         IN MonitorHolds(m2, Append(a, rtt))
<1> DEFINE valid == Append(m.valid, rtt)
           s == Stats(valid)
           jitter == IF m.previous = Lost THEN m.jitter ELSE Jitter(m.jitter, rtt - m.previous)
           b == Append(a, rtt)
           m2 == [at |-> "loop", sent |-> m.sent, received |-> m.received + 1,
                  lost |-> m.lost, previous |-> rtt, valid |-> valid, history |-> b,
                  lo |-> s.lo, hi |-> s.hi, sum |-> s.sum, spread |-> s.spread,
                  jitter |-> jitter]
           old == {a[i] : i \in Replies(a)}
           new == {b[i] : i \in Replies(b)}
<1>1. m \in Monitors /\ a \in Answers /\ Follows(m, a) /\ StatsFit(m, a)
  BY DEF MonitorHolds
<1>2. rtt \in Nat /\ rtt > 0 /\ rtt # Lost
  BY TimesAreNumbers DEF Lost
<1>3. Len(a) \in Nat /\ Cardinality(Replies(a)) \in 0..Len(a) /\ IsFiniteSet(Replies(a))
      /\ Replies(a) \subseteq 1..Len(a)
  BY <1>1, RepliesCounted DEF Answers
<1>4. /\ b \in Answers /\ Len(b) = Len(a) + 1 /\ Replies(b) = Replies(a) \cup {Len(a) + 1}
      /\ \A i \in Replies(a) : b[i] = a[i]
      /\ b[Len(a) + 1] = rtt
  BY <1>1, <1>2, AppendedAnswer
<1>5. Cardinality(Replies(b)) = Cardinality(Replies(a)) + 1
  <2>1. Len(a) + 1 \notin Replies(a)
    BY <1>3
  <2> QED BY <1>3, <1>4, <2>1, FS_AddElement
<1>6. new = old \cup {rtt}
  BY <1>4
<1>7. /\ m.sent = Len(a) + 1 /\ m.received = Cardinality(Replies(a))
      /\ m.lost = Len(a) - m.received
      /\ Len(m.valid) = m.received /\ {m.valid[i] : i \in DOMAIN m.valid} = old
      /\ m.previous \in IF Replies(a) = {} THEN {Lost} ELSE old
      /\ m.history = a
  BY <1>1 DEF Follows
<1>8. /\ m.valid \in Seq(Rtts) /\ m.lost \in 0..Count /\ m.sent \in 0..Count
      /\ m.jitter \in [num : Nat, den : Nat \ {0}]
  BY <1>1 DEF Monitors
<1> HIDE DEF b, old, new
<1>9. /\ valid \in Seq(Rtts) /\ valid # <<>> /\ Len(valid) = m.received + 1
      /\ {valid[i] : i \in DOMAIN valid} = new
  <2> DEFINE v == m.valid
             n == Len(v)
  <2>1. n \in Nat /\ DOMAIN v = 1..n
    BY <1>8
  <2>2. /\ valid \in Seq(Rtts) /\ valid # <<>> /\ Len(valid) = n + 1
        /\ DOMAIN valid = 1..(n + 1)
        /\ \A i \in 1..n : valid[i] = v[i]
        /\ valid[n + 1] = rtt
    BY <1>8, <2>1
  <2> HIDE DEF valid
  <2>3. {valid[i] : i \in DOMAIN valid} = {v[i] : i \in DOMAIN v} \cup {rtt}
    <3>1. 1..(n + 1) = 1..n \cup {n + 1}
      BY <2>1
    <3> HIDE DEF n, v
    <3> QED BY <2>1, <2>2, <3>1
  <2> QED BY <1>6, <1>7, <2>2, <2>3
<1> HIDE DEF valid
<1>10. /\ s.lo \in new /\ s.hi \in new
       /\ \A x \in new : s.lo <= x /\ x <= s.hi
       /\ s.sum \in Nat /\ s.lo * (m.received + 1) <= s.sum /\ s.sum <= s.hi * (m.received + 1)
       /\ s.spread \in Nat
       /\ s.spread <= (m.received + 1) * (m.received + 1) * (s.hi - s.lo) * (s.hi - s.lo)
  <2>1. \A i \in DOMAIN valid : s.lo <= valid[i] /\ valid[i] <= s.hi
    BY <1>9, StatsOfTimes
  <2>2. \A x \in new : s.lo <= x /\ x <= s.hi
    <3> HIDE DEF s
    <3> QED BY <1>9, <2>1
  <2>3. /\ s.lo \in {valid[i] : i \in DOMAIN valid} /\ s.hi \in {valid[i] : i \in DOMAIN valid}
        /\ s.sum \in Nat /\ s.lo * Len(valid) <= s.sum /\ s.sum <= s.hi * Len(valid)
        /\ s.spread \in Nat
        /\ s.spread <= Len(valid) * Len(valid) * (s.hi - s.lo) * (s.hi - s.lo)
    BY <1>9, StatsOfTimes
  <2> HIDE DEF s
  <2> QED BY <1>9, <2>2, <2>3
<1> HIDE DEF s
<1>11. old \subseteq Rtts /\ new \subseteq Rtts /\ rtt \in new /\ old \subseteq new
  <2>1. old \subseteq Rtts
    <3>1. \A i \in DOMAIN m.valid : m.valid[i] \in Rtts
      BY <1>8
    <3> QED BY <1>7, <3>1
  <2> QED BY <1>6, <2>1
<1>12. /\ s.lo \in Nat /\ s.hi \in Nat /\ s.lo \in Rtts /\ s.hi \in Rtts
       /\ s.lo <= rtt /\ rtt <= s.hi
  BY <1>10, <1>11, TimesAreNumbers
<1>13. /\ jitter \in [num : Nat, den : Nat \ {0}]
       /\ jitter.num <= (s.hi - s.lo) * jitter.den
  <2> DEFINE w == s.hi - s.lo
  <2>1. w \in Nat
    BY <1>2, <1>12
  <2>2. CASE Replies(a) = {}
    <3>1. m.previous = Lost /\ m.jitter.num = 0
      BY <1>1, <1>7, <2>2 DEF StatsFit
    <3>2. jitter = m.jitter
      BY <3>1
    <3>3. w * m.jitter.den \in Nat
      <4> HIDE DEF w
      <4> QED BY <1>8, <2>1
    <3> HIDE DEF jitter
    <3> QED BY <1>8, <3>1, <3>2, <3>3
  <2>3. CASE Replies(a) # {}
    <3>1. m.previous \in old
      BY <1>7, <2>3
    <3>2. m.previous \in Nat /\ m.previous # Lost /\ s.lo <= m.previous /\ m.previous <= s.hi
      <4>1. m.previous \in new /\ m.previous \in Nat
        BY <1>11, <3>1, TimesAreNumbers
      <4>2. s.lo <= m.previous /\ m.previous <= s.hi
        BY <1>10, <4>1
      <4> QED BY <4>1, <4>2 DEF Lost
    <3>3. jitter = Jitter(m.jitter, rtt - m.previous)
      BY <3>2
    <3>4. rtt - m.previous \in Int /\ -w <= rtt - m.previous /\ rtt - m.previous <= w
      BY <1>2, <1>12, <3>2
    <3>5. m.lo \in old /\ m.hi \in old /\ m.jitter.num <= (m.hi - m.lo) * m.jitter.den
      BY <1>1, <2>3 DEF StatsFit, old
    <3>6. /\ m.lo \in Nat /\ m.hi \in Nat /\ s.lo <= m.lo /\ m.hi <= s.hi
          /\ m.hi - m.lo \in Int /\ m.hi - m.lo <= w
      <4>1. m.lo \in Nat /\ m.hi \in Nat /\ m.lo \in new /\ m.hi \in new
        BY <1>11, <3>5, TimesAreNumbers
      <4>2. s.lo <= m.lo /\ m.hi <= s.hi
        BY <1>10, <4>1
      <4> QED BY <1>12, <4>1, <4>2
    <3>7. m.jitter.num <= w * m.jitter.den
      <4> DEFINE o == m.hi - m.lo
                 d == m.jitter.den
      <4>1. d \in Nat /\ o \in Int /\ o <= w /\ m.jitter.num <= o * d /\ m.jitter.num \in Nat
        BY <1>8, <3>5, <3>6
      <4> HIDE DEF o, d, w
      <4>2. w - o \in Nat
        BY <2>1, <4>1
      <4>3. (w - o) * d \in Nat /\ (w - o) * d = w * d - o * d /\ w * d \in Int /\ o * d \in Int
        BY <2>1, <4>1, <4>2
      <4>4. m.jitter.num <= w * d
        BY <4>1, <4>3
      <4> QED BY <4>4 DEF d
    <3> HIDE DEF w, jitter
    <3>8. /\ Jitter(m.jitter, rtt - m.previous) \in [num : Nat, den : Nat \ {0}]
          /\ Jitter(m.jitter, rtt - m.previous).num
               <= w * Jitter(m.jitter, rtt - m.previous).den
      BY <1>8, <2>1, <3>4, <3>7, JitterBound
    <3> QED BY <3>3, <3>8 DEF w
  <2> QED BY <2>2, <2>3
<1> HIDE DEF jitter
<1>14. /\ m2.at = "loop" /\ m2.sent = m.sent /\ m2.received = m.received + 1
       /\ m2.lost = m.lost /\ m2.previous = rtt /\ m2.valid = valid /\ m2.history = b
       /\ m2.lo = s.lo /\ m2.hi = s.hi /\ m2.sum = s.sum /\ m2.spread = s.spread
       /\ m2.jitter = jitter
  OBVIOUS
<1>15. m2 \in Monitors
  <2>1. Count \in Nat /\ m.received + 1 \in 0..Count
    <3>1. Count \in Nat
      BY PingAssumption
    <3> QED BY <1>3, <1>7, <1>8, <3>1
  <2>2. b \in Seq(Rtts \cup {Lost})
    BY <1>4 DEF Answers
  <2> QED BY <1>8, <1>9, <1>10, <1>12, <1>13, <2>1, <2>2 DEF Monitors
<1> HIDE DEF m2
<1>16. Follows(m2, b)
  <2>1. m2.sent = Len(b) + 0
    BY <1>3, <1>4, <1>7, <1>14
  <2>2. m2.received = Cardinality(Replies(b)) /\ m2.lost = Len(b) - m2.received
    BY <1>3, <1>4, <1>5, <1>7, <1>14
  <2>3. Len(m2.valid) = m2.received /\ {m2.valid[i] : i \in DOMAIN m2.valid} = {b[i] : i \in Replies(b)}
    BY <1>9, <1>14 DEF new
  <2>4. m2.previous \in IF Replies(b) = {} THEN {Lost} ELSE {b[i] : i \in Replies(b)}
    BY <1>4, <1>11, <1>14 DEF new
  <2> QED BY <1>14, <2>1, <2>2, <2>3, <2>4 DEF Follows
<1>17. StatsFit(m2, b)
  <2>1. Replies(b) # {}
    BY <1>4
  <2>2. {m2.lo, m2.hi} \subseteq {b[i] : i \in Replies(b)}
        /\ \A i \in Replies(b) : m2.lo <= b[i] /\ b[i] <= m2.hi
    BY <1>10, <1>14 DEF new
  <2>3. /\ m2.lo * m2.received <= m2.sum /\ m2.sum <= m2.hi * m2.received
        /\ m2.spread <= m2.received * m2.received * (m2.hi - m2.lo) * (m2.hi - m2.lo)
        /\ m2.jitter.num <= (m2.hi - m2.lo) * m2.jitter.den
    BY <1>10, <1>13, <1>14
  <2> QED BY <2>1, <2>2, <2>3 DEF StatsFit
<1>18. MonitorHolds(m2, b)
  BY <1>4, <1>15, <1>16, <1>17 DEF MonitorHolds
<1> QED BY <1>7, <1>18 DEF m2, b, s, valid, jitter

\* The table is made of what a monitor that is over knows.
LEMMA RowHolds ==
  ASSUME NEW m, NEW a, MonitorHolds(m, a), m.at = "done"
  PROVE  RowFits(Row(m), a)
<1>1. m \in Monitors /\ a \in Answers /\ Follows(m, a) /\ StatsFit(m, a)
  BY DEF MonitorHolds
<1>2. Row(m).m = m /\ Row(m).spark = GenerateSparkline(a)
  BY <1>1 DEF Row, Follows
<1>3. Len(a) \in Nat /\ m.sent = Len(a) + 0 /\ m.sent = Count
  BY <1>1 DEF Follows, Answers
<1>4. m.received = Cardinality(Replies(a)) /\ m.lost = Count - m.received
  BY <1>1, <1>3 DEF Follows
<1>5. Replies(a) = {} => m.lo = 0
  BY <1>1 DEF Follows
<1>6. SparkFits(GenerateSparkline(a), a)
  <2>1. Replies(a) # {} =>
          /\ {m.lo, m.hi} \subseteq {a[i] : i \in Replies(a)}
          /\ \A i \in Replies(a) : m.lo <= a[i] /\ a[i] <= m.hi
    BY <1>1 DEF StatsFit
  <2> QED BY <1>1, <2>1, SparkFitsAnswers DEF Answers
<1> QED BY <1>1, <1>2, <1>3, <1>4, <1>5, <1>6 DEF RowFits

-----------------------------------------------------------------------------
(* The steps. *)

\* The targets are distinct hosts in a sequence.
LEMMA TargetsType ==
  ASSUME PingTypeOK
  PROVE  /\ targets \in Seq(Target) /\ Len(targets) \in Nat /\ DOMAIN targets = 1..Len(targets)
         /\ \A i \in 1..Len(targets) : targets[i] \in Target
         /\ \A i, j \in 1..Len(targets) : i # j => targets[i] # targets[j]
<1>1. CASE targets = <<>>
  BY <1>1
<1>2. CASE targets \in Commands
  <2>1. targets \in Seq(Target) /\ \A i, j \in DOMAIN targets : i # j => targets[i] # targets[j]
    BY <1>2, PingAssumption
  <2> QED BY <2>1
<1> QED BY <1>1, <1>2 DEF PingTypeOK

\* What the inductive invariant says of a single monitor.
LEMMA PingTypeHas ==
  ASSUME PingIInv, NEW t \in Target
  PROVE  MonitorHolds(mon[t], answers[t])
BY DEF PingIInv, PingTypeOK, MonitorHolds, Answers

\* The monitor of a target that is under way steps, or one is launched: what the
\* caller has taken, and the table, is of others.
LEMMA OneMonitor ==
  ASSUME PingIInv, NEW t \in Target, mon[t].at # "done",
         NEW m, NEW a, MonitorHolds(m, a),
         mon' = [mon EXCEPT ![t] = m], answers' = [answers EXCEPT ![t] = a],
         launched' \in launched..Len(targets), \E i \in 1..launched' : targets[i] = t,
         UNCHANGED <<pc, targets, results, shown>>
  PROVE  PingIInv'
<1> USE DEF PingIInv
<1>1. PingTypeOK /\ OffUntilLaunched /\ TakenWhenDone
  OBVIOUS
<1>2. /\ Len(targets) \in Nat /\ DOMAIN targets = 1..Len(targets)
      /\ launched \in 0..Len(targets)
  BY TargetsType DEF PingTypeOK
<1>3. /\ mon \in [Target -> Monitors] /\ answers \in [Target -> Answers]
      /\ m \in Monitors /\ a \in Answers
  BY DEF PingTypeOK, Answers, MonitorHolds
<1>4. /\ mon' \in [Target -> Monitors] /\ answers' \in [Target -> Answers]
      /\ mon'[t] = m /\ answers'[t] = a
      /\ \A u \in Target \ {t} : mon'[u] = mon[u] /\ answers'[u] = answers[u]
  BY <1>3
<1>5. PingTypeOK'
  BY <1>2, <1>4 DEF PingTypeOK, Answers
<1>6. (\A u \in Target : Follows(mon[u], answers[u]) /\ StatsFit(mon[u], answers[u]))'
  <2> SUFFICES ASSUME NEW u \in Target
               PROVE Follows(mon'[u], answers'[u]) /\ StatsFit(mon'[u], answers'[u])
    OBVIOUS
  <2>1. CASE u = t
    BY <1>4, <2>1 DEF MonitorHolds
  <2>2. CASE u # t
    BY <1>4, <2>2
  <2> QED BY <2>1, <2>2
<1>7. OffUntilLaunched'
  <2> SUFFICES ASSUME NEW u \in Target, u # t
               PROVE (\E i \in 1..launched' : targets[i] = u)
                     \/ (mon'[u].at = "off" /\ answers'[u] = <<>>)
    BY DEF OffUntilLaunched
  <2>1. 1..launched \subseteq 1..launched'
    BY <1>2
  <2>2. (\E i \in 1..launched : targets[i] = u) \/ (mon[u].at = "off" /\ answers[u] = <<>>)
    BY <1>1 DEF OffUntilLaunched
  <2> QED BY <1>4, <2>1, <2>2
<1>8. TakenWhenDone'
  <2>1. ASSUME NEW u \in Target, mon[u].at = "done" PROVE mon'[u] = mon[u]
    BY <1>4, <2>1
  <2>2. \A i \in DOMAIN targets : targets[i] \in Target
    BY TargetsType
  <2>3. DOMAIN results \subseteq DOMAIN targets
    <3>1. results \in Seq(Monitors) /\ Len(results) <= Len(targets)
      BY DEF PingTypeOK
    <3> QED BY <1>2, <3>1
  <2>4. ASSUME NEW i \in DOMAIN results
        PROVE  results[i] = mon'[targets[i]] /\ results[i].at = "done"
    <3>1. results[i] = mon[targets[i]] /\ results[i].at = "done" /\ targets[i] \in Target
      BY <1>1, <2>2, <2>3 DEF TakenWhenDone
    <3> QED BY <2>1, <3>1
  <2>5. ASSUME shown # <<>>
        PROVE  /\ shown = [i \in DOMAIN targets |-> Row(mon'[targets[i]])]
               /\ \A i \in DOMAIN targets : mon'[targets[i]].at = "done"
    <3>1. \A i \in DOMAIN targets : mon'[targets[i]] = mon[targets[i]] /\ mon[targets[i]].at = "done"
      BY <1>1, <2>1, <2>2, <2>5 DEF TakenWhenDone
    <3>2. shown = [i \in DOMAIN targets |-> Row(mon[targets[i]])]
      BY <1>1, <2>5 DEF TakenWhenDone
    <3> QED BY <3>1, <3>2
  <2> QED BY <2>4, <2>5 DEF TakenWhenDone
<1> QED BY <1>5, <1>6, <1>7, <1>8

\* A monitor that has started was launched.
LEMMA Started ==
  ASSUME PingIInv, NEW t \in Target, mon[t].at # "off"
  PROVE  launched \in launched..Len(targets) /\ \E i \in 1..launched : targets[i] = t
<1>1. \E i \in 1..launched : targets[i] = t
  BY DEF PingIInv, OffUntilLaunched
<1>2. launched \in 0..Len(targets) /\ Len(targets) \in Nat
  BY TargetsType DEF PingIInv, PingTypeOK
<1> QED BY <1>1, <1>2

\* Only the position of the monitor changes, between two pings or at the end.
LEMMA AtHolds ==
  ASSUME NEW m, NEW a, MonitorHolds(m, a), m.at \in {"off", "loop"}
  PROVE  MonitorHolds([m EXCEPT !.at = "loop"], a)
<1> DEFINE m2 == [m EXCEPT !.at = "loop"]
<1>1. m \in Monitors /\ a \in Answers /\ Follows(m, a) /\ StatsFit(m, a)
  BY DEF MonitorHolds
<1>2. m2 \in Monitors
  BY <1>1 DEF Monitors
<1>3. /\ m2.at = "loop" /\ m2.history = m.history /\ m2.lost = m.lost
      /\ m2.sent = m.sent /\ m2.received = m.received /\ m2.previous = m.previous
      /\ m2.valid = m.valid /\ m2.lo = m.lo /\ m2.hi = m.hi /\ m2.sum = m.sum
      /\ m2.spread = m.spread /\ m2.jitter = m.jitter
  BY <1>1 DEF Monitors
<1> HIDE DEF m2
<1>4. Follows(m2, a)
  <2>1. m.sent = Len(a) + 0
    BY <1>1 DEF Follows
  <2>2. /\ m.history = a /\ m.received = Cardinality(Replies(a)) /\ m.lost = Len(a) - m.received
        /\ Len(m.valid) = m.received
        /\ {m.valid[i] : i \in DOMAIN m.valid} = {a[i] : i \in Replies(a)}
        /\ m.previous \in IF Replies(a) = {} THEN {Lost} ELSE {a[i] : i \in Replies(a)}
    BY <1>1 DEF Follows
  <2> QED BY <1>3, <2>1, <2>2 DEF Follows
<1>5. StatsFit(m2, a)
  BY <1>1, <1>3 DEF StatsFit
<1> QED BY <1>1, <1>2, <1>4, <1>5 DEF MonitorHolds, m2

\* The ping is counted when it is sent, its answer when it is known.
LEMMA SentHolds ==
  ASSUME NEW m, NEW a, MonitorHolds(m, a), m.at = "loop", m.sent < Count
  PROVE  MonitorHolds([m EXCEPT !.sent = m.sent + 1, !.at = "ping"], a)
<1> DEFINE m2 == [m EXCEPT !.sent = m.sent + 1, !.at = "ping"]
<1>1. m \in Monitors /\ a \in Answers /\ Follows(m, a) /\ StatsFit(m, a)
  BY DEF MonitorHolds
<1>2. m2 \in Monitors
  <2>1. m.sent + 1 \in 0..Count
    BY <1>1, PingAssumption DEF Monitors
  <2> QED BY <1>1, <2>1 DEF Monitors
<1>3. /\ m2.at = "ping" /\ m2.history = m.history /\ m2.lost = m.lost
      /\ m2.sent = m.sent + 1 /\ m2.received = m.received /\ m2.previous = m.previous
      /\ m2.valid = m.valid /\ m2.lo = m.lo /\ m2.hi = m.hi /\ m2.sum = m.sum
      /\ m2.spread = m.spread /\ m2.jitter = m.jitter
  BY <1>1 DEF Monitors
<1> HIDE DEF m2
<1>4. Follows(m2, a)
  <2>1. m.sent = Len(a) + 0 /\ Len(a) \in Nat
    BY <1>1 DEF Follows, Answers
  <2>2. /\ m.history = a /\ m.received = Cardinality(Replies(a)) /\ m.lost = Len(a) - m.received
        /\ Len(m.valid) = m.received
        /\ {m.valid[i] : i \in DOMAIN m.valid} = {a[i] : i \in Replies(a)}
        /\ m.previous \in IF Replies(a) = {} THEN {Lost} ELSE {a[i] : i \in Replies(a)}
    BY <1>1 DEF Follows
  <2>3. m2.sent = Len(a) + 1
    BY <1>3, <2>1
  <2> QED BY <1>3, <2>2, <2>3 DEF Follows
<1>5. StatsFit(m2, a)
  BY <1>1, <1>3 DEF StatsFit
<1> QED BY <1>1, <1>2, <1>4, <1>5 DEF MonitorHolds, m2

\* At the end the sentinel gives way to zero, if it is still there.
LEMMA ReturnHolds ==
  ASSUME NEW m, NEW a, MonitorHolds(m, a), m.at = "loop", m.sent >= Count
  PROVE  MonitorHolds([m EXCEPT !.at = "done", !.lo = IF m.received = 0 THEN 0 ELSE m.lo], a)
<1> DEFINE lo == IF m.received = 0 THEN 0 ELSE m.lo
           m2 == [m EXCEPT !.at = "done", !.lo = lo]
<1>1. m \in Monitors /\ a \in Answers /\ Follows(m, a) /\ StatsFit(m, a)
  BY DEF MonitorHolds
<1>2. m2 \in Monitors
  BY <1>1 DEF Monitors
<1>3. /\ m2.at = "done" /\ m2.history = m.history /\ m2.lost = m.lost
      /\ m2.sent = m.sent /\ m2.received = m.received /\ m2.previous = m.previous
      /\ m2.valid = m.valid /\ m2.lo = lo /\ m2.hi = m.hi /\ m2.sum = m.sum
      /\ m2.spread = m.spread /\ m2.jitter = m.jitter
  BY <1>1 DEF Monitors
<1>4. m.received = Cardinality(Replies(a)) /\ (m.received = 0 <=> Replies(a) = {})
  <2>1. IsFiniteSet(Replies(a)) /\ m.received = Cardinality(Replies(a))
    BY <1>1, RepliesCounted DEF Follows
  <2> QED BY <2>1, FS_EmptySet
<1> HIDE DEF m2
<1>5. Follows(m2, a)
  <2>1. m.sent = Len(a) + 0 /\ m.sent = Count
    <3>1. m.sent \in 0..Count /\ Count \in Nat
      BY <1>1, PingAssumption DEF Monitors
    <3> QED BY <1>1, <3>1 DEF Follows
  <2>2. /\ m.history = a /\ m.lost = Len(a) - m.received
        /\ Len(m.valid) = m.received
        /\ {m.valid[i] : i \in DOMAIN m.valid} = {a[i] : i \in Replies(a)}
        /\ m.previous \in IF Replies(a) = {} THEN {Lost} ELSE {a[i] : i \in Replies(a)}
    BY <1>1 DEF Follows
  <2>3. Replies(a) = {} => m2.lo = 0
    BY <1>3, <1>4
  <2> HIDE DEF lo
  <2> QED BY <1>3, <1>4, <2>1, <2>2, <2>3 DEF Follows
<1>6. StatsFit(m2, a)
  <2>1. CASE Replies(a) = {}
    BY <1>1, <1>3, <2>1 DEF StatsFit
  <2>2. CASE Replies(a) # {}
    <3>1. m2.lo = m.lo
      BY <1>3, <1>4, <2>2
    <3> HIDE DEF lo
    <3> QED BY <1>1, <1>3, <2>2, <3>1 DEF StatsFit
  <2> QED BY <2>1, <2>2
<1> QED BY <1>1, <1>2, <1>5, <1>6 DEF MonitorHolds, m2

\* Nothing has been pinged for the targets.
Reset ==
  /\ mon = [t \in Target |-> Idle] /\ answers = [t \in Target |-> <<>>]
  /\ pc \in {"menu", "busy"} /\ targets \in Commands \cup {<<>>} /\ launched = 0
  /\ results = <<>> /\ shown = <<>>

\* Everything starts, and starts again, with idle monitors.
LEMMA ResetHolds == Reset => PingIInv
<1> SUFFICES ASSUME Reset PROVE PingIInv
  OBVIOUS
<1> USE DEF Reset
<1>1. Len(targets) \in Nat
  <2>1. CASE targets = <<>>
    BY <2>1
  <2>2. CASE targets \in Commands
    <3>1. targets \in Seq(Target)
      BY <2>2, PingAssumption
    <3> QED BY <3>1
  <2> QED BY <2>1, <2>2
<1>2. results \in Seq(Monitors) /\ Len(results) <= Len(targets)
      /\ DOMAIN shown \subseteq DOMAIN targets /\ DOMAIN results = {}
  BY <1>1
<1>3. mon \in [Target -> Monitors] /\ answers \in [Target -> Answers]
  BY IdleHolds
<1>4. PingTypeOK
  BY <1>1, <1>2, <1>3 DEF PingTypeOK, Answers
<1>5. \A t \in Target : Follows(mon[t], answers[t]) /\ StatsFit(mon[t], answers[t])
  <2> SUFFICES ASSUME NEW t \in Target
               PROVE Follows(mon[t], answers[t]) /\ StatsFit(mon[t], answers[t])
    OBVIOUS
  <2>1. mon[t] = Idle /\ answers[t] = <<>>
    OBVIOUS
  <2> QED BY <2>1, IdleHolds
<1>6. OffUntilLaunched
  BY DEF OffUntilLaunched, Idle
<1>7. TakenWhenDone
  BY <1>2 DEF TakenWhenDone
<1> QED BY <1>4, <1>5, <1>6, <1>7 DEF PingIInv

\* Before a command is chosen nothing is measured, so everything holds.
LEMMA PingInitHolds == PingInit => PingIInv
BY ResetHolds DEF PingInit, Reset

\* A command starts from the same blank state, whatever was measured before.
LEMMA ChooseHolds ==
  ASSUME NEW c \in Commands
  PROVE  Choose(c) => PingIInv'
<1>1. Choose(c) => Reset'
  BY DEF Choose, Reset
<1>2. Reset' => PingIInv'
  BY ResetHolds, PTL
<1> QED BY <1>1, <1>2

\* A step of a monitor.
LEMMA MonitorHoldsOn ==
  ASSUME PingIInv, NEW t \in Target, Monitor(t)
  PROVE  PingIInv'
<1> DEFINE m == mon[t]
           a == answers[t]
<1>1. MonitorHolds(m, a)
  BY PingTypeHas
<1>2. mon \in [Target -> Monitors] /\ answers \in [Target -> Answers] /\ m \in Monitors
  BY DEF PingIInv, PingTypeOK, Answers
<1>3. answers = [answers EXCEPT ![t] = a]
  BY <1>2
<1>4. ASSUME m.at # "off"
      PROVE  launched \in launched..Len(targets) /\ \E i \in 1..launched : targets[i] = t
  BY <1>4, Started
<1>5. CASE SendPing(t)
  <2> DEFINE m2 == [m EXCEPT !.sent = m.sent + 1, !.at = "ping"]
  <2>1. m.at = "loop" /\ m.sent < Count
    BY <1>5 DEF SendPing
  <2>2. MonitorHolds(m2, a)
    BY <1>1, <2>1, SentHolds
  <2>3. mon' = [mon EXCEPT ![t] = m2] /\ answers' = [answers EXCEPT ![t] = a]
        /\ UNCHANGED <<pc, targets, launched, results, shown>>
    BY <1>2, <1>3, <1>5 DEF SendPing
  <2> HIDE DEF m2, a
  <2> QED BY <1>4, <2>1, <2>2, <2>3, OneMonitor
<1>6. ASSUME NEW rtt \in Rtts, Reply(t, rtt) PROVE PingIInv'
  <2> DEFINE valid == Append(m.valid, rtt)
             s == Stats(valid)
             m2 == [at |-> "loop", sent |-> m.sent, received |-> m.received + 1,
                    lost |-> m.lost, previous |-> rtt, valid |-> valid,
                    history |-> Append(m.history, rtt),
                    lo |-> s.lo, hi |-> s.hi, sum |-> s.sum, spread |-> s.spread,
                    jitter |-> IF m.previous = Lost THEN m.jitter
                               ELSE Jitter(m.jitter, rtt - m.previous)]
             b == Append(a, rtt)
  <2>1. m.at = "ping"
    BY <1>6 DEF Reply
  <2>2. MonitorHolds(m2, b)
    <3> HIDE DEF a
    <3> QED BY <1>1, <2>1, ReplyHolds
  <2>3. mon' = [mon EXCEPT ![t] = m2]
    BY <1>6 DEF Reply
  <2>4. answers' = [answers EXCEPT ![t] = b]
        /\ UNCHANGED <<pc, targets, launched, results, shown>>
    BY <1>2, <1>6 DEF Reply
  <2> HIDE DEF m2, b
  <2> QED BY <1>4, <2>1, <2>2, <2>3, <2>4, OneMonitor
<1>7. CASE Lose(t)
  <2> DEFINE m2 == [m EXCEPT !.lost = m.lost + 1, !.history = Append(m.history, Lost),
                             !.at = "loop"]
             b == Append(a, Lost)
  <2>1. m.at = "ping"
    BY <1>7 DEF Lose
  <2>2. MonitorHolds(m2, b)
    <3> HIDE DEF a
    <3> QED BY <1>1, <2>1, LossHolds
  <2>3. mon' = [mon EXCEPT ![t] = m2]
    BY <1>2, <1>7 DEF Lose
  <2>4. answers' = [answers EXCEPT ![t] = b]
        /\ UNCHANGED <<pc, targets, launched, results, shown>>
    BY <1>2, <1>7 DEF Lose
  <2> HIDE DEF m2, b
  <2> QED BY <1>4, <2>1, <2>2, <2>3, <2>4, OneMonitor
<1>8. CASE Return(t)
  <2> DEFINE m2 == [m EXCEPT !.at = "done", !.lo = IF m.received = 0 THEN 0 ELSE m.lo]
  <2>1. m.at = "loop" /\ m.sent >= Count
    BY <1>8 DEF Return
  <2>2. MonitorHolds(m2, a)
    BY <1>1, <2>1, ReturnHolds
  <2>3. mon' = [mon EXCEPT ![t] = m2]
    BY <1>2, <1>8 DEF Return
  <2>4. answers' = [answers EXCEPT ![t] = a]
        /\ UNCHANGED <<pc, targets, launched, results, shown>>
    BY <1>3, <1>8 DEF Return
  <2> HIDE DEF m2, a
  <2> QED BY <1>4, <2>1, <2>2, <2>3, <2>4, OneMonitor
<1> QED BY <1>5, <1>6, <1>7, <1>8 DEF Monitor

\* The next target is launched: its monitor was idle.
LEMMA LaunchHolds == PingIInv /\ Launch => PingIInv'
<1> SUFFICES ASSUME PingIInv, Launch PROVE PingIInv'
  OBVIOUS
<1> DEFINE t == targets[launched + 1]
           m == [mon[t] EXCEPT !.at = "loop"]
<1>1. /\ launched \in 0..Len(targets) /\ Len(targets) \in Nat /\ launched < Len(targets)
      /\ launched' = launched + 1
      /\ \A i \in 1..Len(targets) : targets[i] \in Target
      /\ \A i, j \in 1..Len(targets) : i # j => targets[i] # targets[j]
  BY TargetsType DEF PingIInv, PingTypeOK, Launch
<1>2. launched + 1 \in 1..Len(targets) /\ t \in Target
  BY <1>1
<1>3. mon[t].at = "off" /\ answers[t] = <<>>
  <2>1. ~ \E i \in 1..launched : targets[i] = t
    BY <1>1
  <2> QED BY <1>2, <2>1 DEF PingIInv, OffUntilLaunched
<1>4. MonitorHolds(m, answers[t])
  <2>1. MonitorHolds(mon[t], answers[t])
    BY <1>2, PingTypeHas
  <2> HIDE DEF t
  <2> QED BY <1>3, <2>1, AtHolds
<1>5. mon \in [Target -> Monitors] /\ answers \in [Target -> Answers]
  BY DEF PingIInv, PingTypeOK, Answers
<1>6. mon' = [mon EXCEPT ![t] = m]
  BY <1>1, <1>5 DEF Launch
<1>7. answers' = [answers EXCEPT ![t] = answers[t]]
      /\ UNCHANGED <<pc, targets, results, shown>>
  BY <1>5 DEF Launch
<1>8. launched' \in launched..Len(targets) /\ \E i \in 1..launched' : targets[i] = t
  BY <1>1, <1>2
<1> HIDE DEF t, m
<1> QED BY <1>2, <1>3, <1>4, <1>6, <1>7, <1>8, OneMonitor

\* The caller takes a result, which no step changes any more.
LEMMA CollectHolds == PingIInv /\ Collect => PingIInv'
<1> SUFFICES ASSUME PingIInv, Collect PROVE PingIInv'
  OBVIOUS
<1> DEFINE n == Len(results)
           t == targets[n + 1]
<1>1. /\ n < Len(targets) /\ mon[t].at = "done" /\ results' = Append(results, mon[t])
      /\ UNCHANGED <<pc, targets, launched, mon, shown, answers>>
  BY DEF Collect
<1>2. /\ results \in Seq(Monitors) /\ n \in Nat /\ DOMAIN results = 1..n
      /\ Len(targets) \in Nat /\ DOMAIN targets = 1..Len(targets)
      /\ \A i \in 1..Len(targets) : targets[i] \in Target
      /\ mon \in [Target -> Monitors]
  BY TargetsType DEF PingIInv, PingTypeOK
<1>3. t \in Target /\ mon[t] \in Monitors
  <2>1. n + 1 \in 1..Len(targets)
    BY <1>1, <1>2
  <2> QED BY <1>2, <2>1
<1>4. /\ results' \in Seq(Monitors) /\ Len(results') = n + 1 /\ DOMAIN results' = 1..(n + 1)
      /\ \A i \in 1..n : results'[i] = results[i]
      /\ results'[n + 1] = mon[t]
  BY <1>1, <1>2, <1>3
<1>5. PingTypeOK'
  BY <1>1, <1>2, <1>4 DEF PingIInv, PingTypeOK
<1>6. OffUntilLaunched'
  BY <1>1 DEF PingIInv, OffUntilLaunched
<1>7. TakenWhenDone'
  <2>1. ASSUME NEW i \in DOMAIN results'
        PROVE  results'[i] = mon[targets[i]] /\ results'[i].at = "done"
    <3>1. CASE i \in 1..n
      BY <1>2, <1>4, <3>1 DEF PingIInv, TakenWhenDone
    <3>2. CASE i = n + 1
      BY <1>1, <1>4, <3>2
    <3> QED BY <1>2, <1>4, <2>1, <3>1, <3>2
  <2> QED BY <1>1, <2>1 DEF PingIInv, TakenWhenDone
<1> QED BY <1>1, <1>5, <1>6, <1>7 DEF PingIInv

\* The rows are made of the results, all of which have been taken.
LEMMA ShowHolds == PingIInv /\ Show => PingIInv'
<1> SUFFICES ASSUME PingIInv, Show PROVE PingIInv'
  OBVIOUS
<1>1. /\ Len(results) = Len(targets) /\ pc' = "menu"
      /\ shown' = [i \in DOMAIN results |-> Row(results[i])]
      /\ UNCHANGED <<targets, launched, mon, results, answers>>
  BY DEF Show
<1>2. DOMAIN results = DOMAIN targets
  <2>1. results \in Seq(Monitors) /\ targets \in Seq(Target)
    BY TargetsType DEF PingIInv, PingTypeOK
  <2> QED BY <1>1, <2>1
<1>3. \A i \in DOMAIN targets : results[i] = mon[targets[i]] /\ mon[targets[i]].at = "done"
  BY <1>2 DEF PingIInv, TakenWhenDone
<1>4. shown' = [i \in DOMAIN targets |-> Row(mon[targets[i]])]
  BY <1>1, <1>2, <1>3
<1>5. PingTypeOK'
  BY <1>1, <1>4 DEF PingIInv, PingTypeOK
<1>6. OffUntilLaunched' /\ TakenWhenDone'
  BY <1>1, <1>3, <1>4 DEF PingIInv, OffUntilLaunched, TakenWhenDone
<1> QED BY <1>1, <1>5, <1>6 DEF PingIInv

-----------------------------------------------------------------------------

\* The inductive invariant of the ping monitors, for every set of targets, number
\* of pings and answers: the counters, the history and the list of valid times of
\* each RunContinuousMonitor thread follow the answers its own target gave, and
\* the caller has taken the results of ended monitors only, each at the position
\* of its target.
THEOREM PingInvariance == PingSpec => []PingIInv
<1>1. PingIInv /\ [PingNext]_pingVars => PingIInv'
  <2> SUFFICES ASSUME PingIInv, [PingNext]_pingVars PROVE PingIInv'
    OBVIOUS
  <2>1. CASE UNCHANGED pingVars
    BY <2>1 DEF pingVars, PingIInv, PingTypeOK, OffUntilLaunched, TakenWhenDone
  <2> QED
    BY <2>1, ChooseHolds, LaunchHolds, CollectHolds, ShowHolds, MonitorHoldsOn
    DEF PingNext, Caller
<1> QED BY <1>1, PingInitHolds, PTL DEF PingSpec

\* No count exceeds the pings, no sum or variance goes below zero, whatever the
\* number of targets and pings and whichever answers come.
THEOREM PingTypeCorrect == PingSpec => []PingTypeOK
<1>1. PingIInv => PingTypeOK
  BY DEF PingIInv
<1> QED BY <1>1, PingInvariance, PTL

\* The table has a row for every target, in the order asked for, and each row is
\* right about the answers of that target: PrintPingTable after
\* BenchmarkMultipleTargets.
THEOREM TableIsRight == PingSpec => []TableFitsAnswers
<1>1. PingIInv => TableFitsAnswers
  <2> SUFFICES ASSUME PingIInv, shown # <<>>
               PROVE  /\ Len(shown) = Len(targets)
                      /\ \A i \in DOMAIN shown : RowFits(shown[i], answers[targets[i]])
    BY DEF TableFitsAnswers
  <2>1. /\ shown = [i \in DOMAIN targets |-> Row(mon[targets[i]])]
        /\ \A i \in DOMAIN targets : mon[targets[i]].at = "done"
    BY DEF PingIInv, TakenWhenDone
  <2>2. /\ Len(targets) \in Nat /\ DOMAIN targets = 1..Len(targets)
        /\ \A i \in DOMAIN targets : targets[i] \in Target
    BY TargetsType DEF PingIInv
  <2>3. Len(shown) = Len(targets)
    BY <2>1, <2>2
  <2>4. ASSUME NEW i \in DOMAIN shown PROVE RowFits(shown[i], answers[targets[i]])
    <3>1. i \in DOMAIN targets /\ shown[i] = Row(mon[targets[i]])
      BY <2>1
    <3>2. targets[i] \in Target /\ mon[targets[i]].at = "done"
      BY <2>1, <2>2, <3>1
    <3>3. MonitorHolds(mon[targets[i]], answers[targets[i]])
      BY <3>2, PingTypeHas
    <3> QED BY <3>1, <3>2, <3>3, RowHolds
  <2> QED BY <2>3, <2>4
<1> QED BY <1>1, PingInvariance, PTL
=============================================================================
