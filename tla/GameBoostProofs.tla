-------------------------- MODULE GameBoostProofs --------------------------
(***************************************************************************)
(* A game always gets threads it can run on, and only what is meant is     *)
(* flushed or boosted: for every machine, any PIDs and any names.          *)
(***************************************************************************)
EXTENDS GameBoost, TLAPS

-----------------------------------------------------------------------------
(* The affinity mask. *)

\* The threads of the performance cores are threads of the machine.
LEMMA PThreadsIn ==
  ASSUME NEW m, IsMachine(m)
  PROVE  /\ PThreads(m) \subseteq SystemMask(m)
         /\ PCores(m) # {} => PThreads(m) # {}
<1>1. PCores(m) \subseteq m.cores
  BY DEF PCores
<1>2. PThreads(m) \subseteq UNION {c.threads : c \in m.cores}
  BY <1>1 DEF PThreads
<1>3. PThreads(m) \subseteq SystemMask(m)
  BY <1>2 DEF IsMachine, SystemMask
<1>4. ASSUME NEW c \in PCores(m)
      PROVE  PThreads(m) # {}
  BY <1>1, <1>4 DEF PThreads, IsMachine
<1> QED BY <1>3, <1>4

\* The shift sets the bits of the processors, also the 64 that fill the word.
LEMMA AllCoresIs ==
  ASSUME NEW n \in 1..64
  PROVE  AllCores(n) = 0..(n - 1)
<1>1. CASE n >= 64
  <2>1. n = 64
    BY <1>1
  <2>2. n - 1 = 63
    BY <2>1
  <2> QED BY <1>1, <2>2 DEF AllCores
<1>2. CASE ~ (n >= 64)
  BY <1>2 DEF AllCores
<1> QED BY <1>1, <1>2

\* The chain of scenarios never yields the empty mask, a thread that does not
\* exist, or an efficiency core of a hybrid processor.
LEMMA AffinityUsable ==
  ASSUME NEW m, IsMachine(m), NEW read \in BOOLEAN
  PROVE  LET a == CalculateOptimalGamingAffinity(DetectHardware(m, read))
         IN /\ a # {} /\ a \subseteq SystemMask(m)
            /\ read /\ PCores(m) # {} /\ ECores(m) # {} => a \subseteq PThreads(m)
<1> DEFINE prof == DetectHardware(m, read)
           a == CalculateOptimalGamingAffinity(prof)
           n == m.logical
<1>1. n \in 1..64 /\ SystemMask(m) = 0..(n - 1)
  BY DEF IsMachine, SystemMask
<1>2. /\ prof.logicalCores = n
      /\ prof.isHybrid <=> read /\ PCores(m) # {} /\ (ECores(m) # {} \/ m.hybridFlag)
      /\ prof.isHybrid => prof.optimalGameAffinityMask = PThreads(m)
  BY DEF DetectHardware
<1>5. AllCores(n) = 0..(n - 1)
  BY <1>1, AllCoresIs
<1> HIDE DEF prof, n
<1>3. CASE prof.isHybrid
  <2>1. a = HybridMask(prof)
    BY <1>3 DEF CalculateOptimalGamingAffinity
  <2>2. a # {} /\ a \subseteq PThreads(m)
    BY <1>2, <1>3, <2>1, PThreadsIn DEF HybridMask
  <2> QED BY <2>2, PThreadsIn DEF prof
<1>4. CASE ~ prof.isHybrid
  <2>1. a # {} /\ a \subseteq 0..(n - 1)
    <3>1. CASE prof.isAmdX3D /\ n >= 24
      <4>1. a = (0..15) \ Core0
        BY <1>2, <1>4, <3>1 DEF CalculateOptimalGamingAffinity
      <4>2. 2 \in a
        BY <4>1 DEF Core0
      <4> QED BY <4>1, <4>2, <3>1, <1>1
    <3>2. CASE ~ (prof.isAmdX3D /\ n >= 24) /\ n >= 6
      <4>1. a = AllCores(n) \ Core0
        BY <1>2, <1>4, <3>2 DEF CalculateOptimalGamingAffinity
      <4>2. 2 \in a
        BY <4>1, <1>5, <3>2, <1>1 DEF Core0
      <4> QED BY <4>1, <4>2, <1>5
    <3>3. CASE ~ (prof.isAmdX3D /\ n >= 24) /\ ~ (n >= 6)
      <4>1. (a = {1, 2, 3} /\ n = 4) \/ a = AllCores(n)
        BY <1>2, <1>4, <3>3 DEF CalculateOptimalGamingAffinity
      <4> HIDE DEF a
      <4>2. CASE a = {1, 2, 3} /\ n = 4
        BY <4>2
      <4>3. CASE a = AllCores(n)
        <5>1. a = 0..(n - 1)
          BY <4>3, <1>5
        <5>2. 0 \in 0..(n - 1)
          BY <1>1
        <5> QED BY <5>1, <5>2
      <4> QED BY <4>1, <4>2, <4>3
    <3> QED BY <3>1, <3>2, <3>3
  <2> QED BY <2>1, <1>1, <1>2, <1>4 DEF prof
<1> QED BY <1>3, <1>4

-----------------------------------------------------------------------------
(* The invariant. *)

\* Every process, and every PID without one, has a usable mask.
MasksHold ==
  \A p \in Pid :
    /\ mask[p] # {}
    /\ listed /\ PCores(machine) # {} /\ ECores(machine) # {} =>
         mask[p] = SystemMask(machine) \/ mask[p] \subseteq PThreads(machine)

\* A PID of the snapshot still belongs to the process listed there, or to none,
\* or was given out again; between the walks there is no list.
ListHolds ==
  /\ pc \in {"menu", "snapshot", "ask"} => DOMAIN list = {}
  /\ pc = "snapshot" => job \in {"flush", "list", "auto", "byname"}
  /\ \A p \in DOMAIN list :
       /\ name[p] = list[p] \/ name[p] = NoName \/ p \in fresh
       /\ job = "auto" => list[p] \in KnownGames
       /\ job = "byname" => list[p] = typed

\* The process held open is one that may be touched, has ended, or has a PID
\* that was given out again before it was opened.
HandleHolds ==
  /\ pc = "flush" =>
       handle \in fresh \/ name[handle] = NoName \/ MayFlush(handle)
  /\ pc \in {"priority", "affinity"} =>
       handle \in fresh \/ name[handle] = NoName \/ MayBoost(handle)
  /\ pc \in {"flush", "priority", "affinity"} => handle \in Pid

TypedHolds == typed \notin VpnNames

IInv == TypeOK /\ MasksHold /\ ListHolds /\ HandleHolds /\ TypedHolds

-----------------------------------------------------------------------------
(* The invariant holds at the start. *)

\* The whole machine is a usable mask.
LEMMA SystemMaskUsable ==
  ASSUME machine \in Machines
  PROVE  SystemMask(machine) # {}
<1>1. machine.logical \in 1..64
  BY BoostAssumption DEF IsMachine
<1>2. 0 \in 0..(machine.logical - 1)
  BY <1>1
<1> QED BY <1>2 DEF SystemMask

\* Init establishes every part.
LEMMA InitHolds == Init => IInv
<1> SUFFICES ASSUME Init PROVE IInv
  OBVIOUS
<1> USE BoostAssumption
<1>1. TypeOK
  BY DEF Init, TypeOK, EmptyList
<1>2. MasksHold
  BY SystemMaskUsable DEF Init, MasksHold
<1>3. ListHolds /\ HandleHolds /\ TypedHolds
  BY DEF Init, ListHolds, HandleHolds, TypedHolds, EmptyList
<1> QED BY <1>1, <1>2, <1>3 DEF IInv

-----------------------------------------------------------------------------
(* The other processes. *)

\* A new process may run anywhere, and its PID counts as given out again.
LEMMA StartHolds ==
  ASSUME IInv, NEW p \in Pid, NEW n \in Names, StartProcess(p, n)
  PROVE  IInv'
<1> USE BoostAssumption DEF IInv, StartProcess
<1>1. TypeOK'
  BY DEF TypeOK
<1>2. MasksHold'
  BY SystemMaskUsable DEF MasksHold, TypeOK
<1>3. ListHolds'
  BY DEF ListHolds, TypeOK
<1>4. HandleHolds'
  BY DEF HandleHolds, TypeOK, MayFlush, MayBoost
<1>5. TypedHolds'
  BY DEF TypedHolds
<1> QED BY <1>1, <1>2, <1>3, <1>4, <1>5

\* A process that ends leaves its PID with nobody.
LEMMA ExitHolds ==
  ASSUME IInv, NEW p \in Pid, ExitProcess(p)
  PROVE  IInv'
<1> USE BoostAssumption DEF IInv, ExitProcess
<1>1. TypeOK'
  BY DEF TypeOK, Alive
<1>2. MasksHold'
  BY SystemMaskUsable DEF MasksHold, TypeOK
<1>3. ListHolds'
  BY DEF ListHolds, TypeOK
<1>4. HandleHolds'
  BY DEF HandleHolds, TypeOK, MayFlush, MayBoost
<1>5. TypedHolds'
  BY DEF TypedHolds
<1> QED BY <1>1, <1>2, <1>3, <1>4, <1>5

-----------------------------------------------------------------------------
(* The steps between the walks. *)

\* A command starts without a list.
LEMMA ChooseHolds ==
  ASSUME IInv, Choose
  PROVE  IInv'
<1> USE DEF IInv, Choose, os
<1>1. TypeOK'
  BY DEF TypeOK
<1>2. MasksHold' /\ TypedHolds'
  BY DEF MasksHold, TypedHolds
<1>3. ListHolds' /\ HandleHolds'
  BY DEF ListHolds, HandleHolds
<1> QED BY <1>1, <1>2, <1>3

\* The end of a pass forgets the list and the handle.
LEMMA EndPassHolds ==
  ASSUME IInv, EndPass
  PROVE  IInv'
<1> USE BoostAssumption DEF IInv, EndPass
<1>1. TypeOK'
  BY DEF TypeOK, EmptyList
<1>2. MasksHold' /\ TypedHolds'
  BY DEF MasksHold, TypedHolds
<1>3. ListHolds' /\ HandleHolds'
  BY DEF ListHolds, HandleHolds, EmptyList
<1> QED BY <1>1, <1>2, <1>3

\* A snapshot lists processes by the names they have.
LEMMA SnapshotHolds ==
  ASSUME IInv, Snapshot
  PROVE  IInv'
<1> USE BoostAssumption DEF IInv, Snapshot, os
<1>1. Wanted \subseteq Alive
  BY DEF Wanted, ListHolds
<1>2. /\ job = "auto" => \A p \in Wanted : name[p] \in KnownGames
      /\ job = "byname" => \A p \in Wanted : name[p] = typed
  BY DEF Wanted
<1>3. DOMAIN list' \subseteq Pid
  BY <1>1 DEF TypeOK, Entries, Alive
<1>4. \A p \in DOMAIN list' : list'[p] \in Names
  BY <1>1 DEF TypeOK, Entries, Alive
<1>5. TypeOK'
  BY <1>3, <1>4 DEF TypeOK
<1>6. MasksHold' /\ TypedHolds' /\ HandleHolds'
  BY DEF MasksHold, TypedHolds, HandleHolds
<1>7. ListHolds'
  BY <1>1, <1>2 DEF ListHolds, Entries
<1> QED BY <1>5, <1>6, <1>7

\* The typed name is not that of a protected service.
LEMMA ByNameHolds ==
  ASSUME IInv, BoostProcessByName
  PROVE  IInv'
<1> USE DEF IInv, BoostProcessByName, os
<1>1. TypeOK'
  BY DEF TypeOK
<1>2. MasksHold' /\ TypedHolds'
  BY DEF MasksHold, TypedHolds
<1>3. ListHolds' /\ HandleHolds'
  BY DEF ListHolds, HandleHolds
<1> QED BY <1>1, <1>2, <1>3

\* The menu's own search may fail; everything else that fails ends the pass.
LEMMA NoSnapshotHolds ==
  ASSUME IInv, NoSnapshot
  PROVE  IInv'
<1>1. CASE EndPass
  BY <1>1, EndPassHolds
<1>2. CASE ~ EndPass
  <2> USE <1>2 DEF IInv, NoSnapshot, os
  <2>1. TypeOK'
    BY DEF TypeOK
  <2>2. MasksHold' /\ TypedHolds'
    BY DEF MasksHold, TypedHolds
  <2>3. ListHolds' /\ HandleHolds'
    BY DEF ListHolds, HandleHolds
  <2> QED BY <2>1, <2>2, <2>3
<1> QED BY <1>1, <1>2

-----------------------------------------------------------------------------
(* The walk. *)

\* Without one entry the rest of the list is as good as it was.
LEMMA WithoutHolds ==
  ASSUME NEW p \in DOMAIN list
  PROVE  /\ DOMAIN Without(list, p) = DOMAIN list \ {p}
         /\ \A q \in DOMAIN Without(list, p) : Without(list, p)[q] = list[q]
BY DEF Without

\* An entry that is passed over changes nothing but the list.
LEMMA PassOverHolds ==
  ASSUME IInv, NEW p \in DOMAIN list, Skip(p) \/ OpenFails(p)
  PROVE  IInv'
<1> USE DEF IInv
<1>1. /\ pc = "next" /\ list' = Without(list, p)
      /\ UNCHANGED <<machine, listed, os, pc, job, then, typed, handle, fresh>>
  BY DEF Skip, OpenFails
<1>2. TypeOK'
  BY <1>1, WithoutHolds DEF TypeOK, os
<1>3. MasksHold' /\ TypedHolds' /\ HandleHolds'
  BY <1>1 DEF MasksHold, TypedHolds, HandleHolds, os
<1>4. ListHolds'
  BY <1>1, WithoutHolds DEF ListHolds, os
<1> QED BY <1>2, <1>3, <1>4

\* A process that is opened is still the one listed, or its PID is a new one's.
LEMMA OpenHolds ==
  ASSUME IInv, NEW p \in DOMAIN list, OpenToFlush(p) \/ OpenToBoost(p)
  PROVE  IInv'
<1> USE DEF IInv
<1>1. /\ p \in Alive \ SystemPid
      /\ pc = "next" /\ handle' = p /\ list' = Without(list, p)
      /\ pc' \in {"flush", "priority"}
      /\ UNCHANGED <<machine, listed, os, job, then, typed, fresh>>
  BY DEF OpenToFlush, OpenToBoost, OpenProcess
<1>2. p \in Pid /\ name[p] # NoName
  BY <1>1 DEF Alive
<1>3. p \in fresh \/ name[p] = list[p]
  BY <1>2 DEF ListHolds
<1>4. TypeOK'
  BY <1>1, <1>2, WithoutHolds DEF TypeOK, os
<1>5. MasksHold' /\ TypedHolds'
  BY <1>1 DEF MasksHold, TypedHolds, os
<1>6. ListHolds'
  BY <1>1, WithoutHolds DEF ListHolds, os
<1>7. HandleHolds'
  <2>1. CASE OpenToFlush(p)
    <3>1. pc' = "flush" /\ ~ Skipped(p, list[p])
      BY <2>1 DEF OpenToFlush, OpenProcess
    <3>2. p \in fresh \/ MayFlush(p)
      BY <3>1, <1>3 DEF Skipped, MayFlush
    <3> QED BY <3>1, <3>2, <1>1, <1>2 DEF HandleHolds, MayFlush, os
  <2>2. CASE OpenToBoost(p)
    <3>1. pc' = "priority" /\ job \in {"auto", "byname"}
      BY <2>2 DEF OpenToBoost, OpenProcess
    <3>2. p \in fresh \/ MayBoost(p)
      BY <3>1, <1>3 DEF ListHolds, TypedHolds, MayBoost
    <3> QED BY <3>1, <3>2, <1>1, <1>2 DEF HandleHolds, MayBoost, os
  <2> QED BY <2>1, <2>2
<1> QED BY <1>4, <1>5, <1>6, <1>7

\* Emptying a working set and raising a priority leave the masks alone.
LEMMA TouchHolds ==
  ASSUME IInv, EmptyWorkingSet \/ SetPriorityClass
  PROVE  IInv'
<1> USE DEF IInv, EmptyWorkingSet, SetPriorityClass
<1>1. TypeOK'
  BY DEF TypeOK, Alive
<1>2. MasksHold' /\ TypedHolds'
  BY DEF MasksHold, TypedHolds
<1>3. ListHolds'
  BY DEF ListHolds
<1>4. HandleHolds'
  BY DEF HandleHolds, MayBoost
<1> QED BY <1>1, <1>2, <1>3, <1>4

\* The mask that is set is the usable one of the scenarios.
LEMMA PinHolds ==
  ASSUME IInv, SetProcessAffinityMask
  PROVE  IInv'
<1> DEFINE best == GetPhysicalCoresAffinityMask
<1> USE DEF IInv, SetProcessAffinityMask
<1>1. /\ best # {} /\ best \subseteq SystemMask(machine)
      /\ listed /\ PCores(machine) # {} /\ ECores(machine) # {} =>
           best \subseteq PThreads(machine)
  BY AffinityUsable, BoostAssumption DEF GetPhysicalCoresAffinityMask, TypeOK
<1>2. /\ machine' = machine /\ listed' = listed
      /\ mask' = mask \/ (handle \in Alive /\ mask' = [mask EXCEPT ![handle] = best])
  OBVIOUS
<1> HIDE DEF best
<1>3. TypeOK'
  BY <1>1, <1>2 DEF TypeOK, Alive
<1>4. MasksHold'
  BY <1>1, <1>2 DEF MasksHold, TypeOK
<1>5. ListHolds' /\ HandleHolds' /\ TypedHolds'
  BY DEF ListHolds, HandleHolds, TypedHolds
<1> QED BY <1>3, <1>4, <1>5

-----------------------------------------------------------------------------
(* The theorems. *)

\* Every step keeps the invariant.
LEMMA StepHolds == IInv /\ [Next]_vars => IInv'
<1> SUFFICES ASSUME IInv, [Next]_vars PROVE IInv'
  OBVIOUS
<1>1. CASE Choose
  BY <1>1, ChooseHolds
<1>2. CASE Program
  <2>1. CASE Visit
    BY <2>1, PassOverHolds, OpenHolds DEF Visit
  <2>2. CASE ~ Visit
    <3>1. CASE AskInVain \/ Finish
      BY <3>1, EndPassHolds DEF AskInVain, Finish
    <3>2. CASE ~ (AskInVain \/ Finish)
      BY <1>2, <2>2, <3>2, SnapshotHolds, NoSnapshotHolds, ByNameHolds, TouchHolds, PinHolds
      DEF Program
    <3> QED BY <3>1, <3>2
  <2> QED BY <2>1, <2>2
<1>3. CASE Others
  BY <1>3, StartHolds, ExitHolds DEF Others
<1>4. CASE UNCHANGED vars
  <2> USE <1>4 DEF vars, os, IInv
  <2>1. TypeOK' /\ MasksHold' /\ TypedHolds'
    BY DEF TypeOK, MasksHold, TypedHolds
  <2>2. ListHolds' /\ HandleHolds'
    BY DEF ListHolds, HandleHolds, MayFlush, MayBoost
  <2> QED BY <2>1, <2>2
<1> QED BY <1>1, <1>2, <1>3, <1>4 DEF Next

\* The inductive invariant holds in every reachable state: the list that
\* EmptyAllWorkingSets and FindActiveGames walk never names a process that still
\* has its PID by another name, and the process held open is a proper one.
THEOREM Invariance == Spec => []IInv
<1> QED BY InitHolds, StepHolds, PTL DEF Spec

\* Every variable keeps its type; the affinity given to a process by
\* SetProcessAffinityMask names only processors of the machine.
THEOREM TypeCorrect == Spec => []TypeOK
<1>1. IInv => TypeOK
  BY DEF IInv
<1> QED BY <1>1, Invariance, PTL

\* CalculateOptimalGamingAffinity never leaves a process nowhere to run, gives it
\* a processor that is not there, or an efficiency core of a hybrid processor.
THEOREM MasksUsable == Spec => []MaskUsable
<1>1. IInv => MaskUsable
  BY DEF IInv, MasksHold, MaskUsable, TypeOK, Alive
<1> QED BY <1>1, Invariance, PTL

\* What one step may do to a process, from a state of the invariant.
LEMMA StepTouchesIntended ==
  ASSUME IInv, [Next]_vars, NEW p \in Pid
  PROVE  /\ flushed'[p] /\ ~ flushed[p] => MayFlush(p) \/ p \in fresh
         /\ (high'[p] /\ ~ high[p]) \/ (mask'[p] # mask[p] /\ name'[p] = name[p])
              => MayBoost(p) \/ p \in fresh
<1> USE DEF IInv, TypeOK
<1>1. CASE EmptyWorkingSet
  BY <1>1 DEF EmptyWorkingSet, HandleHolds, Alive
<1>2. CASE SetPriorityClass
  BY <1>2 DEF SetPriorityClass, HandleHolds, Alive
<1>3. CASE SetProcessAffinityMask
  <2> DEFINE best == GetPhysicalCoresAffinityMask
  <2>1. /\ UNCHANGED <<high, flushed>>
        /\ mask' = mask \/ (handle \in Alive /\ mask' = [mask EXCEPT ![handle] = best])
    BY <1>3 DEF SetProcessAffinityMask
  <2> HIDE DEF best
  <2>2. mask'[p] # mask[p] => p = handle /\ handle \in Alive
    BY <2>1
  <2> QED BY <2>1, <2>2, <1>3 DEF SetProcessAffinityMask, HandleHolds, Alive
<1>4. CASE Others
  BY <1>4, BoostAssumption DEF Others, StartProcess, ExitProcess, Alive
<1>5. CASE Visit
  BY <1>5 DEF Visit, Skip, OpenToFlush, OpenFails, OpenToBoost, OpenProcess, os
<1>6. CASE Choose \/ Snapshot \/ BoostProcessByName \/ UNCHANGED vars
  BY <1>6 DEF Choose, Snapshot, BoostProcessByName, vars, os
<1>7. CASE NoSnapshot \/ AskInVain \/ Finish
  BY <1>7 DEF NoSnapshot, AskInVain, Finish, EndPass, os
<1> QED BY <1>1, <1>2, <1>3, <1>4, <1>5, <1>6, <1>7 DEF Next, Program

\* Nothing is flushed or boosted but what the loops of EmptyAllWorkingSets and
\* BoostProcessByName mean to, or a process whose PID was given out again.
THEOREM OnlyIntended == Spec => OnlyIntendedTouched
<1>1. IInv /\ [Next]_vars =>
        [\A p \in Pid :
           /\ flushed'[p] /\ ~ flushed[p] => MayFlush(p) \/ p \in fresh
           /\ (high'[p] /\ ~ high[p]) \/ (mask'[p] # mask[p] /\ name'[p] = name[p])
                => MayBoost(p) \/ p \in fresh]_vars
  BY StepTouchesIntended
<1> QED BY <1>1, Invariance, PTL DEF Spec, OnlyIntendedTouched

-----------------------------------------------------------------------------
(* The end of a command. *)

\* The types the measure depends on.
LEMMA MeasureType ==
  ASSUME IInv
  PROVE  /\ pc \in {"menu", "snapshot", "ask", "next", "flush", "priority", "affinity"}
         /\ then \in {"menu", "auto"}
         /\ pc = "snapshot" => job \in {"flush", "list", "auto", "byname"}
BY DEF IInv, TypeOK, ListHolds

\* The end of a pass is one of the command, or leaves it its boost alone.
LEMMA EndPassNearer == ASSUME IInv, EndPass, pc # "menu" PROVE Nearer
<1>1. CASE then = "auto"
  BY <1>1, MeasureType DEF EndPass, Nearer, Ahead
<1>2. CASE then # "auto"
  BY <1>2, MeasureType DEF EndPass, Nearer, Ahead
<1> QED BY <1>1, <1>2

\* Each entry of the list is gone when the walk has looked at it.
LEMMA VisitNearer == ASSUME IInv, Visit PROVE Nearer
<1>1. PICK p \in DOMAIN list : Skip(p) \/ OpenToFlush(p) \/ OpenFails(p) \/ OpenToBoost(p)
  BY DEF Visit
<1>2. /\ pc = "next" /\ pc' \in {"next", "flush", "priority"}
      /\ list' = Without(list, p) /\ then' = then
  BY <1>1 DEF Skip, OpenToFlush, OpenFails, OpenToBoost, OpenProcess
<1>3. DOMAIN list' \subseteq DOMAIN list /\ DOMAIN list' # DOMAIN list
  BY <1>2, WithoutHolds
<1>4. Ahead' = Ahead
  BY <1>2 DEF Ahead
<1> QED BY <1>3, <1>4 DEF Nearer

\* A process held open is let go after one step, or two.
LEMMA HandNearer ==
  ASSUME EmptyWorkingSet \/ SetPriorityClass \/ SetProcessAffinityMask
  PROVE  Nearer
<1>1. /\ list' = list /\ then' = then
      /\ \/ pc \in {"flush", "affinity"} /\ pc' = "next"
         \/ pc = "priority" /\ pc' = "affinity"
  BY DEF EmptyWorkingSet, SetPriorityClass, SetProcessAffinityMask
<1>2. Ahead' = Ahead /\ InHand' < InHand
  BY <1>1 DEF Ahead, InHand
<1> QED BY <1>1, <1>2 DEF Nearer

\* The search, the question and the snapshot come once each.
LEMMA SnapshotNearer ==
  ASSUME IInv, Snapshot \/ NoSnapshot \/ BoostProcessByName
  PROVE  Nearer
<1>1. CASE NoSnapshot /\ EndPass
  BY <1>1, EndPassNearer DEF NoSnapshot
<1>2. CASE ~EndPass
  <2>1. /\ then' = then
        /\ \/ /\ pc = "snapshot" /\ job = "list"
              /\ pc' = "ask" \/ (pc' = "snapshot" /\ job' = "auto")
           \/ pc = "snapshot" /\ job # "list" /\ pc' = "next"
           \/ pc = "ask" /\ pc' = "snapshot" /\ job' = "byname"
    BY <1>2 DEF Snapshot, NoSnapshot, BoostProcessByName
  <2>2. Ahead' < Ahead
    BY <2>1, MeasureType DEF Ahead
  <2> QED BY <2>2 DEF Nearer
<1>3. CASE EndPass /\ ~NoSnapshot
  BY <1>3, EndPassNearer DEF Snapshot, BoostProcessByName
<1> QED BY <1>1, <1>2, <1>3

\* Every continue, failure and end of list in EmptyAllWorkingSets,
\* AutoBoostAllActiveGames and BoostProcessByName brings a command nearer to its
\* end, and no other process can take it further away.
THEOREM EachStepNearer == Spec => CommandsDrawNearer
<1>1. IInv /\ [Next]_vars =>
        [pc # "menu" => /\ Program => Nearer
                        /\ ~Program => UNCHANGED <<Ahead, list, InHand>>]_vars
  <2> SUFFICES ASSUME IInv, [Next]_vars, pc # "menu"
               PROVE  /\ Program => Nearer
                      /\ ~Program => UNCHANGED <<Ahead, list, InHand>>
    OBVIOUS
  <2>1. CASE Program
    <3>1. CASE AskInVain \/ Finish
      BY <2>1, <3>1, EndPassNearer DEF AskInVain, Finish
    <3>2. CASE Visit
      BY <2>1, <3>2, VisitNearer
    <3> QED
      BY <2>1, <3>1, <3>2, HandNearer, SnapshotNearer DEF Program
  <2>2. CASE ~Program
    <3>1. UNCHANGED <<pc, job, then, list>>
      BY <2>2 DEF Next, Choose, Others, StartProcess, ExitProcess, vars
    <3> QED
      BY <2>2, <3>1 DEF Ahead, InHand
  <2> QED BY <2>1, <2>2
<1> QED BY Invariance, <1>1, PTL DEF Spec, CommandsDrawNearer
=============================================================================
