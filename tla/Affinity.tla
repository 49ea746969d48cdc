------------------------------ MODULE Affinity ------------------------------
(***************************************************************************)
(* HardwareDetector: the processor DetectHardware finds and the threads    *)
(* CalculateOptimalGamingAffinity gives to a game.  An affinity mask is    *)
(* the set of its bits.                                                    *)
(***************************************************************************)
EXTENDS Integers, FiniteSets

\* A machine: its number of logical processors, its cores with the efficiency
\* class and the threads of each, the hybrid bit of CPUID 7, and whether the
\* brand string of an AMD processor names 3D V-Cache.  Windows numbers the
\* threads of a processor group from 0 to at most 63.
IsMachine(m) ==
  /\ m.logical \in 1..64
  /\ \A c \in m.cores : c.class \in Nat /\ c.threads # {}
  /\ UNION {c.threads : c \in m.cores} = 0..(m.logical - 1)
  /\ m.hybridFlag \in BOOLEAN
  /\ m.x3d \in BOOLEAN

PCores(m) == {c \in m.cores : c.class > 0}
ECores(m) == m.cores \ PCores(m)
PThreads(m) == UNION {c.threads : c \in PCores(m)}

\* Every thread the system may use.
SystemMask(m) == 0..(m.logical - 1)

\* What DetectHardware knows of the topology.  The call that lists the cores may
\* fail; then no core counts as a performance core.
DetectHardware(m, listed) ==
  LET hybrid == listed /\ PCores(m) # {} /\ (ECores(m) # {} \/ m.hybridFlag)
  IN [logicalCores |-> m.logical,
      isHybrid |-> hybrid,
      isAmdX3D |-> m.x3d,
      optimalGameAffinityMask |-> IF hybrid THEN PThreads(m) ELSE {}]

\* Mutant of AllCores: the shift without the subtraction's last bit.
AllCoresOneMore(n) == IF n >= 64 THEN 0..63 ELSE 0..n

\* The bits of the shift: all of them from 64 processors on.
AllCores(n) == IF n >= 64 THEN 0..63 ELSE 0..(n - 1)

Core0 == {0, 1}

\* Mutant of HybridMask: what is left is not tested for zero.
HybridMaskUnchecked(p) ==
  IF p.logicalCores >= 8 THEN p.optimalGameAffinityMask \ Core0
  ELSE p.optimalGameAffinityMask

\* Scenario 1: the performance cores, without core 0 if anything is left.
HybridMask(p) ==
  LET isolated == IF p.logicalCores >= 8 THEN p.optimalGameAffinityMask \ Core0
                  ELSE p.optimalGameAffinityMask
  IN IF isolated # {} THEN isolated ELSE p.optimalGameAffinityMask

\* The scenarios in the order of the code's returns.
CalculateOptimalGamingAffinity(p) ==
  IF p.isHybrid THEN HybridMask(p)
  ELSE IF p.isAmdX3D /\ p.logicalCores >= 24 THEN (0..15) \ Core0
  ELSE IF p.logicalCores >= 6 THEN AllCores(p.logicalCores) \ Core0
  ELSE IF p.logicalCores = 4 THEN {1, 2, 3}
  ELSE AllCores(p.logicalCores)
=============================================================================
