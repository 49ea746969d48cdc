-------------------------- MODULE TimerResolution --------------------------
(***************************************************************************)
(* The system timer: class SystemLatencyOptimizer                          *)
(* (src/src/system_latency_optimizer.cpp) and its users in one process:    *)
(*                                                                         *)
(*   "latencyOpt"  the object main() keeps for its whole life;             *)
(*   "latOpt"      the local of BenchmarkRunner::RunComparisonBenchmark;   *)
(*   "timerOpt"    the local of BackupManager::RestoreFactoryDefaults.     *)
(*                                                                         *)
(* Each object remembers in m_timerSet whether IT raised the resolution,   *)
(* but what it raised belongs to the process: Windows keeps one            *)
(* NtSetTimerResolution request per process, and winmm counts the          *)
(* timeBeginPeriod calls of the process.  With --timer a daemon thread     *)
(* raises and restores the resolution on behalf of latencyOpt.             *)
(***************************************************************************)
EXTENDS Integers

CONSTANT MaxPeriods      \* bound: unmatched timeBeginPeriod calls

ASSUME PeriodsAssumption == MaxPeriods \in Nat \ {0}

Object == {"latencyOpt", "latOpt", "timerOpt"}

VARIABLES
  hasNt,                 \* ntdll exports NtSetTimerResolution
  ntRequest,             \* Windows: the process holds a resolution request
  periods,               \* winmm: timeBeginPeriod calls without timeEndPeriod
  timerSet,              \* m_timerSet of each object; FALSE while it does not exist
  daemonRunning,         \* m_daemonRunning of latencyOpt
  main,                  \* where the main thread is
  daemon                 \* where the daemon thread is; "none": not joinable

vars == <<hasNt, ntRequest, periods, timerSet, daemonRunning, main, daemon>>

os == <<ntRequest, periods>>

Init ==
  /\ hasNt \in BOOLEAN
  /\ ntRequest = FALSE
  /\ periods = 0
  /\ timerSet = [o \in Object |-> FALSE]
  /\ daemonRunning = FALSE
  /\ main = "start"
  /\ daemon = "none"

\* NtSetTimerResolution(desired, TRUE) replaces the request of the process;
\* where it is missing or fails timeBeginPeriod is tried; both may fail.
SetHighResolutionTimer(o) ==
  \/ /\ hasNt
     /\ ntRequest' = TRUE
     /\ timerSet' = [timerSet EXCEPT ![o] = TRUE]
     /\ UNCHANGED periods
  \/ /\ periods < MaxPeriods
     /\ periods' = periods + 1
     /\ timerSet' = [timerSet EXCEPT ![o] = TRUE]
     /\ UNCHANGED ntRequest
  \/ UNCHANGED <<ntRequest, periods, timerSet>>

\* Mutant of RestoreTimerResolution: only the NtSetTimerResolution path is
\* given back.
RestoreNtOnly(o) ==
  IF timerSet[o]
    THEN /\ ntRequest' = (ntRequest /\ ~hasNt)
         /\ timerSet' = [timerSet EXCEPT ![o] = FALSE]
         /\ UNCHANGED periods
    ELSE UNCHANGED <<ntRequest, periods, timerSet>>

\* Mutant of RestoreTimerResolution: the flag is cleared but the request of the
\* process is kept, as if timeEndPeriod were all there is to call.
RestorePeriodOnly(o) ==
  IF timerSet[o]
    THEN /\ periods' = IF periods > 0 THEN periods - 1 ELSE 0
         /\ timerSet' = [timerSet EXCEPT ![o] = FALSE]
         /\ UNCHANGED ntRequest
    ELSE UNCHANGED <<ntRequest, periods, timerSet>>

\* Mutant of RestoreTimerResolution: the count is lowered without regard to the
\* calls that were made.
RestoreUnmatched(o) ==
  IF timerSet[o]
    THEN /\ ntRequest' = (ntRequest /\ ~hasNt)
         /\ periods' = periods - 1
         /\ timerSet' = [timerSet EXCEPT ![o] = FALSE]
    ELSE UNCHANGED <<ntRequest, periods, timerSet>>

\* An object that raised the resolution drops the request of the process and
\* calls timeEndPeriod(1) once, whichever of the two it had used.
RestoreTimerResolution(o) ==
  IF timerSet[o]
    THEN /\ ntRequest' = (ntRequest /\ ~hasNt)
         /\ periods' = IF periods > 0 THEN periods - 1 ELSE 0
         /\ timerSet' = [timerSet EXCEPT ![o] = FALSE]
    ELSE UNCHANGED <<ntRequest, periods, timerSet>>

-----------------------------------------------------------------------------
(* The interactive menu. *)

OpenMenu ==
  /\ main = "start"
  /\ main' = "menu"
  /\ UNCHANGED <<hasNt, os, timerSet, daemonRunning, daemon>>

\* Entries '3' and '!' (ExecuteExtremeBoost).
MenuTimer ==
  /\ main = "menu"
  /\ SetHighResolutionTimer("latencyOpt")
  /\ UNCHANGED <<hasNt, daemonRunning, main, daemon>>

\* Entry 'c': the benchmark raises the resolution through an object of its own
\* and measures with it ...
BenchmarkBegin ==
  /\ main = "menu"
  /\ SetHighResolutionTimer("latOpt")
  /\ main' = "benchmark"
  /\ UNCHANGED <<hasNt, daemonRunning, daemon>>

\* ... whose destructor restores it when RunComparisonBenchmark returns.
BenchmarkEnd ==
  /\ main = "benchmark"
  /\ RestoreTimerResolution("latOpt")
  /\ main' = "menu"
  /\ UNCHANGED <<hasNt, daemonRunning, daemon>>

\* Entry 'r', step 5 of RestoreFactoryDefaults (run as Administrator): a new
\* object restores the timer, and is destroyed.
RestoreDefaults ==
  /\ main = "menu"
  /\ RestoreTimerResolution("timerOpt")
  /\ main' = "restored"
  /\ UNCHANGED <<hasNt, daemonRunning, daemon>>

BackToMenu ==
  /\ main = "restored"
  /\ main' = "menu"
  /\ UNCHANGED <<hasNt, os, timerSet, daemonRunning, daemon>>

\* 'q': main restores the timer, then returns and latencyOpt is destroyed.
Quit ==
  /\ main = "menu"
  /\ RestoreTimerResolution("latencyOpt")
  /\ main' = "dtor"
  /\ UNCHANGED <<hasNt, daemonRunning, daemon>>

-----------------------------------------------------------------------------
(* --timer: the daemon. *)

\* StartTimerDaemon: the flag is set before the thread exists.
StartTimerDaemon ==
  /\ main = "start"
  /\ ~daemonRunning
  /\ daemonRunning' = TRUE
  /\ daemon' = "set"
  /\ main' = "enter"
  /\ UNCHANGED <<hasNt, os, timerSet>>

\* Enter is pressed and StopTimerDaemon called.
EnterPressed ==
  /\ main = "enter"
  /\ main' = IF daemonRunning THEN "clear" ELSE "dtor"
  /\ UNCHANGED <<hasNt, os, timerSet, daemonRunning, daemon>>

\* Mutant of StopClear: StopTimerDaemon does not join.
StopClearNoJoin ==
  /\ main = "clear"
  /\ daemonRunning' = FALSE
  /\ main' = "dtor"
  /\ UNCHANGED <<hasNt, os, timerSet, daemon>>

StopClear ==
  /\ main = "clear"
  /\ daemonRunning' = FALSE
  /\ main' = "join"
  /\ UNCHANGED <<hasNt, os, timerSet, daemon>>

StopJoin ==
  /\ main = "join"
  /\ daemon = "done"
  /\ daemon' = "none"
  /\ main' = "dtor"
  /\ UNCHANGED <<hasNt, os, timerSet, daemonRunning>>

\* ~SystemLatencyOptimizer: StopTimerDaemon finds no daemon, then the restore.
Destroy ==
  /\ main = "dtor"
  /\ RestoreTimerResolution("latencyOpt")
  /\ main' = "exited"
  /\ UNCHANGED <<hasNt, daemonRunning, daemon>>

DaemonSet ==
  /\ daemon = "set"
  /\ SetHighResolutionTimer("latencyOpt")
  /\ daemon' = "loop"
  /\ UNCHANGED <<hasNt, daemonRunning, main>>

\* Mutant of DaemonLoop: the flag is never looked at again.
DaemonLoopForever ==
  /\ daemon = "loop"
  /\ UNCHANGED vars

\* while (m_daemonRunning.load()) Sleep(100): a round that finds it set changes
\* nothing.
DaemonLoop ==
  /\ daemon = "loop"
  /\ ~daemonRunning
  /\ daemon' = "restore"
  /\ UNCHANGED <<hasNt, os, timerSet, daemonRunning, main>>

DaemonRestore ==
  /\ daemon = "restore"
  /\ RestoreTimerResolution("latencyOpt")
  /\ daemon' = "done"
  /\ UNCHANGED <<hasNt, daemonRunning, main>>

Daemon == DaemonSet \/ DaemonLoop \/ DaemonRestore

Next == OpenMenu \/ MenuTimer \/ BenchmarkBegin \/ BenchmarkEnd \/ RestoreDefaults
        \/ BackToMenu \/ Quit \/ StartTimerDaemon \/ EnterPressed \/ StopClear
        \/ StopJoin \/ Destroy \/ Daemon

\* The daemon thread is scheduled and main's own steps are taken; the user is
\* not made to press anything.
Spec == Init /\ [][Next]_vars
        /\ WF_vars(Daemon)
        /\ WF_vars(StopClear \/ StopJoin \/ Destroy \/ BenchmarkEnd)

-----------------------------------------------------------------------------
(* Properties. *)

\* Every variable has the values the code can give it; the count of periods
\* never exceeds the calls made.
TypeOK ==
  /\ hasNt \in BOOLEAN
  /\ ntRequest \in BOOLEAN
  /\ periods \in 0..MaxPeriods
  /\ timerSet \in [Object -> BOOLEAN]
  /\ daemonRunning \in BOOLEAN
  /\ main \in {"start", "menu", "benchmark", "restored", "enter", "clear",
               "join", "dtor", "exited"}
  /\ daemon \in {"none", "set", "loop", "restore", "done"}

\* m_timerSet is a plain bool: when the destructor reads it the daemon thread
\* must be over.
NoFlagRace == main \in {"dtor", "exited"} => daemon = "none"

\* A process that ran the daemon leaves nothing raised once StopTimerDaemon has
\* returned, whichever way the daemon had raised it and however early the key
\* was pressed.  (main is past StartTimerDaemon iff it never opened the menu.)
DaemonGivesBack ==
  [][main = "join" /\ main' = "dtor" => ~ntRequest /\ periods = 0]_vars

\* An NtSetTimerResolution request is always someone's to give back: as long as
\* the process holds one, main's object knows of it, or the benchmark's does, or
\* the daemon is about to.  So none is left at exit.
RequestIsOwned == ntRequest => timerSet["latencyOpt"] \/ timerSet["latOpt"]

\* Enter always ends --timer: the daemon notices, restores and is joined.
DaemonStops == main = "clear" ~> main = "exited"

\* "5. Restore timer resolution" (backup_manager.cpp:134): after it the process
\* holds no raised resolution.
RestoreReleasesTimer == main = "restored" => ~ntRequest /\ periods = 0

\* What that step of the restore does instead, in any state of the program:
\* nothing, for no other code ever hands it an object that raised the resolution.
RestoreIsVoid == [][RestoreDefaults => UNCHANGED <<os, timerSet>>]_vars

\* When main's object has been destroyed the process holds no request: neither
\* one of the daemon, nor one the benchmark's object or the menu made, in any
\* order and however often.
ExitLeavesNoRequest == main = "exited" => ~ntRequest

\* The steps the daemon has still to take once it finds its flag clear.
StepsLeft ==
  CASE daemon \in {"none", "done"} -> 0
    [] daemon = "restore"          -> 1
    [] daemon = "loop"             -> 2
    [] daemon = "set"              -> 3

\* What DaemonStops rests on besides fairness: the join waits for a thread that
\* exists, the flag stays clear meanwhile, and each step of the daemon brings
\* its end nearer, also when it has not raised the resolution yet.
DaemonWindsDown ==
  /\ [](main = "join" => ~daemonRunning /\ daemon # "none")
  /\ [][main = "join" => /\ StepsLeft' <= StepsLeft
                         /\ Daemon => StepsLeft' < StepsLeft]_vars

-----------------------------------------------------------------------------
(* The inductive invariant; BenchmarkProofs.tla proves it. *)

Raised == ntRequest \/ periods > 0

\* There is a daemon exactly while main is between StartTimerDaemon and the end
\* of the join, and it leaves its loop only when main has cleared the flag.
DaemonOwned ==
  /\ daemon # "none" <=> main \in {"enter", "clear", "join"}
  /\ daemonRunning <=> main \in {"enter", "clear"}
  /\ daemon \in {"restore", "done"} => main = "join"

\* Only where NtSetTimerResolution exists is there a request, so that a restore
\* by any object drops it.
RequestNeedsNt == ntRequest => hasNt

\* In a process with a daemon the resolution is raised once at most, and its
\* flag says so; outside the loop nothing is raised.
DaemonAlone ==
  /\ main = "start" \/ daemon # "none" =>
       /\ timerSet["latOpt"] = FALSE
       /\ periods <= 1
       /\ ~timerSet["latencyOpt"] => ~Raised
  /\ main = "start" \/ daemon \in {"set", "done"} => ~timerSet["latencyOpt"]

IInv ==
  /\ TypeOK
  /\ RequestIsOwned
  /\ DaemonOwned
  /\ RequestNeedsNt
  /\ DaemonAlone

\* The benchmark's object exists during the benchmark only, that of the restore
\* raises nothing, and main's is restored when it is destroyed.
OwnersInScope ==
  /\ timerSet["latOpt"] => main = "benchmark"
  /\ ~timerSet["timerOpt"]
  /\ main = "exited" => ~timerSet["latencyOpt"]
=============================================================================
