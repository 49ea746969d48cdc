----------------------------- MODULE GameBoost -----------------------------
(***************************************************************************)
(* ProcessOptimizer and MemoryOptimizer: the commands that walk a snapshot *)
(* of the processes, open some of them by the PID found there, and raise   *)
(* their priority, pin them to cores or empty their working sets.          *)
(* Meanwhile processes end and start, and a PID nobody holds a handle of   *)
(* may be given to another process.                                        *)
(*                                                                         *)
(* Names are compared in lower case by all the loops: they are atoms here. *)
(***************************************************************************)
EXTENDS Affinity

CONSTANTS
  Pid,              \* the PIDs
  SystemPid,        \* 0 and 4: always there, and nobody may open them
  SystemName,
  Names,            \* the names programs may have
  KnownGames,       \* GetKnownGameExecutables
  GamingProtected,  \* s_gamingProtected
  VpnNames,         \* VpnGuard::GetProtectedProcesses
  Machines,         \* the machines the program may run on
  NoName, NoPid

ASSUME BoostAssumption ==
  /\ SystemPid \subseteq Pid /\ NoPid \notin Pid
  /\ NoName \notin Names /\ SystemName \in Names
  /\ KnownGames \cup GamingProtected \cup VpnNames \subseteq Names
  /\ KnownGames \cap VpnNames = {}
  /\ \A m \in Machines : IsMachine(m)

VARIABLES
  machine, listed,  \* the machine, and whether its cores can be listed
  name,             \* the name of the process that has a PID, or NoName
  high, mask,       \* its priority class and its affinity
  flushed,          \* its working set was emptied in this pass
  pc,               \* where the program is
  job,              \* which function walks the snapshot: "flush", "list" (the
                    \* menu's own search), "auto" or "byname"
  then,             \* "auto" if the boost follows the flush
  typed,            \* the name the user entered
  list,             \* the entries of the snapshot still to come: PID to name
  handle,           \* the process held open
  fresh             \* PIDs given out since the snapshot: not in the code

os   == <<name, high, mask, flushed>>
vars == <<machine, listed, name, high, mask, flushed, pc, job, then, typed, list,
          handle, fresh>>

Alive == {p \in Pid : name[p] # NoName}

\* The names of the processes in a set of PIDs.
Entries(ps) == [p \in ps |-> name[p]]

Without(l, p) == [q \in DOMAIN l \ {p} |-> l[q]]

EmptyList == [p \in {} |-> NoName]

-----------------------------------------------------------------------------

Init ==
  /\ machine \in Machines /\ listed \in BOOLEAN
  /\ name = [p \in Pid |-> IF p \in SystemPid THEN SystemName ELSE NoName]
  /\ high = [p \in Pid |-> FALSE]
  /\ mask = [p \in Pid |-> SystemMask(machine)]
  /\ flushed = [p \in Pid |-> FALSE]
  /\ pc = "menu" /\ job = "none" /\ then = "menu" /\ typed = NoName
  /\ list = EmptyList /\ handle = NoPid /\ fresh = {}

-----------------------------------------------------------------------------
(* Other processes. *)

\* A PID is not given out while a handle of its last process is open.
StartProcess(p, n) ==
  /\ name[p] = NoName /\ p # handle
  /\ name' = [name EXCEPT ![p] = n]
  /\ high' = [high EXCEPT ![p] = FALSE]
  /\ mask' = [mask EXCEPT ![p] = SystemMask(machine)]
  /\ flushed' = [flushed EXCEPT ![p] = FALSE]
  /\ fresh' = IF pc = "menu" THEN fresh ELSE fresh \cup {p}
  /\ UNCHANGED <<machine, listed, pc, job, then, typed, list, handle>>

ExitProcess(p) ==
  /\ p \in Alive \ SystemPid
  /\ name' = [name EXCEPT ![p] = NoName]
  /\ high' = [high EXCEPT ![p] = FALSE]
  /\ mask' = [mask EXCEPT ![p] = SystemMask(machine)]
  /\ flushed' = [flushed EXCEPT ![p] = FALSE]
  /\ UNCHANGED <<machine, listed, pc, job, then, typed, list, handle, fresh>>

-----------------------------------------------------------------------------
(* Commands. *)

\* Entries 8 and c, --clean-mem and --benchmark flush; ! and --all flush and
\* then boost; --games boosts; entry 4 first searches for itself.
Choose ==
  /\ pc = "menu"
  /\ \/ job' = "flush" /\ then' \in {"menu", "auto"}
     \/ job' \in {"auto", "list"} /\ then' = "menu"
  /\ pc' = "snapshot"
  /\ UNCHANGED <<machine, listed, os, typed, list, handle, fresh>>

\* The pass is over: back to the menu, or on to the boost.
EndPass ==
  /\ IF then = "auto" THEN job' = "auto" /\ pc' = "snapshot"
                      ELSE job' = "none" /\ pc' = "menu"
  /\ then' = "menu"
  /\ typed' = NoName
  /\ list' = EmptyList
  /\ fresh' = {}
  /\ flushed' = [p \in Pid |-> FALSE]
  /\ handle' = NoPid
  /\ UNCHANGED <<machine, listed, name, high, mask>>

\* The processes the function will look at, of those in the snapshot.
Wanted ==
  CASE job = "flush" -> Alive
    [] job \in {"auto", "list"} -> {p \in Alive : name[p] \in KnownGames}
    [] job = "byname" -> {p \in Alive : name[p] = typed}

\* CreateToolhelp32Snapshot.  AutoBoostAllActiveGames, which first heals Steam (see
\* SteamHealer), takes one of its own, so what the menu has found only decides
\* whether it asks for a name.
Snapshot ==
  /\ pc = "snapshot"
  /\ IF job = "list"
     THEN /\ IF Wanted # {} THEN job' = "auto" /\ pc' = "snapshot"
                            ELSE job' = "list" /\ pc' = "ask"
          /\ UNCHANGED <<list, fresh>>
     ELSE /\ list' = Entries(Wanted)
          /\ fresh' = {}
          /\ pc' = "next" /\ job' = job
  /\ UNCHANGED <<machine, listed, os, then, typed, handle>>

\* Without a snapshot the menu finds no games, and the others give up; the flush
\* then empties its own working set only.
NoSnapshot ==
  /\ pc = "snapshot"
  /\ \/ /\ job = "list" /\ pc' = "ask"
        /\ UNCHANGED <<machine, listed, os, job, then, typed, list, handle, fresh>>
     \/ job # "list" /\ EndPass

\* The user enters a name that VpnGuard does not protect.
BoostProcessByName ==
  /\ pc = "ask"
  /\ \E n \in Names \ VpnNames : typed' = n
  /\ job' = "byname" /\ pc' = "snapshot"
  /\ UNCHANGED <<machine, listed, os, then, list, handle, fresh>>

\* Enter alone, or the name of a protected service.
AskInVain == pc = "ask" /\ EndPass

\* The list is exhausted.
Finish == pc = "next" /\ DOMAIN list = {} /\ EndPass

-----------------------------------------------------------------------------
(* EmptyAllWorkingSets. *)

\* Mutant of Skipped: the check for VPN services is left out.
SkippedNoShield(p, n) == p \in SystemPid \/ n \in GamingProtected

Skipped(p, n) == p \in SystemPid \/ n \in VpnNames \/ n \in GamingProtected


Skip(p) ==
  /\ pc = "next" /\ job = "flush"
  /\ Skipped(p, list[p])
  /\ list' = Without(list, p)
  /\ UNCHANGED <<machine, listed, os, pc, job, then, typed, handle, fresh>>

\* OpenProcess: the process that has the PID now.
OpenProcess(p, next) ==
  /\ p \in Alive \ SystemPid
  /\ handle' = p
  /\ list' = Without(list, p)
  /\ pc' = next
  /\ UNCHANGED <<machine, listed, os, job, then, typed, fresh>>

OpenToFlush(p) ==
  /\ pc = "next" /\ job = "flush"
  /\ ~ Skipped(p, list[p])
  /\ OpenProcess(p, "flush")

\* Access denied, or nobody has the PID.
OpenFails(p) ==
  /\ pc = "next"
  /\ job = "flush" => ~ Skipped(p, list[p])
  /\ list' = Without(list, p)
  /\ UNCHANGED <<machine, listed, os, pc, job, then, typed, handle, fresh>>

\* EmptyWorkingSet, which may fail, and CloseHandle.
EmptyWorkingSet ==
  /\ pc = "flush"
  /\ \/ handle \in Alive /\ flushed' = [flushed EXCEPT ![handle] = TRUE]
     \/ flushed' = flushed
  /\ handle' = NoPid
  /\ pc' = "next"
  /\ UNCHANGED <<machine, listed, name, high, mask, job, then, typed, list, fresh>>

-----------------------------------------------------------------------------
(* BoostProcess. *)

OpenToBoost(p) ==
  /\ pc = "next" /\ job \in {"auto", "byname"}
  /\ OpenProcess(p, "priority")

\* SetPriorityClass; a failure does not keep the affinity from being set.
SetPriorityClass ==
  /\ pc = "priority"
  /\ \/ handle \in Alive /\ high' = [high EXCEPT ![handle] = TRUE]
     \/ high' = high
  /\ pc' = "affinity"
  /\ UNCHANGED <<machine, listed, name, mask, flushed, job, then, typed, list, handle, fresh>>

\* GetPhysicalCoresAffinityMask
GetPhysicalCoresAffinityMask ==
  CalculateOptimalGamingAffinity(DetectHardware(machine, listed))

\* SetProcessAffinityMask and CloseHandle.
SetProcessAffinityMask ==
  /\ pc = "affinity"
  /\ \/ handle \in Alive /\ mask' = [mask EXCEPT ![handle] = GetPhysicalCoresAffinityMask]
     \/ mask' = mask
  /\ handle' = NoPid
  /\ pc' = "next"
  /\ UNCHANGED <<machine, listed, name, high, flushed, job, then, typed, list, fresh>>

-----------------------------------------------------------------------------

Visit ==
  \E p \in DOMAIN list : Skip(p) \/ OpenToFlush(p) \/ OpenFails(p) \/ OpenToBoost(p)

Program ==
  \/ Snapshot \/ NoSnapshot \/ BoostProcessByName \/ AskInVain \/ Finish
  \/ Visit \/ EmptyWorkingSet \/ SetPriorityClass \/ SetProcessAffinityMask

Others == \E p \in Pid : ExitProcess(p) \/ \E n \in Names : StartProcess(p, n)

Next == Choose \/ Program \/ Others

\* The program runs whenever it can; nobody need choose, start or end anything.
Spec == Init /\ [][Next]_vars /\ WF_vars(Program)

-----------------------------------------------------------------------------
(* Properties. *)

TypeOK ==
  /\ machine \in Machines /\ listed \in BOOLEAN
  /\ name \in [Pid -> Names \cup {NoName}]
  /\ high \in [Pid -> BOOLEAN]
  /\ mask \in [Pid -> SUBSET SystemMask(machine)]
  /\ flushed \in [Pid -> BOOLEAN]
  /\ pc \in {"menu", "snapshot", "ask", "next", "flush", "priority", "affinity"}
  /\ job \in {"none", "flush", "list", "auto", "byname"}
  /\ then \in {"menu", "auto"}
  /\ typed \in Names \cup {NoName}
  /\ DOMAIN list \subseteq Pid
  /\ \A p \in DOMAIN list : list[p] \in Names
  /\ handle \in Pid \cup {NoPid}
  /\ fresh \subseteq Pid

\* Whatever the processor, a process always has somewhere to run, only on threads
\* that exist (SetProcessAffinityMask would fail otherwise), and on a hybrid one
\* a pinned process never has an efficiency core: the mask is a chain of special
\* cases, and clearing core 0 can empty it.
MaskUsable ==
  /\ \A p \in Alive : mask[p] # {} /\ mask[p] \subseteq SystemMask(machine)
  /\ listed /\ PCores(machine) # {} /\ ECores(machine) # {} =>
       \A p \in Alive : mask[p] = SystemMask(machine) \/ mask[p] \subseteq PThreads(machine)

\* What may be emptied, and what may be boosted.
MayFlush(p) == p \notin SystemPid /\ name[p] \notin VpnNames \cup GamingProtected
MayBoost(p) == name[p] \in KnownGames \/ (name[p] = typed /\ typed \notin VpnNames)

\* A VPN service, Steam, a driver or the system is never flushed, and nothing but
\* a game or the program asked for is boosted, although a process is opened by
\* the PID of a snapshot that may be out of date; the one exception is a PID that
\* was given to another process since that snapshot was taken.
OnlyIntendedTouched ==
  [][\A p \in Pid :
       /\ flushed'[p] /\ ~ flushed[p] => MayFlush(p) \/ p \in fresh
       /\ (high'[p] /\ ~ high[p]) \/ (mask'[p] # mask[p] /\ name'[p] = name[p])
            => MayBoost(p) \/ p \in fresh]_vars


\* What is ahead of a command besides the walk it is in: the boost that follows a
\* flush, and the search, the question and the snapshot that come before a walk.
Ahead ==
  IF pc = "menu" THEN 0
  ELSE (IF then = "auto" THEN 4 ELSE 0) +
       (CASE pc = "snapshot" /\ job = "list" -> 4
          [] pc = "ask" -> 3
          [] pc = "snapshot" /\ job # "list" -> 2
          [] OTHER -> 1)

\* What is still to be done with the process held open.
InHand ==
  CASE pc = "priority" -> 2
    [] pc \in {"affinity", "flush"} -> 1
    [] OTHER -> 0

Nearer ==
  \/ Ahead' < Ahead
  \/ Ahead' = Ahead /\ DOMAIN list' \subseteq DOMAIN list /\ DOMAIN list' # DOMAIN list
  \/ Ahead' = Ahead /\ list' = list /\ InHand' < InHand

\* What CommandsEnd rests on besides fairness and a finite list: every step of a
\* command, each continue of the loops included, brings its end nearer, and no
\* process that starts or ends meanwhile takes it further away.
CommandsDrawNearer ==
  [][pc # "menu" => /\ Program => Nearer
                    /\ ~Program => UNCHANGED <<Ahead, list, InHand>>]_vars
=============================================================================
