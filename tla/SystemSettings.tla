--------------------------- MODULE SystemSettings ---------------------------
(***************************************************************************)
(* The system settings that DisPing changes and that outlive it: registry  *)
(* values, netsh state and the QoS policies of Windows, and the two files  *)
(* of BackupManager.  Commands are sequences of writes; the process can be *)
(* killed between any two, and a setting can refuse to be written.         *)
(*                                                                         *)
(* A setting is "default" (what Windows ships), "tuned" (what DisPing      *)
(* writes) or "custom" (anything else).  Some of them others write too:    *)
(* the owner, or another tool of the kind, and to any value.               *)
(***************************************************************************)
EXTENDS Sequences, Naturals

CONSTANTS
  Interfaces,     \* the GUIDs under Tcpip\Parameters\Interfaces, as enumerated
  LockedSets,     \* the sets of settings that may refuse to be written
  Contended,      \* the network settings that others write too
  HighRam         \* HardwareProfile::isHighRam of the machine

Interface == {Interfaces[i] : i \in DOMAIN Interfaces}

\* "tcpParams" is NoLazyMode and the values of Tcpip\Parameters, "netsh" the
\* global TCP state, "congestion" the supplemental template, "adapter" the
\* driver keys of every adapter, "wifi" those of the wireless ones and the WLAN
\* autoconfig, "paging" the memory manager's values, "policies" the
\* DisPing_QoS_* keys.
Named ==
  {"throttling", "responsiveness", "tcpParams", "netsh", "congestion",
   "adapter", "wifi", "location", "mmcss", "paging", "userTos", "policies"}

Setting == Interface \cup Named

ASSUME SettingsAssumption ==
  /\ Interfaces \in Seq(Interface) /\ Len(Interfaces) > 0
  /\ Interface \cap Named = {}
  /\ \A L \in LockedSets : L \subseteq Setting
  /\ Contended \subseteq Interface \cup {"throttling", "responsiveness"}
  /\ HighRam \in BOOLEAN

VARIABLES
  value,          \* each setting as it stands in Windows
  foreign,        \* history: the settings that stand as others have set them
  locked,         \* the settings this machine refuses to change
  proc,           \* the process: "none", "admin" or "user"
  command,        \* the command it executes, or "none"
  todo,           \* the writes that are left of it
  done,           \* the command that has just completed and reported success
  files           \* disping_backup.json and disping_rollback.bat

vars == <<value, foreign, locked, proc, command, todo, done, files>>

Value == {"default", "custom", "tuned"}
Profile == {"throttling", "responsiveness"}

Init ==
  /\ \E v \in {"default", "custom"}, w \in [Contended -> Value] :
       value = [s \in Setting |-> IF s \in Contended THEN w[s]
                                 ELSE IF s = "policies" THEN "default" ELSE v]
  /\ foreign = Contended
  /\ locked \in LockedSets
  /\ proc = "none"
  /\ command = "none"
  /\ todo = <<>>
  /\ done = "none"
  /\ files = [f \in {"backup", "script"} |-> "none"]

-----------------------------------------------------------------------------
(* The commands, write by write. *)

Step(op, s) == [op |-> op, key |-> s]
Tune(ss)    == [i \in DOMAIN ss |-> Step("tune", ss[i])]
Reset(ss)   == [i \in DOMAIN ss |-> Step("reset", ss[i])]

\* ApplyAllNetworkTweaks.
Network == Tune(Interfaces \o <<"throttling", "responsiveness", "tcpParams",
                                "netsh", "congestion">>)

\* OptimizeWifiAdapters, SetWifiBackgroundScan.
Wifi == Tune(<<"wifi">>)

\* OptimizeAllNetworkAdapters, which ends with those two.
Adapter == Tune(<<"adapter">>) \o Wifi

\* DisableLocationServices, OptimizeMMCSSGamesProfile, OptimizeMemorySubsystem.
Location == Tune(<<"location">>)
Mmcss    == Tune(<<"mmcss">>)
Paging   == Tune(<<"paging">>)

\* SetupGamingQoSPolicies.
QoS == Tune(<<"userTos", "policies">>)

\* CreateBackup, with GenerateRollbackScript.
Backup == <<Step("open", "backup"), Step("write", "backup"),
            Step("open", "script"), Step("write", "script")>>

\* Mutant of Boost: the backup is the last thing done.
BoostBackupLast ==
  Network \o Adapter \o Location \o Mmcss \o Paging \o QoS \o Backup

\* ExecuteExtremeBoost.
Boost ==
  Backup \o Network \o Adapter \o Location \o Mmcss \o Paging \o QoS

\* RunComparisonBenchmark tunes without a backup.
Benchmark == Network \o Adapter \o Mmcss \o QoS

\* Mutants of Restore: the interfaces before the throttling index, and without
\* the policies.
RestoreInterfacesFirst ==
  Reset(Interfaces \o <<"throttling", "responsiveness", "policies", "netsh">>)
RestoreKeepsPolicies ==
  Reset(<<"throttling", "responsiveness">> \o Interfaces \o <<"netsh">>)

\* RestoreFactoryDefaults.
Restore ==
  Reset(<<"throttling", "responsiveness">> \o Interfaces \o <<"policies", "netsh">>)

\* disping_rollback.bat, started by the owner.
Rollback == Reset(<<"throttling", "responsiveness", "netsh">>)

Steps == [network   |-> Network,
          adapter   |-> Adapter,
          timer     |-> Mmcss,
          wifi      |-> Wifi \o Location,
          boost     |-> Boost,
          benchmark |-> Benchmark,
          backup    |-> Backup,
          restore   |-> Restore,
          rollback  |-> Rollback]

Command == DOMAIN Steps

-----------------------------------------------------------------------------
(* Actions. *)

Launch ==
  /\ proc = "none"
  /\ command = "none"
  /\ proc' \in {"admin", "user"}
  /\ done' = "none"
  /\ UNCHANGED <<value, foreign, locked, command, todo, files>>

\* Another program, or the owner, writes one of the values they know too.
OtherTool ==
  /\ \E s \in Contended, v \in Value :
       /\ value' = [value EXCEPT ![s] = v]
       /\ foreign' = foreign \cup {s}
  /\ UNCHANGED <<locked, proc, command, todo, done, files>>

\* A command-line option or a menu key.  The script is a process of its own.
Begin(c) ==
  /\ command = "none"
  /\ IF c = "rollback" THEN proc = "none" /\ files["script"] = "written"
                       ELSE proc # "none"
  /\ command' = c
  /\ todo' = Steps[c]
  /\ done' = "none"
  /\ UNCHANGED <<value, foreign, locked, proc, files>>

\* IsRunningAsAdmin, or the access check of HKLM where a function does not ask.
\* The script is run elevated: it stops at once otherwise.
Elevated == proc = "admin" \/ command = "rollback"

Writable(s) == Elevated /\ s \notin locked

\* What Windows holds after the write; a machine with little memory gets the
\* default paging values.
Written(step) ==
  CASE step.op = "reset" -> "default"
    [] step.key = "paging" /\ ~HighRam -> "default"
    [] OTHER -> "tuned"

\* Mutant of WriteSetting: the policies are set up although EnableUserTOS failed.
WriteRegardless ==
  /\ todo # <<>>
  /\ Head(todo).op \in {"tune", "reset"}
  /\ LET step == Head(todo) IN
       IF Writable(step.key)
         THEN /\ value' = [value EXCEPT ![step.key] = Written(step)]
              /\ foreign' = foreign \ {step.key}
         ELSE UNCHANGED <<value, foreign>>
  /\ todo' = Tail(todo)
  /\ UNCHANGED <<locked, proc, command, done, files>>

\* One write of a command.  A failed write is passed over, except that
\* SetupGamingQoSPolicies returns when EnableUserTOS has failed.
WriteSetting ==
  /\ todo # <<>>
  /\ Head(todo).op \in {"tune", "reset"}
  /\ LET step == Head(todo) IN
       \/ /\ Writable(step.key)
          /\ value' = [value EXCEPT ![step.key] = Written(step)]
          /\ foreign' = foreign \ {step.key}
          /\ todo' = Tail(todo)
       \/ /\ ~Writable(step.key)
          /\ todo' = IF step.key = "userTos" THEN Tail(Tail(todo)) ELSE Tail(todo)
          /\ UNCHANGED <<value, foreign>>
  /\ UNCHANGED <<locked, proc, command, done, files>>

\* Mutant of OpenFile: a stream that is not open is written all the same.
OpenFailureIgnored ==
  /\ todo # <<>>
  /\ Head(todo).op = "open"
  /\ \/ files' = [files EXCEPT ![Head(todo).key] = "empty"]
     \/ UNCHANGED files
  /\ todo' = Tail(todo)
  /\ UNCHANGED <<value, foreign, locked, proc, command, done>>

\* std::ofstream truncates.  A file that cannot be opened ends CreateBackup or
\* GenerateRollbackScript; ExecuteExtremeBoost goes on without them.
OpenFile ==
  /\ todo # <<>>
  /\ Head(todo).op = "open"
  /\ LET f == Head(todo).key IN
       \/ /\ files' = [files EXCEPT ![f] = "empty"]
          /\ todo' = Tail(todo)
       \/ /\ todo' = IF f = "backup" THEN SubSeq(todo, 5, Len(todo))
                                     ELSE SubSeq(todo, 3, Len(todo))
          /\ UNCHANGED files
  /\ UNCHANGED <<value, foreign, locked, proc, command, done>>

\* The contents reach the disk when the stream is closed.
WriteFile ==
  /\ todo # <<>>
  /\ Head(todo).op = "write"
  /\ files' = [files EXCEPT ![Head(todo).key] = "written"]
  /\ todo' = Tail(todo)
  /\ UNCHANGED <<value, foreign, locked, proc, command, done>>

\* Mutant of Succeeds: ApplyAllNetworkTweaks with || instead of &&.
SucceedsIfAny(c) ==
  CASE c = "network" ->
         Elevated /\ \E s \in Interface \cup Profile : s \notin locked
    [] c \in {"restore", "rollback"} -> Elevated
    [] OTHER -> FALSE

\* OperationResult::success of the commands whose claim is checked below: one
\* interface is enough for OptimizeTcpNoDelayAndAckFrequency, the result of
\* NoLazyMode is dropped, and a restore never looks at its writes.
Succeeds(c) ==
  CASE c = "network" -> /\ Elevated
                        /\ \E i \in Interface : i \notin locked
                        /\ Profile \cap locked = {}
    [] c \in {"restore", "rollback"} -> Elevated
    [] OTHER -> FALSE

Finish ==
  /\ command # "none"
  /\ todo = <<>>
  /\ done' = IF Succeeds(command) THEN command ELSE "none"
  /\ command' = "none"
  /\ UNCHANGED <<value, foreign, locked, proc, todo, files>>

\* The window is closed, or the process (or the script) killed, at any point;
\* also the normal exit.
Stop ==
  /\ proc # "none" \/ command # "none"
  /\ proc' = "none"
  /\ command' = "none"
  /\ todo' = <<>>
  /\ done' = "none"
  /\ UNCHANGED <<value, foreign, locked, files>>

Next == Launch \/ (\E c \in Command : Begin(c)) \/ WriteSetting \/ OpenFile
        \/ WriteFile \/ Finish \/ Stop \/ OtherTool

Spec == Init /\ [][Next]_vars

-----------------------------------------------------------------------------
(* Properties. *)

\* Every variable has the values the code can give it; what is left of a
\* command is a sequence of its kinds of write, on settings or on the files,
\* and a file is written only after it has been opened and truncated.
TypeOK ==
  /\ value \in [Setting -> Value]
  /\ foreign \subseteq Contended
  /\ locked \in LockedSets
  /\ proc \in {"none", "admin", "user"}
  /\ command \in Command \cup {"none"}
  /\ \A i \in DOMAIN todo :
       \/ todo[i].op \in {"tune", "reset"} /\ todo[i].key \in Setting
       \/ todo[i].op \in {"open", "write"} /\ todo[i].key \in {"backup", "script"}
  /\ \A i \in DOMAIN todo : todo[i].op = "write" =>
       \/ files[todo[i].key] = "empty"
       \/ \E j \in 1..(i - 1) : todo[j] = Step("open", todo[i].key)
  /\ done \in Command \cup {"none"}
  /\ files \in [{"backup", "script"} -> {"none", "empty", "written"}]

\* The settings of S that can be written and that nobody but DisPing has written
\* since it last did.
Kept(S) == S \ (locked \cup foreign)

\* NetworkOptimizer::AreTweaksApplied: NetworkThrottlingIndex is 0xFFFFFFFF,
\* whoever has made it so.
AreTweaksApplied == value["throttling"] = "tuned"

\* The status screen takes NetworkThrottlingIndex for all the network tweaks.
\* As long as the index is the one DisPing wrote, it is right to: every interface
\* that can be written and that others have left alone has the Nagle values --
\* although commands are killed half-way and three different functions write the
\* index: ApplyAllNetworkTweaks sets it after the interfaces,
\* RestoreFactoryDefaults resets it before them, and the rollback script never
\* touches an interface.  (When somebody else has set the index, the screen
\* speaks of tweaks that nobody may have applied.)
StatusNeverOverclaims ==
  AreTweaksApplied /\ "throttling" \notin foreign =>
    \A i \in Kept(Interface) : value[i] = "tuned"

\* When RestoreFactoryDefaults reports success, whatever was applied, restored
\* or killed before, the settings it is responsible for are the ones of Windows.
Restorable == Interface \cup Profile \cup {"policies", "netsh"}
RestoreCovers ==
  done = "restore" => \A s \in Kept(Restorable) : value[s] = "default"

\* What is behind overall.success of ApplyAllNetworkTweaks: the profile values and
\* at least one interface are optimised, and so is every other network setting
\* that can be written.  (That is less than its message, "All Network TCP/IP tweaks
\* successfully applied!": an interface, a TCP parameter or a netsh call that
\* failed does not count against it.)
NetworkSetting == Interface \cup Profile \cup {"tcpParams", "netsh", "congestion"}
NetworkSuccessIsReal ==
  done = "network" =>
    /\ \A s \in Profile \ foreign : value[s] = "tuned"
    /\ \E i \in Interface : i \in foreign \/ value[i] = "tuned"
    /\ \A s \in Kept(NetworkSetting) : value[s] = "tuned"

\* A gaming policy marks packets only where DSCP marking is enabled: at no time,
\* killed or restored half-way, are there policies without it.
PoliciesNeedTos == value["policies"] = "tuned" => value["userTos"] = "tuned"

\* "1. Create backup first" (main.cpp:51): in ExecuteExtremeBoost no setting
\* changes while a file of the backup is still to be written.
BackupPrecedesTuning ==
  [][command = "boost" /\ todo' # todo /\ value' # value
       => \A i \in DOMAIN todo : todo[i].op \notin {"open", "write"}]_vars


-----------------------------------------------------------------------------
(* The inductive invariant. *)

SettingStep == [op : {"tune", "reset"}, key : Setting]
FileStep    == [op : {"open", "write"}, key : {"backup", "script"}]

\* What every command, and what is left of it, keeps to: it tunes or it resets;
\* EnableUserTOS is followed by the policies and undone by nobody; the backup,
\* then the script, are opened and written before any setting.
Ordered(t) ==
  /\ t \in Seq(SettingStep \cup FileStep)
  /\ \A i, j \in 1..Len(t) : t[i].op = "tune" => t[j].op # "reset"
  /\ \A j \in 1..Len(t) :
       /\ t[j] # Step("reset", "userTos")
       /\ t[j] = Step("tune", "userTos") =>
            j + 1 <= Len(t) /\ t[j + 1] = Step("tune", "policies")
       /\ t[j].op \in {"open", "write"} =>
            \A i \in 1..j : t[i].op \in {"open", "write"}
       /\ t[j].op = "write" /\ j > 1 => t[j - 1] = Step("open", t[j].key)
       /\ t[j] = Step("open", "backup") =>
            j + 3 <= Len(t) /\ t[j + 3] = Step("write", "script")
       /\ t[j] = Step("open", "script") =>
            j + 1 <= Len(t) /\ t[j + 1] = Step("write", "script")

\* A refused setting was never tuned by DisPing, and no result is known while a
\* command runs.
Settled ==
  /\ \A s \in locked \ foreign : value[s] # "tuned"
  /\ command = "none" => todo = <<>>
  /\ command # "none" => done = "none"

\* The index is set after the interfaces and reset before them; policies come
\* right after EnableUserTOS, or find it in force.
IndexSetLast ==
  Elevated => \A j \in 1..Len(todo) : todo[j] = Step("tune", "throttling") =>
    \A i \in Kept(Interface) :
      value[i] = "tuned" \/ \E k \in 1..(j - 1) : todo[k] = Step("tune", i)
IndexResetFirst ==
  Elevated => \A j \in 1..Len(todo), i \in Interface \ locked :
    todo[j] = Step("reset", i) =>
      \/ value["throttling"] # "tuned" \/ "throttling" \in foreign
      \/ \E k \in 1..(j - 1) : todo[k] = Step("reset", "throttling")
TosBeforePolicies ==
  \A j \in 1..Len(todo) : todo[j] = Step("tune", "policies") =>
    value["userTos"] = "tuned" \/ (j > 1 /\ todo[j - 1] = Step("tune", "userTos"))

\* What a command answers for is done or still to be done.
NetworkProgress ==
  command = "network" /\ Elevated =>
    /\ \A i \in 1..Len(todo) : todo[i].op = "tune"
    /\ \A s \in Kept(NetworkSetting) :
         value[s] = "tuned" \/ \E i \in 1..Len(todo) : todo[i] = Step("tune", s)
RestoreProgress ==
  command = "restore" /\ Elevated =>
    /\ \A i \in 1..Len(todo) : todo[i].op = "reset"
    /\ \A s \in Kept(Restorable) :
         value[s] = "default" \/ \E i \in 1..Len(todo) : todo[i] = Step("reset", s)

IInv ==
  /\ TypeOK /\ Ordered(todo) /\ Settled
  /\ IndexSetLast /\ IndexResetFirst /\ TosBeforePolicies
  /\ NetworkProgress /\ RestoreProgress
  /\ StatusNeverOverclaims /\ PoliciesNeedTos
  /\ RestoreCovers /\ NetworkSuccessIsReal
=============================================================================
