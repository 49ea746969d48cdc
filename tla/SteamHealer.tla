---------------------------- MODULE SteamHealer ----------------------------
(***************************************************************************)
(* PlatformHealer::HealSteamAndGames (src/src/platform_healer.cpp) beside  *)
(* a Steam that starts, logs in, crashes and ends when it likes.  Every    *)
(* start of DisPing heals, so do the boosts and menu entry 'f': several    *)
(* instances may be at it at once, and each may be killed.                 *)
(*                                                                         *)
(* The healer works on three things Steam works on as well: the PID Steam  *)
(* leaves in the registry, loginusers.vdf, and Chromium's "Local State"    *)
(* with the caches beside it.  terminateZombies is false in every call, so *)
(* TerminateHungSteamZombies is never reached.                             *)
(***************************************************************************)
EXTENDS Naturals

CONSTANTS
  Pid,            \* process identifiers of Windows
  NoPid,          \* the value 0
  Healer,         \* instances of DisPing
  MaxLogins       \* bound: how often Steam writes loginusers.vdf

ASSUME HealerAssumption == NoPid \notin Pid /\ MaxLogins \in Nat \ {0}

VARIABLES
  table,          \* Windows: what each PID stands for
  regPid,         \* Software\Valve\Steam\ActiveProcess, pid
  crash,          \* the file .crash exists
  vdf,            \* the login loginusers.vdf holds; 0: the file is empty
  saved,          \* history: the last login Steam wrote to it
  torn,           \* history: a rewrite was overtaken by Steam, or killed
  localState,     \* the file "Local State": "ok", "streak" or "empty"
  corrupt,        \* the caches are corrupt
  pc,             \* where each instance is in HealSteamAndGames
  pid,            \* its activePid
  content,        \* its content of loginusers.vdf
  quiet,          \* history: it has not repaired the PID yet, and Steam has
                  \* not started, registered or ended since it began
  fault           \* history: what its repair of the PID was told wrongly:
                  \* "denied", a running Steam could not be opened or queried;
                  \* "spared", a PID that is not Steam's was left alone

windows == <<table, regPid>>
login   == <<vdf, saved, torn>>
chrome  == <<localState, corrupt>>
local   == <<pid, content>>
history == <<quiet, fault>>
vars    == <<windows, crash, login, chrome, pc, local, history>>

\* A PID may still stand for a process that has ended, as long as somebody holds
\* a handle to it.  A namesake is another program with steam.exe in its path.
Dead    == {"deadSteam", "deadNamesake", "deadOther"}
Process == {"free", "steam", "namesake", "other"} \cup Dead

Init ==
  /\ table = [p \in Pid |-> "free"]
  /\ regPid \in Pid \cup {NoPid}
  /\ crash \in BOOLEAN
  /\ vdf = 1 /\ saved = 1 /\ torn = FALSE
  /\ localState = "ok" /\ corrupt = FALSE
  /\ pc = [h \in Healer |-> "idle"]
  /\ pid = [h \in Healer |-> NoPid]
  /\ content = [h \in Healer |-> 0]
  /\ quiet = [h \in Healer |-> FALSE]
  /\ fault = [h \in Healer |-> "none"]

At(h, where) == pc[h] = where
Goto(h, where) == pc' = [pc EXCEPT ![h] = where]

\* The variables of a function end with it.
Return(h, where) ==
  /\ Goto(h, where)
  /\ pid' = [pid EXCEPT ![h] = NoPid]
  /\ content' = [content EXCEPT ![h] = 0]

\* A history begins, or is over.
Watch(h, is) ==
  /\ quiet' = [quiet EXCEPT ![h] = is]
  /\ fault' = [fault EXCEPT ![h] = "none"]

\* As long as it lasts, f is what the step was told wrongly if wrong holds.
Fault(h, f, wrong) ==
  /\ fault' = IF quiet[h] /\ wrong THEN [fault EXCEPT ![h] = f] ELSE fault
  /\ UNCHANGED quiet

-----------------------------------------------------------------------------
(* The healer. *)

Begin(h) ==
  /\ At(h, "idle")
  /\ Goto(h, "crash")
  /\ Watch(h, TRUE)
  /\ UNCHANGED <<windows, crash, login, chrome, local>>

\* The file may refuse to be deleted.
ClearCrashLocks(h) ==
  /\ At(h, "crash")
  /\ crash' \in {crash, FALSE}
  /\ Goto(h, "pid")
  /\ UNCHANGED <<windows, login, chrome, local, history>>

\* RepairActiveProcessRegistry.  The value may not be readable.
ReadPid(h) ==
  /\ At(h, "pid")
  /\ \/ /\ pid' = [pid EXCEPT ![h] = regPid]
        /\ Goto(h, IF regPid = NoPid THEN "vdf" ELSE "open")
        /\ UNCHANGED history
     \/ /\ Goto(h, "vdf")
        /\ Fault(h, "spared", TRUE)
        /\ UNCHANGED pid
  /\ UNCHANGED <<windows, crash, login, chrome, content>>

\* The call fails for want of a process or of access to it: the code takes
\* either for a stale PID.
OpenProcess(h) ==
  /\ At(h, "open")
  /\ \/ table[pid[h]] # "free" /\ Goto(h, "exitCode") /\ UNCHANGED history
     \/ Goto(h, "reset") /\ Fault(h, "denied", table[pid[h]] = "steam")
  /\ UNCHANGED <<windows, crash, login, chrome, local>>

\* Mutant of ExitCode: a handle is taken for a running process.
ExitCodeIgnored(h) ==
  /\ At(h, "exitCode")
  /\ Goto(h, "image")
  /\ UNCHANGED <<windows, crash, login, chrome, local, history>>

\* The call may fail, and a process may end with the code STILL_ACTIVE.
ExitCode(h) ==
  /\ At(h, "exitCode")
  /\ \/ table[pid[h]] \in Dead /\ Goto(h, "reset") /\ UNCHANGED history
     \/ Goto(h, "image") /\ Fault(h, "spared", table[pid[h]] \in Dead)
  /\ UNCHANGED <<windows, crash, login, chrome, local>>

\* Mutant of Image: the path is not turned to lower case.
ImageCaseSensitive(h) ==
  /\ At(h, "image")
  /\ Return(h, "vdf") \/ (Goto(h, "reset") /\ UNCHANGED local)
  /\ UNCHANGED <<windows, crash, login, chrome, history>>

\* The path of the image is looked for steam.exe, anywhere in it; or the query
\* fails, which the code takes for a stale PID.
Image(h) ==
  /\ At(h, "image")
  /\ \/ /\ table[pid[h]] \in {"steam", "namesake", "deadSteam", "deadNamesake"}
        /\ Return(h, "vdf")
        /\ Fault(h, "spared", table[pid[h]] \in {"namesake", "deadNamesake"})
     \/ /\ Goto(h, "reset")
        /\ Fault(h, "denied", table[pid[h]] = "steam")
        /\ UNCHANGED local
  /\ UNCHANGED <<windows, crash, login, chrome>>

\* Nobody looks at the result of the write.
ResetPid(h) ==
  /\ At(h, "reset")
  /\ \/ regPid' = NoPid /\ UNCHANGED history
     \/ Fault(h, "spared", TRUE) /\ UNCHANGED regPid
  /\ Return(h, "vdf")
  /\ UNCHANGED <<table, crash, login, chrome>>

\* Mutant of ReadVdf: an empty file is not left alone.
ReadVdfEmptyToo(h) ==
  /\ At(h, "vdf")
  /\ content' = [content EXCEPT ![h] = vdf]
  /\ Goto(h, "truncate")
  /\ Watch(h, FALSE)
  /\ UNCHANGED <<windows, crash, login, chrome, pid>>

\* RepairLoginUsersVdf.  The flags it edits are not told apart from the rest
\* of the text.
ReadVdf(h) ==
  /\ At(h, "vdf")
  /\ \/ /\ vdf # 0
        /\ content' = [content EXCEPT ![h] = vdf]
        /\ Goto(h, "truncate")
     \/ /\ Goto(h, "state")             \* cannot be opened, or is empty
        /\ UNCHANGED content
  /\ Watch(h, FALSE)
  /\ UNCHANGED <<windows, crash, login, chrome, pid>>

TruncateVdf(h) ==
  /\ At(h, "truncate")
  /\ \/ /\ vdf' = 0
        /\ Goto(h, "write")
        /\ UNCHANGED local
     \/ /\ Return(h, "state")           \* cannot be opened
        /\ UNCHANGED vdf
  /\ UNCHANGED <<windows, crash, saved, torn, chrome, history>>

WriteVdf(h) ==
  /\ At(h, "write")
  /\ vdf' = content[h]
  /\ Return(h, "state")
  /\ UNCHANGED <<windows, crash, saved, torn, chrome, history>>

\* CleanCorruptedHtmlCache.
ReadLocalState(h) ==
  /\ At(h, "state")
  /\ Goto(h, IF localState = "streak" THEN "clear" ELSE "idle")
  /\ UNCHANGED <<windows, crash, login, chrome, local, history>>

TruncateLocalState(h) ==
  /\ At(h, "clear")
  /\ \/ /\ localState' = "empty"
        /\ Goto(h, "writeState")
     \/ /\ Goto(h, "remove")
        /\ UNCHANGED localState
  /\ UNCHANGED <<windows, crash, login, corrupt, local, history>>

WriteLocalState(h) ==
  /\ At(h, "writeState")
  /\ localState' = "ok"
  /\ Goto(h, "remove")
  /\ UNCHANGED <<windows, crash, login, corrupt, local, history>>

SteamRuns == \E p \in Pid : table[p] = "steam"

\* The error codes of remove_all are dropped; files Steam has open stay.
RemoveCaches(h) ==
  /\ At(h, "remove")
  /\ \/ corrupt' = FALSE
     \/ SteamRuns /\ UNCHANGED corrupt
  /\ Goto(h, "idle")
  /\ UNCHANGED <<windows, crash, login, localState, local, history>>

\* The instance is closed or killed.
Kill(h) ==
  /\ ~At(h, "idle")
  /\ Return(h, "idle")
  /\ torn' = (torn \/ At(h, "write"))
  /\ Watch(h, FALSE)
  /\ UNCHANGED <<windows, crash, vdf, saved, chrome>>

Heal(h) == Begin(h) \/ ClearCrashLocks(h) \/ ReadPid(h) \/ OpenProcess(h)
           \/ ExitCode(h) \/ Image(h) \/ ResetPid(h) \/ ReadVdf(h)
           \/ TruncateVdf(h) \/ WriteVdf(h) \/ ReadLocalState(h)
           \/ TruncateLocalState(h) \/ WriteLocalState(h) \/ RemoveCaches(h)
           \/ Kill(h)

-----------------------------------------------------------------------------
(* Steam and the other processes. *)

\* While a handle is open, the PID is not used again.
Held(p) == \E h \in Healer : pid[h] = p /\ pc[h] \in {"exitCode", "image"}

Disturb ==
  /\ quiet' = [h \in Healer |-> FALSE]
  /\ fault' = [h \in Healer |-> "none"]

SteamStart ==
  /\ ~SteamRuns
  /\ \E p \in Pid : table[p] = "free" /\ table' = [table EXCEPT ![p] = "steam"]
  /\ Disturb
  /\ UNCHANGED <<regPid, crash, login, chrome, pc, local>>

SteamRegister ==
  /\ \E p \in Pid : table[p] = "steam" /\ regPid' = p
  /\ Disturb
  /\ UNCHANGED <<table, crash, login, chrome, pc, local>>

SteamEnd ==
  /\ \E p \in Pid : table[p] = "steam" /\ table' = [table EXCEPT ![p] = "deadSteam"]
  /\ \/ regPid' = NoPid /\ UNCHANGED crash
     \/ crash' = TRUE /\ UNCHANGED regPid          \* it crashed
  /\ Disturb
  /\ UNCHANGED <<login, chrome, pc, local>>

SteamLogin ==
  /\ SteamRuns
  /\ saved < MaxLogins
  /\ saved' = saved + 1
  /\ vdf' = saved + 1
  /\ torn' = (\E h \in Healer : pc[h] \in {"truncate", "write"})
  /\ UNCHANGED <<windows, crash, chrome, pc, local, history>>

\* The web helper has crashed more than twice.
CachesCorrupted ==
  /\ SteamRuns
  /\ localState' = "streak"
  /\ corrupt' = TRUE
  /\ UNCHANGED <<windows, crash, login, pc, local, history>>

OtherProcess ==
  /\ \E p \in Pid :
       \/ /\ table[p] = "free"
          /\ \E kind \in {"namesake", "other"} : table' = [table EXCEPT ![p] = kind]
       \/ table[p] = "namesake" /\ table' = [table EXCEPT ![p] = "deadNamesake"]
       \/ table[p] = "other" /\ table' = [table EXCEPT ![p] = "deadOther"]
       \/ table[p] \in Dead /\ ~Held(p) /\ table' = [table EXCEPT ![p] = "free"]
  /\ UNCHANGED <<regPid, crash, login, chrome, pc, local, history>>

System == SteamStart \/ SteamRegister \/ SteamEnd \/ SteamLogin \/ CachesCorrupted
          \/ OtherProcess

Next == (\E h \in Healer : Heal(h)) \/ System

Spec == Init /\ [][Next]_vars

-----------------------------------------------------------------------------
(* Properties. *)

\* Every variable has the values the code can give it; an instance about to
\* rewrite loginusers.vdf has a text to write, and one that inspects a process
\* has a PID.
TypeOK ==
  /\ table \in [Pid -> Process]
  /\ regPid \in Pid \cup {NoPid}
  /\ crash \in BOOLEAN
  /\ vdf \in 0..MaxLogins /\ saved \in 1..MaxLogins /\ torn \in BOOLEAN
  /\ localState \in {"ok", "streak", "empty"} /\ corrupt \in BOOLEAN
  /\ pc \in [Healer -> {"idle", "crash", "pid", "open", "exitCode", "image",
                        "reset", "vdf", "truncate", "write", "state", "clear",
                        "writeState", "remove"}]
  /\ pid \in [Healer -> Pid \cup {NoPid}]
  /\ content \in [Healer -> 0..MaxLogins]
  /\ quiet \in [Healer -> BOOLEAN]
  /\ fault \in [Healer -> {"none", "spared", "denied"}]
  /\ \A h \in Healer :
       /\ pc[h] \in {"truncate", "write"} <=> content[h] # 0
       /\ pc[h] \in {"open", "exitCode", "image", "reset"} <=> pid[h] # NoPid

\* RepairActiveProcessRegistry leaves no stale PID: if Steam has not started,
\* registered or ended since the healing began, the PID left in the registry is 0
\* or that of a running Steam -- although its number may have been given to another
\* process, which may end while it is inspected, and another instance may be
\* healing as well.  Only the registry refusing to be read or written, an exit
\* code that cannot be had or is 259, and a program with steam.exe somewhere in
\* its path let a stale PID stay.
RepairIsRight ==
  \A h \in Healer : pc[h] = "vdf" /\ quiet[h] /\ fault[h] # "spared" =>
    regPid = NoPid \/ table[regPid] = "steam"

\* It never erases the PID of a running Steam, unless Steam has started,
\* registered or ended during the healing, or Windows has refused to open that
\* Steam or to tell its image.
LivePidKept ==
  [][\A h \in Healer :
       pc[h] = "reset" /\ pc'[h] = "vdf" /\ quiet[h] /\ fault[h] # "denied" =>
         regPid = NoPid \/ table[regPid] # "steam"]_vars

\* RepairLoginUsersVdf truncates the file and writes it again.  However many
\* instances do so at once, when none is in between the file holds the last
\* login of Steam; only a Steam that writes during a rewrite, or a kill in the
\* middle of one, can lose it, and Steam's next undisturbed login mends that.
LoginsKept ==
  ~torn /\ (\A h \in Healer : pc[h] # "write") => vdf = saved

-----------------------------------------------------------------------------
(* The inductive invariant. *)

\* An inspected process keeps its PID while the handle is open.
HandleKeepsPid ==
  \A h \in Healer : pc[h] \in {"exitCode", "image"} => table[pid[h]] # "free"

\* What an undisturbed instance knows of the PID it has read.
QuietKnowledge ==
  \A h \in Healer : quiet[h] =>
    /\ pc[h] \in {"open", "exitCode", "image", "reset"} => regPid \in {pid[h], NoPid}
    /\ pc[h] = "image" => table[pid[h]] # "deadSteam" \/ fault[h] = "spared"
    /\ pc[h] = "reset" => table[pid[h]] # "steam" \/ fault[h] = "denied"

\* A rewrite that is not overtaken has the last login in hand.
LoginInHand ==
  ~torn =>
    /\ \A h \in Healer : pc[h] \in {"truncate", "write"} => content[h] = saved
    /\ vdf = saved \/ (\E h \in Healer : pc[h] = "write")
    /\ vdf \in {0, saved}

IInv == TypeOK /\ HandleKeepsPid /\ QuietKnowledge /\ RepairIsRight /\ LoginInHand
=============================================================================
