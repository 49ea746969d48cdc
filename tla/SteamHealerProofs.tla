------------------------- MODULE SteamHealerProofs -------------------------
(***************************************************************************)
(* Proofs about SteamHealer for every number of processes, of instances of *)
(* DisPing and of logins: the inductive invariant IInv and the properties  *)
(* that follow from it.                                                    *)
(***************************************************************************)
EXTENDS SteamHealer, TLAPS

\* Nothing is being healed at first.
LEMMA InitIInv == Init => IInv
<1> SUFFICES ASSUME Init PROVE IInv
  OBVIOUS
<1> USE HealerAssumption DEF Init
<1>1. 1 \in 1..MaxLogins /\ 0 \in 0..MaxLogins /\ 1 \in 0..MaxLogins
  OBVIOUS
<1>2. TypeOK
  BY <1>1 DEF TypeOK, Process
<1>3. HandleKeepsPid /\ QuietKnowledge /\ RepairIsRight
  BY DEF HandleKeepsPid, QuietKnowledge, RepairIsRight
<1>4. LoginInHand
  BY DEF LoginInHand
<1> QED
  BY <1>2, <1>3, <1>4 DEF IInv

\* The repair of the PID keeps IInv.
LEMMA PidIInv ==
  ASSUME IInv, NEW h \in Healer,
         \/ Begin(h) \/ ClearCrashLocks(h) \/ ReadPid(h) \/ OpenProcess(h)
         \/ ExitCode(h) \/ Image(h) \/ ResetPid(h)
  PROVE  IInv'
<1> USE HealerAssumption
    DEF IInv, TypeOK, Process, Dead, HandleKeepsPid, QuietKnowledge,
        RepairIsRight, LoginInHand, At, Goto, Return, Watch, Fault, windows, login,
        chrome, local, history
<1>1. CASE Begin(h)
  BY <1>1 DEF Begin
<1>2. CASE ClearCrashLocks(h)
  <2>1. TypeOK'
    BY <1>2 DEF ClearCrashLocks
  <2>2. HandleKeepsPid' /\ QuietKnowledge' /\ RepairIsRight'
    BY <1>2 DEF ClearCrashLocks
  <2>3. LoginInHand'
    BY <1>2 DEF ClearCrashLocks
  <2> QED
    BY <2>1, <2>2, <2>3
<1>3. CASE ReadPid(h)
  BY <1>3 DEF ReadPid
<1>4. CASE OpenProcess(h)
  BY <1>4 DEF OpenProcess
<1>5. CASE ExitCode(h)
  BY <1>5 DEF ExitCode
<1>6. CASE Image(h)
  BY <1>6 DEF Image
<1>7. CASE ResetPid(h)
  BY <1>7 DEF ResetPid
<1> QED
  BY <1>1, <1>2, <1>3, <1>4, <1>5, <1>6, <1>7

\* The rewrites of loginusers.vdf and of Local State, and a kill, keep IInv.
LEMMA FilesIInv ==
  ASSUME IInv, NEW h \in Healer,
         \/ ReadVdf(h) \/ TruncateVdf(h) \/ WriteVdf(h) \/ ReadLocalState(h)
         \/ TruncateLocalState(h) \/ WriteLocalState(h) \/ RemoveCaches(h)
         \/ Kill(h)
  PROVE  IInv'
<1> USE HealerAssumption
    DEF IInv, TypeOK, Process, Dead, HandleKeepsPid, QuietKnowledge,
        RepairIsRight, LoginInHand, At, Goto, Return, Watch, Fault, windows, login,
        chrome, local, history
<1>1. CASE ReadVdf(h)
  BY <1>1 DEF ReadVdf
<1>2. CASE TruncateVdf(h)
  BY <1>2 DEF TruncateVdf
<1>3. CASE WriteVdf(h)
  BY <1>3 DEF WriteVdf
<1>4. CASE ReadLocalState(h)
  BY <1>4 DEF ReadLocalState
<1>5. CASE TruncateLocalState(h)
  BY <1>5 DEF TruncateLocalState
<1>6. CASE WriteLocalState(h)
  BY <1>6 DEF WriteLocalState
<1>7. CASE RemoveCaches(h)
  <2>1. TypeOK'
    BY <1>7 DEF RemoveCaches
  <2>2. HandleKeepsPid' /\ QuietKnowledge' /\ RepairIsRight'
    BY <1>7 DEF RemoveCaches
  <2>3. LoginInHand'
    BY <1>7 DEF RemoveCaches
  <2> QED
    BY <2>1, <2>2, <2>3
<1>8. CASE Kill(h)
  <2>1. TypeOK'
    BY <1>8 DEF Kill
  <2>2. HandleKeepsPid' /\ QuietKnowledge' /\ RepairIsRight'
    BY <1>8 DEF Kill
  <2>3. LoginInHand'
    <3>1. CASE torn'
      BY <3>1
    <3>2. CASE ~torn'
      <4>1. ~torn /\ pc[h] # "write"
        BY <1>8, <3>2 DEF Kill
      <4>2. \A g \in Healer : pc[g] = "write" => pc'[g] = "write"
        BY <1>8, <4>1 DEF Kill
      <4>3. \A g \in Healer : pc'[g] \in {"truncate", "write"} =>
              pc[g] = pc'[g] /\ content'[g] = content[g]
        BY <1>8 DEF Kill
      <4> QED
        BY <1>8, <4>1, <4>2, <4>3 DEF Kill
    <3> QED
      BY <3>1, <3>2
  <2> QED
    BY <2>1, <2>2, <2>3
<1> QED
  BY <1>1, <1>2, <1>3, <1>4, <1>5, <1>6, <1>7, <1>8

\* Steam and the other processes keep IInv.
LEMMA SystemIInv == ASSUME IInv, System PROVE IInv'
<1> USE HealerAssumption
    DEF IInv, TypeOK, Process, Dead, HandleKeepsPid, QuietKnowledge,
        RepairIsRight, LoginInHand, Disturb, Held, windows, login, chrome, local,
        history
<1>1. CASE SteamStart
  BY <1>1 DEF SteamStart
<1>2. CASE SteamRegister
  BY <1>2 DEF SteamRegister
<1>3. CASE SteamEnd
  <2>1. PICK p \in Pid :
          table[p] = "steam" /\ table' = [table EXCEPT ![p] = "deadSteam"]
    BY <1>3 DEF SteamEnd
  <2>2. \A g \in Healer : ~quiet'[g]
    BY <1>3 DEF SteamEnd
  <2>3. TypeOK'
    BY <1>3, <2>1 DEF SteamEnd
  <2>4. HandleKeepsPid'
    BY <1>3, <2>1 DEF SteamEnd
  <2>5. QuietKnowledge' /\ RepairIsRight'
    BY <2>2
  <2>6. LoginInHand'
    BY <1>3 DEF SteamEnd
  <2> QED
    BY <2>3, <2>4, <2>5, <2>6
<1>4. CASE SteamLogin
  BY <1>4 DEF SteamLogin
<1>5. CASE CachesCorrupted
  BY <1>5 DEF CachesCorrupted
<1>6. CASE OtherProcess
  BY <1>6 DEF OtherProcess
<1> QED
  BY System, <1>1, <1>2, <1>3, <1>4, <1>5, <1>6 DEF System

\* The inductive invariant holds in every reachable state.
THEOREM Invariance == Spec => []IInv
<1>1. IInv /\ [Next]_vars => IInv'
  <2> SUFFICES ASSUME IInv, [Next]_vars PROVE IInv'
    OBVIOUS
  <2>1. ASSUME NEW h \in Healer, Heal(h) PROVE IInv'
    BY <2>1, PidIInv, FilesIInv DEF Heal
  <2>2. CASE System
    BY <2>2, SystemIInv
  <2>3. CASE UNCHANGED vars
    BY <2>3
    DEF vars, windows, login, chrome, local, history, IInv, TypeOK, HandleKeepsPid,
        QuietKnowledge, RepairIsRight, LoginInHand
  <2> QED
    BY <2>1, <2>2, <2>3 DEF Next
<1> QED
  BY InitIInv, <1>1, PTL DEF Spec

\* Every variable stays within the values the code can give it.
THEOREM TypeCorrect == Spec => []TypeOK
<1>1. IInv => TypeOK
  BY DEF IInv
<1> QED
  BY Invariance, <1>1, PTL

\* A healing Steam does not disturb leaves no stale PID behind, unless the registry,
\* the exit code or a path with steam.exe in it made it spare one.
THEOREM RepairLeavesNoStalePid == Spec => []RepairIsRight
<1>1. IInv => RepairIsRight
  BY DEF IInv
<1> QED
  BY Invariance, <1>1, PTL

\* Nor does it erase the PID of a Steam that runs, unless Windows has refused to open
\* that Steam or to tell its image: no other way leads there.
THEOREM RepairSparesLivePid == Spec => LivePidKept
<1>1. IInv /\ [Next]_vars =>
        [\A h \in Healer :
           pc[h] = "reset" /\ pc'[h] = "vdf" /\ quiet[h] /\ fault[h] # "denied" =>
             regPid = NoPid \/ table[regPid] # "steam"]_vars
  BY DEF IInv, QuietKnowledge
<1> QED
  BY Invariance, <1>1, PTL DEF Spec, LivePidKept

\* Rewriting loginusers.vdf, by however many instances at once, loses no login.
THEOREM RewriteKeepsLogins == Spec => []LoginsKept
<1>1. IInv => LoginsKept
  BY DEF IInv, LoginInHand, LoginsKept
<1> QED
  BY Invariance, <1>1, PTL
=============================================================================
