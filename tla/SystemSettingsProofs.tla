------------------------ MODULE SystemSettingsProofs ------------------------
(***************************************************************************)
(* The status screen and the results of the commands claim only what is    *)
(* so, no policy outlives its prerequisite, and the backup precedes what   *)
(* it saves: for any interfaces, any settings that refuse to be written,   *)
(* and commands cut short anywhere.                                        *)
(***************************************************************************)
EXTENDS SystemSettings, SequenceTheorems, TLAPS

-----------------------------------------------------------------------------
(* Sequences of writes. *)

\* The number of interfaces.
n == Len(Interfaces)

\* Tune(s) tunes the settings of s, one by one.
LEMMA TuneAt ==
  ASSUME NEW s \in Seq(Setting)
  PROVE  /\ Tune(s) \in Seq(SettingStep)
         /\ Len(Tune(s)) = Len(s)
         /\ \A i \in 1..Len(s) : Tune(s)[i] = Step("tune", s[i])
<1>1. Len(s) \in Nat /\ DOMAIN s = 1..Len(s) /\ \A i \in 1..Len(s) : s[i] \in Setting
  OBVIOUS
<1>2. Tune(s) = [i \in 1..Len(s) |-> Step("tune", s[i])]
  BY <1>1 DEF Tune
<1>3. \A i \in 1..Len(s) : Step("tune", s[i]) \in SettingStep
  BY <1>1 DEF Step, SettingStep
<1>4. Tune(s) \in Seq(SettingStep)
  BY <1>1, <1>2, <1>3, IsASeq
<1>5. DOMAIN Tune(s) = 1..Len(s)
  BY <1>2
<1>6. Len(Tune(s)) = Len(s)
  BY <1>1, <1>4, <1>5, LenProperties
<1> QED BY <1>2, <1>4, <1>6

\* Commands that tune are put together like the settings they tune.
LEMMA TuneConcat ==
  ASSUME NEW s \in Seq(Setting), NEW t \in Seq(Setting)
  PROVE  Tune(s) \o Tune(t) = Tune(s \o t)
<1>1. s \o t \in Seq(Setting) /\ Len(s \o t) = Len(s) + Len(t)
  BY ConcatProperties
<1>2. \A i \in 1..(Len(s) + Len(t)) : (s \o t)[i] = IF i <= Len(s) THEN s[i] ELSE t[i - Len(s)]
  BY ConcatProperties
<1>0. /\ Tune(s) \in Seq(SettingStep) /\ Len(Tune(s)) = Len(s)
      /\ Tune(t) \in Seq(SettingStep) /\ Len(Tune(t)) = Len(t)
  BY TuneAt
<1>3. /\ Tune(s) \o Tune(t) \in Seq(SettingStep)
      /\ Len(Tune(s) \o Tune(t)) = Len(s) + Len(t)
  BY <1>0
<1>4. \A i \in 1..(Len(s) + Len(t)) : (Tune(s) \o Tune(t))[i] = IF i <= Len(s) THEN Tune(s)[i] ELSE Tune(t)[i - Len(s)]
  BY <1>0, ConcatProperties
<1>5. Tune(s \o t) \in Seq(SettingStep) /\ Len(Tune(s \o t)) = Len(s) + Len(t)
  BY <1>1, TuneAt
<1>6. ASSUME NEW i \in 1..(Len(s) + Len(t))
      PROVE  (Tune(s) \o Tune(t))[i] = Tune(s \o t)[i]
  <2>0. Len(s) \in Nat /\ Len(t) \in Nat
    OBVIOUS
  <2>1. Tune(s \o t)[i] = Step("tune", (s \o t)[i])
    BY <1>1, TuneAt
  <2>2. CASE i <= Len(s)
    <3>1. i \in 1..Len(s)
      BY <2>0, <2>2
    <3>2. Tune(s)[i] = Step("tune", s[i])
      BY <3>1, TuneAt
    <3> QED BY <1>2, <1>4, <2>1, <2>2, <3>2
  <2>3. CASE ~(i <= Len(s))
    <3>1. i - Len(s) \in 1..Len(t)
      BY <2>0, <2>3
    <3>2. Tune(t)[i - Len(s)] = Step("tune", t[i - Len(s)])
      BY <3>1, TuneAt
    <3> QED BY <1>2, <1>4, <2>1, <2>3, <3>2
  <2> QED BY <2>2, <2>3
<1> QED BY <1>3, <1>5, <1>6, SeqEqual


-----------------------------------------------------------------------------
(* What the commands tune. *)

\* Where the elements of a concatenation are.
LEMMA ConcatAt ==
  ASSUME NEW S, NEW s \in Seq(S), NEW t \in Seq(S)
  PROVE  /\ s \o t \in Seq(S) /\ Len(s \o t) = Len(s) + Len(t)
         /\ Len(s) \in Nat /\ Len(t) \in Nat
         /\ \A j \in 1..Len(s) : (s \o t)[j] = s[j]
         /\ \A j \in 1..Len(t) : (s \o t)[Len(s) + j] = t[j]
<1>1. /\ Len(s) \in Nat /\ Len(t) \in Nat
      /\ Len(s \o t) = Len(s) + Len(t) /\ s \o t \in Seq(S)
  BY ConcatProperties, LenProperties
<1>2. \A i \in 1..(Len(s) + Len(t)) :
        (s \o t)[i] = IF i <= Len(s) THEN s[i] ELSE t[i - Len(s)]
  BY ConcatProperties
<1>3. \A j \in 1..Len(s) : (s \o t)[j] = s[j]
  BY <1>1, <1>2
<1>4. ASSUME NEW j \in 1..Len(t)
      PROVE  (s \o t)[Len(s) + j] = t[j]
  <2>1. Len(s) + j - Len(s) = j /\ Len(s) + j \in 1..(Len(s) + Len(t)) /\ ~(Len(s) + j <= Len(s))
    BY <1>1
  <2>2. (s \o t)[Len(s) + j] = t[Len(s) + j - Len(s)]
    BY <1>2, <2>1
  <2> QED BY <2>1, <2>2
<1> QED BY <1>1, <1>3, <1>4

\* The same when two elements are appended.
LEMMA AppendPair ==
  ASSUME NEW S, NEW s \in Seq(S), NEW t \in Seq(S), Len(t) = 2
  PROVE  /\ s \o t \in Seq(S) /\ Len(s \o t) = Len(s) + 2
         /\ \A j \in 1..Len(s) : (s \o t)[j] = s[j]
         /\ (s \o t)[Len(s) + 1] = t[1] /\ (s \o t)[Len(s) + 2] = t[2]
<1>1. 1 \in 1..Len(t) /\ 2 \in 1..Len(t)
  OBVIOUS
<1> QED BY <1>1, ConcatAt

\* What QoS tunes.
QoSSettings == <<"userTos", "policies">>

\* What the order of the writes has to be.
Tuning(s) ==
  /\ s \in Seq(Setting)
  /\ \A j \in 1..Len(s) :
       /\ s[j] = "userTos" => j + 1 <= Len(s) /\ s[j + 1] = "policies"
       /\ s[j] = "policies" => j > 1 /\ s[j - 1] = "userTos"
       /\ s[j] = "throttling" =>
            \A i \in Interface : \E k \in 1..(j - 1) : s[k] = i

Body == Setting \ {"userTos", "policies"}

InterfacesFirst(s) ==
  /\ s \in Seq(Body)
  /\ n <= Len(s) /\ \A i \in 1..n : s[i] = Interfaces[i]

\* Interfaces have none of the names of the other settings.
LEMMA NamedFacts ==
  /\ n \in Nat /\ n > 0 /\ DOMAIN Interfaces = 1..n
  /\ Interfaces \in Seq(Body)
  /\ \A i \in 1..n : Interfaces[i] \in Interface
  /\ Interface \cap Named = {}
<1>1. /\ n \in Nat /\ n > 0 /\ DOMAIN Interfaces = 1..n
  BY SettingsAssumption DEF n
<1>2. \A i \in 1..n : Interfaces[i] \in Interface
  BY <1>1 DEF Interface
<1>3. Interface \subseteq Body /\ Interface \cap Named = {}
  BY SettingsAssumption DEF Body, Setting, Named
<1>4. Interfaces \in Seq(Body)
  BY <1>3, SettingsAssumption, SeqMonotonic
<1> QED BY <1>1, <1>2, <1>3, <1>4

\* What precedes the QoS policies does not touch their settings.
LEMMA BodyIsSetting ==
  ASSUME NEW s \in Seq(Body)
  PROVE  /\ s \in Seq(Setting) /\ Len(s) \in Nat
         /\ \A j \in 1..Len(s) : s[j] \in Setting /\ s[j] # "userTos" /\ s[j] # "policies"
<1>1. \A j \in 1..Len(s) : s[j] \in Body
  OBVIOUS
<1>2. s \in Seq(Setting)
  BY SeqMonotonic DEF Body
<1> QED BY <1>1, <1>2 DEF Body

\* ApplyAllNetworkTweaks begins with the interfaces; so does what continues it.
LEMMA Longer ==
  ASSUME NEW s, InterfacesFirst(s), NEW t \in Seq(Body)
  PROVE  InterfacesFirst(s \o t)
<1>1. s \in Seq(Body) /\ n <= Len(s) /\ \A i \in 1..n : s[i] = Interfaces[i]
  BY DEF InterfacesFirst
<1>2. s \o t \in Seq(Body) /\ Len(s \o t) = Len(s) + Len(t)
  BY <1>1, ConcatProperties
<1>3. n \in Nat /\ Len(s) \in Nat /\ Len(t) \in Nat
  BY <1>1, NamedFacts
<1>4. ASSUME NEW i \in 1..n PROVE (s \o t)[i] = Interfaces[i]
  <2>1. i \in 1..(Len(s) + Len(t)) /\ i <= Len(s)
    BY <1>1, <1>3
  <2> QED BY <1>1, <2>1, ConcatProperties
<1> QED BY <1>1, <1>2, <1>3, <1>4 DEF InterfacesFirst

\* Interfaces before the index, and EnableUserTOS right before the policies.
LEMMA BodyTuning ==
  ASSUME NEW s, InterfacesFirst(s)
  PROVE  Tuning(s) /\ Tuning(s \o QoSSettings)
<1>1. s \in Seq(Body) /\ n <= Len(s) /\ \A i \in 1..n : s[i] = Interfaces[i]
  BY DEF InterfacesFirst
<1>2. /\ s \in Seq(Setting) /\ Len(s) \in Nat
      /\ \A j \in 1..Len(s) : s[j] \in Setting /\ s[j] # "userTos" /\ s[j] # "policies"
  BY <1>1, BodyIsSetting
<1>3. ASSUME NEW j \in 1..Len(s), s[j] = "throttling", NEW i \in Interface
      PROVE  \E k \in 1..(j - 1) : s[k] = i
  <2>1. j > n
    BY <1>1, <1>2, <1>3, NamedFacts DEF Named
  <2>2. PICK k \in 1..n : Interfaces[k] = i
    BY NamedFacts DEF Interface
  <2> QED BY <1>1, <1>2, <2>1, <2>2, NamedFacts
<1>4. Tuning(s)
  BY <1>2, <1>3 DEF Tuning
<1>5. QoSSettings \in Seq(Setting) /\ Len(QoSSettings) = 2
  BY DEF QoSSettings, Setting, Named
<1>10. QoSSettings[1] = "userTos" /\ QoSSettings[2] = "policies"
  BY DEF QoSSettings
<1>6. s \o QoSSettings \in Seq(Setting) /\ Len(s \o QoSSettings) = Len(s) + 2
  BY <1>2, <1>5, AppendPair
<1>7. \A j \in 1..Len(s) : (s \o QoSSettings)[j] = s[j]
  BY <1>2, <1>5, AppendPair
<1>8. (s \o QoSSettings)[Len(s) + 1] = QoSSettings[1] /\ (s \o QoSSettings)[Len(s) + 2] = QoSSettings[2]
  BY <1>2, <1>5, AppendPair
<1>9. ASSUME NEW j \in 1..Len(s \o QoSSettings)
      PROVE  LET u == s \o QoSSettings IN
               /\ u[j] = "userTos" => j + 1 <= Len(u) /\ u[j + 1] = "policies"
               /\ u[j] = "policies" => j > 1 /\ u[j - 1] = "userTos"
               /\ u[j] = "throttling" =>
                    \A i \in Interface : \E k \in 1..(j - 1) : u[k] = i
  <2> DEFINE u == s \o QoSSettings
  <2> HIDE DEF u
  <2>0. /\ Len(u) = Len(s) + 2 /\ j \in 1..Len(u)
        /\ \A i \in 1..Len(s) : u[i] = s[i]
        /\ u[Len(s) + 1] = "userTos" /\ u[Len(s) + 2] = "policies"
    BY <1>10, <1>6, <1>7, <1>8 DEF u
  <2>1. CASE j \in 1..Len(s)
    <3>1. u[j] = s[j] /\ u[j] # "userTos" /\ u[j] # "policies"
      BY <1>2, <2>0, <2>1
    <3>2. ASSUME u[j] = "throttling", NEW i \in Interface
          PROVE  \E k \in 1..(j - 1) : u[k] = i
      <4>1. PICK k \in 1..(j - 1) : s[k] = i
        BY <1>3, <2>1, <3>1, <3>2
      <4> QED BY <1>2, <2>0, <2>1, <4>1
    <3> QED BY <3>1, <3>2 DEF u
  <2>2. CASE j = Len(s) + 1
    <3>1. u[j] = "userTos" /\ j + 1 <= Len(u) /\ u[j + 1] = "policies"
      BY <1>2, <2>0, <2>2
    <3> QED BY <3>1 DEF u
  <2>3. CASE j = Len(s) + 2
    <3>1. u[j] = "policies" /\ j > 1 /\ u[j - 1] = "userTos"
      BY <1>2, <2>0, <2>3
    <3> QED BY <3>1 DEF u
  <2> QED BY <1>2, <2>0, <2>1, <2>2, <2>3
<1> QED BY <1>4, <1>6, <1>9 DEF Tuning

\* Commands that never touch the index.
LEMMA PlainTuning ==
  ASSUME NEW s \in Seq(Body \ {"throttling"})
  PROVE  Tuning(s)
<1>1. s \in Seq(Setting) /\ \A j \in 1..Len(s) : s[j] \in Body \ {"throttling"}
  BY SeqMonotonic DEF Body
<1> QED BY <1>1 DEF Tuning, Body

-----------------------------------------------------------------------------
(* What every command keeps to when it begins. *)

SetLast(t) ==
  \A j \in 1..Len(t) : t[j] = Step("tune", "throttling") =>
    \A i \in Interface : \E k \in 1..(j - 1) : t[k] = Step("tune", i)
ResetFirst(t) ==
  \A j \in 1..Len(t), i \in Interface : t[j] = Step("reset", i) =>
    \E k \in 1..(j - 1) : t[k] = Step("reset", "throttling")
TosFirst(t) ==
  \A j \in 1..Len(t) : t[j] = Step("tune", "policies") =>
    j > 1 /\ t[j - 1] = Step("tune", "userTos")

OpensFirst(t) == Len(t) > 0 => t[1].op # "write"

Prepared(t) ==
  Ordered(t) /\ SetLast(t) /\ ResetFirst(t) /\ TosFirst(t) /\ OpensFirst(t)

\* Writes are equal when their kinds and their settings are.
LEMMA StepEqual ==
  \A o1, s1, o2, s2 : Step(o1, s1) = Step(o2, s2) <=> o1 = o2 /\ s1 = s2
<1>1. \A o1, s1 : Step(o1, s1).op = o1 /\ Step(o1, s1).key = s1
  BY DEF Step
<1> QED BY <1>1

\* The parts of a write.
LEMMA StepFields ==
  \A o, s : Step(o, s).op = o /\ Step(o, s).key = s
BY DEF Step

\* A command that only tunes, in the order Tuning asks for.
LEMMA TunePrepared ==
  ASSUME NEW s, Tuning(s)
  PROVE  Prepared(Tune(s))
<1> DEFINE t == Tune(s)
<1>1. /\ s \in Seq(Setting) /\ Len(s) \in Nat /\ Len(t) = Len(s) /\ t \in Seq(SettingStep)
      /\ \A j \in 1..Len(s) : t[j] = Step("tune", s[j])
  BY TuneAt DEF Tuning
<1>2. \A j \in 1..Len(s) : t[j].op = "tune" /\ t[j].key = s[j]
  BY <1>1, StepFields
<1>3. t \in Seq(SettingStep \cup FileStep)
  BY <1>1, SeqMonotonic
<1> HIDE DEF t
<1>4. \A j \in 1..Len(t) : t[j] = Step("tune", "userTos") =>
            j + 1 <= Len(t) /\ t[j + 1] = Step("tune", "policies")
  BY <1>1, StepEqual DEF Tuning
<1>5. Ordered(t)
  BY <1>1, <1>2, <1>3, <1>4, StepFields DEF Ordered
<1>6. SetLast(t)
  <2> SUFFICES ASSUME NEW j \in 1..Len(t), t[j] = Step("tune", "throttling"),
                      NEW i \in Interface
               PROVE  \E k \in 1..(j - 1) : t[k] = Step("tune", i)
    BY DEF SetLast
  <2>1. s[j] = "throttling"
    BY <1>1, StepEqual
  <2>2. PICK k \in 1..(j - 1) : s[k] = i
    BY <1>1, <2>1 DEF Tuning
  <2> QED BY <1>1, <2>2
<1>7. ResetFirst(t)
  BY <1>1, <1>2, StepFields DEF ResetFirst
<1>8. TosFirst(t)
  <2> SUFFICES ASSUME NEW j \in 1..Len(t), t[j] = Step("tune", "policies")
               PROVE  j > 1 /\ t[j - 1] = Step("tune", "userTos")
    BY DEF TosFirst
  <2>1. s[j] = "policies"
    BY <1>1, StepEqual
  <2>2. j > 1 /\ s[j - 1] = "userTos"
    BY <1>1, <2>1 DEF Tuning
  <2> QED BY <1>1, <2>2
<1>9. OpensFirst(t)
  BY <1>1, <1>2 DEF OpensFirst
<1> QED BY <1>5, <1>6, <1>7, <1>8, <1>9 DEF Prepared, t

\* The four file operations of CreateBackup.
LEMMA BackupAt ==
  /\ Backup \in Seq(FileStep) /\ Len(Backup) = 4
  /\ Backup[1] = Step("open", "backup") /\ Backup[2] = Step("write", "backup")
  /\ Backup[3] = Step("open", "script") /\ Backup[4] = Step("write", "script")
BY DEF Backup, FileStep, Step

\* CreateBackup on its own.
LEMMA BackupPrepared == Prepared(Backup)
<1> DEFINE t == Backup
<1>1. t \in Seq(SettingStep \cup FileStep) /\ Len(t) = 4
  BY BackupAt, SeqMonotonic
<1>2. \A j \in 1..4 : j = 1 \/ j = 2 \/ j = 3 \/ j = 4
  OBVIOUS
<1>3. /\ t[1].op = "open" /\ t[2].op = "write" /\ t[3].op = "open" /\ t[4].op = "write"
      /\ t[2].key = "backup" /\ t[4].key = "script" /\ t[3].key = "script"
  BY BackupAt, StepFields
<1>4. \A j \in 1..4 : t[j].op \in {"open", "write"}
  BY <1>2, <1>3
<1>5. Ordered(t)
  BY <1>1, <1>2, <1>3, <1>4, BackupAt, StepFields DEF Ordered
<1>6. SetLast(t) /\ ResetFirst(t) /\ TosFirst(t)
  BY <1>1, <1>4, StepFields DEF SetLast, ResetFirst, TosFirst
<1>7. OpensFirst(t)
  BY <1>3 DEF OpensFirst
<1> QED BY <1>5, <1>6, <1>7 DEF Prepared

\* ExecuteExtremeBoost: CreateBackup, then a command that tunes.
LEMMA BackupTunePrepared ==
  ASSUME NEW s, Tuning(s)
  PROVE  Prepared(Backup \o Tune(s))
<1> DEFINE b == Backup
           t == Tune(s)
           u == b \o t
<1>1. Prepared(t)
  BY TunePrepared
<1>2. /\ Len(t) \in Nat /\ t \in Seq(SettingStep \cup FileStep)
      /\ \A j \in 1..Len(t) : t[j].op = "tune"
  BY TuneAt, StepFields, SeqMonotonic DEF Tuning
<1>3. b \in Seq(SettingStep \cup FileStep) /\ Len(b) = 4
  BY BackupAt, SeqMonotonic
<1> HIDE DEF b, t
<1>0. /\ u \in Seq(SettingStep \cup FileStep) /\ Len(u) = Len(b) + Len(t)
      /\ \A j \in 1..Len(b) : u[j] = b[j]
      /\ \A j \in 1..Len(t) : u[Len(b) + j] = t[j]
  <2> DEFINE S == SettingStep \cup FileStep
  <2>1. b \in Seq(S) /\ t \in Seq(S)
    BY <1>2, <1>3
  <2> HIDE DEF S
  <2>2. /\ b \o t \in Seq(S) /\ Len(b \o t) = Len(b) + Len(t)
        /\ \A j \in 1..Len(b) : (b \o t)[j] = b[j]
        /\ \A j \in 1..Len(t) : (b \o t)[Len(b) + j] = t[j]
    BY <2>1, ConcatAt
  <2> QED BY <2>2 DEF S
<1> HIDE DEF u
<1>5. \A j \in 1..Len(t) : u[4 + j] = t[j]
  BY <1>3, <1>0
<1>4. /\ u \in Seq(SettingStep \cup FileStep) /\ Len(u) = Len(t) + 4
      /\ \A j \in 1..4 : u[j] = b[j]
      /\ \A j \in 5..Len(u) : u[j] = t[j - 4]
  <2>1. Len(u) = Len(t) + 4 /\ \A j \in 1..4 : u[j] = b[j]
    BY <1>2, <1>3, <1>0
  <2>2. ASSUME NEW j \in 5..Len(u) PROVE u[j] = t[j - 4]
    <3>1. j - 4 \in 1..Len(t) /\ 4 + (j - 4) = j
      BY <1>2, <2>1
    <3> QED BY <1>5, <3>1
  <2> QED BY <1>0, <2>1, <2>2
<1>6. \A j \in 1..Len(u) : j = 1 \/ j = 2 \/ j = 3 \/ j = 4 \/ (j \in 5..Len(u) /\ j - 4 \in 1..Len(t))
  BY <1>2, <1>4
<1>7. /\ u[1] = Step("open", "backup") /\ u[2] = Step("write", "backup")
      /\ u[3] = Step("open", "script") /\ u[4] = Step("write", "script")
  BY <1>4, BackupAt DEF b
<1>8. /\ u[1].op = "open" /\ u[2].op = "write" /\ u[3].op = "open" /\ u[4].op = "write"
      /\ u[2].key = "backup" /\ u[4].key = "script"
  BY <1>7, StepFields
<1>9. \A j \in 5..Len(u) : u[j].op = "tune"
  BY <1>2, <1>4
<1>10. \A j \in 1..Len(u) : u[j].op # "reset"
  BY <1>6, <1>8, <1>9
<1>11. ASSUME NEW j \in 1..Len(u)
       PROVE  /\ u[j] # Step("reset", "userTos")
              /\ u[j] = Step("tune", "userTos") =>
                   j + 1 <= Len(u) /\ u[j + 1] = Step("tune", "policies")
  <2>1. CASE j \in 5..Len(u) /\ j - 4 \in 1..Len(t)
    <3>1. u[j] = t[j - 4]
      BY <1>4, <2>1
    <3>2. t[j - 4] = Step("tune", "userTos") =>
            j - 4 + 1 <= Len(t) /\ t[j - 4 + 1] = Step("tune", "policies")
      BY <1>1, <2>1 DEF Prepared, Ordered
    <3>3. j - 4 + 1 <= Len(t) => u[j + 1] = t[j - 4 + 1] /\ j + 1 <= Len(u)
      BY <1>2, <1>4, <2>1
    <3> QED BY <1>10, <3>1, <3>2, <3>3, StepFields
  <2>2. CASE j \in 1..4
    BY <1>8, <2>2, StepFields
  <2> QED BY <1>6, <2>1, <2>2
<1>12. ASSUME NEW j \in 1..Len(u)
       PROVE  /\ u[j].op \in {"open", "write"} => \A i \in 1..j : u[i].op \in {"open", "write"}
              /\ u[j].op = "write" /\ j > 1 => u[j - 1] = Step("open", u[j].key)
              /\ u[j] = Step("open", "backup") => j + 3 <= Len(u) /\ u[j + 3] = Step("write", "script")
              /\ u[j] = Step("open", "script") => j + 1 <= Len(u) /\ u[j + 1] = Step("write", "script")
  <2>1. CASE j \in 5..Len(u)
    BY <1>9, <2>1, StepFields
  <2>2. \A i \in 1..4 : i = 1 \/ i = 2 \/ i = 3 \/ i = 4
    OBVIOUS
  <2>3. CASE j \in 1..4
    <3>1. \A i \in 1..4 : u[i].op \in {"open", "write"}
      BY <1>8, <2>2
    <3>2. j = 1 \/ j = 2 \/ j = 3 \/ j = 4
      BY <2>3
    <3> QED BY <1>2, <1>4, <1>7, <1>8, <3>1, <3>2, StepFields, StepEqual
  <2> QED BY <1>6, <2>1, <2>3
<1>13. Ordered(u)
  BY <1>4, <1>10, <1>11, <1>12 DEF Ordered
<1>14. SetLast(u)
  <2> SUFFICES ASSUME NEW j \in 1..Len(u), u[j] = Step("tune", "throttling"),
                      NEW i \in Interface
               PROVE  \E k \in 1..(j - 1) : u[k] = Step("tune", i)
    BY DEF SetLast
  <2>1. j \in 5..Len(u) /\ j - 4 \in 1..Len(t)
    BY <1>6, <1>8, StepFields
  <2>2. PICK k \in 1..(j - 4 - 1) : t[k] = Step("tune", i)
    BY <1>1, <1>4, <2>1 DEF Prepared, SetLast
  <2>3. k + 4 \in 1..(j - 1) /\ u[k + 4] = t[k]
    BY <1>2, <1>4, <1>5, <2>1
  <2> QED BY <2>2, <2>3
<1>15. ResetFirst(u)
  BY <1>10, StepFields DEF ResetFirst
<1>16. TosFirst(u)
  <2> SUFFICES ASSUME NEW j \in 1..Len(u), u[j] = Step("tune", "policies")
               PROVE  j > 1 /\ u[j - 1] = Step("tune", "userTos")
    BY DEF TosFirst
  <2>1. j \in 5..Len(u) /\ j - 4 \in 1..Len(t)
    BY <1>6, <1>8, StepFields
  <2>2. j - 4 > 1 /\ t[j - 4 - 1] = Step("tune", "userTos")
    BY <1>1, <1>4, <2>1 DEF Prepared, TosFirst
  <2>3. j - 1 \in 5..Len(u) /\ u[j - 1] = t[j - 4 - 1]
    BY <1>2, <1>4, <2>1, <2>2
  <2> QED BY <2>1, <2>2, <2>3
<1>17. OpensFirst(u)
  BY <1>8 DEF OpensFirst
<1> QED BY <1>13, <1>14, <1>15, <1>16, <1>17 DEF Prepared, u, b, t

\* Reset(s) resets the settings of s, one by one.
LEMMA ResetAt ==
  ASSUME NEW s \in Seq(Setting)
  PROVE  /\ Reset(s) \in Seq(SettingStep)
         /\ Len(Reset(s)) = Len(s)
         /\ \A i \in 1..Len(s) : Reset(s)[i] = Step("reset", s[i])
<1>1. Len(s) \in Nat /\ DOMAIN s = 1..Len(s) /\ \A i \in 1..Len(s) : s[i] \in Setting
  OBVIOUS
<1>2. Reset(s) = [i \in 1..Len(s) |-> Step("reset", s[i])]
  BY <1>1 DEF Reset
<1>3. \A i \in 1..Len(s) : Step("reset", s[i]) \in SettingStep
  BY <1>1 DEF Step, SettingStep
<1>4. Reset(s) \in Seq(SettingStep)
  BY <1>1, <1>2, <1>3, IsASeq
<1>5. DOMAIN Reset(s) = 1..Len(s)
  BY <1>2
<1>6. Len(Reset(s)) = Len(s)
  BY <1>1, <1>4, <1>5, LenProperties
<1> QED BY <1>2, <1>4, <1>6

\* A command that resets, the throttling index first.
LEMMA ResetPrepared ==
  ASSUME NEW s \in Seq(Setting),
         \A j \in 1..Len(s) : s[j] # "userTos" /\ (s[j] \in Interface => j > 1),
         Len(s) > 0, s[1] = "throttling"
  PROVE  Prepared(Reset(s))
<1> DEFINE t == Reset(s)
<1>1. /\ Len(s) \in Nat /\ Len(t) = Len(s) /\ t \in Seq(SettingStep)
      /\ \A j \in 1..Len(s) : t[j] = Step("reset", s[j])
  BY ResetAt
<1>2. \A j \in 1..Len(s) : t[j].op = "reset" /\ t[j].key = s[j]
  BY <1>1, StepFields
<1>3. t \in Seq(SettingStep \cup FileStep)
  BY <1>1, SeqMonotonic
<1> HIDE DEF t
<1>4. Ordered(t)
  BY <1>1, <1>2, <1>3, StepFields DEF Ordered
<1>5. SetLast(t) /\ TosFirst(t)
  BY <1>1, <1>2, StepFields DEF SetLast, TosFirst
<1>6. ResetFirst(t)
  <2> SUFFICES ASSUME NEW j \in 1..Len(t), NEW i \in Interface, t[j] = Step("reset", i)
               PROVE  \E k \in 1..(j - 1) : t[k] = Step("reset", "throttling")
    BY DEF ResetFirst
  <2>1. s[j] = i /\ j > 1
    BY <1>1, <1>2, StepFields
  <2>2. 1 \in 1..(j - 1) /\ t[1] = Step("reset", "throttling")
    BY <1>1, <2>1
  <2> QED BY <2>2
<1>7. OpensFirst(t)
  BY <1>1, <1>2 DEF OpensFirst
<1> QED BY <1>4, <1>5, <1>6, <1>7 DEF Prepared, t

Front == <<"throttling", "responsiveness">>
Back  == <<"policies", "netsh">>

\* RestoreFactoryDefaults, write by write.
LEMMA RestoreAt ==
  LET s == Front \o Interfaces \o Back IN
  /\ Restore = Reset(s) /\ s \in Seq(Setting) /\ Len(s) = n + 4
  /\ s[1] = "throttling" /\ s[2] = "responsiveness"
  /\ \A i \in 1..n : s[2 + i] = Interfaces[i]
  /\ s[n + 3] = "policies" /\ s[n + 4] = "netsh"
<1> DEFINE u == Front \o Interfaces
           s == u \o Back
<1>1. /\ Front \in Seq(Setting) /\ Len(Front) = 2
      /\ Back \in Seq(Setting) /\ Len(Back) = 2
  BY DEF Front, Back, Setting, Named
<1>2. /\ Front[1] = "throttling" /\ Front[2] = "responsiveness"
      /\ Back[1] = "policies" /\ Back[2] = "netsh"
  BY DEF Front, Back
<1>3. Interfaces \in Seq(Setting) /\ n \in Nat
  BY NamedFacts, BodyIsSetting
<1>4. /\ u \in Seq(Setting) /\ Len(u) = Len(Front) + n
      /\ \A j \in 1..Len(Front) : u[j] = Front[j]
      /\ \A j \in 1..n : u[Len(Front) + j] = Interfaces[j]
  BY <1>1, <1>3, ConcatAt DEF n
<1> HIDE DEF u
<1>5. /\ u \in Seq(Setting) /\ Len(u) = n + 2 /\ u[1] = Front[1] /\ u[2] = Front[2]
      /\ \A j \in 1..n : u[2 + j] = Interfaces[j]
  <2>1. Len(Front) = 2 /\ n \in Nat
    BY <1>1, <1>3
  <2>2. 1 \in 1..Len(Front) /\ 2 \in 1..Len(Front) /\ 2 + n = n + 2
    BY <2>1
  <2> QED BY <1>4, <2>1, <2>2
<1>6. /\ s \in Seq(Setting) /\ Len(s) = Len(u) + 2
      /\ \A j \in 1..Len(u) : s[j] = u[j]
      /\ s[Len(u) + 1] = Back[1] /\ s[Len(u) + 2] = Back[2]
  BY <1>1, <1>5, AppendPair
<1> HIDE DEF s
<1>7. /\ s[1] = u[1] /\ s[2] = u[2] /\ \A j \in 1..n : s[2 + j] = u[2 + j]
  BY <1>3, <1>5, <1>6
<1>8. Len(u) + 1 = n + 3 /\ Len(u) + 2 = n + 4
  BY <1>3, <1>5
<1>9. Restore = Reset(s)
  BY DEF Restore, Front, Back, s, u
<1>10. s[n + 3] = "policies" /\ s[n + 4] = "netsh" /\ s[1] = "throttling" /\ s[2] = "responsiveness"
  BY <1>2, <1>5, <1>6, <1>7, <1>8
<1>11. \A i \in 1..n : s[2 + i] = Interfaces[i]
  BY <1>5, <1>7
<1> QED BY <1>6, <1>8, <1>9, <1>10, <1>11 DEF s, u

\* RestoreFactoryDefaults resets everything it answers for.
LEMMA RestoreStart ==
  /\ Prepared(Restore)
  /\ \A i \in 1..Len(Restore) : Restore[i].op = "reset"
  /\ \A s \in Restorable :
       \E i \in 1..Len(Restore) : Restore[i] = Step("reset", s)
<1> DEFINE s == Front \o Interfaces \o Back
<1>1. /\ Restore = Reset(s) /\ s \in Seq(Setting) /\ Len(s) = n + 4
      /\ s[1] = "throttling" /\ s[2] = "responsiveness"
      /\ \A i \in 1..n : s[2 + i] = Interfaces[i]
      /\ s[n + 3] = "policies" /\ s[n + 4] = "netsh"
  BY RestoreAt
<1> HIDE DEF s
<1>2. n \in Nat
  BY NamedFacts
<1>3. \A j \in 1..Len(s) : j = 1 \/ j = 2 \/ (j - 2 \in 1..n /\ 2 + (j - 2) = j) \/ j = n + 3 \/ j = n + 4
  BY <1>1, <1>2
<1>4. ASSUME NEW j \in 1..Len(s)
      PROVE  s[j] # "userTos" /\ (s[j] \in Interface => j > 1)
  <2>1. CASE j - 2 \in 1..n /\ 2 + (j - 2) = j
    <3>1. s[j] \in Interface
      BY <1>1, <2>1, NamedFacts
    <3> QED BY <1>2, <2>1, <3>1, NamedFacts DEF Named
  <2>2. CASE j = 1
    BY <1>1, <2>2, NamedFacts DEF Named
  <2>3. CASE j = 2
    BY <1>1, <2>3
  <2>4. CASE j = n + 3 \/ j = n + 4
    BY <1>1, <1>2, <2>4
  <2> QED BY <1>3, <2>1, <2>2, <2>3, <2>4
<1>5. Prepared(Restore)
  BY <1>1, <1>2, <1>4, ResetPrepared
<1>6. Len(Restore) = n + 4 /\ \A i \in 1..(n + 4) : Restore[i] = Step("reset", s[i])
  BY <1>1, ResetAt
<1>7. \A i \in 1..Len(Restore) : Restore[i].op = "reset"
  BY <1>6, StepFields
<1>8. ASSUME NEW x \in Restorable
      PROVE  \E i \in 1..Len(Restore) : Restore[i] = Step("reset", x)
  <2>1. CASE x \in Interface
    <3>1. PICK i \in 1..n : Interfaces[i] = x
      BY <2>1, NamedFacts DEF Interface
    <3>2. 2 + i \in 1..(n + 4) /\ s[2 + i] = x
      BY <1>1, <1>2, <3>1
    <3> QED BY <1>6, <3>2
  <2>2. CASE x \in Profile
    <3>1. x = s[1] \/ x = s[2]
      BY <1>1, <2>2 DEF Profile
    <3>2. 1 \in 1..(n + 4) /\ 2 \in 1..(n + 4)
      BY <1>2
    <3> QED BY <1>6, <3>1, <3>2
  <2>3. CASE x \in {"policies", "netsh"}
    <3>1. x = s[n + 3] \/ x = s[n + 4]
      BY <1>1, <2>3
    <3>2. n + 3 \in 1..(n + 4) /\ n + 4 \in 1..(n + 4)
      BY <1>2
    <3> QED BY <1>6, <3>1, <3>2
  <2> QED BY <2>1, <2>2, <2>3 DEF Restorable
<1> QED BY <1>5, <1>7, <1>8

\* The rollback script.
LEMMA RollbackPrepared == Prepared(Rollback)
<1> DEFINE s == <<"throttling", "responsiveness", "netsh">>
<1>1. s \in Seq(Setting) /\ Len(s) = 3
  BY DEF Setting, Named
<1>2. s[1] = "throttling" /\ s[2] = "responsiveness" /\ s[3] = "netsh"
  OBVIOUS
<1> HIDE DEF s
<1>3. \A j \in 1..Len(s) : j = 1 \/ j = 2 \/ j = 3
  BY <1>1
<1>4. \A j \in 1..Len(s) : s[j] # "userTos" /\ (s[j] \in Interface => j > 1)
  BY <1>2, <1>3, NamedFacts DEF Named
<1>5. s \in Seq(Setting) /\ Len(s) > 0 /\ s[1] = "throttling"
  BY <1>1, <1>2
<1>6. Prepared(Reset(s))
  BY <1>4, <1>5, ResetPrepared
<1> QED BY <1>6 DEF Rollback, s

-----------------------------------------------------------------------------
(* All the commands. *)

\* The parts of the commands that tune.
LEMMA Bodies ==
  /\ <<"throttling", "responsiveness", "tcpParams", "netsh", "congestion">> \in Seq(Body)
  /\ <<"wifi">> \in Seq(Body) /\ <<"adapter">> \in Seq(Body)
  /\ <<"location">> \in Seq(Body) /\ <<"mmcss">> \in Seq(Body)
  /\ <<"paging">> \in Seq(Body)
BY DEF Body, Setting, Named

\* ApplyAllNetworkTweaks.
LEMMA NetworkIs ==
  LET s == Interfaces \o <<"throttling", "responsiveness", "tcpParams",
                           "netsh", "congestion">> IN
  Network = Tune(s) /\ InterfacesFirst(s)
<1>1. InterfacesFirst(Interfaces)
  BY NamedFacts DEF InterfacesFirst, n
<1> QED BY <1>1, Bodies, Longer DEF Network

\* ApplyAllNetworkTweaks, continued.
LEMMA More ==
  ASSUME NEW s, InterfacesFirst(s), NEW t \in Seq(Body)
  PROVE  Tune(s) \o Tune(t) = Tune(s \o t) /\ InterfacesFirst(s \o t)
BY Longer, TuneConcat, BodyIsSetting DEF InterfacesFirst

\* OptimizeAllNetworkAdapters.
LEMMA AdapterIs ==
  \E s \in Seq(Body \ {"throttling"}) : s \in Seq(Body) /\ Adapter = Tune(s)
<1>1. <<"adapter">> \in Seq(Body \ {"throttling"}) /\ <<"wifi">> \in Seq(Body \ {"throttling"})
  BY DEF Body, Setting, Named
<1>2. <<"adapter">> \o <<"wifi">> \in Seq(Body \ {"throttling"})
  BY <1>1
<1>3. <<"adapter">> \o <<"wifi">> \in Seq(Body)
  BY Bodies
<1>4. Adapter = Tune(<<"adapter">> \o <<"wifi">>)
  BY Bodies, BodyIsSetting, TuneConcat DEF Adapter, Wifi
<1> QED BY <1>2, <1>3, <1>4

\* OptimizeWifiAdapters and DisableLocationServices.
LEMMA WifiIs ==
  \E s \in Seq(Body \ {"throttling"}) : Wifi \o Location = Tune(s)
<1>1. <<"wifi">> \in Seq(Body \ {"throttling"}) /\ <<"location">> \in Seq(Body \ {"throttling"})
  BY DEF Body, Setting, Named
<1>2. <<"wifi">> \o <<"location">> \in Seq(Body \ {"throttling"})
  BY <1>1
<1>4. Wifi \o Location = Tune(<<"wifi">> \o <<"location">>)
  BY Bodies, BodyIsSetting, TuneConcat DEF Wifi, Location
<1> QED BY <1>2, <1>4

\* OptimizeMMCSSGamesProfile.
LEMMA MmcssIs ==
  \E s \in Seq(Body \ {"throttling"}) : Mmcss = Tune(s)
<1>1. <<"mmcss">> \in Seq(Body \ {"throttling"})
  BY DEF Body, Setting, Named
<1> QED BY <1>1 DEF Mmcss

\* RunComparisonBenchmark, as the settings it tunes.
LEMMA BenchmarkIs ==
  \E s : InterfacesFirst(s) /\ Benchmark = Tune(s \o QoSSettings)
<1>1. PICK s1 : Network = Tune(s1) /\ InterfacesFirst(s1)
  BY NetworkIs
<1>2. PICK a \in Seq(Body) : Adapter = Tune(a)
  BY AdapterIs
<1>3. Network \o Adapter = Tune(s1 \o a) /\ InterfacesFirst(s1 \o a)
  BY <1>1, <1>2, More
<1> DEFINE s2 == s1 \o a
           m  == <<"mmcss">>
           s3 == s2 \o m
<1>4. m \in Seq(Body) /\ Mmcss = Tune(m)
  BY Bodies DEF Mmcss
<1> HIDE DEF s2, m
<1>5. Tune(s2) \o Mmcss = Tune(s3) /\ InterfacesFirst(s3)
  BY <1>3, <1>4, More DEF s2
<1>6. QoSSettings \in Seq(Setting) /\ QoS = Tune(QoSSettings)
  BY DEF QoSSettings, Setting, Named, QoS
<1> HIDE DEF s3
<1>7. s3 \in Seq(Setting)
  BY <1>5, BodyIsSetting DEF InterfacesFirst
<1>8. Tune(s3) \o QoS = Tune(s3 \o QoSSettings)
  BY <1>6, <1>7, TuneConcat
<1>9. Benchmark = Tune(s3 \o QoSSettings)
  BY <1>3, <1>5, <1>8 DEF Benchmark, s2
<1> QED BY <1>5, <1>9

\* What ExecuteExtremeBoost does after CreateBackup can be read as one command.
LEMMA AfterBackup ==
  ASSUME NEW s, InterfacesFirst(s), NEW t \in Seq(Setting)
  PROVE  (Backup \o Tune(s)) \o Tune(t) = Backup \o Tune(s \o t)
<1> DEFINE S == SettingStep \cup FileStep
<1>1. s \in Seq(Setting)
  BY BodyIsSetting DEF InterfacesFirst
<1>2. Tune(s) \in Seq(S) /\ Tune(t) \in Seq(S) /\ Backup \in Seq(S)
  BY <1>1, TuneAt, BackupAt, SeqMonotonic
<1> HIDE DEF S
<1>3. (Backup \o Tune(s)) \o Tune(t) = Backup \o (Tune(s) \o Tune(t))
  BY <1>2, ConcatAssociative
<1> QED BY <1>1, <1>3, TuneConcat

\* ExecuteExtremeBoost, as the backup and the settings it tunes.
LEMMA BoostIs ==
  \E s : InterfacesFirst(s) /\ Boost = Backup \o Tune(s \o QoSSettings)
<1>1. PICK s1 : Network = Tune(s1) /\ InterfacesFirst(s1)
  BY NetworkIs
<1>2. PICK a \in Seq(Body) : Adapter = Tune(a)
  BY AdapterIs
<1> DEFINE l  == <<"location">>
           m  == <<"mmcss">>
           p  == <<"paging">>
           s2 == s1 \o a
           s3 == s2 \o l
           s4 == s3 \o m
           s5 == s4 \o p
<1>3. /\ Location = Tune(l) /\ Mmcss = Tune(m) /\ Paging = Tune(p) /\ QoS = Tune(QoSSettings)
  BY DEF Location, Mmcss, Paging, QoS, QoSSettings
<1>4. l \in Seq(Body) /\ m \in Seq(Body) /\ p \in Seq(Body)
  BY Bodies
<1>5. a \in Seq(Setting) /\ l \in Seq(Setting) /\ m \in Seq(Setting) /\ p \in Seq(Setting)
  BY <1>4, BodyIsSetting
<1>6. QoSSettings \in Seq(Setting)
  BY DEF QoSSettings, Setting, Named
<1> HIDE DEF l, m, p
<1>7. InterfacesFirst(s2)
  BY <1>1, <1>2, Longer
<1>8. InterfacesFirst(s3)
  BY <1>4, <1>7, Longer
<1>9. InterfacesFirst(s4)
  BY <1>4, <1>8, Longer
<1>10. InterfacesFirst(s5)
  BY <1>4, <1>9, Longer
<1>11. Backup \o Network \o Adapter = Backup \o Tune(s2)
  BY <1>1, <1>2, <1>5, AfterBackup
<1> HIDE DEF s2
<1>12. Backup \o Tune(s2) \o Location = Backup \o Tune(s3)
  BY <1>3, <1>5, <1>7, AfterBackup
<1> HIDE DEF s3
<1>13. Backup \o Tune(s3) \o Mmcss = Backup \o Tune(s4)
  BY <1>3, <1>5, <1>8, AfterBackup
<1> HIDE DEF s4
<1>14. Backup \o Tune(s4) \o Paging = Backup \o Tune(s5)
  BY <1>3, <1>5, <1>9, AfterBackup
<1> HIDE DEF s5
<1>15. Backup \o Tune(s5) \o QoS = Backup \o Tune(s5 \o QoSSettings)
  BY <1>3, <1>6, <1>10, AfterBackup
<1>16. Boost = Backup \o Tune(s5 \o QoSSettings)
  BY <1>11, <1>12, <1>13, <1>14, <1>15 DEF Boost
<1> QED BY <1>10, <1>16

\* Every command of the program.
LEMMA AllPrepared ==
  ASSUME NEW c \in Command
  PROVE  Prepared(Steps[c])
<1>1. c \in {"network", "adapter", "timer", "wifi", "boost", "benchmark",
             "backup", "restore", "rollback"}
  BY DEF Command, Steps
<1>2. Prepared(Network)
  BY NetworkIs, BodyTuning, TunePrepared
<1>3. Prepared(Adapter)
  BY AdapterIs, PlainTuning, TunePrepared
<1>4. Prepared(Mmcss)
  BY MmcssIs, PlainTuning, TunePrepared
<1>5. Prepared(Wifi \o Location)
  BY WifiIs, PlainTuning, TunePrepared
<1>6. Prepared(Boost)
  BY BoostIs, BodyTuning, BackupTunePrepared
<1>7. Prepared(Benchmark)
  BY BenchmarkIs, BodyTuning, TunePrepared
<1>8. /\ Steps["network"] = Network /\ Steps["adapter"] = Adapter
      /\ Steps["timer"] = Mmcss /\ Steps["wifi"] = Wifi \o Location
      /\ Steps["boost"] = Boost /\ Steps["benchmark"] = Benchmark
      /\ Steps["backup"] = Backup /\ Steps["restore"] = Restore
      /\ Steps["rollback"] = Rollback
  BY DEF Steps
<1>9. Prepared(Backup) /\ Prepared(Restore) /\ Prepared(Rollback)
  BY BackupPrepared, RestoreStart, RollbackPrepared
<1> HIDE DEF Steps
<1> QED BY ZenonT(60), <1>1, <1>2, <1>3, <1>4, <1>5, <1>6, <1>7, <1>8, <1>9

Five == <<"throttling", "responsiveness", "tcpParams", "netsh", "congestion">>

\* ApplyAllNetworkTweaks tunes everything it answers for.
LEMMA NetworkStart ==
  /\ \A i \in 1..Len(Network) : Network[i].op = "tune"
  /\ \A x \in NetworkSetting :
       \E i \in 1..Len(Network) : Network[i] = Step("tune", x)
<1> DEFINE s == Interfaces \o Five
<1>1. Network = Tune(s) /\ InterfacesFirst(s)
  BY NetworkIs DEF Five
<1>2. Five \in Seq(Setting) /\ Len(Five) = 5
  BY DEF Five, Setting, Named
<1>3. /\ Five[1] = "throttling" /\ Five[2] = "responsiveness" /\ Five[3] = "tcpParams"
      /\ Five[4] = "netsh" /\ Five[5] = "congestion"
  BY DEF Five
<1>4. Interfaces \in Seq(Setting) /\ n \in Nat
  BY NamedFacts, BodyIsSetting
<1>5. /\ s \in Seq(Setting) /\ Len(s) = n + Len(Five)
      /\ \A j \in 1..n : s[j] = Interfaces[j]
      /\ \A j \in 1..Len(Five) : s[n + j] = Five[j]
  <2>1. ASSUME NEW t \in Seq(Setting)
        PROVE  LET u == Interfaces \o t IN
               /\ u \in Seq(Setting) /\ Len(u) = n + Len(t)
               /\ \A j \in 1..n : u[j] = Interfaces[j]
               /\ \A j \in 1..Len(t) : u[n + j] = t[j]
    BY <1>4, ConcatAt DEF n
  <2> QED BY <1>2, <2>1
<1> HIDE DEF s
<1>6. /\ s \in Seq(Setting) /\ Len(s) = n + 5
      /\ \A j \in 1..n : s[j] = Interfaces[j]
      /\ s[n + 1] = "throttling" /\ s[n + 2] = "responsiveness" /\ s[n + 3] = "tcpParams"
      /\ s[n + 4] = "netsh" /\ s[n + 5] = "congestion"
  BY <1>2, <1>3, <1>4, <1>5
<1>7. Len(Network) = n + 5 /\ \A i \in 1..(n + 5) : Network[i] = Step("tune", s[i])
  BY <1>1, <1>6, TuneAt
<1>8. ASSUME NEW x \in NetworkSetting
      PROVE  \E i \in 1..(n + 5) : s[i] = x
  <2>1. CASE x \in Interface
    <3>1. PICK i \in 1..n : Interfaces[i] = x
      BY <2>1, NamedFacts DEF Interface
    <3> QED BY <1>4, <1>6, <3>1
  <2>2. CASE x \in Profile \cup {"tcpParams", "netsh", "congestion"}
    <3>1. \E k \in 1..5 : x = s[n + k]
      BY <1>6, <2>2 DEF Profile
    <3>2. \A k \in 1..5 : n + k \in 1..(n + 5)
      BY <1>4
    <3> QED BY <3>1, <3>2
  <2> QED BY <2>1, <2>2 DEF NetworkSetting
<1> QED BY <1>7, <1>8, StepFields

-----------------------------------------------------------------------------
(* What is left of a command. *)

\* u is t without its first m steps.
Dropped(t, m, u) ==
  /\ m \in 1..Len(t)
  /\ u \in Seq(SettingStep \cup FileStep)
  /\ Len(u) = Len(t) - m
  /\ \A i \in 1..Len(u) : u[i] = t[i + m]

\* What is left of an ordered command is ordered.
LEMMA SuffixOrdered ==
  ASSUME NEW t, NEW u, NEW m, Ordered(t), Dropped(t, m, u)
  PROVE  Ordered(u)
<1>1. /\ m \in 1..Len(t) /\ Len(u) = Len(t) - m /\ Len(t) \in Nat /\ Len(u) \in Nat
      /\ \A i \in 1..Len(u) : u[i] = t[i + m] /\ i + m \in 1..Len(t)
  <2>1. t \in Seq(SettingStep \cup FileStep)
    BY DEF Ordered
  <2>2. Len(t) \in Nat
    BY <2>1
  <2>3. /\ m \in 1..Len(t) /\ Len(u) = Len(t) - m
        /\ \A i \in 1..Len(u) : u[i] = t[i + m]
    BY DEF Dropped
  <2> QED BY <2>2, <2>3
<1>2. ASSUME NEW i \in 1..Len(u), NEW j \in 1..Len(u), u[i].op = "tune"
      PROVE  u[j].op # "reset"
  <2>1. \A a, b \in 1..Len(t) : t[a].op = "tune" => t[b].op # "reset"
    BY DEF Ordered
  <2>2. PICK a \in 1..Len(t), b \in 1..Len(t) : u[i] = t[a] /\ u[j] = t[b]
    BY <1>1
  <2> QED BY <1>2, <2>1, <2>2
<1>3. ASSUME NEW j \in 1..Len(u)
      PROVE  /\ u[j] # Step("reset", "userTos")
             /\ u[j] = Step("tune", "userTos") =>
                  j + 1 <= Len(u) /\ u[j + 1] = Step("tune", "policies")
             /\ u[j] = Step("open", "backup") =>
                  j + 3 <= Len(u) /\ u[j + 3] = Step("write", "script")
             /\ u[j] = Step("open", "script") =>
                  j + 1 <= Len(u) /\ u[j + 1] = Step("write", "script")
  <2>1. u[j] = t[j + m] /\ j + m \in 1..Len(t)
    BY <1>1
  <2>2. j + 1 <= Len(u) => u[j + 1] = t[j + m + 1]
    BY <1>1
  <2>3. j + 3 <= Len(u) => u[j + 3] = t[j + m + 3]
    BY <1>1
  <2>4. /\ j + m + 1 <= Len(t) => j + 1 <= Len(u)
        /\ j + m + 3 <= Len(t) => j + 3 <= Len(u)
    BY <1>1
  <2> QED BY <2>1, <2>2, <2>3, <2>4 DEF Ordered
<1>4. ASSUME NEW j \in 1..Len(u), u[j].op \in {"open", "write"}, NEW i \in 1..j
      PROVE  u[i].op \in {"open", "write"}
  <2>1. u[j] = t[j + m] /\ u[i] = t[i + m] /\ j + m \in 1..Len(t) /\ i + m \in 1..(j + m)
    BY <1>1
  <2> QED BY <1>4, <2>1 DEF Ordered
<1>5. ASSUME NEW j \in 1..Len(u), u[j].op = "write", j > 1
      PROVE  u[j - 1] = Step("open", u[j].key)
  <2>1. u[j] = t[j + m] /\ u[j - 1] = t[j + m - 1] /\ j + m \in 1..Len(t) /\ j + m > 1
    <3>1. j - 1 \in 1..Len(u) /\ j - 1 + m = j + m - 1 /\ j + m > 1
      BY <1>1, <1>5
    <3> QED BY <1>1, <3>1
  <2>2. \A k \in 1..Len(t) : t[k].op = "write" /\ k > 1 => t[k - 1] = Step("open", t[k].key)
    BY DEF Ordered
  <2>3. PICK k \in 1..Len(t) : k = j + m
    BY <2>1
  <2>4. u[j] = t[k] /\ u[j - 1] = t[k - 1] /\ k > 1
    <3>1. k - 1 = j + m - 1
      BY <1>1, <2>3
    <3> QED BY ONLY <2>1, <2>3, <3>1, Zenon
  <2>5. t[k].op = "write"
    BY <1>5, <2>4, Zenon
  <2>6. t[k - 1] = Step("open", t[k].key)
    BY <2>2, <2>4, <2>5
  <2> QED BY ONLY <2>4, <2>6, Zenon
<1>6. u \in Seq(SettingStep \cup FileStep)
  BY DEF Dropped
<1> QED BY <1>2, <1>3, <1>4, <1>5, <1>6 DEF Ordered

\* One step done.
LEMMA TailDropped ==
  ASSUME NEW t, Ordered(t), t # <<>>
  PROVE  /\ Dropped(t, 1, Tail(t)) /\ Head(t) = t[1]
         /\ Len(t) \in Nat /\ Len(t) > 0
<1>1. t \in Seq(SettingStep \cup FileStep)
  BY DEF Ordered
<1>2. /\ Tail(t) \in Seq(SettingStep \cup FileStep) /\ Len(Tail(t)) = Len(t) - 1
      /\ \A i \in 1..Len(Tail(t)) : Tail(t)[i] = t[i + 1]
  BY <1>1, HeadTailProperties
<1>3. Len(t) \in Nat /\ Len(t) > 0 /\ Head(t) = t[1]
  BY <1>1, EmptySeq
<1> QED BY <1>2, <1>3 DEF Dropped

\* Two steps done: the early return of SetupGamingQoSPolicies.
LEMMA TailTailDropped ==
  ASSUME NEW t, Ordered(t), t # <<>>, Len(t) >= 2
  PROVE  Dropped(t, 2, Tail(Tail(t)))
<1>1. Dropped(t, 1, Tail(t)) /\ Len(t) \in Nat
  BY TailDropped
<1> DEFINE u == Tail(t)
<1> HIDE DEF u
<1>2. Ordered(u)
  BY <1>1, SuffixOrdered DEF u
<1>3. Len(u) = Len(t) - 1 /\ \A i \in 1..Len(u) : u[i] = t[i + 1]
  BY <1>1 DEF u, Dropped
<1>4. u # <<>>
  BY <1>1, <1>3, EmptySeq
<1>5. Dropped(u, 1, Tail(u))
  BY <1>2, <1>4, TailDropped
<1> DEFINE w == Tail(u)
<1> HIDE DEF w
<1>6. /\ w \in Seq(SettingStep \cup FileStep) /\ Len(w) = Len(u) - 1
      /\ \A i \in 1..Len(w) : w[i] = u[i + 1]
  BY <1>5 DEF Dropped, w
<1>7. ASSUME NEW i \in 1..Len(w) PROVE w[i] = t[i + 2]
  <2>1. i + 1 \in 1..Len(u) /\ i + 1 + 1 = i + 2
    BY <1>1, <1>3, <1>6
  <2> QED BY <1>3, <1>6, <2>1
<1>8. Dropped(t, 2, w)
  BY <1>1, <1>3, <1>6, <1>7 DEF Dropped
<1> QED BY <1>8 DEF u, w

\* m steps done: the early returns of CreateBackup.
LEMMA SubSeqDropped ==
  ASSUME NEW t, Ordered(t), NEW m \in 1..Len(t)
  PROVE  Dropped(t, m, SubSeq(t, m + 1, Len(t)))
<1>1. t \in Seq(SettingStep \cup FileStep) /\ Len(t) \in Nat
  BY DEF Ordered
<1>2. \A i \in (m + 1)..Len(t) : t[i] \in SettingStep \cup FileStep
  BY <1>1
<1> DEFINE u == SubSeq(t, m + 1, Len(t))
<1>3. /\ u \in Seq(SettingStep \cup FileStep)
      /\ Len(u) = IF m + 1 <= Len(t) THEN Len(t) - (m + 1) + 1 ELSE 0
      /\ \A i \in 1..(Len(t) - (m + 1) + 1) : u[i] = t[m + 1 + i - 1]
  BY <1>1, <1>2, SubSeqProperties
<1> HIDE DEF u
<1>4. Len(u) = Len(t) - m
  BY <1>1, <1>3
<1>5. \A i \in 1..Len(u) : u[i] = t[i + m]
  BY <1>1, <1>3, <1>4
<1> QED BY <1>3, <1>4, <1>5 DEF Dropped, u

-----------------------------------------------------------------------------
(* The steps that keep the invariant. *)

\* The invariant without the types.
Claims ==
  /\ Ordered(todo) /\ Settled
  /\ IndexSetLast /\ IndexResetFirst /\ TosBeforePolicies
  /\ NetworkProgress /\ RestoreProgress
  /\ StatusNeverOverclaims /\ PoliciesNeedTos
  /\ RestoreCovers /\ NetworkSuccessIsReal

\* The types, by themselves.
LEMMA Typing ==
  ASSUME TypeOK
  PROVE  /\ value \in [Setting -> Value]
         /\ locked \subseteq Setting
         /\ Interface \subseteq Setting
         /\ Named \subseteq Setting
BY SettingsAssumption DEF TypeOK, Setting

\* Steps that are passed over, all of them without effect.
LEMMA SkipKeeps ==
  ASSUME TypeOK, Claims, NEW m, Dropped(todo, m, todo'),
         UNCHANGED <<value, foreign, locked, proc, command, done>>,
         \A k \in 1..m : \/ todo[k].op \in {"open", "write"}
                         \/ ~Writable(todo[k].key)
                         \/ todo[k] = Step("tune", "policies"),
         todo[m] # Step("tune", "userTos")
  PROVE  Claims'
<1>1. /\ m \in 1..Len(todo) /\ Len(todo') = Len(todo) - m
      /\ Len(todo) \in Nat /\ Len(todo') \in Nat
      /\ \A i \in 1..Len(todo') : todo'[i] = todo[i + m] /\ i + m \in 1..Len(todo)
  <2>1. todo \in Seq(SettingStep \cup FileStep)
    BY DEF Claims, Ordered
  <2>2. Len(todo) \in Nat
    BY <2>1
  <2>3. /\ m \in 1..Len(todo) /\ Len(todo') = Len(todo) - m
        /\ \A i \in 1..Len(todo') : todo'[i] = todo[i + m]
    BY DEF Dropped
  <2> QED BY <2>2, <2>3
<1>2. Ordered(todo)'
  BY SuffixOrdered DEF Claims
<1>3. todo # <<>> /\ command # "none"
  <2>1. todo # <<>>
    BY <1>1
  <2> QED BY <2>1 DEF Claims, Settled
<1>4. Settled'
  BY <1>3 DEF Claims, Settled
<1>5. Elevated' = Elevated
  BY DEF Elevated
\* What can take effect is still there, m places earlier.
<1>6. ASSUME NEW k \in 1..Len(todo), NEW o, NEW s, todo[k] = Step(o, s),
             o \in {"tune", "reset"}, Elevated, s \notin locked,
             <<o, s>> # <<"tune", "policies">>
      PROVE  k - m \in 1..Len(todo') /\ todo'[k - m] = Step(o, s)
  <2>1. todo[k].op = o /\ todo[k].key = s
    BY <1>6, StepFields
  <2>2. Writable(s)
    BY <1>6 DEF Writable
  <2>3. todo[k] # Step("tune", "policies")
    BY <1>6, StepEqual
  <2>4. ~(k \in 1..m)
    BY <1>6, <2>1, <2>2, <2>3
  <2>5. k - m \in 1..Len(todo') /\ k - m + m = k
    BY <1>1, <2>4
  <2> QED BY <1>1, <1>6, <2>5
<1>7. IndexSetLast'
  <2> SUFFICES ASSUME Elevated, NEW j \in 1..Len(todo'), todo'[j] = Step("tune", "throttling"),
                      NEW i \in Kept(Interface), value[i] # "tuned"
               PROVE  \E k \in 1..(j - 1) : todo'[k] = Step("tune", i)
    BY <1>5 DEF IndexSetLast, Kept
  <2>0. PICK q \in 1..Len(todo) : q = j + m
    BY <1>1
  <2>1. todo[q] = Step("tune", "throttling")
    BY <1>1, <2>0
  <2>2. PICK k \in 1..(q - 1) : todo[k] = Step("tune", i)
    BY <2>1 DEF Claims, IndexSetLast
  <2>3. k \in 1..Len(todo)
    BY <1>1
  <2>4. i # "policies"
    BY NamedFacts DEF Named, Kept
  <2>5. k - m \in 1..Len(todo') /\ todo'[k - m] = Step("tune", i)
    BY <1>6, <2>2, <2>3, <2>4 DEF Kept
  <2>6. k - m \in 1..(j - 1)
    BY <1>1, <2>0, <2>5
  <2> QED BY <2>5, <2>6
<1>8. IndexResetFirst'
  <2> SUFFICES ASSUME Elevated, NEW j \in 1..Len(todo'), NEW i \in Interface \ locked,
                      todo'[j] = Step("reset", i), value["throttling"] = "tuned",
                      "throttling" \notin foreign
               PROVE  \E k \in 1..(j - 1) : todo'[k] = Step("reset", "throttling")
    BY <1>5 DEF IndexResetFirst
  <2>0. PICK q \in 1..Len(todo) : q = j + m
    BY <1>1
  <2>1. todo[q] = Step("reset", i)
    BY <1>1, <2>0
  <2>2. PICK k \in 1..(q - 1) : todo[k] = Step("reset", "throttling")
    BY <2>1 DEF Claims, IndexResetFirst
  <2>3. k \in 1..Len(todo)
    BY <1>1
  <2>4. "throttling" \notin locked
    BY DEF Claims, Settled
  <2>5. k - m \in 1..Len(todo') /\ todo'[k - m] = Step("reset", "throttling")
    BY <1>6, <2>2, <2>3, <2>4
  <2>6. k - m \in 1..(j - 1)
    BY <1>1, <2>0, <2>5
  <2> QED BY <2>5, <2>6
<1>9. TosBeforePolicies'
  <2> SUFFICES ASSUME NEW j \in 1..Len(todo'), todo'[j] = Step("tune", "policies"),
                      value["userTos"] # "tuned"
               PROVE  j > 1 /\ todo'[j - 1] = Step("tune", "userTos")
    BY DEF TosBeforePolicies
  <2>0. PICK q \in 1..Len(todo) : q = j + m
    BY <1>1
  <2>1. todo[q] = Step("tune", "policies")
    BY <1>1, <2>0
  <2>2. todo[q - 1] = Step("tune", "userTos")
    BY <2>1 DEF Claims, TosBeforePolicies
  <2>3. q - 1 = m \/ (j - 1 \in 1..Len(todo') /\ j > 1 /\ j - 1 + m = q - 1)
    BY <1>1, <2>0
  <2> QED BY <1>1, <2>2, <2>3
<1>10. NetworkProgress'
  <2> SUFFICES ASSUME command = "network", Elevated
               PROVE  /\ \A i \in 1..Len(todo') : todo'[i].op = "tune"
                      /\ \A s \in Kept(NetworkSetting) :
                           value[s] = "tuned" \/ \E i \in 1..Len(todo') : todo'[i] = Step("tune", s)
    BY <1>5 DEF NetworkProgress, Kept
  <2>1. /\ \A i \in 1..Len(todo) : todo[i].op = "tune"
        /\ \A s \in Kept(NetworkSetting) :
             value[s] = "tuned" \/ \E i \in 1..Len(todo) : todo[i] = Step("tune", s)
    BY DEF Claims, NetworkProgress
  <2>2. ASSUME NEW s \in Kept(NetworkSetting), value[s] # "tuned"
        PROVE  \E i \in 1..Len(todo') : todo'[i] = Step("tune", s)
    <3>1. PICK i \in 1..Len(todo) : todo[i] = Step("tune", s)
      BY <2>1, <2>2
    <3>2. s # "policies"
      BY NamedFacts DEF Named, Profile, NetworkSetting, Kept
    <3> QED BY <1>6, <3>1, <3>2 DEF Kept
  <2>3. \A i \in 1..Len(todo') : todo'[i].op = "tune"
    BY <1>1, <2>1
  <2> QED BY <2>2, <2>3
<1>11. RestoreProgress'
  <2> SUFFICES ASSUME command = "restore", Elevated
               PROVE  /\ \A i \in 1..Len(todo') : todo'[i].op = "reset"
                      /\ \A s \in Kept(Restorable) :
                           value[s] = "default" \/ \E i \in 1..Len(todo') : todo'[i] = Step("reset", s)
    BY <1>5 DEF RestoreProgress, Kept
  <2>1. /\ \A i \in 1..Len(todo) : todo[i].op = "reset"
        /\ \A s \in Kept(Restorable) :
             value[s] = "default" \/ \E i \in 1..Len(todo) : todo[i] = Step("reset", s)
    BY DEF Claims, RestoreProgress
  <2>2. ASSUME NEW s \in Kept(Restorable),
               value[s] # "default"
        PROVE  \E i \in 1..Len(todo') : todo'[i] = Step("reset", s)
    <3>1. PICK i \in 1..Len(todo) : todo[i] = Step("reset", s)
      BY <2>1, <2>2
    <3> QED BY <1>6, <3>1 DEF Kept
  <2>3. \A i \in 1..Len(todo') : todo'[i].op = "reset"
    BY <1>1, <2>1
  <2> QED BY <2>2, <2>3
<1>12. StatusNeverOverclaims' /\ PoliciesNeedTos' /\ RestoreCovers' /\ NetworkSuccessIsReal'
  BY DEF Claims, StatusNeverOverclaims, AreTweaksApplied, PoliciesNeedTos, RestoreCovers,
         NetworkSuccessIsReal, Kept
<1> QED BY <1>2, <1>4, <1>7, <1>8, <1>9, <1>10, <1>11, <1>12 DEF Claims

\* A step that takes effect.
LEMMA WriteKeeps ==
  ASSUME TypeOK, Claims, todo # <<>>, Head(todo).op \in {"tune", "reset"},
         Writable(Head(todo).key), todo' = Tail(todo),
         value' = [value EXCEPT ![Head(todo).key] = Written(Head(todo))],
         foreign' = foreign \ {Head(todo).key},
         UNCHANGED <<locked, proc, command, done>>
  PROVE  Claims' /\ value' \in [Setting -> Value]
<1> DEFINE o == Head(todo).op
           x == Head(todo).key
<1>1. /\ Dropped(todo, 1, todo') /\ Head(todo) = todo[1]
      /\ Len(todo) \in Nat /\ Len(todo) > 0
  BY TailDropped DEF Claims
<1>2. /\ Len(todo') = Len(todo) - 1 /\ Len(todo') \in Nat
      /\ \A i \in 1..Len(todo') : todo'[i] = todo[i + 1] /\ i + 1 \in 1..Len(todo)
  BY <1>1 DEF Dropped
<1>3. Ordered(todo)'
  BY <1>1, SuffixOrdered DEF Claims
<1>4. todo[1] = Step(o, x) /\ o \in {"tune", "reset"} /\ x \in Setting
  <2>1. todo \in Seq(SettingStep \cup FileStep)
    BY DEF Claims, Ordered
  <2>2. todo[1] \in SettingStep \cup FileStep
    BY <1>1, <2>1
  <2>3. todo[1] \in SettingStep
    BY <1>1, <2>2 DEF FileStep
  <2> QED BY <1>1, <2>3 DEF SettingStep, Step
<1>5. Elevated /\ Elevated' /\ x \notin locked
  BY DEF Writable, Elevated
<1>6. /\ \A s \in Setting \ {x} : value'[s] = value[s]
      /\ o = "reset" => value'[x] = "default"
      /\ o = "tune" /\ x # "paging" => value'[x] = "tuned"
      /\ value'[x] \in {"default", "tuned"}
      /\ value' \in [Setting -> Value]
  <2>1. Written(Head(todo)) \in {"default", "tuned"}
    BY DEF Written
  <2>2. o = "reset" => Written(Head(todo)) = "default"
    BY DEF Written
  <2>3. o = "tune" /\ x # "paging" => Written(Head(todo)) = "tuned"
    BY DEF Written
  <2>4. \A s \in Setting \ {x} : value'[s] = value[s]
    BY Typing
  <2>5. value'[x] = Written(Head(todo))
    BY <1>4, Typing
  <2>6. value' \in [Setting -> Value]
    BY <1>4, <2>1, Typing DEF Value
  <2> QED BY <2>1, <2>2, <2>3, <2>4, <2>5, <2>6
\* What others have not touched they had not before, unless it is x.
<1>6a. \A S, s : s \in S \ (locked \cup foreign') /\ s # x => s \in Kept(S)
  BY DEF Kept
<1>6b. \A s : s \notin foreign' /\ s # x => s \notin foreign
  OBVIOUS
<1>6c. \A S : Kept(S)' = S \ (locked \cup foreign')
  BY DEF Kept
<1> HIDE DEF o, x
\* A later step is still there, one place earlier, and the first one is x.
<1>7. ASSUME NEW k \in 1..Len(todo), NEW p, NEW s, todo[k] = Step(p, s)
      PROVE  \/ p = o /\ s = x
             \/ k - 1 \in 1..Len(todo') /\ todo'[k - 1] = Step(p, s)
  <2>1. CASE k = 1
    BY <1>4, <1>7, <2>1, StepEqual
  <2>2. CASE k # 1
    <3>1. k - 1 \in 1..Len(todo') /\ k - 1 + 1 = k
      BY <1>1, <1>2, <2>2
    <3> QED BY <1>2, <1>7, <3>1
  <2> QED BY <2>1, <2>2
\* While something is tuned nothing is reset.
<1>8. ASSUME NEW k \in 1..Len(todo)
      PROVE  /\ o = "tune" => todo[k].op # "reset"
             /\ todo[k].op = "tune" => o # "reset"
  <2>1. todo[1].op = o /\ 1 \in 1..Len(todo)
    BY <1>1, <1>4, StepFields
  <2>2. \A i, j \in 1..Len(todo) : todo[i].op = "tune" => todo[j].op # "reset"
    BY DEF Claims, Ordered
  <2> QED BY <2>1, <2>2
<1>9. todo # <<>> /\ command # "none"
  BY DEF Claims, Settled
<1>10. Settled'
  <2>1. \A s \in locked \ foreign' : value'[s] # "tuned"
    BY <1>5, <1>6, <1>6b, Typing DEF Claims, Settled
  <2> QED BY <1>9, <2>1 DEF Claims, Settled
<1>11. /\ Interface \subseteq Setting /\ Named \subseteq Setting
       /\ "throttling" \in Setting /\ "userTos" \in Setting /\ "policies" \in Setting
       /\ \A i \in Interface : i \notin Named
  BY Typing, NamedFacts DEF Named
<1>12. IndexSetLast'
  <2> SUFFICES ASSUME NEW j \in 1..Len(todo'), todo'[j] = Step("tune", "throttling"),
                      NEW i \in Interface \ (locked \cup foreign'), value'[i] # "tuned"
               PROVE  \E k \in 1..(j - 1) : todo'[k] = Step("tune", i)
    BY <1>5, <1>6c DEF IndexSetLast
  <2>0. PICK q \in 1..Len(todo) : q = j + 1
    BY <1>2
  <2>1. todo[q] = Step("tune", "throttling")
    BY <1>2, <2>0
  <2>2. o = "tune"
    BY <1>4, <1>8, <2>1, StepFields
  <2>3. i # "paging"
    BY <1>11 DEF Named
  <2>4. i # x /\ value[i] # "tuned" /\ i \in Kept(Interface)
    BY <1>6, <1>6a, <1>11, <2>2, <2>3
  <2>5. PICK k \in 1..(q - 1) : todo[k] = Step("tune", i)
    BY <1>5, <2>1, <2>4 DEF Claims, IndexSetLast
  <2>6. k - 1 \in 1..Len(todo') /\ todo'[k - 1] = Step("tune", i)
    BY <1>7, <2>4, <2>5
  <2>7. k - 1 \in 1..(j - 1)
    BY <1>2, <2>0, <2>6
  <2> QED BY <2>6, <2>7
<1>13. IndexResetFirst'
  <2> SUFFICES ASSUME NEW j \in 1..Len(todo'), NEW i \in Interface \ locked,
                      todo'[j] = Step("reset", i), value'["throttling"] = "tuned",
                      "throttling" \notin foreign'
               PROVE  \E k \in 1..(j - 1) : todo'[k] = Step("reset", "throttling")
    BY <1>5 DEF IndexResetFirst
  <2>0. PICK q \in 1..Len(todo) : q = j + 1
    BY <1>2
  <2>1. todo[q] = Step("reset", i)
    BY <1>2, <2>0
  <2>2. o = "reset"
    BY <1>4, <1>8, <2>1, StepFields
  <2>3. x # "throttling" /\ value["throttling"] = "tuned" /\ "throttling" \notin foreign
    BY <1>6, <1>6b, <1>11, <2>2
  <2>5. PICK k \in 1..(q - 1) : todo[k] = Step("reset", "throttling")
    BY <1>5, <2>1, <2>3 DEF Claims, IndexResetFirst
  <2>6. k - 1 \in 1..Len(todo') /\ todo'[k - 1] = Step("reset", "throttling")
    BY <1>7, <2>3, <2>5
  <2>7. k - 1 \in 1..(j - 1)
    BY <1>2, <2>0, <2>6
  <2> QED BY <2>6, <2>7
<1>14. TosBeforePolicies'
  <2> SUFFICES ASSUME NEW j \in 1..Len(todo'), todo'[j] = Step("tune", "policies"),
                      value'["userTos"] # "tuned"
               PROVE  j > 1 /\ todo'[j - 1] = Step("tune", "userTos")
    BY DEF TosBeforePolicies
  <2>0. PICK q \in 1..Len(todo) : q = j + 1
    BY <1>2
  <2>1. todo[q] = Step("tune", "policies")
    BY <1>2, <2>0
  <2>2. o = "tune"
    BY <1>4, <1>8, <2>1, StepFields
  <2>3. x # "userTos" /\ value["userTos"] # "tuned"
    BY <1>6, <1>11, <2>2
  <2>4. q > 1 /\ todo[q - 1] = Step("tune", "userTos")
    BY <2>1, <2>3 DEF Claims, TosBeforePolicies
  <2>5. q - 1 \in 1..Len(todo) /\ q - 1 - 1 = j - 1
    BY <1>2, <2>0, <2>4
  <2>6. q - 1 - 1 \in 1..Len(todo') /\ todo'[q - 1 - 1] = Step("tune", "userTos")
    BY <1>7, <2>3, <2>4, <2>5
  <2>7. j > 1
    BY <1>2, <2>5, <2>6
  <2> QED BY <2>5, <2>6, <2>7
<1>15. NetworkProgress'
  <2> SUFFICES ASSUME command = "network"
               PROVE  /\ \A i \in 1..Len(todo') : todo'[i].op = "tune"
                      /\ \A s \in NetworkSetting \ (locked \cup foreign') :
                           value'[s] = "tuned" \/ \E i \in 1..Len(todo') : todo'[i] = Step("tune", s)
    BY <1>6c DEF NetworkProgress
  <2>1. /\ \A i \in 1..Len(todo) : todo[i].op = "tune"
        /\ \A s \in Kept(NetworkSetting) :
             value[s] = "tuned" \/ \E i \in 1..Len(todo) : todo[i] = Step("tune", s)
    BY <1>5 DEF Claims, NetworkProgress
  <2>2. o = "tune"
    BY <1>1, <1>4, <2>1, StepFields
  <2>3. ASSUME NEW s \in NetworkSetting \ (locked \cup foreign'), value'[s] # "tuned"
        PROVE  \E i \in 1..Len(todo') : todo'[i] = Step("tune", s)
    <3>1. s \in Setting /\ s # "paging"
      BY <1>11, NamedFacts DEF Named, Profile, NetworkSetting
    <3>2. s # x /\ value[s] # "tuned" /\ s \in Kept(NetworkSetting)
      BY <1>6, <1>6a, <2>2, <2>3, <3>1
    <3>3. PICK i \in 1..Len(todo) : todo[i] = Step("tune", s)
      BY <2>1, <3>2
    <3> QED BY <1>7, <3>2, <3>3
  <2>4. \A i \in 1..Len(todo') : todo'[i].op = "tune"
    BY <1>2, <2>1
  <2> QED BY <2>3, <2>4
<1>16. RestoreProgress'
  <2> SUFFICES ASSUME command = "restore"
               PROVE  /\ \A i \in 1..Len(todo') : todo'[i].op = "reset"
                      /\ \A s \in Restorable \ (locked \cup foreign') :
                           value'[s] = "default" \/ \E i \in 1..Len(todo') : todo'[i] = Step("reset", s)
    BY <1>6c DEF RestoreProgress
  <2>1. /\ \A i \in 1..Len(todo) : todo[i].op = "reset"
        /\ \A s \in Kept(Restorable) :
             value[s] = "default" \/ \E i \in 1..Len(todo) : todo[i] = Step("reset", s)
    BY <1>5 DEF Claims, RestoreProgress
  <2>2. o = "reset"
    BY <1>1, <1>4, <2>1, StepFields
  <2>3. ASSUME NEW s \in Restorable \ (locked \cup foreign'),
               value'[s] # "default"
        PROVE  \E i \in 1..Len(todo') : todo'[i] = Step("reset", s)
    <3>1. s \in Setting
      BY <1>11 DEF Named, Profile, Restorable
    <3>2. s # x /\ value[s] # "default" /\ s \in Kept(Restorable)
      BY <1>6, <1>6a, <2>2, <2>3, <3>1
    <3>3. PICK i \in 1..Len(todo) : todo[i] = Step("reset", s)
      BY <2>1, <3>2
    <3> QED BY <1>7, <3>2, <3>3
  <2>4. \A i \in 1..Len(todo') : todo'[i].op = "reset"
    BY <1>2, <2>1
  <2> QED BY <2>3, <2>4
<1>17. StatusNeverOverclaims'
  <2> SUFFICES ASSUME value'["throttling"] = "tuned", "throttling" \notin foreign',
                      NEW i \in Interface \ (locked \cup foreign')
               PROVE  value'[i] = "tuned"
    BY <1>6c DEF StatusNeverOverclaims, AreTweaksApplied
  <2>1. i \in Setting /\ i # "paging" /\ i # "throttling"
    BY <1>11 DEF Named
  <2>2. 1 \in 1..Len(todo) /\ \A k \in 1..(1 - 1) : FALSE
    BY <1>1
  <2>3. CASE x = "throttling"
    <3>1. o = "tune"
      BY <1>4, <1>6, <2>3
    <3>2. todo[1] = Step("tune", "throttling")
      BY <1>4, <2>3, <3>1
    <3>3. value[i] = "tuned"
      <4>1. i \in Kept(Interface)
        BY <1>6a, <2>1, <2>3
      <4> QED BY <1>5, <2>2, <3>2, <4>1 DEF Claims, IndexSetLast
    <3> QED BY <1>6, <2>1, <2>3, <3>3
  <2>4. CASE x # "throttling" /\ x # i
    BY <1>6, <1>6a, <1>6b, <1>11, <2>1, <2>4 DEF Claims, StatusNeverOverclaims, AreTweaksApplied
  <2>5. CASE x = i
    <3>1. value["throttling"] = "tuned" /\ "throttling" \notin foreign
      BY <1>6, <1>6b, <1>11, <2>1, <2>5
    <3>2. o # "reset"
      <4> SUFFICES ASSUME o = "reset" PROVE FALSE
        OBVIOUS
      <4>1. todo[1] = Step("reset", i)
        BY <1>4, <2>5
      <4> QED BY <1>5, <2>2, <3>1, <4>1 DEF Claims, IndexResetFirst
    <3> QED BY <1>4, <1>6, <2>1, <2>5, <3>2
  <2> QED BY <2>3, <2>4, <2>5
<1>18. PoliciesNeedTos'
  <2> SUFFICES ASSUME value'["policies"] = "tuned"
               PROVE  value'["userTos"] = "tuned"
    BY DEF PoliciesNeedTos
  <2>1. x # "userTos" \/ o = "tune"
    <3>1. todo[1] # Step("reset", "userTos")
      BY <1>1 DEF Claims, Ordered
    <3> QED BY <1>4, <3>1
  <2>2. CASE x = "policies"
    <3>1. todo[1] = Step("tune", "policies")
      BY <1>4, <1>6, <2>2
    <3>2. 1 \in 1..Len(todo) /\ ~(1 > 1)
      BY <1>1
    <3>3. value["userTos"] = "tuned"
      BY <3>1, <3>2 DEF Claims, TosBeforePolicies
    <3> QED BY <1>6, <1>11, <2>2, <3>3
  <2>3. CASE x = "userTos"
    BY <1>6, <2>1, <2>3
  <2>4. CASE x # "policies" /\ x # "userTos"
    BY <1>6, <1>11, <2>4 DEF Claims, PoliciesNeedTos
  <2> QED BY <2>2, <2>3, <2>4
<1>19. done' = "none"
  BY <1>9 DEF Claims, Settled
<1>20. RestoreCovers' /\ NetworkSuccessIsReal'
  BY <1>19 DEF RestoreCovers, NetworkSuccessIsReal
<1> QED BY <1>3, <1>6, <1>10, <1>12, <1>13, <1>14, <1>15, <1>16, <1>17, <1>18, <1>20 DEF Claims

-----------------------------------------------------------------------------
(* The types. *)

Files == [{"backup", "script"} -> {"none", "empty", "written"}]

\* The next step of a command, if it writes a file, finds it truncated.
Ready(t, f) == Len(t) > 0 /\ t[1].op = "write" => f[t[1].key] = "empty"

\* Of what is left, only the first step can write a file that was opened before.
LEMMA WritesOpened ==
  ASSUME NEW t, NEW f, Ordered(t), Ready(t, f)
  PROVE  /\ \A i \in DOMAIN t :
              \/ t[i].op \in {"tune", "reset"} /\ t[i].key \in Setting
              \/ t[i].op \in {"open", "write"} /\ t[i].key \in {"backup", "script"}
         /\ \A i \in DOMAIN t : t[i].op = "write" =>
              \/ f[t[i].key] = "empty"
              \/ \E j \in 1..(i - 1) : t[j] = Step("open", t[i].key)
<1>1. t \in Seq(SettingStep \cup FileStep)
  BY DEF Ordered
<1>2. /\ Len(t) \in Nat /\ DOMAIN t = 1..Len(t)
      /\ \A i \in 1..Len(t) : t[i] \in SettingStep \cup FileStep
  BY <1>1
<1>3. ASSUME NEW i \in 1..Len(t)
      PROVE  \/ t[i].op \in {"tune", "reset"} /\ t[i].key \in Setting
             \/ t[i].op \in {"open", "write"} /\ t[i].key \in {"backup", "script"}
  BY <1>2 DEF SettingStep, FileStep
<1>4. ASSUME NEW i \in 1..Len(t), t[i].op = "write"
      PROVE  \/ f[t[i].key] = "empty"
             \/ \E j \in 1..(i - 1) : t[j] = Step("open", t[i].key)
  <2>1. CASE i = 1
    BY <1>2, <1>4, <2>1 DEF Ready
  <2>2. CASE i > 1
    <3>1. t[i - 1] = Step("open", t[i].key)
      BY <1>4, <2>2 DEF Ordered
    <3>2. i - 1 \in 1..(i - 1)
      BY <1>2, <2>2
    <3> QED BY <3>1, <3>2
  <2> QED BY <1>2, <2>1, <2>2
<1> QED BY <1>2, <1>3, <1>4

\* The type invariant says so of the first step.
LEMMA TypeMakesReady ==
  ASSUME TypeOK, Ordered(todo)
  PROVE  Ready(todo, files)
<1>1. todo \in Seq(SettingStep \cup FileStep)
  BY DEF Ordered
<1>2. Len(todo) \in Nat /\ DOMAIN todo = 1..Len(todo)
  BY <1>1
<1>3. ASSUME Len(todo) > 0, todo[1].op = "write"
      PROVE  files[todo[1].key] = "empty"
  <2>1. 1 \in DOMAIN todo /\ \A j \in 1..(1 - 1) : FALSE
    BY <1>2, <1>3
  <2>2. \A i \in DOMAIN todo : todo[i].op = "write" =>
          \/ files[todo[i].key] = "empty"
          \/ \E j \in 1..(i - 1) : todo[j] = Step("open", todo[i].key)
    BY DEF TypeOK
  <2> QED BY <1>3, <2>1, <2>2
<1> QED BY <1>3 DEF Ready

\* How a step keeps the types.
LEMMA TypeKept ==
  ASSUME TypeOK, Ordered(todo)', Ready(todo', files'), value' \in [Setting -> Value],
         foreign' \subseteq Contended, locked' = locked, proc' \in {"none", "admin", "user"},
         command' \in Command \cup {"none"}, done' \in Command \cup {"none"},
         files' \in Files
  PROVE  TypeOK'
<1>1. /\ \A i \in DOMAIN todo' :
           \/ todo'[i].op \in {"tune", "reset"} /\ todo'[i].key \in Setting
           \/ todo'[i].op \in {"open", "write"} /\ todo'[i].key \in {"backup", "script"}
      /\ \A i \in DOMAIN todo' : todo'[i].op = "write" =>
           \/ files'[todo'[i].key] = "empty"
           \/ \E j \in 1..(i - 1) : todo'[j] = Step("open", todo'[i].key)
  BY WritesOpened
<1>2. locked' \in LockedSets
  BY DEF TypeOK
<1> QED BY <1>1, <1>2 DEF TypeOK, Files

\* A step with no file behind it, or whose file the command has just left.
LEMMA ReadyAfter ==
  ASSUME NEW t, NEW u, NEW m, NEW f, Ordered(t), Dropped(t, m, u), Ordered(u),
         \/ t[m].op # "open"
         \/ t[m].op = "open" /\ f[t[m].key] = "empty"
  PROVE  Ready(u, f)
<1> SUFFICES ASSUME Len(u) > 0, u[1].op = "write"
             PROVE  f[u[1].key] = "empty"
  BY DEF Ready
<1>1. /\ t \in Seq(SettingStep \cup FileStep) /\ m \in 1..Len(t) /\ Len(u) = Len(t) - m
      /\ \A i \in 1..Len(u) : u[i] = t[i + m]
  BY DEF Ordered, Dropped
<1>2. Len(t) \in Nat
  BY <1>1
<1>3. PICK q \in 1..Len(t) : q = 1 + m
  BY <1>1, <1>2
<1>4. 1 \in 1..Len(u) /\ q > 1 /\ q - 1 = m
  BY <1>1, <1>2, <1>3
<1>5. u[1] = t[q]
  BY <1>1, <1>3, <1>4
<1>6. t[q - 1] = Step("open", t[q].key)
  BY <1>4, <1>5 DEF Ordered
<1>7. t[m].op = "open" /\ t[m].key = u[1].key
  BY <1>4, <1>5, <1>6, StepFields
<1> QED BY <1>7

-----------------------------------------------------------------------------
(* The actions. *)

\* Nothing left to do.
LEMMA EmptyOrdered == Ordered(<<>>) /\ \A f : Ready(<<>>, f)
BY DEF Ordered, Ready

\* Whatever the owner had set before.
LEMMA Initially == Init => IInv
<1> SUFFICES ASSUME Init PROVE IInv
  OBVIOUS
<1>1. todo = <<>> /\ command = "none" /\ done = "none" /\ proc = "none"
  BY DEF Init
<1>2. /\ value \in [Setting -> Value] /\ foreign = Contended
      /\ \A s \in Setting \ foreign : value[s] # "tuned"
  <2>1. PICK v \in {"default", "custom"}, w \in [Contended -> Value] :
          value = [s \in Setting |-> IF s \in Contended THEN w[s]
                                    ELSE IF s = "policies" THEN "default" ELSE v]
    BY DEF Init
  <2>2. \A s \in Contended : w[s] \in Value
    OBVIOUS
  <2>3. v \in Value /\ v # "tuned" /\ "default" \in Value /\ foreign = Contended
    BY DEF Value, Init
  <2>4. \A s \in Setting : /\ value[s] \in Value
                           /\ s \notin Contended => value[s] # "tuned"
    BY <2>1, <2>2, <2>3
  <2>5. value \in [Setting -> Value]
    BY <2>1, <2>4
  <2> QED BY <2>3, <2>4, <2>5
<1>3. locked \subseteq Setting /\ locked \in LockedSets
  BY SettingsAssumption DEF Init
<1>4. Ordered(todo)
  BY <1>1, EmptyOrdered
<1>5. TypeOK
  BY <1>1, <1>2, <1>3 DEF Init, TypeOK
<1>6. "throttling" \in Setting /\ "policies" \in Setting \ foreign
  BY <1>2, SettingsAssumption DEF Setting, Named
<1>7. Settled
  BY <1>1, <1>2, <1>3 DEF Settled
<1>8. IndexSetLast /\ IndexResetFirst /\ TosBeforePolicies
  BY <1>1 DEF IndexSetLast, IndexResetFirst, TosBeforePolicies
<1>9. NetworkProgress /\ RestoreProgress /\ RestoreCovers /\ NetworkSuccessIsReal
  BY <1>1 DEF NetworkProgress, RestoreProgress, RestoreCovers, NetworkSuccessIsReal
<1>10. StatusNeverOverclaims /\ PoliciesNeedTos
  BY <1>2, <1>6 DEF StatusNeverOverclaims, AreTweaksApplied, PoliciesNeedTos
<1> QED BY <1>4, <1>5, <1>7, <1>8, <1>9, <1>10 DEF IInv

\* The invariant is its types and its claims.
LEMMA InvParts == IInv <=> TypeOK /\ Claims
BY DEF IInv, Claims

\* Between commands nothing is left to do, and no result outlives a change.
LEMMA IdleKeeps ==
  ASSUME IInv, todo' = <<>>, command' = "none", UNCHANGED <<value, foreign, locked, files>>,
         proc' \in {"none", "admin", "user"}, done' = "none"
  PROVE  IInv'
<1>1. TypeOK /\ Claims
  BY InvParts
<1>2. Ordered(todo)'
  BY EmptyOrdered
<1>3. Ready(todo', files')
  BY EmptyOrdered
<1>4. value' \in [Setting -> Value] /\ files' \in Files
  BY <1>1 DEF TypeOK, Files
<1>5. TypeOK'
  BY <1>1, <1>2, <1>3, <1>4, TypeKept DEF TypeOK
<1>6. Settled'
  BY <1>1 DEF Claims, Settled
<1>7. (IndexSetLast /\ IndexResetFirst /\ TosBeforePolicies)'
  BY DEF IndexSetLast, IndexResetFirst, TosBeforePolicies
<1>8. (NetworkProgress /\ RestoreProgress /\ RestoreCovers /\ NetworkSuccessIsReal)'
  BY DEF NetworkProgress, RestoreProgress, RestoreCovers, NetworkSuccessIsReal
<1>9. (StatusNeverOverclaims /\ PoliciesNeedTos)'
  BY <1>1 DEF Claims, StatusNeverOverclaims, AreTweaksApplied, PoliciesNeedTos, Kept
<1> QED BY <1>2, <1>5, <1>6, <1>7, <1>8, <1>9 DEF IInv

\* A command begins as it is prepared.
LEMMA BeginKeeps ==
  ASSUME IInv, NEW c \in Command, Begin(c)
  PROVE  IInv'
<1>1. TypeOK /\ Claims
  BY InvParts
<1>2. /\ command' = c /\ c # "none" /\ todo' = Steps[c] /\ done' = "none"
      /\ UNCHANGED <<value, foreign, locked, proc, files>>
  BY DEF Begin, Command, Steps
<1> DEFINE t == Steps[c]
<1>3. Prepared(t)
  BY AllPrepared
<1>4. Ordered(todo)'
  BY <1>2, <1>3 DEF Prepared
<1>5. Ready(todo', files')
  BY <1>2, <1>3 DEF Prepared, OpensFirst, Ready
<1>6. TypeOK'
  BY <1>1, <1>2, <1>4, <1>5, TypeKept DEF TypeOK, Files
<1>7. Settled'
  BY <1>1, <1>2 DEF Claims, Settled
<1>8. IndexSetLast'
  BY <1>2, <1>3 DEF Prepared, SetLast, IndexSetLast, Kept
<1>9. IndexResetFirst'
  BY <1>2, <1>3 DEF Prepared, ResetFirst, IndexResetFirst
<1>10. TosBeforePolicies'
  BY <1>2, <1>3 DEF Prepared, TosFirst, TosBeforePolicies
<1>11. NetworkProgress'
  <2> SUFFICES ASSUME c = "network"
               PROVE  NetworkProgress'
    BY <1>2 DEF NetworkProgress
  <2>1. todo' = Network
    BY <1>2 DEF Steps
  <2> QED BY <2>1, NetworkStart DEF NetworkProgress, Kept
<1>12. RestoreProgress'
  <2> SUFFICES ASSUME c = "restore"
               PROVE  RestoreProgress'
    BY <1>2 DEF RestoreProgress
  <2>1. todo' = Restore
    BY <1>2 DEF Steps
  <2> QED BY <2>1, RestoreStart DEF RestoreProgress, Kept
<1>13. (RestoreCovers /\ NetworkSuccessIsReal)'
  BY <1>2 DEF RestoreCovers, NetworkSuccessIsReal
<1>14. (StatusNeverOverclaims /\ PoliciesNeedTos)'
  BY <1>1, <1>2 DEF Claims, StatusNeverOverclaims, AreTweaksApplied, PoliciesNeedTos, Kept
<1> QED BY <1>4, <1>6, <1>7, <1>8, <1>9, <1>10, <1>11, <1>12, <1>13, <1>14 DEF IInv

\* A write that takes effect, one that is refused, and the early return.
LEMMA SettingKeeps ==
  ASSUME IInv, WriteSetting
  PROVE  IInv'
<1>1. TypeOK /\ Claims /\ Ordered(todo)
  BY InvParts DEF Claims
<1>2. /\ todo # <<>> /\ Head(todo).op \in {"tune", "reset"}
      /\ UNCHANGED <<locked, proc, command, done, files>>
      /\ foreign' \subseteq foreign
  BY DEF WriteSetting
<1>3. /\ Dropped(todo, 1, Tail(todo)) /\ Head(todo) = todo[1] /\ Len(todo) \in Nat /\ Len(todo) > 0
  BY <1>1, <1>2, TailDropped
<1>4. ASSUME Claims', NEW m, Dropped(todo, m, todo'), todo[m].op \in {"tune", "reset"},
             value' \in [Setting -> Value]
      PROVE  IInv'
  <2>1. Ordered(todo)' /\ todo[m].op # "open"
    BY <1>4 DEF Claims
  <2>2. Ready(todo', files')
    BY <1>1, <1>4, <2>1, ReadyAfter
  <2>3. TypeOK'
    BY <1>1, <1>2, <1>4, <2>1, <2>2, TypeKept DEF TypeOK, Files
  <2> QED BY <1>4, <2>3 DEF IInv, Claims
<1>5. CASE Writable(Head(todo).key)
  <2>1. /\ value' = [value EXCEPT ![Head(todo).key] = Written(Head(todo))]
        /\ todo' = Tail(todo) /\ foreign' = foreign \ {Head(todo).key}
    BY <1>5 DEF WriteSetting
  <2>2. Claims' /\ value' \in [Setting -> Value]
    BY <1>1, <1>2, <1>5, <2>1, WriteKeeps
  <2> QED BY <1>2, <1>3, <1>4, <2>1, <2>2
<1>6. CASE ~Writable(Head(todo).key) /\ Head(todo).key # "userTos"
  <2>1. todo' = Tail(todo) /\ UNCHANGED <<value, foreign>>
    BY <1>6 DEF WriteSetting
  <2>2. todo[1] # Step("tune", "userTos")
    BY <1>3, <1>6, StepFields
  <2>3. \A k \in 1..1 : ~Writable(todo[k].key)
    BY <1>3, <1>6
  <2>4. Claims'
    BY <1>1, <1>2, <1>3, <2>1, <2>2, <2>3, SkipKeeps
  <2>5. value' \in [Setting -> Value]
    BY <1>1, <2>1 DEF TypeOK
  <2> QED BY <1>2, <1>3, <1>4, <2>1, <2>4, <2>5
\* EnableUserTOS has failed: the policies are not tried.
<1>7. CASE ~Writable(Head(todo).key) /\ Head(todo).key = "userTos"
  <2>1. todo' = Tail(Tail(todo)) /\ UNCHANGED <<value, foreign>>
    BY <1>7 DEF WriteSetting
  <2>2. todo[1] = Step("tune", "userTos")
    <3>1. todo \in Seq(SettingStep \cup FileStep) /\ 1 \in 1..Len(todo)
      BY <1>1, <1>3 DEF Ordered
    <3>2. todo[1] \in SettingStep \cup FileStep
      BY <3>1
    <3>3. todo[1] = Step(todo[1].op, todo[1].key)
      BY <3>2 DEF SettingStep, FileStep, Step
    <3>4. todo[1] # Step("reset", "userTos")
      BY <1>1, <3>1 DEF Ordered
    <3> QED BY <1>2, <1>3, <1>7, <3>3, <3>4
  <2>3. Len(todo) >= 2 /\ todo[2] = Step("tune", "policies")
    <3>1. 1 \in 1..Len(todo)
      BY <1>3
    <3>2. 1 + 1 <= Len(todo) /\ todo[1 + 1] = Step("tune", "policies")
      BY <1>1, <2>2, <3>1 DEF Ordered
    <3> QED BY <1>3, <3>2
  <2>4. Dropped(todo, 2, todo')
    BY <1>1, <1>2, <2>1, <2>3, TailTailDropped
  <2>5. \A k \in 1..2 : ~Writable(todo[k].key) \/ todo[k] = Step("tune", "policies")
    <3>1. \A k \in 1..2 : k = 1 \/ k = 2
      OBVIOUS
    <3> QED BY <1>3, <1>7, <2>3, <3>1
  <2>6. todo[2] # Step("tune", "userTos") /\ todo[2].op = "tune"
    BY <2>3, StepEqual, StepFields
  <2>7. Claims'
    BY <1>1, <1>2, <2>1, <2>4, <2>5, <2>6, SkipKeeps
  <2>8. value' \in [Setting -> Value]
    BY <1>1, <2>1 DEF TypeOK
  <2> QED BY <1>4, <2>4, <2>6, <2>7, <2>8
<1> QED BY <1>5, <1>6, <1>7

\* A step that only concerns the files.
LEMMA FileStepKeeps ==
  ASSUME IInv, NEW m, Dropped(todo, m, todo'),
         UNCHANGED <<value, foreign, locked, proc, command, done>>, files' \in Files,
         \A k \in 1..m : todo[k].op \in {"open", "write"},
         todo[m].op = "open" => files'[todo[m].key] = "empty"
  PROVE  IInv'
<1>1. TypeOK /\ Claims /\ Ordered(todo) /\ m \in 1..Len(todo)
  BY InvParts DEF Claims, Dropped
<1>2. m \in 1..m
  <2>1. todo \in Seq(SettingStep \cup FileStep)
    BY <1>1 DEF Ordered
  <2> QED BY <1>1, <2>1
<1>3. todo[m] # Step("tune", "userTos")
  BY <1>2, StepFields
<1>4. Claims'
  BY <1>1, <1>3, SkipKeeps
<1>5. Ordered(todo)'
  BY <1>4 DEF Claims
<1>6. Ready(todo', files')
  BY <1>1, <1>2, <1>5, ReadyAfter
<1>7. TypeOK'
  BY <1>1, <1>5, <1>6, TypeKept DEF TypeOK
<1> QED BY <1>4, <1>7 DEF IInv, Claims

\* A stream that opens, and the two that do not.
LEMMA OpenKeeps ==
  ASSUME IInv, OpenFile
  PROVE  IInv'
<1>1. TypeOK /\ Ordered(todo) /\ files \in Files
  BY InvParts DEF Claims, TypeOK, Files
<1>2. /\ todo # <<>> /\ Head(todo).op = "open"
      /\ UNCHANGED <<value, foreign, locked, proc, command, done>>
  BY DEF OpenFile
<1>3. Dropped(todo, 1, Tail(todo)) /\ Head(todo) = todo[1] /\ Len(todo) \in Nat /\ Len(todo) > 0
  BY <1>1, <1>2, TailDropped
<1> DEFINE f == Head(todo).key
<1>4. /\ 1 \in 1..Len(todo) /\ f \in {"backup", "script"} /\ todo[1] = Step("open", f)
  <2>1. todo \in Seq(SettingStep \cup FileStep) /\ 1 \in 1..Len(todo)
    BY <1>1, <1>3 DEF Ordered
  <2>2. todo[1] \in SettingStep \cup FileStep
    BY <2>1
  <2>3. todo[1] \in FileStep
    BY <1>2, <1>3, <2>2 DEF SettingStep
  <2> QED BY <1>2, <1>3, <2>1, <2>3 DEF FileStep, Step
<1>5. CASE files' = [files EXCEPT ![f] = "empty"] /\ todo' = Tail(todo)
  <2>1. files' \in Files /\ files'[todo[1].key] = "empty"
    BY <1>1, <1>3, <1>4, <1>5 DEF Files
  <2>2. \A k \in 1..1 : todo[k].op \in {"open", "write"}
    BY <1>2, <1>3
  <2> QED BY <1>2, <1>3, <1>5, <2>1, <2>2, FileStepKeeps
<1>6. CASE files' = files /\ f = "backup" /\ todo' = SubSeq(todo, 5, Len(todo))
  <2>1. 1 + 3 <= Len(todo) /\ todo[1 + 3] = Step("write", "script")
    BY <1>1, <1>4, <1>6 DEF Ordered
  <2>2. 4 \in 1..Len(todo) /\ todo[4] = Step("write", "script") /\ 4 + 1 = 5
    BY <1>3, <2>1
  <2>3. Dropped(todo, 4, todo')
    BY <1>1, <1>6, <2>2, SubSeqDropped
  <2>4. todo[4].op = "write"
    BY <2>2, StepFields
  <2>5. \A k \in 1..4 : todo[k].op \in {"open", "write"}
    BY <1>1, <2>2, <2>4 DEF Ordered
  <2> QED BY <1>1, <1>2, <1>6, <2>3, <2>4, <2>5, FileStepKeeps
<1>7. CASE files' = files /\ f # "backup" /\ todo' = SubSeq(todo, 3, Len(todo))
  <2>1. 1 + 1 <= Len(todo) /\ todo[1 + 1] = Step("write", "script")
    BY <1>1, <1>4, <1>7 DEF Ordered
  <2>2. 2 \in 1..Len(todo) /\ todo[2] = Step("write", "script") /\ 2 + 1 = 3
    BY <1>3, <2>1
  <2>3. Dropped(todo, 2, todo')
    BY <1>1, <1>7, <2>2, SubSeqDropped
  <2>4. todo[2].op = "write"
    BY <2>2, StepFields
  <2>5. \A k \in 1..2 : todo[k].op \in {"open", "write"}
    BY <1>1, <2>2, <2>4 DEF Ordered
  <2> QED BY <1>1, <1>2, <1>7, <2>3, <2>4, <2>5, FileStepKeeps
<1> QED BY <1>5, <1>6, <1>7 DEF OpenFile

\* A file is closed.
LEMMA FileKeeps ==
  ASSUME IInv, WriteFile
  PROVE  IInv'
<1>1. TypeOK /\ Ordered(todo) /\ files \in Files
  BY InvParts DEF Claims, TypeOK, Files
<1>2. /\ todo # <<>> /\ Head(todo).op = "write" /\ todo' = Tail(todo)
      /\ files' = [files EXCEPT ![Head(todo).key] = "written"]
      /\ UNCHANGED <<value, foreign, locked, proc, command, done>>
  BY DEF WriteFile
<1>3. Dropped(todo, 1, todo') /\ Head(todo) = todo[1]
  BY <1>1, <1>2, TailDropped
<1>4. files' \in Files
  BY <1>1, <1>2 DEF Files
<1>5. \A k \in 1..1 : todo[k].op \in {"open", "write"} /\ todo[k].op # "open"
  BY <1>2, <1>3
<1> QED BY <1>2, <1>3, <1>4, <1>5, FileStepKeeps

\* A command that ends has done what it answers for.
LEMMA FinishKeeps ==
  ASSUME IInv, Finish
  PROVE  IInv'
<1>1. TypeOK /\ Claims /\ Settled
  BY InvParts DEF Claims
<1>2. /\ command # "none" /\ todo = <<>> /\ todo' = <<>> /\ command' = "none"
      /\ done' = IF Succeeds(command) THEN command ELSE "none"
      /\ UNCHANGED <<value, foreign, locked, proc, files>>
  BY DEF Finish
<1>3. Ordered(todo)' /\ Ready(todo', files')
  BY <1>2, EmptyOrdered
<1>4. /\ value' \in [Setting -> Value] /\ files' \in Files /\ proc' \in {"none", "admin", "user"}
      /\ command \in Command \cup {"none"}
  BY <1>1, <1>2 DEF TypeOK, Files
<1>5. done' \in Command \cup {"none"} /\ command' \in Command \cup {"none"}
  BY <1>2, <1>4
<1>6. TypeOK'
  BY <1>1, <1>2, <1>3, <1>4, <1>5, TypeKept DEF TypeOK
<1>7. Settled'
  BY <1>1, <1>2 DEF Settled
<1>8. (IndexSetLast /\ IndexResetFirst /\ TosBeforePolicies)'
  BY <1>2 DEF IndexSetLast, IndexResetFirst, TosBeforePolicies
<1>9. (NetworkProgress /\ RestoreProgress)'
  BY <1>2 DEF NetworkProgress, RestoreProgress
<1>10. (StatusNeverOverclaims /\ PoliciesNeedTos)'
  BY <1>1, <1>2 DEF Claims, StatusNeverOverclaims, AreTweaksApplied, PoliciesNeedTos, Kept
<1>11. \A i \in 1..Len(todo) : FALSE
  BY <1>2
<1>12. RestoreCovers'
  <2> SUFFICES ASSUME done' = "restore"
               PROVE  \A s \in Kept(Restorable) :
                        value[s] = "default"
    BY <1>2 DEF RestoreCovers, Kept
  <2>1. command = "restore" /\ Elevated
    BY <1>2 DEF Succeeds
  <2> QED BY <1>1, <1>11, <2>1 DEF Claims, RestoreProgress
<1>13. NetworkSuccessIsReal'
  <2> SUFFICES ASSUME done' = "network"
               PROVE  /\ \A s \in Profile \ foreign : value[s] = "tuned"
                      /\ \E i \in Interface : i \in foreign \/ value[i] = "tuned"
                      /\ \A s \in Kept(NetworkSetting) : value[s] = "tuned"
    BY <1>2 DEF NetworkSuccessIsReal, Kept
  <2>1. command = "network" /\ Succeeds("network")
    BY <1>2
  <2>2. /\ Elevated /\ Profile \cap locked = {}
        /\ \E i \in Interface : i \notin locked
    BY <2>1 DEF Succeeds
  <2>3. \A s \in Kept(NetworkSetting) : value[s] = "tuned"
    BY <1>1, <1>11, <2>1, <2>2 DEF Claims, NetworkProgress
  <2>4. \A s \in Interface \cup Profile : s \notin locked /\ s \notin foreign => value[s] = "tuned"
    BY <2>3 DEF Kept, NetworkSetting
  <2> QED BY <2>2, <2>3, <2>4
<1> QED BY <1>3, <1>6, <1>7, <1>8, <1>9, <1>10, <1>12, <1>13 DEF IInv

\* What others write they answer for.
LEMMA OtherKeeps ==
  ASSUME IInv, OtherTool
  PROVE  IInv'
<1>1. PICK x \in Contended, v \in Value :
        value' = [value EXCEPT ![x] = v] /\ foreign' = foreign \cup {x}
  BY DEF OtherTool
<1>2. UNCHANGED <<locked, proc, command, todo, done, files>>
  BY DEF OtherTool
<1>3. /\ TypeOK /\ Claims /\ x \in Setting /\ x \in foreign'
      /\ x # "userTos" /\ x # "policies"
  BY <1>1, InvParts, NamedFacts, SettingsAssumption DEF Setting, Named
<1>4. /\ value' \in [Setting -> Value]
      /\ \A s \in Setting \ foreign' : value'[s] = value[s] /\ s \notin foreign
      /\ value'["userTos"] = value["userTos"] /\ value'["policies"] = value["policies"]
  BY <1>1, <1>3, Typing DEF Setting, Named
<1>5. Ordered(todo)' /\ Ready(todo', files') /\ (Elevated' <=> Elevated)
  BY <1>2, <1>3, TypeMakesReady DEF Claims, Ordered, Elevated
<1>6. TypeOK'
  BY <1>1, <1>2, <1>3, <1>4, <1>5, TypeKept DEF TypeOK, Files
<1>7. Settled'
  BY <1>2, <1>3, <1>4, Typing DEF Claims, Settled
<1>8. \A S : Kept(S)' \subseteq Kept(S)
  BY <1>1, <1>2 DEF Kept
<1>9. \A s \in Setting : s \in Kept(Setting)' => value'[s] = value[s]
  BY <1>2, <1>4 DEF Kept
<1>10. /\ Interface \subseteq Setting /\ NetworkSetting \subseteq Setting
       /\ Restorable \subseteq Setting
  BY DEF Setting, Named, NetworkSetting, Restorable, Profile
<1>11. \A S : S \subseteq Setting => \A s \in Kept(S)' : value'[s] = value[s] /\ s \in Kept(S)
  BY <1>4, <1>8 DEF Kept
<1>12. IndexSetLast'
  BY <1>2, <1>3, <1>5, <1>10, <1>11 DEF Claims, IndexSetLast
<1>13. value'["throttling"] = value["throttling"] \/ "throttling" \in foreign'
  BY <1>4 DEF Setting, Named
<1>14. IndexResetFirst'
  BY <1>1, <1>2, <1>3, <1>5, <1>13 DEF Claims, IndexResetFirst
<1>15. TosBeforePolicies' /\ PoliciesNeedTos'
  BY <1>2, <1>3, <1>4 DEF Claims, TosBeforePolicies, PoliciesNeedTos
<1>16. NetworkProgress'
  BY <1>2, <1>3, <1>5, <1>10, <1>11 DEF Claims, NetworkProgress
<1>17. RestoreProgress'
  BY <1>2, <1>3, <1>5, <1>10, <1>11 DEF Claims, RestoreProgress
<1>18. StatusNeverOverclaims'
  BY <1>1, <1>3, <1>10, <1>11, <1>13 DEF Claims, StatusNeverOverclaims, AreTweaksApplied
<1>19. RestoreCovers'
  BY <1>2, <1>3, <1>10, <1>11 DEF Claims, RestoreCovers
<1>20. NetworkSuccessIsReal'
  <2> SUFFICES ASSUME done = "network"
               PROVE  /\ \A s \in Profile \ foreign' : value'[s] = "tuned"
                      /\ \E i \in Interface : i \in foreign' \/ value'[i] = "tuned"
                      /\ \A s \in Kept(NetworkSetting)' : value'[s] = "tuned"
    BY <1>2 DEF NetworkSuccessIsReal
  <2>1. /\ \A s \in Profile \ foreign : value[s] = "tuned"
        /\ \E i \in Interface : i \in foreign \/ value[i] = "tuned"
        /\ \A s \in Kept(NetworkSetting) : value[s] = "tuned"
    BY <1>3 DEF Claims, NetworkSuccessIsReal
  <2>2. \A s \in Profile \ foreign' : value'[s] = "tuned"
    BY <1>4, <2>1 DEF Profile, Setting, Named
  <2>3. PICK i \in Interface : i \in foreign \/ value[i] = "tuned"
    BY <2>1
  <2>4. i \in foreign' \/ value'[i] = "tuned"
    BY <1>1, <1>4, <1>10, <2>3
  <2> QED BY <1>10, <1>11, <2>1, <2>2, <2>4
<1> QED BY <1>5, <1>6, <1>7, <1>12, <1>14, <1>15, <1>16, <1>17, <1>18, <1>19, <1>20 DEF IInv

\* One step per action.
LEMMA StepKeeps == IInv /\ [Next]_vars => IInv'
<1> SUFFICES ASSUME IInv, [Next]_vars PROVE IInv'
  OBVIOUS
<1>1. TypeOK
  BY InvParts
<1>2. CASE UNCHANGED vars
  BY <1>2 DEF IInv, vars, TypeOK, Ordered, Settled, IndexSetLast, IndexResetFirst,
     TosBeforePolicies, NetworkProgress, RestoreProgress, StatusNeverOverclaims,
     AreTweaksApplied, PoliciesNeedTos, RestoreCovers, NetworkSuccessIsReal, Elevated, Kept
<1>3. CASE Launch
  <2>1. todo = <<>>
    BY <1>3, InvParts DEF Launch, Claims, Settled
  <2> QED BY <1>3, <2>1, IdleKeeps DEF Launch
<1>4. CASE \E c \in Command : Begin(c)
  BY <1>4, BeginKeeps
<1>5. CASE WriteSetting
  BY <1>5, SettingKeeps
<1>6. CASE OpenFile
  BY <1>6, OpenKeeps
<1>7. CASE WriteFile
  BY <1>7, FileKeeps
<1>8. CASE Finish
  BY <1>8, FinishKeeps
<1>9. CASE Stop
  BY <1>9, IdleKeeps DEF Stop
<1>10. CASE OtherTool
  BY <1>10, OtherKeeps
<1> QED BY <1>2, <1>3, <1>4, <1>5, <1>6, <1>7, <1>8, <1>9, <1>10 DEF Next

-----------------------------------------------------------------------------
(* The theorems. *)

\* The claims of the status screen and of the results follow from what is still
\* to be written: this is kept by every command, cut short anywhere.
THEOREM Invariance == Spec => []IInv
<1>1. Init => IInv
  BY Initially
<1>2. IInv /\ [Next]_vars => IInv'
  BY StepKeeps
<1> QED BY <1>1, <1>2, PTL DEF Spec

\* The steps that are left are writes of their kinds, and a file is written only
\* after it has been truncated.
THEOREM TypeCorrect == Spec => []TypeOK
<1>1. IInv => TypeOK
  BY DEF IInv
<1> QED BY <1>1, Invariance, PTL

\* AreTweaksApplied looks at the throttling index only; while the index is the one
\* DisPing wrote, it never speaks of an interface that can be written and has not been.
THEOREM StatusIsTrue == Spec => []StatusNeverOverclaims
<1>1. IInv => StatusNeverOverclaims
  BY DEF IInv
<1> QED BY <1>1, Invariance, PTL

\* RestoreFactoryDefaults that reports success has restored what it covers.
THEOREM RestoreIsTrue == Spec => []RestoreCovers
<1>1. IInv => RestoreCovers
  BY DEF IInv
<1> QED BY <1>1, Invariance, PTL

\* ApplyAllNetworkTweaks that reports success has set the profile values, an
\* interface, and every other network setting that did not refuse.
THEOREM NetworkIsTrue == Spec => []NetworkSuccessIsReal
<1>1. IInv => NetworkSuccessIsReal
  BY DEF IInv
<1> QED BY <1>1, Invariance, PTL

\* SetupGamingQoSPolicies: no gaming policy without DSCP marking.
THEOREM PoliciesHaveTos == Spec => []PoliciesNeedTos
<1>1. IInv => PoliciesNeedTos
  BY DEF IInv
<1> QED BY <1>1, Invariance, PTL

\* ExecuteExtremeBoost changes no setting before its backup is behind it.
THEOREM BackupComesFirst == Spec => BackupPrecedesTuning
<1>1. IInv /\ [Next]_vars =>
        [command = "boost" /\ todo' # todo /\ value' # value
           => \A i \in DOMAIN todo : todo[i].op \notin {"open", "write"}]_vars
  <2> SUFFICES ASSUME IInv, Next, todo' # todo, value' # value, NEW i \in DOMAIN todo,
                      todo[i].op \in {"open", "write"}
               PROVE  FALSE
    BY DEF vars
  <2>1. WriteSetting
    BY DEF Next, Launch, Begin, OpenFile, WriteFile, Finish, Stop, OtherTool
  <2>2. Ordered(todo) /\ todo # <<>> /\ Head(todo).op \in {"tune", "reset"}
    BY <2>1 DEF WriteSetting, IInv
  <2>3. Head(todo) = todo[1] /\ Len(todo) \in Nat /\ Len(todo) > 0
    BY <2>2, TailDropped
  <2>4. todo \in Seq(SettingStep \cup FileStep)
    BY <2>2 DEF Ordered
  <2>5. i \in 1..Len(todo) /\ 1 \in 1..i
    BY <2>4
  <2>6. todo[1].op \in {"open", "write"}
    BY <2>2, <2>5 DEF Ordered
  <2> QED BY <2>2, <2>3, <2>6
<1> QED BY <1>1, Invariance, PTL DEF Spec, BackupPrecedesTuning
=============================================================================
