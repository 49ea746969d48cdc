-------------------------- MODULE DnsShieldProofs --------------------------
(***************************************************************************)
(* Proofs about DnsShield for every set of adapters, every table of        *)
(* providers and every client: the inductive invariant IInv and the        *)
(* properties that follow from it.                                         *)
(***************************************************************************)
EXTENDS DnsShield, SequenceTheorems, FiniteSetTheorems, TLAPS

\* A list of one server of the first rank is well formed.
LEMMA OneServer ==
  ASSUME NEW x \in Provider \cup {"isp", "fake", "tunnel"}
  PROVE  LET list == <<PrimaryOf(x)>> IN
           /\ list \in Seq(Server) /\ WellFormed(list)
           /\ Len(list) = 1 /\ list[1][1] = x
<1> DEFINE list == <<PrimaryOf(x)>>
<1>1. PrimaryOf(x) \in Server /\ PrimaryOf(x)[1] = x /\ PrimaryOf(x)[2] = 1
  BY DEF PrimaryOf, Server
<1>2. list \in Seq(Server) /\ Len(list) = 1 /\ list[1] = PrimaryOf(x) /\ DOMAIN list = {1}
  BY <1>1
<1> HIDE DEF list
<1>3. WellFormed(list)
  BY <1>1, <1>2 DEF WellFormed
<1> QED
  BY <1>1, <1>2, <1>3 DEF list

\* netsh add dnsservers index=2 moves all but the first server one place down.
LEMMA InsertedIsSecond ==
  ASSUME NEW list \in Seq(Server), Len(list) > 0, NEW s \in Server
  PROVE  LET new == Inserted(list, s) IN
           /\ new \in Seq(Server) /\ Len(new) = Len(list) + 1
           /\ new[1] = list[1] /\ new[2] = s
           /\ \A i \in 3..Len(new) : new[i] = list[i - 1]
<1> DEFINE front == <<Head(list), s>>
           back  == Tail(list)
           new   == Inserted(list, s)
<1>1. Head(list) = list[1] /\ list[1] \in Server
  OBVIOUS
<1>2. /\ front \in Seq(Server) /\ Len(front) = 2
      /\ front[1] = list[1] /\ front[2] = s
  BY <1>1
<1>3. /\ back \in Seq(Server) /\ Len(back) = Len(list) - 1
      /\ \A i \in 1..Len(back) : back[i] = list[i + 1]
  OBVIOUS
<1>4. new = front \o back
  BY DEF Inserted
<1> HIDE DEF front, back, new
<1>5. /\ new \in Seq(Server) /\ Len(new) = Len(front) + Len(back)
      /\ \A i \in 1..Len(front) + Len(back) :
           new[i] = IF i <= Len(front) THEN front[i] ELSE back[i - Len(front)]
  BY <1>2, <1>3, <1>4, ConcatProperties
<1>6. Len(new) = Len(list) + 1 /\ new[1] = list[1] /\ new[2] = s
  BY <1>2, <1>3, <1>5
<1>7. ASSUME NEW i \in 3..Len(new) PROVE new[i] = list[i - 1]
  <2>1. new[i] = back[i - 2] /\ i - 2 \in 1..Len(back)
    BY <1>2, <1>3, <1>5
  <2> QED
    BY <1>3, <2>1
<1> QED
  BY <1>5, <1>6, <1>7 DEF new

\* So a secondary that is not listed yet leaves the list well formed.
LEMMA InsertedWellFormed ==
  ASSUME NEW list \in Seq(Server), WellFormed(list), NEW p \in Provider,
         ~\E i \in DOMAIN list : list[i] = SecondaryOf(p)
  PROVE  WellFormed(Inserted(list, SecondaryOf(p)))
<1> DEFINE s   == SecondaryOf(p)
           new == Inserted(list, SecondaryOf(p))
<1>1. s \in Server /\ s \in Provider \X {2} /\ \A i \in 1..Len(list) : list[i] # s
  BY DEF SecondaryOf, Server
<1>2. Len(list) \in Nat /\ Len(list) > 0
  BY DEF WellFormed
<1>3. /\ new \in Seq(Server) /\ Len(new) = Len(list) + 1
      /\ new[1] = list[1] /\ new[2] = s
      /\ \A i \in 3..Len(new) : new[i] = list[i - 1]
  BY <1>1, <1>2, InsertedIsSecond
<1> HIDE DEF s, new
<1>4. \A i \in 2..Len(new) : new[i] \in Provider \X {2}
  <2> SUFFICES ASSUME NEW i \in 2..Len(new) PROVE new[i] \in Provider \X {2}
    OBVIOUS
  <2>1. CASE i = 2
    BY <1>1, <1>3, <2>1
  <2>2. CASE i # 2
    BY <1>2, <1>3, <2>2 DEF WellFormed
  <2> QED
    BY <2>1, <2>2
<1>5. ASSUME NEW i \in 1..Len(new), NEW j \in 1..Len(new), new[i] = new[j] PROVE i = j
  <2> DEFINE old(k) == IF k = 1 THEN 1 ELSE k - 1
  <2>1. ASSUME NEW k \in 1..Len(new), k # 2
        PROVE  old(k) \in 1..Len(list) /\ new[k] = list[old(k)] /\ new[k] # s
    BY <1>1, <1>2, <1>3, <2>1
  <2>2. CASE i = 2 \/ j = 2
    BY <1>3, <1>5, <2>1, <2>2
  <2>3. CASE i # 2 /\ j # 2
    <3>1. list[old(i)] = list[old(j)] /\ old(i) \in DOMAIN list /\ old(j) \in DOMAIN list
      BY <1>5, <2>1, <2>3
    <3>2. old(i) = old(j)
      BY <3>1 DEF WellFormed
    <3> QED
      BY <1>2, <1>3, <2>3, <3>2
  <2> QED
    BY <2>2, <2>3
<1> QED
  BY <1>2, <1>3, <1>4, <1>5 DEF WellFormed, new

\* Only the first server of a list can be an address of the client's own.
LEMMA FakeIsFirst ==
  ASSUME ListsWellFormed, NEW a \in Adapter, Lists(a, PrimaryOf("fake"))
  PROVE  dns[a][1][1] = "fake"
<1>1. PICK i \in DOMAIN dns[a] : dns[a][i] = PrimaryOf("fake")
  BY DEF Lists
<1>2. dns[a] \in Seq(Server)
  BY DEF ListsWellFormed
<1>3. i = 1
  <2>1. CASE i \in 2..Len(dns[a])
    <3>1. dns[a][i] \in Provider \X {2}
      BY <2>1 DEF ListsWellFormed, WellFormed
    <3> QED
      BY <1>1, <3>1 DEF PrimaryOf
  <2> QED
    BY <1>2, <2>1
<1> QED
  BY <1>1, <1>3 DEF PrimaryOf

\* A mean over one, two or three probes is exact in sixths of a millisecond.
LEMMA AverageExact ==
  ASSUME NEW r \in Result, r.count # 0
  PROVE  /\ r.count \in {1, 2, 3} /\ r.sum \in Nat /\ Average(r) \in Nat
         /\ Average(r) * r.count = 6 * r.sum
<1>1. r.sum \in Nat /\ r.count \in {1, 2, 3}
  BY DnsAssumption DEF Result
<1>2. Average(r) = (6 * r.sum) \div r.count
  BY DEF Average, Sixths
<1>3. CASE r.count = 1
  BY <1>1, <1>2, <1>3
<1>4. CASE r.count = 2
  BY <1>1, <1>2, <1>4
<1>5. CASE r.count = 3
  BY <1>1, <1>2, <1>5
<1> QED
  BY <1>1, <1>3, <1>4, <1>5

\* Comparing the averages compares the means.
LEMMA AverageCompares ==
  ASSUME NEW r \in Result, NEW q \in Result, r.count # 0, q.count # 0,
         Average(r) <= Average(q)
  PROVE  r.sum * q.count <= q.sum * r.count
<1> DEFINE x == Average(r)
           y == Average(q)
<1>1. /\ r.count \in {1, 2, 3} /\ r.sum \in Nat /\ x \in Nat /\ x * r.count = 6 * r.sum
      /\ q.count \in {1, 2, 3} /\ q.sum \in Nat /\ y \in Nat /\ y * q.count = 6 * q.sum
  BY AverageExact
<1>2. x <= y
  OBVIOUS
<1> HIDE DEF x, y
<1>3. CASE r.count = 1
  BY <1>1, <1>2, <1>3
<1>4. CASE r.count = 2
  BY <1>1, <1>2, <1>4
<1>5. CASE r.count = 3
  BY <1>1, <1>2, <1>5
<1> QED
  BY <1>1, <1>3, <1>4, <1>5

\* A provider without an answer stands at 999 ms.
LEMMA UnreachableAt999 ==
  ASSUME NEW r, NEW q \in Result, r.count = 0, q.count # 0, Average(r) <= Average(q)
  PROVE  q.sum >= 999 * q.count
<1> DEFINE y == Average(q)
<1>1. q.count \in {1, 2, 3} /\ q.sum \in Nat /\ y \in Nat /\ y * q.count = 6 * q.sum
  BY AverageExact
<1>2. 5994 <= y
  BY DEF Average, Sixths
<1> HIDE DEF y
<1> QED
  BY <1>1, <1>2

\* Between two runs nothing is measured, chosen or counted.
LEMMA NothingMeasured ==
  ASSUME meter = NoProbes, results = << >>, best = 0, pc # "refused"
  PROVE  Measurements /\ ChoiceStands
<1>1. Iterations \in Nat \ {0} /\ Len(Providers) \in Nat /\ Len(Providers) > 0
  BY DnsAssumption
<1>2. results \in Seq(Result) /\ Len(results) = 0
  BY EmptySeq
<1> QED
  BY <1>1, <1>2 DEF Measurements, ChoiceStands, ChoiceIsFastest, NoProbes

\* Nor is an adapter.
LEMMA NothingCounted ==
  ASSUME applied = 0, todo = {}, pc # "add"
  PROVE  AdaptersCounted
  BY FS_EmptySet, FS_CardinalityType, DnsAssumption DEF AdaptersCounted, InHand

\* So it is after a step that forgets them.
LEMMA ForgottenIsNothing ==
  ASSUME meter' = NoProbes, results' = << >>, best' = 0, applied' = 0, todo' = {},
         pc' \notin {"refused", "add"}
  PROVE  Measurements' /\ ChoiceStands' /\ AdaptersCounted'
<1>1. Iterations \in Nat \ {0} /\ Len(Providers) \in Nat /\ Len(Providers) > 0
  BY DnsAssumption
<1>2. results' \in Seq(Result) /\ Len(results') = 0
  BY EmptySeq
<1>3. Measurements' /\ ChoiceStands'
  BY <1>1, <1>2 DEF Measurements, ChoiceStands, ChoiceIsFastest, NoProbes
<1>4. AdaptersCounted'
  BY FS_EmptySet, FS_CardinalityType, DnsAssumption DEF AdaptersCounted, InHand
<1> QED
  BY <1>3, <1>4

\* The physical adapters are some of the adapters.
LEMMA PhysicalCounted ==
  /\ Cardinality(Adapter) \in Nat /\ Cardinality(Physical) \in Nat
  /\ Cardinality(Physical) <= Cardinality(Adapter)
  BY FS_Subset, FS_CardinalityType, DnsAssumption DEF Adapter

\* At first every adapter has the provider's server, and nothing runs.
LEMMA InitIInv == Init => IInv
<1> SUFFICES ASSUME Init PROVE IInv
  OBVIOUS
<1> USE DEF Init
<1>1. \A a \in Adapter : dns[a] = <<PrimaryOf("isp")>>
  OBVIOUS
<1>2. \A a \in Adapter : /\ dns[a] \in Seq(Server) /\ WellFormed(dns[a])
                         /\ Len(dns[a]) = 1 /\ dns[a][1][1] = "isp"
  BY <1>1, OneServer
<1>3. ListsWellFormed /\ FakeIsTheClients /\ OneProviderPerAdapter
  BY <1>2 DEF ListsWellFormed, FakeIsTheClients, OneProviderPerAdapter
<1>4. LoopTargets /\ GuardedIsDetectable /\ Places
  BY DEF LoopTargets, GuardedIsDetectable, Places
<1>5. Measurements /\ ChoiceStands
  BY NothingMeasured
<1>6. AdaptersCounted
  BY NothingCounted
<1> QED
  BY <1>3, <1>4, <1>5, <1>6 DEF IInv

\* A list handed over by the client, or given back to DHCP, is one server of no
\* provider.
LEMMA HandedOver ==
  ASSUME IInv, NEW x \in {"isp", "fake", "tunnel"}, NEW S \in SUBSET Adapter,
         dns' = [a \in Adapter |-> IF a \in S THEN <<PrimaryOf(x)>> ELSE dns[a]],
         spliced' = spliced \ S, UNCHANGED <<pc, todo, best, nic, ret1>>
  PROVE  ListsWellFormed' /\ OneProviderPerAdapter' /\ LoopTargets'
<1> USE DEF IInv
<1>1. \A a \in Adapter : dns'[a] = IF a \in S THEN <<PrimaryOf(x)>> ELSE dns[a]
  OBVIOUS
<1>2. /\ <<PrimaryOf(x)>> \in Seq(Server) /\ WellFormed(<<PrimaryOf(x)>>)
      /\ Len(<<PrimaryOf(x)>>) = 1 /\ <<PrimaryOf(x)>>[1][1] \notin Provider
  BY OneServer, DnsAssumption
<1> HIDE DEF IInv
<1>3. ListsWellFormed'
  <2>1. \A a \in Adapter : dns'[a] \in Seq(Server) /\ WellFormed(dns'[a])
    BY <1>1, <1>2 DEF IInv, ListsWellFormed
  <2> QED
    BY <2>1 DEF ListsWellFormed
<1>4. OneProviderPerAdapter'
  <2> SUFFICES ASSUME NEW a \in Adapter, a \notin spliced'
               PROVE  /\ Len(dns'[a]) <= 2
                      /\ Len(dns'[a]) = 2 /\ dns'[a][1][1] \in Provider
                           => dns'[a][1][1] = dns'[a][2][1]
    BY DEF OneProviderPerAdapter
  <2>1. CASE a \in S
    BY <1>1, <1>2, <2>1
  <2>2. CASE a \notin S
    BY <1>1, <2>2 DEF IInv, OneProviderPerAdapter
  <2> QED
    BY <2>1, <2>2
<1>5. LoopTargets'
  BY <1>1, <1>2 DEF IInv, LoopTargets, Adapter
<1> QED
  BY <1>3, <1>4, <1>5

\* The client keeps IInv.
LEMMA ClientIInv == ASSUME IInv, Client PROVE IInv'
<1> USE DEF IInv, run, servers
<1>0. Measurements' /\ ChoiceStands' /\ AdaptersCounted' /\ Places'
  <2>1. UNCHANGED <<admin, pc, meter, results, best, todo, nic, ret1, applied, outcome>>
        /\ guarded' \in BOOLEAN /\ spliced' \subseteq spliced
    BY DEF Client, ClientStart, ClientUp, ClientDown, Places
  <2>2. Measurements' /\ ChoiceStands'
    BY <2>1 DEF Measurements, ChoiceStands, ChoiceIsFastest, Answered
  <2>3. AdaptersCounted' /\ Places'
    BY <2>1 DEF AdaptersCounted, InHand, Places
  <2> QED
    BY <2>1, <2>2, <2>3
<1>1. CASE ClientStart
  BY <1>0, <1>1 DEF ClientStart, ListsWellFormed, OneProviderPerAdapter, LoopTargets,
    FakeIsTheClients, GuardedIsDetectable, Detectable, ProtectedProcess, FakeIpDns, Lists
<1>2. CASE ClientUp
  <2> USE <1>2 DEF ClientUp
  <2>1. PICK x \in {"fake", "tunnel"} : ClientDns = <<PrimaryOf(x)>> /\ (x = "fake" => kind.fake)
    BY DEF ClientDns
  <2>2. dns' = [a \in Adapter |-> IF a \in kind.owns THEN <<PrimaryOf(x)>> ELSE dns[a]]
    BY <2>1
  <2>3. kind.owns \in SUBSET Adapter
    BY DEF Kinds
  <2>4. ListsWellFormed' /\ OneProviderPerAdapter' /\ LoopTargets'
    BY <2>2, <2>3, HandedOver
  <2>5. <<PrimaryOf(x)>>[1][1] = x
    BY DEF PrimaryOf
  <2>6. FakeIsTheClients'
    BY <2>1, <2>2, <2>5 DEF FakeIsTheClients
  <2>7. ~FakeIpDns
    BY FakeIsFirst DEF FakeIsTheClients, FakeIpDns
  <2>8. GuardedIsDetectable'
    BY <2>7 DEF GuardedIsDetectable, Detectable, ProtectedProcess
  <2> QED
    BY <1>0, <2>4, <2>6, <2>8
<1>3. CASE ClientDown
  <2> USE <1>3 DEF ClientDown
  <2> DEFINE S == IF client = "on" THEN kind.owns ELSE {}
  <2>1. /\ dns' = [a \in Adapter |-> IF a \in S THEN <<PrimaryOf("isp")>> ELSE dns[a]]
        /\ spliced' = spliced \ S /\ S \in SUBSET Adapter
    BY DEF Kinds
  <2>2. <<PrimaryOf("isp")>>[1][1] = "isp"
    BY DEF PrimaryOf
  <2>3. ListsWellFormed' /\ OneProviderPerAdapter' /\ LoopTargets'
    BY <2>1, HandedOver
  <2>4. FakeIsTheClients'
    BY <2>1, <2>2 DEF FakeIsTheClients
  <2>5. GuardedIsDetectable'
    BY DEF GuardedIsDetectable
  <2> QED
    BY <1>0, <2>3, <2>4, <2>5
<1> QED
  BY <1>0, <1>1, <1>2, <1>3 DEF Client

\* The shield's check keeps IInv.
LEMMA CheckIInv ==
  ASSUME IInv, Begin \/ ScanProcesses \/ ScanDnsFirst \/ ScanDnsSecond \/ Killed
  PROVE  IInv'
<1> USE DEF IInv, run, servers, Return
<1>0. dns' = dns /\ spliced' = spliced /\ kind' = kind /\ client' = client
  BY DEF Begin, ScanProcesses, ScanDnsFirst, ScanDnsSecond, ScanDns, Killed
<1>1. ListsWellFormed' /\ OneProviderPerAdapter' /\ FakeIsTheClients'
  BY <1>0 DEF ListsWellFormed, OneProviderPerAdapter, FakeIsTheClients
<1>2. LoopTargets'
  BY <1>0 DEF LoopTargets, Begin, ScanProcesses, ScanDnsFirst, ScanDnsSecond,
              ScanDns, Killed
<1>3. (FakeIpDns' <=> FakeIpDns) /\ (Detectable' <=> Detectable)
  BY <1>0 DEF FakeIpDns, Lists, Detectable, ProtectedProcess
<1>4. GuardedIsDetectable'
  BY <1>3 DEF GuardedIsDetectable, Detectable, Begin, ScanProcesses,
              ScanDnsFirst, ScanDnsSecond, ScanDns, Killed
<1>5. Places'
  BY DEF Places, Begin, ScanProcesses, ScanDnsFirst, ScanDnsSecond, ScanDns, Killed,
         Detectable, ProtectedProcess, FakeIpDns
<1>6. Measurements' /\ ChoiceStands' /\ AdaptersCounted'
  <2>1. CASE pc' # "menu" /\ ~Begin
    BY <2>1 DEF ScanProcesses, ScanDnsFirst, ScanDnsSecond, ScanDns, Killed,
      Measurements, ChoiceStands, ChoiceIsFastest, Answered, AdaptersCounted, InHand
  <2>2. CASE Begin \/ Return("skipped") \/ Return("none")
    BY <2>2, ForgottenIsNothing DEF Begin
  <2> QED
    BY <2>1, <2>2 DEF ScanProcesses, ScanDnsFirst, ScanDnsSecond, ScanDns, Killed
<1> QED
  BY <1>0, <1>1, <1>2, <1>4, <1>5, <1>6

\* A probe, and a provider done, keep the measurements well formed.
LEMMA ProbesKeepMeasurements ==
  ASSUME Measurements, MeasureLatency \/ PushResult
  PROVE  Measurements'
<1> USE DEF Measurements
<1>0. Iterations \in Nat /\ Len(Providers) \in Nat
  BY DnsAssumption
<1>1. CASE MeasureLatency
  <2>1. PICK lat \in Probe :
          LET valid == lat < 9000 IN
          meter' = [tries |-> meter.tries + 1,
                    sum   |-> IF valid THEN meter.sum + lat ELSE meter.sum,
                    count |-> IF valid THEN meter.count + 1 ELSE meter.count]
    BY <1>1 DEF MeasureLatency
  <2>2. lat \in Nat
    BY DnsAssumption DEF Probe, Lost, Timeout
  <2>3. meter.tries + 1 \in 0..Iterations /\ UNCHANGED results
    BY <1>0, <1>1 DEF MeasureLatency
  <2> QED
    BY <1>0, <2>1, <2>2, <2>3
<1>2. CASE PushResult
  <2> DEFINE r == [sum |-> meter.sum, count |-> meter.count]
  <2>1. r \in Result
    BY DEF Result
  <2>2. results' = Append(results, r) /\ meter' = NoProbes /\ Len(results) < Len(Providers)
    BY <1>2 DEF PushResult
  <2>3. results' \in Seq(Result) /\ Len(results') = Len(results) + 1
    BY <2>1, <2>2, AppendProperties
  <2> QED
    BY <1>0, <2>2, <2>3 DEF NoProbes
<1> QED
  BY <1>1, <1>2

\* The choice is the fastest provider, or says rightly that there is none.
LEMMA ChooseIsRight ==
  ASSUME Measurements, ChoiceStands, Choose
  PROVE  ChoiceStands'
<1> USE DEF Measurements
<1>1. DOMAIN results = 1..Len(results) /\ Len(results) \in Nat
      /\ \A j \in DOMAIN results : results[j] \in Result
  OBVIOUS
<1>2. best = 0 /\ Len(results) = Len(Providers) /\ results' = results /\ pc = "benchmark"
  BY DEF Choose, ChoiceStands
<1>3. PICK i \in DOMAIN results :
        /\ \A j \in DOMAIN results : Average(results[i]) <= Average(results[j])
        /\ \/ results[i].count > 0 /\ best' = i /\ pc' = "list"
           \/ results[i].count = 0 /\ pc' = "refused" /\ UNCHANGED best
  BY DEF Choose
<1>4. \A j \in DOMAIN results : results[j].count \in Nat
  BY <1>1, DnsAssumption DEF Result
<1>5. CASE results[i].count > 0 /\ best' = i /\ pc' = "list"
  <2>1. \A j \in Answered : results[i].sum * results[j].count
                              <= results[j].sum * results[i].count
    BY <1>1, <1>3, <1>4, <1>5, AverageCompares DEF Answered
  <2>2. i \in Answered /\ Answered' = Answered /\ i \in 0..Len(Providers)
    BY <1>1, <1>2, <1>5 DEF Answered
  <2> QED
    BY <1>2, <1>5, <2>1, <2>2 DEF ChoiceStands, ChoiceIsFastest
<1>6. CASE results[i].count = 0 /\ pc' = "refused" /\ UNCHANGED best
  <2>1. \A j \in Answered : results[j].sum >= 999 * results[j].count
    BY <1>1, <1>3, <1>4, <1>6, UnreachableAt999 DEF Answered
  <2>2. Answered' = Answered
    BY <1>2 DEF Answered
  <2> QED
    BY <1>2, <1>6, <2>1, <2>2 DEF ChoiceStands, ChoiceIsFastest
<1> QED
  BY <1>3, <1>5, <1>6

\* The benchmark, the choice and the returns keep IInv.
LEMMA ChoiceIInv ==
  ASSUME IInv, MeasureLatency \/ PushResult \/ Choose \/ Refuse \/ List \/ Finish
  PROVE  IInv'
<1> USE DEF IInv, run, servers, Return
<1>0. dns' = dns /\ spliced' = spliced /\ kind' = kind /\ client' = client
  BY DEF MeasureLatency, PushResult, Choose, Refuse, List, Finish
<1>1. ListsWellFormed' /\ OneProviderPerAdapter' /\ FakeIsTheClients'
  BY <1>0 DEF ListsWellFormed, OneProviderPerAdapter, FakeIsTheClients
<1>2. ~guarded'
  BY DEF GuardedIsDetectable, MeasureLatency, PushResult, Choose, Refuse, List, Finish
<1>2a. GuardedIsDetectable'
  BY <1>2 DEF GuardedIsDetectable
<1>2b. Places'
  <2>2. ASSUME NEW how, Return(how), how \in {"refused", "ok", "failed"} PROVE Places'
    BY <2>2 DEF Places
  <2>3. CASE MeasureLatency \/ PushResult \/ Choose
    BY <2>3 DEF Places, MeasureLatency, PushResult, Choose
  <2>4. CASE List /\ Physical # {}
    BY <2>4 DEF Places, List
  <2>5. CASE List /\ Physical = {}
    BY <2>2, <2>5 DEF List
  <2>6. CASE Refuse
    BY <2>2, <2>6 DEF Refuse
  <2>7. CASE Finish
    BY <2>2, <2>7 DEF Finish
  <2> QED
    BY <2>3, <2>4, <2>5, <2>6, <2>7
<1>3. GuardedIsDetectable' /\ Places'
  BY <1>2a, <1>2b
<1>4. CASE MeasureLatency \/ PushResult
  <2>1. best = 0 /\ best' = 0 /\ pc' = "benchmark"
    BY <1>4 DEF ChoiceStands, MeasureLatency, PushResult
  <2>2. ChoiceStands'
    BY <2>1 DEF ChoiceStands, ChoiceIsFastest
  <2>3. LoopTargets' /\ AdaptersCounted'
    BY <1>4 DEF LoopTargets, AdaptersCounted, InHand, MeasureLatency, PushResult
  <2>4. Measurements'
    BY <1>4, ProbesKeepMeasurements
  <2> QED
    BY <1>0, <1>1, <1>3, <2>2, <2>3, <2>4
<1>5. CASE Choose
  <2>1. DOMAIN results = DOMAIN Providers
    BY <1>5, DnsAssumption DEF Choose, Measurements
  <2>2. LoopTargets'
    BY <1>5, <2>1 DEF Choose, LoopTargets
  <2>3. Measurements' /\ AdaptersCounted'
    BY <1>5 DEF Choose, Measurements, AdaptersCounted, InHand
  <2>4. ChoiceStands'
    BY <1>5, ChooseIsRight
  <2> QED
    BY <1>0, <1>1, <1>3, <2>2, <2>3, <2>4
<1>6. CASE Refuse \/ Finish \/ (List /\ Physical = {})
  <2>1. LoopTargets'
    BY <1>6 DEF Refuse, List, Finish, LoopTargets
  <2>2. /\ meter' = NoProbes /\ results' = << >> /\ best' = 0 /\ applied' = 0
        /\ todo' = {} /\ pc' = "menu"
    BY <1>6 DEF Refuse, List, Finish
  <2>3. Measurements' /\ ChoiceStands' /\ AdaptersCounted'
    BY <2>2, ForgottenIsNothing
  <2> QED
    BY <1>0, <1>1, <1>3, <2>1, <2>3
<1>7. CASE List /\ Physical # {}
  <2>1. todo' = Physical /\ applied' = applied /\ pc' = "loop" /\ pc = "list"
    BY <1>7 DEF List
  <2>2. LoopTargets'
    BY <1>7 DEF LoopTargets, List
  <2>3. Measurements' /\ ChoiceStands'
    BY <1>7 DEF List, Measurements, ChoiceStands, ChoiceIsFastest, Answered
  <2>4. AdaptersCounted'
    BY <2>1, PhysicalCounted DEF AdaptersCounted, InHand
  <2> QED
    BY <1>0, <1>1, <1>3, <2>2, <2>3, <2>4
<1> QED
  BY <1>4, <1>5, <1>6, <1>7

\* The adapter loop counts every adapter once.
LEMMA LoopCounts ==
  ASSUME LoopTargets, AdaptersCounted, SetPrimary \/ AddSecondary
  PROVE  AdaptersCounted'
<1>1. IsFiniteSet(todo) /\ Cardinality(todo) \in Nat /\ Cardinality(Adapter) \in Nat
  BY FS_Subset, FS_CardinalityType, DnsAssumption DEF LoopTargets, Adapter
<1>2. CASE SetPrimary
  <2>1. PICK a \in todo : todo' = todo \ {a}
    BY <1>2 DEF SetPrimary
  <2>2. Cardinality(todo') = Cardinality(todo) - 1
    BY <1>1, <2>1, FS_RemoveElement
  <2>3. pc = "loop" /\ pc' \in {"loop", "add"} /\ applied' = applied
    BY <1>2 DEF SetPrimary
  <2> QED
    BY <1>1, <2>2, <2>3 DEF AdaptersCounted, InHand
<1>3. CASE AddSecondary
  BY <1>1, <1>3 DEF AddSecondary, AdaptersCounted, InHand
<1> QED
  BY <1>2, <1>3

\* One list is written: what IInv says of the lists and of the loop needs to be
\* seen for it alone.
LEMMA OneListWritten ==
  ASSUME IInv, NEW n \in Physical, NEW list \in Seq(Server), WellFormed(list),
         dns' = [dns EXCEPT ![n] = list], UNCHANGED <<kind, client>>,
         spliced \subseteq spliced' \cup {n},
         list[1][1] = "fake" => dns[n][1][1] = "fake",
         n \notin spliced' => /\ Len(list) <= 2
                              /\ Len(list) = 2 /\ list[1][1] \in Provider
                                   => list[1][1] = list[2][1]
  PROVE  ListsWellFormed' /\ OneProviderPerAdapter' /\ FakeIsTheClients'
<1> USE DEF IInv
<1>1. n \in Adapter /\ dns \in [Adapter -> Seq(Server)]
  BY DEF Adapter, ListsWellFormed
<1>2. /\ dns' \in [Adapter -> Seq(Server)] /\ dns'[n] = list
      /\ \A a \in Adapter \ {n} : dns'[a] = dns[a]
  BY <1>1
<1>3. ListsWellFormed'
  <2>1. \A a \in Adapter : WellFormed(dns'[a])
    BY <1>2 DEF ListsWellFormed
  <2> QED
    BY <1>2, <2>1 DEF ListsWellFormed
<1>4. OneProviderPerAdapter'
  <2> SUFFICES ASSUME NEW a \in Adapter, a \notin spliced'
               PROVE  /\ Len(dns'[a]) <= 2
                      /\ Len(dns'[a]) = 2 /\ dns'[a][1][1] \in Provider
                           => dns'[a][1][1] = dns'[a][2][1]
    BY DEF OneProviderPerAdapter
  <2>1. CASE a = n
    <3>1. dns'[a] = list /\ n \notin spliced'
      BY <1>2, <2>1
    <3>2. /\ Len(list) <= 2
          /\ Len(list) = 2 /\ list[1][1] \in Provider => list[1][1] = list[2][1]
      BY <3>1
    <3> QED
      BY <3>1, <3>2
  <2>2. CASE a # n
    BY <1>2, <2>2 DEF OneProviderPerAdapter
  <2> QED
    BY <2>1, <2>2
<1>5. FakeIsTheClients'
  BY <1>1, <1>2 DEF FakeIsTheClients
<1> QED
  BY <1>3, <1>4, <1>5

\* The first call, if it succeeds, leaves the chosen provider's primary server.
LEMMA PrimaryIInv ==
  ASSUME IInv, SetPrimary
  PROVE  ListsWellFormed' /\ OneProviderPerAdapter' /\ FakeIsTheClients' /\ LoopTargets'
<1> USE DEF servers
<1> DEFINE p == Providers[best]
<1>1. best \in DOMAIN Providers /\ p \in Provider /\ p # "fake" /\ pc = "loop"
      /\ todo \subseteq Physical
  BY DnsAssumption DEF IInv, LoopTargets, SetPrimary, Provider
<1>2. UNCHANGED <<kind, client, best>>
  BY DEF SetPrimary
<1>3. PICK a \in todo :
        /\ todo' = todo \ {a}
        /\ \/ UNCHANGED <<dns, spliced, nic, ret1, pc>>
           \/ /\ ret1' \in Netsh
              /\ dns' = IF ret1' THEN Primary(a) ELSE dns
              /\ spliced' = IF ret1' THEN spliced \ {a} ELSE spliced
              /\ nic' = a
              /\ pc' = "add"
  BY DEF SetPrimary
<1>4. CASE UNCHANGED dns /\ UNCHANGED spliced
  <2>1. ListsWellFormed' /\ OneProviderPerAdapter' /\ FakeIsTheClients'
    BY <1>2, <1>4 DEF IInv, ListsWellFormed, OneProviderPerAdapter, FakeIsTheClients
  <2>2. CASE pc' # "add"
    BY <1>1, <1>2, <1>3, <2>2, <2>1 DEF LoopTargets
  <2>3. CASE pc' = "add" /\ ~ret1'
    BY <1>1, <1>2, <1>3, <2>3, <2>1 DEF LoopTargets
  <2>4. CASE pc' = "add" /\ ret1'
    <3>1. dns' = Primary(a) /\ nic' = a
      BY <1>1, <1>3, <2>4
    <3>2. dns'[a] = <<PrimaryOf(p)>>
      BY <1>1, <3>1 DEF Primary, IInv, ListsWellFormed, Adapter
    <3>3. Len(dns'[a]) = 1 /\ dns'[a][1][1] = p
      BY <1>1, <3>2, OneServer
    <3> QED
      BY <1>1, <1>2, <1>3, <2>1, <3>1, <3>3 DEF LoopTargets
  <2> QED
    BY <1>1, <1>3, <2>2, <2>3, <2>4
<1>5. CASE ret1' /\ dns' = Primary(a) /\ spliced' = spliced \ {a} /\ nic' = a /\ pc' = "add"
  <2>1. /\ <<PrimaryOf(p)>> \in Seq(Server) /\ WellFormed(<<PrimaryOf(p)>>)
        /\ Len(<<PrimaryOf(p)>>) = 1 /\ <<PrimaryOf(p)>>[1][1] = p
    BY <1>1, OneServer
  <2>2. a \in Physical /\ dns' = [dns EXCEPT ![a] = <<PrimaryOf(p)>>]
    BY <1>1, <1>5 DEF Primary
  <2> DEFINE list == <<PrimaryOf(p)>>
  <2>3. ListsWellFormed' /\ OneProviderPerAdapter' /\ FakeIsTheClients'
    <3>1. /\ list \in Seq(Server) /\ WellFormed(list) /\ Len(list) = 1
          /\ list[1][1] # "fake" /\ dns' = [dns EXCEPT ![a] = list]
      BY <1>1, <2>1, <2>2
    <3>2. a \in Physical /\ spliced \subseteq spliced' \cup {a}
      BY <1>5, <2>2
    <3> HIDE DEF list
    <3>3. Len(list) <= 2 /\ Len(list) # 2
      BY <3>1
    <3> QED
      BY <1>2, <3>1, <3>2, <3>3, OneListWritten
  <2>4. dns'[a] = <<PrimaryOf(p)>>
    BY <2>2 DEF IInv, ListsWellFormed, Adapter
  <2>5. LoopTargets'
    BY <1>1, <1>2, <1>3, <1>5, <2>1, <2>2, <2>4 DEF LoopTargets
  <2> QED
    BY <2>3, <2>5
<1> QED
  BY <1>3, <1>4, <1>5 DEF Netsh

\* The second puts the secondary behind whatever is first in the list.
LEMMA SecondaryIInv ==
  ASSUME IInv, AddSecondary
  PROVE  ListsWellFormed' /\ OneProviderPerAdapter' /\ FakeIsTheClients' /\ LoopTargets'
<1> USE DEF servers
<1> DEFINE p == Providers[best]
           s == SecondaryOf(Providers[best])
           list == dns[nic]
           new == Inserted(list, s)
<1>1. /\ p \in Provider /\ nic \in Physical /\ nic \in Adapter
      /\ ret1 => Len(list) = 1 /\ (list[1][1] \in Provider => list[1][1] = p)
  BY DnsAssumption DEF IInv, LoopTargets, AddSecondary, Provider, Adapter
<1>2. UNCHANGED <<kind, client, best, todo>> /\ pc' = "loop"
  BY DEF AddSecondary
<1>3. LoopTargets'
  BY <1>2 DEF IInv, LoopTargets, AddSecondary
<1>4. CASE UNCHANGED servers
  BY <1>2, <1>3, <1>4 DEF IInv, ListsWellFormed, OneProviderPerAdapter, FakeIsTheClients
<1>5. CASE /\ ~Lists(nic, s) /\ dns' = [dns EXCEPT ![nic] = new]
           /\ spliced' = IF ret1 THEN spliced ELSE spliced \cup {nic}
  <2>1. list \in Seq(Server) /\ WellFormed(list) /\ Len(list) > 0
    BY <1>1 DEF IInv, ListsWellFormed, WellFormed
  <2>2. WellFormed(new)
    BY <1>1, <1>5, <2>1, InsertedWellFormed DEF Lists
  <2>3. /\ new \in Seq(Server) /\ Len(new) = Len(list) + 1
        /\ new[1] = list[1] /\ new[2] = s
    <3>1. s \in Server
      BY <1>1 DEF SecondaryOf, Server
    <3> QED
      BY <2>1, <3>1, InsertedIsSecond
  <2>4. s[1] = p
    BY DEF SecondaryOf
  <2>5. ASSUME nic \notin spliced'
        PROVE  /\ Len(new) <= 2
               /\ new[1][1] \in Provider => new[1][1] = new[2][1]
    <3>1. ret1
      BY <1>5, <2>5
    <3>2. Len(list) = 1 /\ (list[1][1] \in Provider => list[1][1] = p)
      BY <1>1, <3>1
    <3> QED
      BY <2>3, <2>4, <3>2
  <2> HIDE DEF new, list, s
  <2>6. new[1][1] = "fake" => list[1][1] = "fake"
    BY <2>3
  <2>7. ListsWellFormed' /\ OneProviderPerAdapter' /\ FakeIsTheClients'
    BY <1>1, <1>2, <1>5, <2>2, <2>3, <2>5, <2>6, OneListWritten DEF list
  <2> QED
    BY <1>3, <2>7
<1> QED
  BY <1>4, <1>5 DEF AddSecondary

\* The adapter loop keeps IInv.
LEMMA LoopIInv == ASSUME IInv, SetPrimary \/ AddSecondary PROVE IInv'
<1>1. UNCHANGED <<kind, client, guarded, meter, results, best>>
      /\ pc \in {"loop", "add"} /\ pc' \in {"loop", "add"}
  BY DEF SetPrimary, AddSecondary
<1>1a. GuardedIsDetectable'
  BY <1>1 DEF IInv, GuardedIsDetectable
<1>1b. Measurements' /\ ChoiceStands'
  BY <1>1 DEF IInv, Measurements, ChoiceStands, ChoiceIsFastest, Answered
<1>2. AdaptersCounted'
  BY LoopCounts DEF IInv
<1>3. Places'
  BY DEF IInv, Places, LoopTargets, Adapter, SetPrimary, AddSecondary, Netsh, servers
<1>4. ListsWellFormed' /\ OneProviderPerAdapter' /\ FakeIsTheClients' /\ LoopTargets'
  BY PrimaryIInv, SecondaryIInv
<1> QED
  BY <1>1, <1>1a, <1>1b, <1>2, <1>3, <1>4 DEF IInv

\* The inductive invariant holds in every reachable state.
THEOREM Invariance == Spec => []IInv
<1>1. IInv /\ [Next]_vars => IInv'
  <2> SUFFICES ASSUME IInv, [Next]_vars PROVE IInv'
    OBVIOUS
  <2>1. CASE Next
    BY <2>1, ClientIInv, CheckIInv, ChoiceIInv, LoopIInv DEF Next, AutoSelect
  <2>2. CASE UNCHANGED vars
    BY <2>2 DEF vars, run, servers, IInv, ListsWellFormed, OneProviderPerAdapter, Places, Measurements, ChoiceStands,
      ChoiceIsFastest, Answered, AdaptersCounted, InHand, LoopTargets,
      FakeIsTheClients, GuardedIsDetectable, Detectable, ProtectedProcess,
      FakeIpDns, Lists
  <2> QED
    BY <2>1, <2>2
<1> QED
  BY InitIInv, <1>1, PTL DEF Spec

\* Whatever step DisPing takes, the adapters it writes are physical ones, and
\* then no client was detectable throughout the check.
LEMMA WritesPhysicalOnly ==
  ASSUME IInv, Next, UNCHANGED client
  PROVE  /\ \A a \in Virtual : dns'[a] = dns[a]
         /\ guarded => dns' = dns
<1> USE DEF IInv, servers
<1>1. CASE SetPrimary \/ AddSecondary
  <2>1. ~guarded
    BY <1>1 DEF GuardedIsDetectable, SetPrimary, AddSecondary
  <2>2. \A a \in Virtual : dns'[a] = dns[a]
    BY <1>1, DnsAssumption
    DEF LoopTargets, SetPrimary, AddSecondary, Primary, ListsWellFormed, Adapter
  <2> QED
    BY <2>1, <2>2
<1>2. CASE Begin \/ ScanProcesses \/ ScanDnsFirst \/ ScanDnsSecond \/ Killed
  BY <1>2 DEF Begin, ScanProcesses, ScanDnsFirst, ScanDnsSecond, ScanDns, Killed, Return
<1>3. CASE MeasureLatency \/ PushResult \/ Choose \/ Refuse \/ List \/ Finish
  BY <1>3 DEF MeasureLatency, PushResult, Choose, Refuse, List, Finish, Return
<1>4. CASE Client
  BY <1>4 DEF Client, ClientStart, ClientUp, ClientDown
<1> QED
  BY <1>1, <1>2, <1>3, <1>4 DEF Next, AutoSelect

\* The DNS of a tunnel is never touched, however its adapter is recognised and
\* whenever it appears.
THEOREM TunnelKeepsDns == Spec => TunnelDnsUntouched
<1>1. IInv /\ [Next]_vars =>
        [ByDisPing => \A a \in Virtual : dns'[a] = dns[a]]_vars
  BY WritesPhysicalOnly DEF ByDisPing
<1> QED
  BY Invariance, <1>1, PTL DEF Spec, TunnelDnsUntouched

\* A client that can be detected during the whole check keeps its DNS.
THEOREM DetectedClientKeepsDns == Spec => ShieldHolds
<1>1. IInv /\ [Next]_vars => [guarded /\ ByDisPing => dns' = dns]_vars
  BY WritesPhysicalOnly DEF ByDisPing
<1> QED
  BY Invariance, <1>1, PTL DEF Spec, ShieldHolds

\* The program is where the code can be, never counts more adapters than there are,
\* and leaves no adapter without a server and none with a server twice.
THEOREM TypeCorrect == Spec => []TypeOK
<1>1. IInv => TypeOK
  <2> SUFFICES ASSUME IInv PROVE TypeOK
    OBVIOUS
  <2> USE DEF IInv
  <2>1. applied \in 0..Cardinality(Adapter)
    <3>1. Cardinality(Adapter) \in Nat /\ Cardinality(todo) \in Nat
      BY FS_Subset, FS_CardinalityType, DnsAssumption DEF LoopTargets, Adapter
    <3> QED
      BY <3>1 DEF AdaptersCounted, InHand
  <2>2. todo \subseteq Adapter
    BY DEF LoopTargets, Adapter
  <2>3. \A a \in Adapter :
          /\ dns[a] \in Seq(Server) /\ Len(dns[a]) > 0
          /\ \A i, j \in DOMAIN dns[a] : dns[a][i] = dns[a][j] => i = j
    BY DEF ListsWellFormed, WellFormed
  <2> QED
    BY <2>1, <2>2, <2>3 DEF TypeOK, Places, Measurements, ChoiceStands
<1> QED
  BY Invariance, <1>1, PTL

\* The provider chosen is the fastest of those that answered; none is chosen only
\* when none has a mean below 999 ms.
THEOREM FastestIsChosen == Spec => []ChoiceIsFastest
<1>1. IInv => ChoiceIsFastest
  BY DEF IInv, ChoiceStands
<1> QED
  BY Invariance, <1>1, PTL

\* An adapter has the servers of two providers, or more than two, only where the
\* second call has added to a list that the first had failed to set.
THEOREM NeverMixed == Spec => []OneProviderPerAdapter
<1>1. IInv => OneProviderPerAdapter
  BY DEF IInv
<1> QED
  BY Invariance, <1>1, PTL
=============================================================================
