----------------------------- MODULE DnsShield -----------------------------
(***************************************************************************)
(* The choice of a DNS resolver under the VPN shield:                      *)
(* DnsOptimizer::AutoSelectFastestDns (src/src/dns_optimizer.cpp), the     *)
(* detection of VpnGuard (src/src/vpn_guard.cpp) it starts with, and a VPN *)
(* or DPI-bypass client that starts and stops when it likes.               *)
(***************************************************************************)
EXTENDS Sequences, Integers, FiniteSets

CONSTANTS
  Providers,      \* the resolvers of the table, in its order
  Iterations,     \* probes per provider
  Latencies,      \* what a probe can measure, in ms; never above the timeout
  Physical,       \* Ethernet and Wi-Fi adapters that are up
  NamedVirtual,   \* virtual adapters whose name has one of the keywords
  DescribedVirtual \* virtual adapters only the description gives away

Virtual == NamedVirtual \cup DescribedVirtual
Adapter == Physical \cup Virtual
Provider == {Providers[i] : i \in DOMAIN Providers}

Timeout == 1200   \* SO_RCVTIMEO

ASSUME DnsAssumption ==
  /\ Providers \in Seq(Provider) /\ Len(Providers) > 0
  /\ Iterations \in 1..3
  /\ Latencies \subseteq 0..Timeout
  /\ IsFiniteSet(Adapter)
  /\ Physical \cap Virtual = {}
  /\ Provider \cap {"isp", "fake", "tunnel"} = {}

VARIABLES
  kind,           \* of the client: [known, fake, owns], fixed in a behaviour
  client,         \* "off", "starting" (its process runs), "on" (tunnel and DNS)
  admin,          \* DisPing runs elevated: netsh works
  dns,            \* each adapter's list of servers
  spliced,        \* history: adapters whose list netsh has added to after it
                  \* had failed to set it
  pc,             \* where AutoSelectFastestDns is
  meter,          \* of the provider being probed: probes made, their sum and count
  results,        \* of the providers probed so far
  best,           \* index of the chosen provider
  todo,           \* adapters of the loop still to come
  nic,            \* the adapter being configured
  ret1,           \* the first netsh call for it succeeded
  applied,        \* adapters configured successfully
  outcome,        \* of the last run: "none", "skipped", "refused", "ok", "failed"
  guarded         \* history: a client was detectable throughout the check

servers == <<dns, spliced>>
run  == <<meter, results, best, todo, nic, ret1, applied>>
vars == <<kind, client, admin, servers, pc, run, outcome, guarded>>

\* A server is named by who runs it and by its rank: a provider has two.
Server == (Provider \cup {"isp", "fake", "tunnel"}) \X {1, 2}
PrimaryOf(p)   == <<p, 1>>
SecondaryOf(p) == <<p, 2>>

Kinds == [known : BOOLEAN, fake : BOOLEAN, owns : SUBSET Adapter]

\* Before the first probe of a provider.
NoProbes == [tries |-> 0, sum |-> 0, count |-> 0]

Init ==
  /\ kind \in Kinds
  /\ client = "off"
  /\ admin \in BOOLEAN
  /\ dns = [a \in Adapter |-> <<PrimaryOf("isp")>>]
  /\ spliced = {}
  /\ pc = "menu"
  /\ meter = NoProbes /\ results = <<>> /\ best = 0
  /\ todo = {} /\ nic = "none" /\ ret1 = FALSE /\ applied = 0
  /\ outcome = "none"
  /\ guarded = FALSE

-----------------------------------------------------------------------------
(* The client.  One whose image is in GetProtectedProcesses is `known`; one   *)
(* that answers from 198.18.x.x or 127.0.0.1 is `fake`.                       *)

ClientDns == <<PrimaryOf(IF kind.fake THEN "fake" ELSE "tunnel")>>

\* IsVpnOrDpiBypassActive's process snapshot, and HasFakeIpOrVpnDns.
ProtectedProcess == client # "off" /\ kind.known
Lists(a, server) == \E i \in DOMAIN dns[a] : dns[a][i] = server
FakeIpDns == \E a \in Adapter : Lists(a, PrimaryOf("fake"))
Detectable == ProtectedProcess \/ FakeIpDns

ClientStart ==
  /\ client = "off"
  /\ client' = "starting"
  /\ UNCHANGED <<kind, admin, servers, pc, run, outcome, guarded>>

ClientUp ==
  /\ client = "starting"
  /\ client' = "on"
  /\ dns' = [a \in Adapter |-> IF a \in kind.owns THEN ClientDns ELSE dns[a]]
  /\ spliced' = spliced \ kind.owns
  /\ UNCHANGED <<kind, admin, pc, run, outcome, guarded>>

\* The client gives its adapters back to DHCP.
ClientDown ==
  /\ client # "off"
  /\ client' = "off"
  /\ dns' = [a \in Adapter |-> IF client = "on" /\ a \in kind.owns
                                 THEN <<PrimaryOf("isp")>> ELSE dns[a]]
  /\ spliced' = IF client = "on" THEN spliced \ kind.owns ELSE spliced
  /\ guarded' = FALSE
  /\ UNCHANGED <<kind, admin, pc, run, outcome>>

-----------------------------------------------------------------------------
(* AutoSelectFastestDns. *)

\* Menu entry '6' after 'y', or --dns.
Begin ==
  /\ pc = "menu"
  /\ pc' = "scanProcesses"
  /\ meter' = NoProbes /\ results' = <<>> /\ best' = 0
  /\ todo' = {} /\ nic' = "none" /\ ret1' = FALSE /\ applied' = 0
  /\ outcome' = "none"
  /\ guarded' = Detectable
  /\ UNCHANGED <<kind, client, admin, servers>>

\* Every return.
Return(how) ==
  /\ outcome' = how
  /\ meter' = NoProbes /\ results' = <<>> /\ best' = 0
  /\ todo' = {} /\ nic' = "none" /\ ret1' = FALSE /\ applied' = 0
  /\ pc' = "menu"
  /\ guarded' = FALSE
  /\ UNCHANGED <<kind, client, admin, servers>>

\* IsVpnOrDpiBypassActive.  Without a process snapshot it returns at once, and
\* the DNS check of the caller is the only one left.
ScanProcesses ==
  /\ pc = "scanProcesses"
  /\ \/ /\ ProtectedProcess
        /\ Return("skipped")
     \/ /\ ~ProtectedProcess
        /\ pc' = "scanDns"
        /\ UNCHANGED <<kind, client, admin, servers, run, outcome, guarded>>
     \/ /\ pc' = "scanDnsAgain"
        /\ guarded' = (guarded /\ FakeIpDns)
        /\ UNCHANGED <<kind, client, admin, servers, run, outcome>>

\* Mutant of ScanDns: only the processes are looked at.
ScanDnsIgnored(next) ==
  /\ pc' = next
  /\ UNCHANGED <<kind, client, admin, servers, run, outcome, guarded>>

\* HasFakeIpOrVpnDns.
ScanDns(next) ==
  \/ /\ FakeIpDns
     /\ Return("skipped")
  \/ /\ ~FakeIpDns
     /\ pc' = next
     /\ UNCHANGED <<kind, client, admin, servers, run, outcome, guarded>>

\* It is called twice: at the end of IsVpnOrDpiBypassActive, and by the caller.
ScanDnsFirst  == pc = "scanDns" /\ ScanDns("scanDnsAgain")
ScanDnsSecond == pc = "scanDnsAgain" /\ ScanDns("benchmark")

\* MeasureDnsLatency: what was measured, or 9999 without an answer.
Lost == 9999
Probe == Latencies \cup {Lost}

\* Mutant of MeasureLatency: one probe more than asked for.
MeasureLatencyOnceMore ==
  /\ pc = "benchmark"
  /\ Len(results) < Len(Providers)
  /\ meter.tries <= Iterations
  /\ \E lat \in Probe :
       LET valid == lat < 9000 IN
       meter' = [tries |-> meter.tries + 1,
                 sum   |-> IF valid THEN meter.sum + lat ELSE meter.sum,
                 count |-> IF valid THEN meter.count + 1 ELSE meter.count]
  /\ UNCHANGED <<kind, client, admin, servers, pc, results, best, todo, nic, ret1, applied,
                 outcome, guarded>>

\* BenchmarkDnsProviders, the loop over the probes: only valid ones count.
MeasureLatency ==
  /\ pc = "benchmark"
  /\ Len(results) < Len(Providers)
  /\ meter.tries < Iterations
  /\ \E lat \in Probe :
       LET valid == lat < 9000 IN
       meter' = [tries |-> meter.tries + 1,
                 sum   |-> IF valid THEN meter.sum + lat ELSE meter.sum,
                 count |-> IF valid THEN meter.count + 1 ELSE meter.count]
  /\ UNCHANGED <<kind, client, admin, servers, pc, results, best, todo, nic, ret1, applied,
                 outcome, guarded>>

\* The loop over the providers: one is done, the next starts from nothing.
PushResult ==
  /\ pc = "benchmark"
  /\ Len(results) < Len(Providers)
  /\ meter.tries = Iterations
  /\ results' = Append(results, [sum |-> meter.sum, count |-> meter.count])
  /\ meter' = NoProbes
  /\ UNCHANGED <<kind, client, admin, servers, pc, best, todo, nic, ret1, applied, outcome, guarded>>

\* Averages are kept in sixths of a millisecond, exact for up to three probes.
Sixths == 6

\* Mutant of Average: the sum is divided by all the probes.
AverageOverAll(r) ==
  IF r.count = 0 THEN 999 * Sixths ELSE (Sixths * r.sum) \div Iterations

Average(r) ==
  IF r.count = 0 THEN 999 * Sixths ELSE (Sixths * r.sum) \div r.count

\* The first of the sorted results; std::sort puts equal averages in any order.
Choose ==
  /\ pc = "benchmark"
  /\ Len(results) = Len(Providers)
  /\ \E i \in DOMAIN results :
       /\ \A j \in DOMAIN results : Average(results[i]) <= Average(results[j])
       /\ \/ /\ results[i].count > 0
             /\ best' = i
             /\ pc' = "list"
          \/ /\ results[i].count = 0
             /\ pc' = "refused"
             /\ UNCHANGED best
  /\ UNCHANGED <<kind, client, admin, servers, meter, results, todo, nic, ret1, applied, outcome, guarded>>

Refuse == pc = "refused" /\ Return("refused")

\* Mutant of List: every adapter that is up is configured.
ListAll ==
  /\ pc = "list"
  /\ todo' = Adapter
  /\ pc' = "loop"
  /\ UNCHANGED <<kind, client, admin, servers, meter, results, best, nic, ret1, applied, outcome, guarded>>

\* GetActiveAdapters, of which the loop takes those with isPhysical: neither
\* name nor description has a keyword.
List ==
  /\ pc = "list"
  /\ \/ /\ Physical # {}
        /\ todo' = Physical
        /\ pc' = "loop"
        /\ UNCHANGED <<kind, client, admin, servers, meter, results, best, nic, ret1, applied, outcome, guarded>>
     \/ /\ Physical = {}
        /\ Return("failed")

\* Mutant of Primary: the resolver is put in front of the old ones.
PrimaryKeepsList(a) == [dns EXCEPT ![a] = <<PrimaryOf(Providers[best])>> \o Tail(@)]

\* netsh set dnsservers replaces the list by the primary server.
Primary(a) == [dns EXCEPT ![a] = <<PrimaryOf(Providers[best])>>]

\* netsh add dnsservers index=2 puts the secondary behind the first of the list.
Inserted(list, server) == <<Head(list), server>> \o Tail(list)

\* Without elevation a call fails; with it, it may.
Netsh == IF admin THEN BOOLEAN ELSE {FALSE}

\* SetDnsServers: the shield looks at the name only, then netsh sets the primary
\* server.
SetPrimary ==
  /\ pc = "loop"
  /\ \E a \in todo :
       /\ todo' = todo \ {a}
       /\ \/ /\ a \in NamedVirtual
             /\ UNCHANGED <<servers, nic, ret1, pc>>
          \/ /\ a \notin NamedVirtual
             /\ ret1' \in Netsh
             /\ dns' = IF ret1' THEN Primary(a) ELSE dns
             /\ spliced' = IF ret1' THEN spliced \ {a} ELSE spliced
             /\ nic' = a
             /\ pc' = "add"
  /\ UNCHANGED <<kind, client, admin, meter, results, best, applied, outcome, guarded>>

\* netsh add dnsservers, whatever became of the first call, whose result counts;
\* nobody looks at that of the second.  A server that is listed is not added.
AddSecondary ==
  /\ pc = "add"
  /\ LET second == SecondaryOf(Providers[best]) IN
       \/ /\ TRUE \in Netsh /\ ~Lists(nic, second)
          /\ dns' = [dns EXCEPT ![nic] = Inserted(@, second)]
          /\ spliced' = IF ret1 THEN spliced ELSE spliced \cup {nic}
       \/ UNCHANGED servers
  /\ applied' = IF ret1 THEN applied + 1 ELSE applied
  /\ ret1' = FALSE
  /\ pc' = "loop"
  /\ UNCHANGED <<kind, client, admin, meter, results, best, todo, nic, outcome, guarded>>

Finish ==
  /\ pc = "loop"
  /\ todo = {}
  /\ Return(IF applied > 0 THEN "ok" ELSE "failed")

\* The window is closed in the middle; another run may follow.
Killed == pc # "menu" /\ Return("none")

AutoSelect == Begin \/ ScanProcesses \/ ScanDnsFirst \/ ScanDnsSecond
              \/ MeasureLatency \/ PushResult \/ Choose \/ Refuse \/ List \/ SetPrimary \/ AddSecondary \/ Finish
              \/ Killed

Client == ClientStart \/ ClientUp \/ ClientDown

Next == AutoSelect \/ Client

Spec == Init /\ [][Next]_vars

-----------------------------------------------------------------------------
(* Properties. *)

\* What the benchmark knows of a provider: the sum and the number of its valid probes.
Result == [sum : Nat, count : 0..Iterations]

\* Every variable has the values the code can give it; an adapter has at least
\* one server, and none twice.
TypeOK ==
  /\ kind \in Kinds
  /\ client \in {"off", "starting", "on"}
  /\ admin \in BOOLEAN
  /\ \A a \in Adapter :
       /\ dns[a] \in Seq(Server) /\ Len(dns[a]) > 0
       /\ \A i, j \in DOMAIN dns[a] : dns[a][i] = dns[a][j] => i = j
  /\ spliced \subseteq Adapter /\ ret1 \in BOOLEAN
  /\ pc \in {"menu", "scanProcesses", "scanDns", "scanDnsAgain", "benchmark",
             "refused", "list", "loop", "add"}
  /\ meter \in [tries : 0..Iterations, sum : Nat, count : 0..Iterations]
  /\ results \in Seq(Result) /\ Len(results) <= Len(Providers)
  /\ best \in 0..Len(Providers)
  /\ todo \subseteq Adapter
  /\ nic \in Adapter \cup {"none"}
  /\ applied \in 0..Cardinality(Adapter)
  /\ outcome \in {"none", "skipped", "refused", "ok", "failed"}
  /\ guarded \in BOOLEAN

ByDisPing == UNCHANGED client

\* "PROTECT VPN: Never touch DNS on virtual/TUN adapters": whoever gives the
\* adapter away, its name or its description, and whenever the tunnel appears.
TunnelDnsUntouched ==
  [][ByDisPing => \A a \in Virtual : dns'[a] = dns[a]]_vars

\* "If Incy, Happ, Zapret, or Fake-IP DNS is running, NEVER override DNS!": a
\* client that can be detected and stays so during the check keeps all of its
\* DNS settings for the whole run, even if it reconnects meanwhile.  (One that
\* starts after the check is not protected: the check is not repeated.)
ShieldHolds == [][guarded /\ ByDisPing => dns' = dns]_vars

\* SetDnsServers leaves an adapter with at most two servers and never mixes those
\* of two providers, not even after a run that was killed half-way and another that
\* chose differently -- except where its second call has succeeded after its first
\* had failed (the code makes it whatever the first returned), until a later call
\* or the client sets the list anew.
OneProviderPerAdapter ==
  \A a \in Adapter \ spliced :
    /\ Len(dns[a]) <= 2
    /\ Len(dns[a]) = 2 /\ dns[a][1][1] \in Provider => dns[a][1][1] = dns[a][2][1]

\* The provider chosen answered, and none that answered has a smaller mean over
\* its valid probes; "No reachable DNS providers found" is said only when no
\* provider has a mean under 999 ms.
Answered == {i \in DOMAIN results : results[i].count > 0}
ChoiceIsFastest ==
  /\ best # 0 =>
       /\ best \in Answered
       /\ \A j \in Answered :
            results[best].sum * results[j].count <= results[j].sum * results[best].count
  /\ pc = "refused" =>
       \A j \in Answered : results[j].sum >= 999 * results[j].count

-----------------------------------------------------------------------------
(* The inductive invariant behind every property; DnsShieldProofs.tla proves  *)
(* it.                                                                        *)

\* Behind the first server of a list there are only secondaries of providers, none
\* twice.
WellFormed(list) ==
  /\ Len(list) > 0
  /\ list[1][2] = 1
  /\ \A i \in 2..Len(list) : list[i] \in Provider \X {2}
  /\ \A i, j \in DOMAIN list : list[i] = list[j] => i = j
ListsWellFormed ==
  /\ dns \in [Adapter -> Seq(Server)]
  /\ \A a \in Adapter : WellFormed(dns[a])

\* The results are a list, at most one per provider; no more probes are valid than
\* were made.
Measurements ==
  /\ results \in Seq(Result) /\ Len(results) <= Len(Providers)
  /\ meter \in [tries : 0..Iterations, sum : Nat, count : 0..Iterations]
  /\ meter.count <= meter.tries

\* A choice is made after the benchmark and forgotten with the results.
ChoiceStands ==
  /\ best \in 0..Len(Providers)
  /\ best # 0 => pc \in {"list", "loop", "add"}
  /\ ChoiceIsFastest

\* An adapter is counted once: still to come, in hand, or configured.
InHand == IF pc = "add" THEN 1 ELSE 0
AdaptersCounted ==
  /\ applied \in Nat
  /\ pc \notin {"loop", "add"} => applied = 0
  /\ applied + InHand + Cardinality(todo) <= Cardinality(Adapter)

\* Where the program is, and what it said.
Places ==
  /\ admin \in BOOLEAN /\ guarded \in BOOLEAN
  /\ ret1 \in BOOLEAN /\ spliced \subseteq Adapter
  /\ pc \in {"menu", "scanProcesses", "scanDns", "scanDnsAgain", "benchmark",
             "refused", "list", "loop", "add"}
  /\ nic \in Adapter \cup {"none"}
  /\ outcome \in {"none", "skipped", "refused", "ok", "failed"}

\* The loop writes physical adapters only, with a provider that was chosen; the
\* adapter between its two calls has one server, the client's or that provider's,
\* if the first has succeeded.
LoopTargets ==
  /\ todo \subseteq Physical
  /\ pc \in {"list", "loop", "add"} => best \in DOMAIN Providers
  /\ pc = "add" =>
       /\ nic \in Physical
       /\ ret1 => /\ Len(dns[nic]) = 1
                  /\ dns[nic][1][1] \in Provider => dns[nic][1][1] = Providers[best]

\* An address of the client's own is seen only while it is connected.
FakeIsTheClients ==
  \A a \in Adapter : dns[a][1][1] = "fake" => client = "on" /\ a \in kind.owns /\ kind.fake

\* A client detectable since the run began is still so, and by its DNS once the
\* process check is behind; past the whole check there is none.
GuardedIsDetectable ==
  guarded =>
    /\ pc \in {"scanProcesses", "scanDns", "scanDnsAgain"}
    /\ pc = "scanProcesses" => Detectable
    /\ pc \in {"scanDns", "scanDnsAgain"} => FakeIpDns

IInv ==
  /\ kind \in Kinds
  /\ client \in {"off", "starting", "on"}
  /\ ListsWellFormed
  /\ OneProviderPerAdapter
  /\ Places
  /\ Measurements
  /\ ChoiceStands
  /\ AdaptersCounted
  /\ LoopTargets
  /\ FakeIsTheClients
  /\ GuardedIsDetectable
=============================================================================
