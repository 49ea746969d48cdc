---------------------------- MODULE PingMonitor ----------------------------
(***************************************************************************)
(* PingMonitor: BenchmarkMultipleTargets gives each target a thread that   *)
(* pings it Count times and keeps its statistics, the caller takes the     *)
(* results in the order of the targets, and PrintPingTable shows them.     *)
(* A monitor the caller runs itself (--ping, the benchmark) is the case of *)
(* one target: the caller waits for it either way.                         *)
(*                                                                         *)
(* Nothing calls Stop, so the shared flag each monitor clears stays clear. *)
(* Times are integers; the mean and the variance are kept by the sums they *)
(* are quotients of, and the jitter as the fraction num / den.             *)
(***************************************************************************)
EXTENDS Integers, Sequences, FiniteSets

CONSTANTS
  Target,    \* the hosts
  Commands,  \* the sequences of targets the program may measure
  Count,     \* pings per target: 10 or 15
  Rtts,      \* round-trip times
  Sentinel   \* 99999, the minimum before the first reply

ASSUME PingAssumption ==
  /\ Count \in Nat \ {0}
  /\ Rtts \subseteq Nat \ {0} /\ Sentinel \in Nat \ {0}
  /\ \A c \in Commands :
       /\ c \in Seq(Target) /\ c # <<>>
       /\ \A i, j \in DOMAIN c : i # j => c[i] # c[j]

Lost == -1

VARIABLES
  pc,        \* the caller: "menu" or "busy"
  targets,   \* what it measures, or measured last
  launched,  \* how many of the monitors have been started
  mon,       \* the monitor of each target
  results,   \* those the caller has taken
  shown,     \* the rows of the table
  answers    \* what the network did with each ping: not in the code

pingVars == <<pc, targets, launched, mon, results, shown, answers>>

Abs(x) == IF x < 0 THEN -x ELSE x

\* PingStats, and where the monitor is.
Idle ==
  [at |-> "off", sent |-> 0, received |-> 0, lost |-> 0, previous |-> Lost,
   valid |-> <<>>, history |-> <<>>, lo |-> Sentinel, hi |-> 0, sum |-> 0,
   spread |-> 0, jitter |-> [num |-> 0, den |-> 1]]

-----------------------------------------------------------------------------
(* The assembly routines. *)

\* The registers of .stats_loop, before the first time and with one more.
First(x) == [lo |-> x, hi |-> x, sum |-> 0, sq |-> 0]

Accumulate(p, x) ==
  [lo  |-> IF x < p.lo THEN x ELSE p.lo,
   hi  |-> IF x > p.hi THEN x ELSE p.hi,
   sum |-> p.sum + x,
   sq  |-> p.sq + x * x]

\* asm_calc_ping_stats_simd: one pass over the times, then the mean and n * n
\* times the variance, negative values of which become zero.
Stats(v) ==
  LET pass[n \in 0..Len(v)] ==
        IF n = 0 THEN First(v[1]) ELSE Accumulate(pass[n - 1], v[n])
      all == pass[Len(v)]
      variance == Len(v) * all.sq - all.sum * all.sum
  IN [lo |-> all.lo, hi |-> all.hi, sum |-> all.sum,
      spread |-> IF variance > 0 THEN variance ELSE 0]

\* Mutant of Jitter: the sign of the difference is not masked off.
JitterSigned(j, d) == [num |-> 15 * j.num + d * j.den, den |-> 16 * j.den]

\* asm_calc_jitter_rfc3550: J + (|D| - J) / 16.
Jitter(j, d) == [num |-> 15 * j.num + Abs(d) * j.den, den |-> 16 * j.den]

-----------------------------------------------------------------------------
(* The table. *)

Glyphs == 7

LostGlyph == -1

\* GenerateSparkline: a glyph for each ping, scaled to the range of the replies,
\* or one text for the whole line, here <<>>, if there are none.
\* No history here is longer than the width of the column.
GenerateSparkline(history) ==
  LET valid == {history[i] : i \in DOMAIN history} \ {Lost}
      lo == CHOOSE x \in valid : \A y \in valid : x <= y
      hi == CHOOSE x \in valid : \A y \in valid : x >= y
      range == IF hi = lo THEN 1 ELSE hi - lo
  IN IF valid = {} THEN <<>>
     ELSE [i \in DOMAIN history |->
             IF history[i] = Lost THEN LostGlyph
             ELSE ((history[i] - lo) * (Glyphs - 1)) \div range]

\* PrintPingTable
Row(m) == [m |-> m, spark |-> GenerateSparkline(m.history)]

-----------------------------------------------------------------------------

PingInit ==
  /\ pc = "menu" /\ targets = <<>> /\ launched = 0
  /\ mon = [t \in Target |-> Idle]
  /\ results = <<>> /\ shown = <<>>
  /\ answers = [t \in Target |-> <<>>]

\* Entry 7, --ping, or a measurement of the benchmark.
Choose(c) ==
  /\ pc = "menu"
  /\ pc' = "busy" /\ targets' = c /\ launched' = 0
  /\ mon' = [t \in Target |-> Idle]
  /\ results' = <<>> /\ shown' = <<>>
  /\ answers' = [t \in Target |-> <<>>]

\* std::async for the next target, or the call itself.
Launch ==
  /\ pc = "busy" /\ launched < Len(targets)
  /\ launched' = launched + 1
  /\ mon' = [mon EXCEPT ![targets[launched']].at = "loop"]
  /\ UNCHANGED <<pc, targets, results, shown, answers>>

-----------------------------------------------------------------------------
(* RunContinuousMonitor, in a thread per target. *)

\* The loop test, and PingSingle up to its answer.  Sleep only delays it.
SendPing(t) ==
  /\ mon[t].at = "loop" /\ mon[t].sent < Count
  /\ mon' = [mon EXCEPT ![t].sent = @ + 1, ![t].at = "ping"]
  /\ UNCHANGED <<pc, targets, launched, results, shown, answers>>

\* A reply.
Reply(t, rtt) ==
  LET m == mon[t]
      valid == Append(m.valid, rtt)
      s == Stats(valid)
  IN /\ m.at = "ping"
     /\ mon' = [mon EXCEPT ![t] =
          [at |-> "loop", sent |-> m.sent, received |-> m.received + 1,
           lost |-> m.lost, previous |-> rtt, valid |-> valid,
           history |-> Append(m.history, rtt),
           lo |-> s.lo, hi |-> s.hi, sum |-> s.sum, spread |-> s.spread,
           jitter |-> IF m.previous = Lost THEN m.jitter
                      ELSE Jitter(m.jitter, rtt - m.previous)]]
     /\ answers' = [answers EXCEPT ![t] = Append(@, rtt)]
     /\ UNCHANGED <<pc, targets, launched, results, shown>>

\* No reply within the second, another status than success, or a host that could
\* not be resolved.
Lose(t) ==
  /\ mon[t].at = "ping"
  /\ mon' = [mon EXCEPT ![t].lost = @ + 1, ![t].history = Append(@, Lost),
                        ![t].at = "loop"]
  /\ answers' = [answers EXCEPT ![t] = Append(@, Lost)]
  /\ UNCHANGED <<pc, targets, launched, results, shown>>

\* The loop is over; without a reply the sentinel becomes zero.
Return(t) ==
  /\ mon[t].at = "loop" /\ mon[t].sent >= Count
  /\ mon' = [mon EXCEPT ![t].at = "done",
                        ![t].lo = IF mon[t].received = 0 THEN 0 ELSE @]
  /\ UNCHANGED <<pc, targets, launched, results, shown, answers>>

-----------------------------------------------------------------------------
(* The caller. *)

\* Mutant of Collect: the futures are taken from the back.
CollectFromBack ==
  /\ pc = "busy" /\ launched = Len(targets) /\ Len(results) < Len(targets)
  /\ LET t == targets[Len(targets) - Len(results)]
     IN mon[t].at = "done" /\ results' = Append(results, mon[t])
  /\ UNCHANGED <<pc, targets, launched, mon, shown, answers>>

\* f.get() of the next future, once all have been started.
Collect ==
  /\ pc = "busy" /\ launched = Len(targets) /\ Len(results) < Len(targets)
  /\ LET t == targets[Len(results) + 1]
     IN mon[t].at = "done" /\ results' = Append(results, mon[t])
  /\ UNCHANGED <<pc, targets, launched, mon, shown, answers>>

\* PrintPingTable, and back to the menu.
Show ==
  /\ pc = "busy" /\ Len(results) = Len(targets)
  /\ shown' = [i \in DOMAIN results |-> Row(results[i])]
  /\ pc' = "menu"
  /\ UNCHANGED <<targets, launched, mon, results, answers>>

Monitor(t) ==
  SendPing(t) \/ (\E rtt \in Rtts : Reply(t, rtt)) \/ Lose(t) \/ Return(t)

Caller == Launch \/ Collect \/ Show

PingNext == (\E c \in Commands : Choose(c)) \/ Caller \/ (\E t \in Target : Monitor(t))

PingSpec == PingInit /\ [][PingNext]_pingVars

-----------------------------------------------------------------------------
(* Properties. *)

\* PingStats and where the monitor is, in every state the code can give them.
Monitors ==
  [at : {"off", "loop", "ping", "done"},
   sent : 0..Count, received : 0..Count, lost : 0..Count,
   previous : Rtts \cup {Lost}, valid : Seq(Rtts), history : Seq(Rtts \cup {Lost}),
   lo : Rtts \cup {0, Sentinel}, hi : Rtts \cup {0},
   sum : Nat, spread : Nat, jitter : [num : Nat, den : Nat \ {0}]]

\* Every variable has the values the code can give it; no count exceeds the pings
\* of a monitor, and no result or row is one of a target not asked for.
PingTypeOK ==
  /\ pc \in {"menu", "busy"}
  /\ targets \in Commands \cup {<<>>}
  /\ launched \in 0..Len(targets)
  /\ mon \in [Target -> Monitors]
  /\ results \in Seq(Monitors) /\ Len(results) <= Len(targets)
  /\ DOMAIN shown \subseteq DOMAIN targets
  /\ answers \in [Target -> Seq(Rtts \cup {Lost})]

\* The replies among some answers.
Replies(a) == {i \in DOMAIN a : a[i] # Lost}

\* The statistics agree with the answers: no sum and no jitter if all were lost;
\* otherwise extremes some reply had, and a mean, a deviation and a jitter that
\* those allow.
StatsFit(m, a) ==
  LET got == Replies(a)
  IN IF got = {}
     THEN m.hi = 0 /\ m.sum = 0 /\ m.spread = 0 /\ m.jitter.num = 0
     ELSE /\ {m.lo, m.hi} \subseteq {a[i] : i \in got}
          /\ \A i \in got : m.lo <= a[i] /\ a[i] <= m.hi
          /\ m.lo * m.received <= m.sum /\ m.sum <= m.hi * m.received
          /\ m.spread <= m.received * m.received * (m.hi - m.lo) * (m.hi - m.lo)
          /\ m.jitter.num <= (m.hi - m.lo) * m.jitter.den

\* The line has a glyph for each ping, ordered as the times are.
SparkFits(spark, a) ==
  LET got == Replies(a)
  IN IF got = {}
     THEN spark = <<>>
     ELSE /\ \A i \in DOMAIN a : i \notin got <=> spark[i] = LostGlyph
          /\ \A i \in got : spark[i] \in 0..(Glyphs - 1)
          /\ \A i, j \in got : a[i] <= a[j] => spark[i] <= spark[j]

\* A row tells what the network did with the pings of its target.
RowFits(row, a) ==
  /\ Len(a) = Count /\ row.m.sent = Count
  /\ row.m.received = Cardinality(Replies(a))
  /\ row.m.lost = Count - row.m.received
  /\ Replies(a) = {} => row.m.lo = 0
  /\ StatsFit(row.m, a)
  /\ SparkFits(row.spark, a)

\* The table has a row for every target, in the order asked for, whichever thread
\* ended first, and each row fits the answers that target gave.
TableFitsAnswers ==
  shown # <<>> =>
    /\ Len(shown) = Len(targets)
    /\ \A i \in DOMAIN shown : RowFits(shown[i], answers[targets[i]])

-----------------------------------------------------------------------------
(* The inductive invariant; BenchmarkProofs.tla proves it. *)

\* A monitor's counters, history and list of valid times are those of the answers
\* its target has given; one that is over has pinged Count times.
Follows(m, a) ==
  /\ m.history = a
  /\ m.sent = Len(a) + (IF m.at = "ping" THEN 1 ELSE 0)
  /\ m.received = Cardinality(Replies(a)) /\ m.lost = Len(a) - m.received
  /\ Len(m.valid) = m.received
  /\ {m.valid[i] : i \in DOMAIN m.valid} = {a[i] : i \in Replies(a)}
  /\ m.previous \in IF Replies(a) = {} THEN {Lost} ELSE {a[i] : i \in Replies(a)}
  /\ m.at = "done" => m.sent = Count
  /\ m.at = "done" /\ Replies(a) = {} => m.lo = 0

\* A monitor that was not launched for this command has pinged nothing.
OffUntilLaunched ==
  \A t \in Target :
    \/ \E i \in 1..launched : targets[i] = t
    \/ mon[t].at = "off" /\ answers[t] = <<>>

\* A target's monitor, over, is what the caller has taken for it and what its row
\* was made of.
TakenWhenDone ==
  /\ \A i \in DOMAIN results : results[i] = mon[targets[i]] /\ results[i].at = "done"
  /\ shown # <<>> =>
       /\ shown = [i \in DOMAIN targets |-> Row(mon[targets[i]])]
       /\ \A i \in DOMAIN targets : mon[targets[i]].at = "done"

PingIInv ==
  /\ PingTypeOK
  /\ \A t \in Target : Follows(mon[t], answers[t]) /\ StatsFit(mon[t], answers[t])
  /\ OffUntilLaunched
  /\ TakenWhenDone
=============================================================================
