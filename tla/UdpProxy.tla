------------------------------ MODULE UdpProxy ------------------------------
(***************************************************************************)
(* The UDP fast relay: class UdpProxy (src/src/udp_proxy.cpp) as the menu  *)
(* thread of src/src/main.cpp drives it.  Two threads of one process:      *)
(*                                                                         *)
(*   main    menu entry '9' (Start, wait for a key, Stop, GetStats) and,   *)
(*           when the user quits, the destructor;                          *)
(*   worker  the lambda Start gives to std::thread.                        *)
(*                                                                         *)
(* They share m_running (atomic), m_stats (not atomic) and the std::thread *)
(* object m_workerThread, whose assignment and destruction call            *)
(* std::terminate while it is joinable.  Every access to m_running and     *)
(* m_stats is a step of its own.  The network may queue a datagram at any  *)
(* time the port is bound; a datagram is what the relay tells apart: who   *)
(* sent it and whether it is empty (recvfrom then returns 0).              *)
(***************************************************************************)
EXTENDS Integers, Sequences

CONSTANTS
  MaxArrivals,           \* bound: datagrams that reach the port in a behaviour
  QueueCap               \* datagrams the socket's receive buffer holds

ASSUME BoundsAssumption == MaxArrivals \in Nat /\ QueueCap \in Nat \ {0}

Sender == {"client", "server"}
Datagram == [id : 1..MaxArrivals, from : Sender, empty : BOOLEAN]

VARIABLES
  running,               \* m_running
  packets,               \* m_stats.packetsForwarded
  joinable,              \* m_workerThread.joinable()
  main,                  \* where the main thread is
  after,                 \* what it does when Stop() returns
  worker,                \* where the worker is; "none": no thread exists
  bound,                 \* the worker's socket is open and bound to the port
  queue,                 \* the socket's receive buffer, oldest first
  hand,                  \* packetBuffer: <<>> or the one datagram received
  out,                   \* datagrams the remote host was sent, in order
  arrivals,              \* datagrams that reached the port so far
  sessionStart,          \* history: Len(out) when m_stats was last reset
  shown                  \* the packet count the menu printed last

vars == <<running, packets, joinable, main, after, worker, bound, queue, hand,
          out, arrivals, sessionStart, shown>>

memory == <<running, packets, joinable>>
network == <<bound, queue, hand, out, arrivals>>

MainAt == {"menu", "reset", "spawn", "key", "stop", "clear", "join",
           "report", "destroy", "exited", "terminated"}
WorkerAt == {"none", "socket", "bind", "fail", "test", "recv", "forward",
             "count", "close", "done"}

Init ==
  /\ running = FALSE
  /\ packets = 0
  /\ joinable = FALSE
  /\ main = "menu"
  /\ after = "report"
  /\ worker = "none"
  /\ bound = FALSE
  /\ queue = <<>>
  /\ hand = <<>>
  /\ out = <<>>
  /\ arrivals = 0
  /\ sessionStart = 0
  /\ shown = 0

-----------------------------------------------------------------------------
(* The main thread. *)

\* Start(): with m_running set it returns "already active" and changes
\* nothing; otherwise it sets the flag and goes on to reset m_stats.
StartFlag ==
  /\ main = "menu"
  /\ ~running
  /\ running' = TRUE
  /\ main' = "reset"
  /\ UNCHANGED <<packets, joinable, after, worker, network, sessionStart, shown>>

StartResetStats ==
  /\ main = "reset"
  /\ packets' = 0
  /\ sessionStart' = Len(out)
  /\ main' = "spawn"
  /\ UNCHANGED <<running, joinable, after, worker, network, shown>>

\* m_workerThread = std::thread(...): the thread is created, and assigning it
\* over a joinable std::thread terminates the process.  Start then reports
\* success whatever the worker will meet, and the menu waits for a key.
StartSpawn ==
  /\ main = "spawn"
  /\ IF joinable
       THEN /\ main' = "terminated"
            /\ UNCHANGED <<joinable, worker>>
       ELSE /\ main' = "key"
            /\ joinable' = TRUE
            /\ worker' = "socket"
  /\ UNCHANGED <<running, packets, after, network, sessionStart, shown>>

\* The user presses a key: Stop(), then GetStats().
KeyPressed ==
  /\ main = "key"
  /\ main' = "stop"
  /\ after' = "report"
  /\ UNCHANGED <<memory, worker, network, sessionStart, shown>>

\* The user leaves the menu: main returns and ~UdpProxy() calls Stop().
Quit ==
  /\ main = "menu"
  /\ main' = "stop"
  /\ after' = "destroy"
  /\ UNCHANGED <<memory, worker, network, sessionStart, shown>>

\* Stop(): nothing at all, not even the join, unless m_running is set.
StopTest ==
  /\ main = "stop"
  /\ main' = IF running THEN "clear" ELSE after
  /\ UNCHANGED <<memory, after, worker, network, sessionStart, shown>>

\* Mutant of StopClear: the join after the store is forgotten.
StopClearNoJoin ==
  /\ main = "clear"
  /\ running' = FALSE
  /\ main' = after
  /\ UNCHANGED <<packets, joinable, after, worker, network, sessionStart, shown>>

StopClear ==
  /\ main = "clear"
  /\ running' = FALSE
  /\ main' = IF joinable THEN "join" ELSE after
  /\ UNCHANGED <<packets, joinable, after, worker, network, sessionStart, shown>>

StopJoin ==
  /\ main = "join"
  /\ worker = "done"
  /\ worker' = "none"
  /\ joinable' = FALSE
  /\ main' = after
  /\ UNCHANGED <<running, packets, after, network, sessionStart, shown>>

\* GetStats() copies m_stats and the menu prints it.
Report ==
  /\ main = "report"
  /\ shown' = packets
  /\ main' = "menu"
  /\ UNCHANGED <<memory, after, worker, network, sessionStart>>

\* The member m_workerThread is destroyed after the destructor's body.
Destroy ==
  /\ main = "destroy"
  /\ main' = IF joinable THEN "terminated" ELSE "exited"
  /\ UNCHANGED <<memory, after, worker, network, sessionStart, shown>>

MainStep == StartFlag \/ StartResetStats \/ StartSpawn \/ KeyPressed \/ Quit
            \/ StopTest \/ StopClear \/ StopJoin \/ Report \/ Destroy

-----------------------------------------------------------------------------
(* The worker; it runs as long as the process does. *)

Alive == main \notin {"exited", "terminated"}

\* socket(), then the buffer, DSCP and SIO_UDP_CONNRESET options.
OpenSocket ==
  /\ Alive /\ worker = "socket"
  /\ worker' \in {"bind", "fail"}
  /\ UNCHANGED <<memory, main, after, network, sessionStart, shown>>

\* bind() fails when the port is taken; the socket is then closed.
Bind ==
  /\ Alive /\ worker = "bind"
  /\ \/ worker' = "test" /\ bound' = TRUE
     \/ worker' = "fail" /\ UNCHANGED bound
  /\ UNCHANGED <<memory, main, after, queue, hand, out, arrivals, sessionStart, shown>>

\* A worker that could not open the port clears m_running and returns.
Fail ==
  /\ Alive /\ worker = "fail"
  /\ running' = FALSE
  /\ worker' = "done"
  /\ UNCHANGED <<packets, joinable, main, after, network, sessionStart, shown>>

\* Mutant of TestRunning: the loop does not look at m_running.
TestRunningNever ==
  /\ Alive /\ worker = "test"
  /\ worker' = "recv"
  /\ UNCHANGED <<memory, main, after, network, sessionStart, shown>>

\* while (m_running.load())
TestRunning ==
  /\ Alive /\ worker = "test"
  /\ worker' = IF running THEN "recv" ELSE "close"
  /\ UNCHANGED <<memory, main, after, network, sessionStart, shown>>

\* recvfrom() takes the oldest datagram; received > 0 fails for an empty one.
Receive ==
  /\ Alive /\ worker = "recv"
  /\ queue # <<>>
  /\ queue' = Tail(queue)
  /\ IF Head(queue).empty
       THEN worker' = "test" /\ UNCHANGED hand
       ELSE worker' = "forward" /\ hand' = <<Head(queue)>>
  /\ UNCHANGED <<memory, main, after, bound, out, arrivals, sessionStart, shown>>

\* Mutant of ReceiveTimeout: a timeout ends the session.
ReceiveTimeoutEnds ==
  /\ Alive /\ worker = "recv"
  /\ queue = <<>>
  /\ running' = FALSE
  /\ worker' = "test"
  /\ UNCHANGED <<packets, joinable, main, after, network, sessionStart, shown>>

\* recvfrom() gives up after the 100 ms of SO_RCVTIMEO.
ReceiveTimeout ==
  /\ Alive /\ worker = "recv"
  /\ queue = <<>>
  /\ worker' = "test"
  /\ UNCHANGED <<memory, main, after, network, sessionStart, shown>>

\* Mutant of Forward: sent > 0 is not tested, failed sends are counted.
ForwardCountsFailures ==
  /\ Alive /\ worker = "forward"
  /\ out' \in {out, out \o hand}
  /\ worker' = "count"
  /\ hand' = <<>>
  /\ UNCHANGED <<memory, main, after, bound, queue, arrivals, sessionStart, shown>>

\* Mutant of Forward: a send that succeeded is retried.
ForwardTwice ==
  /\ Alive /\ worker = "forward"
  /\ out' \in {out, out \o hand, out \o hand \o hand}
  /\ worker' = IF out' = out THEN "test" ELSE "count"
  /\ hand' = <<>>
  /\ UNCHANGED <<memory, main, after, bound, queue, arrivals, sessionStart, shown>>

\* The copy to relayBuffer and sendto(remoteAddr), whoever sent the datagram.
\* A failed sendto is not retried.  packetBuffer is wiped afterwards.
Forward ==
  /\ Alive /\ worker = "forward"
  /\ \/ out' = out \o hand /\ worker' = "count"
     \/ UNCHANGED out /\ worker' = "test"
  /\ hand' = <<>>
  /\ UNCHANGED <<memory, main, after, bound, queue, arrivals, sessionStart, shown>>

\* Mutant of Count: sendto's SOCKET_ERROR (-1) is added to the statistics too.
CountErrors ==
  /\ Alive /\ worker = "count"
  /\ packets' \in {packets + 1, packets - 1}
  /\ worker' = "test"
  /\ UNCHANGED <<running, joinable, main, after, network, sessionStart, shown>>

\* if (sent > 0) m_stats.packetsForwarded++ ...
Count ==
  /\ Alive /\ worker = "count"
  /\ packets' = packets + 1
  /\ worker' = "test"
  /\ UNCHANGED <<running, joinable, main, after, network, sessionStart, shown>>

\* Mutant of CloseSocket: the loop ends without closesocket().
CloseSocketForgotten ==
  /\ Alive /\ worker = "close"
  /\ worker' = "done"
  /\ UNCHANGED <<memory, main, after, network, sessionStart, shown>>

\* closesocket() discards what is still queued; the thread ends.
CloseSocket ==
  /\ Alive /\ worker = "close"
  /\ bound' = FALSE
  /\ queue' = <<>>
  /\ worker' = "done"
  /\ UNCHANGED <<memory, main, after, hand, out, arrivals, sessionStart, shown>>

WorkerStep == OpenSocket \/ Bind \/ Fail \/ TestRunning \/ Receive
              \/ ReceiveTimeout \/ Forward \/ Count \/ CloseSocket

-----------------------------------------------------------------------------
(* The network: a datagram reaches the bound port; a full buffer drops it. *)

Arrive ==
  /\ Alive /\ bound
  /\ arrivals < MaxArrivals
  /\ arrivals' = arrivals + 1
  /\ \E from \in Sender, empty \in BOOLEAN :
       queue' = IF Len(queue) < QueueCap
                  THEN Append(queue, [id |-> arrivals + 1, from |-> from, empty |-> empty])
                  ELSE queue
  /\ UNCHANGED <<memory, main, after, worker, bound, hand, out, sessionStart, shown>>

Next == MainStep \/ WorkerStep \/ Arrive

\* The scheduler runs both threads; nothing makes the user press a key, quit
\* or start the relay, and nothing makes a datagram come.
Fairness ==
  /\ WF_vars(WorkerStep)
  /\ WF_vars(StartResetStats \/ StartSpawn \/ StopTest \/ StopClear
             \/ StopJoin \/ Report \/ Destroy)

Spec == Init /\ [][Next]_vars /\ Fairness

-----------------------------------------------------------------------------
(* Properties. *)

\* Every variable has the values the code can give it.
TypeOK ==
  /\ running \in BOOLEAN
  /\ packets \in Nat
  /\ joinable \in BOOLEAN
  /\ main \in MainAt
  /\ after \in {"report", "destroy"}
  /\ worker \in WorkerAt
  /\ bound \in BOOLEAN
  /\ queue \in Seq(Datagram)
  /\ hand \in Seq(Datagram)
  /\ out \in Seq(Datagram)
  /\ arrivals \in 0..MaxArrivals
  /\ sessionStart \in Nat
  /\ shown \in Nat

\* No worker is running: none was started, or its thread function returned.
Ended == worker \in {"none", "done"}

\* m_stats is a plain struct: main resets it in Start and reads it in
\* GetStats, and at both points no worker may still be running, or the two
\* threads race on it.  This has to hold although Stop skips the join when
\* the worker cleared m_running itself.
NoStatsRace == main \in {"reset", "spawn", "report"} => Ended

\* Back in the menu the relay is really over: the flag is clear, so that the
\* next Start is not refused, no worker runs and the port is closed.
IdleInMenu == main \in {"menu", "destroy"} => ~running /\ Ended /\ ~bound

\* The number the menu is about to print is the number of datagrams that were
\* handed to the remote host since this Start.
ReportIsExact == main = "report" => packets = Len(out) - sessionStart

\* Only Stop ends a session that has opened its port: while the menu waits
\* for the key, a worker past bind never finds m_running cleared.
SessionNotCutShort ==
  main = "key" /\ worker \in {"test", "recv", "forward", "count"} => running

\* Stop returns: once the key is pressed the worker sees the cleared flag and
\* ends, however many datagrams keep coming, and the menu (or the exit) goes on.
StopReturns == main = "stop" ~> main \in {"menu", "exited", "terminated"}

\* The relay gives the remote host what a lossy one-way relay gives it, which is
\* less than the "zero-loss" the sources promise (README.md:109).
Relay == INSTANCE LossyRelay
           WITH pending <- hand \o queue, delivered <- out

\* The two threads implement LossyRelay: whatever fails, and whenever sessions
\* start and end, datagrams leave in order, at most once and unchanged; one that
\* was accepted is lost only if it is empty, if sendto fails, or with the session.
ImplementsRelay == Relay!Spec

\* "Stop proxy" (udp_proxy.hpp:29) and "Press any key to return to menu"
\* (main.cpp:463): after Stop() the relay can be started again and the program
\* left; neither ends in std::terminate.
NeverTerminated == main # "terminated"

\* A session that is beyond repair: its worker has ended by itself, and whether
\* the user starts another one or quits, nothing joins the thread any more.
Broken ==
  /\ joinable /\ Ended
  /\ \/ ~running /\ main \in {"key", "stop", "report", "menu", "destroy"}
     \/ main \in {"reset", "spawn", "terminated"}

\* What a worker that cannot open its port leads to, if it clears m_running
\* before Stop has looked at it: whatever the user does, the program never gets
\* to "exited".
FailureIsFatal ==
  [][Broken \/ (Fail /\ main \in {"key", "stop"}) => Broken']_vars

\* The steps a worker has still to take once it finds m_running clear.
StepsLeft ==
  CASE worker \in {"none", "done"}  -> 0
    [] worker \in {"close", "fail"} -> 1
    [] worker = "test"               -> 2
    [] worker \in {"bind", "count"} -> 3
    [] worker \in {"socket", "forward"} -> 4
    [] worker = "recv"               -> 5

\* What StopReturns rests on besides fairness: the join waits for a thread that
\* exists, the flag stays clear meanwhile, and each of the worker's steps, even
\* with a datagram at every look at the port, brings its end nearer.
WorkerWindsDown ==
  /\ [](main = "join" => ~running /\ worker # "none")
  /\ [][~running => /\ StepsLeft' <= StepsLeft
                    /\ WorkerStep => StepsLeft' < StepsLeft]_vars

-----------------------------------------------------------------------------
(* The inductive invariant behind all of these but StopReturns and            *)
(* NeverTerminated; UdpProxyProofs.tla proves it.                             *)

\* A std::thread object is joinable as long as there is a thread behind it.
ThreadOwned == joinable <=> worker # "none"

\* Outside a session (and before its thread exists) no worker runs.
QuietOutsideSession ==
  main \in {"menu", "reset", "spawn", "report", "destroy", "exited"} => Ended

\* The flag is clear whenever the menu, or the end of Stop, is reached, and set
\* from Start's first step until the thread exists.
FlagFollowsSession ==
  /\ main \in {"menu", "join", "report", "destroy", "exited"} => ~running
  /\ main \in {"reset", "spawn"} => running

\* The case Stop does not join in: the flag is already clear, and then it was
\* the worker's last act to clear it.
ClearedByWorker == main \in {"key", "stop"} /\ ~running => Ended

\* While the menu waits, and once Stop has seen the flag, there is a thread.
SessionHasThread ==
  /\ main \in {"key", "clear", "join"} => joinable
  /\ main = "stop" /\ running => joinable

\* The socket is bound only between bind() and closesocket().
BoundOnlyInLoop ==
  worker \in {"none", "socket", "bind", "fail", "done"} => ~bound

\* sendto() has exactly one datagram to send; the buffer is wiped after it.
HandHoldsDatagram ==
  /\ worker = "forward" => Len(hand) = 1
  /\ worker # "forward" => hand = <<>>

\* m_stats lags the datagrams sent by the one that is sent but not counted.
StatsLag ==
  Len(out) = sessionStart + packets + (IF worker = "count" THEN 1 ELSE 0)

IInv ==
  /\ TypeOK
  /\ ThreadOwned
  /\ QuietOutsideSession
  /\ FlagFollowsSession
  /\ ClearedByWorker
  /\ SessionHasThread
  /\ BoundOnlyInLoop
  /\ HandHoldsDatagram
  /\ StatsLag
=============================================================================
