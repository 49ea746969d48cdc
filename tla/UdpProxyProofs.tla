--------------------------- MODULE UdpProxyProofs ---------------------------
(***************************************************************************)
(* Proofs about UdpProxy for every MaxArrivals and QueueCap: the inductive *)
(* invariant IInv and the safety properties that follow from it.           *)
(***************************************************************************)
EXTENDS UdpProxy, SequenceTheorems, TLAPS

\* Sending the one datagram in hand makes the output one longer.
LEMMA SendOne ==
  ASSUME NEW S, NEW s \in Seq(S), NEW t \in Seq(S), Len(t) = 1
  PROVE  s \o t \in Seq(S) /\ Len(s \o t) = Len(s) + 1
BY ConcatProperties

\* The program starts idle.
LEMMA InitIInv == Init => IInv
<1>1. <<>> \in Seq(Datagram) /\ Len(<<>>) = 0
  BY EmptySeq
<1> SUFFICES ASSUME Init PROVE IInv
  OBVIOUS
<1>2. TypeOK
  <2>1. queue \in Seq(Datagram) /\ hand \in Seq(Datagram) /\ out \in Seq(Datagram)
    BY <1>1 DEF Init
  <2>2. arrivals \in 0..MaxArrivals
    BY BoundsAssumption DEF Init
  <2> QED
    BY <2>1, <2>2 DEF Init, TypeOK, MainAt, WorkerAt
<1>3. StatsLag
  BY <1>1 DEF Init, StatsLag
<1> QED
  BY <1>2, <1>3
  DEF Init, IInv, ThreadOwned, QuietOutsideSession, FlagFollowsSession,
      ClearedByWorker, SessionHasThread, BoundOnlyInLoop, HandHoldsDatagram, Ended

\* A step of the main thread keeps IInv.
LEMMA MainIInv == ASSUME IInv, MainStep PROVE IInv'
<1> USE DEF IInv, TypeOK, MainAt, WorkerAt, ThreadOwned, QuietOutsideSession,
            FlagFollowsSession, ClearedByWorker, SessionHasThread, BoundOnlyInLoop,
            HandHoldsDatagram, StatsLag, Ended, memory, network
<1>1. CASE StartFlag
  BY <1>1 DEF StartFlag
<1>2. CASE StartResetStats
  BY <1>2 DEF StartResetStats
<1>3. CASE StartSpawn
  <2>1. CASE joinable
    BY <1>3, <2>1 DEF StartSpawn
  <2>2. CASE ~joinable
    BY <1>3, <2>2 DEF StartSpawn
  <2> QED
    BY <2>1, <2>2
<1>4. CASE KeyPressed
  BY <1>4 DEF KeyPressed
<1>5. CASE Quit
  BY <1>5 DEF Quit
<1>6. CASE StopTest
  BY <1>6 DEF StopTest
<1>7. CASE StopClear
  BY <1>7 DEF StopClear
<1>8. CASE StopJoin
  BY <1>8 DEF StopJoin
<1>9. CASE Report
  BY <1>9 DEF Report
<1>10. CASE Destroy
  BY <1>10 DEF Destroy
<1> QED
  BY MainStep, <1>1, <1>2, <1>3, <1>4, <1>5, <1>6, <1>7, <1>8, <1>9, <1>10
  DEF MainStep

\* A step of the worker keeps IInv.
LEMMA WorkerIInv == ASSUME IInv, WorkerStep PROVE IInv'
<1> USE DEF IInv, TypeOK, MainAt, WorkerAt, ThreadOwned, QuietOutsideSession,
            FlagFollowsSession, ClearedByWorker, SessionHasThread, BoundOnlyInLoop,
            HandHoldsDatagram, StatsLag, Ended, memory, network
<1>1. CASE OpenSocket
  BY <1>1 DEF OpenSocket
<1>2. CASE Bind
  <2>1. CASE worker' = "test" /\ bound' = TRUE
    BY <1>2, <2>1 DEF Bind
  <2>2. CASE worker' = "fail" /\ UNCHANGED bound
    BY <1>2, <2>2 DEF Bind
  <2> QED
    BY <1>2, <2>1, <2>2 DEF Bind
<1>3. CASE Fail
  BY <1>3 DEF Fail
<1>4. CASE TestRunning
  BY <1>4 DEF TestRunning
<1>5. CASE Receive
  <2>1. Head(queue) \in Datagram /\ Tail(queue) \in Seq(Datagram)
    BY <1>5 DEF Receive
  <2>2. <<Head(queue)>> \in Seq(Datagram) /\ Len(<<Head(queue)>>) = 1
    BY <2>1
  <2>4. CASE Head(queue).empty
    BY <1>5, <2>1, <2>4 DEF Receive
  <2>5. CASE ~Head(queue).empty
    BY <1>5, <2>1, <2>2, <2>5 DEF Receive
  <2> QED
    BY <2>4, <2>5
<1>6. CASE ReceiveTimeout
  BY <1>6 DEF ReceiveTimeout
<1>7. CASE Forward
  <2>1. /\ out \o hand \in Seq(Datagram)
        /\ Len(out \o hand) = Len(out) + 1
    <3>1. out \in Seq(Datagram) /\ hand \in Seq(Datagram) /\ Len(hand) = 1
      BY <1>7 DEF Forward
    <3> QED
      BY <3>1, SendOne
  <2>2. <<>> \in Seq(Datagram) /\ Len(<<>>) = 0
    BY EmptySeq
  <2>3. CASE out' = out \o hand /\ worker' = "count"
    BY <1>7, <2>1, <2>2, <2>3 DEF Forward
  <2>4. CASE UNCHANGED out /\ worker' = "test"
    BY <1>7, <2>2, <2>4 DEF Forward
  <2> QED
    BY <1>7, <2>3, <2>4 DEF Forward
<1>8. CASE Count
  BY <1>8 DEF Count
<1>9. CASE CloseSocket
  BY <1>9, EmptySeq DEF CloseSocket
<1> QED
  BY WorkerStep, <1>1, <1>2, <1>3, <1>4, <1>5, <1>6, <1>7, <1>8, <1>9
  DEF WorkerStep

\* The arrival of a datagram keeps IInv.
LEMMA ArriveIInv == ASSUME IInv, Arrive PROVE IInv'
<1>1. PICK from \in Sender, empty \in BOOLEAN :
        queue' = IF Len(queue) < QueueCap
                   THEN Append(queue, [id |-> arrivals + 1, from |-> from, empty |-> empty])
                   ELSE queue
  BY Arrive DEF Arrive
<1>2. [id |-> arrivals + 1, from |-> from, empty |-> empty] \in Datagram
  BY Arrive, BoundsAssumption DEF Arrive, IInv, TypeOK, Datagram
<1>3. queue' \in Seq(Datagram)
  BY <1>1, <1>2, AppendProperties DEF IInv, TypeOK
<1>4. arrivals' \in 0..MaxArrivals
  BY Arrive, BoundsAssumption DEF Arrive, IInv, TypeOK
<1> QED
  BY Arrive, <1>3, <1>4
  DEF Arrive, IInv, TypeOK, ThreadOwned, QuietOutsideSession, FlagFollowsSession,
      ClearedByWorker, SessionHasThread, BoundOnlyInLoop, HandHoldsDatagram,
      StatsLag, Ended, memory

\* IInv holds in every reachable state.
THEOREM Invariance == Spec => []IInv
<1>1. IInv /\ [Next]_vars => IInv'
  <2> SUFFICES ASSUME IInv, [Next]_vars PROVE IInv'
    OBVIOUS
  <2>1. CASE MainStep
    BY <2>1, MainIInv
  <2>2. CASE WorkerStep
    BY <2>2, WorkerIInv
  <2>3. CASE Arrive
    BY <2>3, ArriveIInv
  <2>4. CASE UNCHANGED vars
    BY <2>4 DEF vars, IInv, TypeOK, ThreadOwned, QuietOutsideSession,
                FlagFollowsSession, ClearedByWorker, SessionHasThread,
                BoundOnlyInLoop, HandHoldsDatagram, StatsLag, Ended
  <2> QED
    BY <2>1, <2>2, <2>3, <2>4 DEF Next
<1> QED
  BY InitIInv, <1>1, PTL DEF Spec

\* Every variable stays within the values the code can give it.
THEOREM TypeCorrect == Spec => []TypeOK
<1>1. IInv => TypeOK
  BY DEF IInv
<1> QED
  BY Invariance, <1>1, PTL

\* Start's reset and GetStats' copy of m_stats never run beside a live worker,
\* although Stop does not join a worker that cleared m_running itself.
THEOREM StatsRaceFree == Spec => []NoStatsRace
<1>1. IInv => NoStatsRace
  BY DEF IInv, NoStatsRace, QuietOutsideSession
<1> QED
  BY Invariance, <1>1, PTL

\* When Stop has returned, the flag is clear, the worker is gone and its port
\* is closed.
THEOREM StopLeavesIdle == Spec => []IdleInMenu
<1>1. IInv => IdleInMenu
  BY DEF IInv, IdleInMenu, QuietOutsideSession, FlagFollowsSession,
         BoundOnlyInLoop, Ended
<1> QED
  BY Invariance, <1>1, PTL

\* The packet count the menu prints is the number of datagrams sent since Start.
THEOREM ExactReport == Spec => []ReportIsExact
<1>1. IInv => ReportIsExact
  BY DEF IInv, TypeOK, ReportIsExact, QuietOutsideSession, StatsLag, Ended
<1> QED
  BY Invariance, <1>1, PTL

\* Only the key the user presses ends a session whose port is open.
THEOREM OnlyStopEnds == Spec => []SessionNotCutShort
<1>1. IInv => SessionNotCutShort
  BY DEF IInv, SessionNotCutShort, ClearedByWorker, Ended
<1> QED
  BY Invariance, <1>1, PTL

-----------------------------------------------------------------------------
(* The end of a session, and what becomes of one whose worker failed. *)

\* No step adds to what a worker that finds the flag clear has still to do, and
\* each of its own takes something off.
LEMMA StepWindsDown ==
  ASSUME IInv, [Next]_vars, ~running
  PROVE  /\ StepsLeft' <= StepsLeft
         /\ WorkerStep => StepsLeft' < StepsLeft
<1> USE DEF StepsLeft
<1>1. CASE WorkerStep
  BY <1>1 DEF WorkerStep, OpenSocket, Bind, Fail, TestRunning, Receive, ReceiveTimeout,
              Forward, Count, CloseSocket
<1>2. worker \in WorkerAt
  BY DEF IInv, TypeOK
<1>3. CASE ~WorkerStep
  <2>1. worker' = worker \/ worker' = "none"
    BY <1>3 DEF Next, vars, Arrive, MainStep, StartFlag, StartResetStats, StartSpawn,
                KeyPressed, Quit, StopTest, StopClear, StopJoin, Report, Destroy,
                IInv, FlagFollowsSession
  <2> QED
    BY <1>2, <1>3, <2>1 DEF WorkerAt
<1> QED
  BY <1>1, <1>3

\* Once Stop has cleared m_running, the worker it joins has at most five steps
\* to go, however many datagrams come.
THEOREM JoinIsBounded == Spec => WorkerWindsDown
<1>1. IInv => (main = "join" => ~running /\ worker # "none")
  BY DEF IInv, FlagFollowsSession, SessionHasThread, ThreadOwned
<1>2. IInv /\ [Next]_vars =>
        [~running => /\ StepsLeft' <= StepsLeft
                     /\ WorkerStep => StepsLeft' < StepsLeft]_vars
  BY StepWindsDown
<1> QED
  BY Invariance, <1>1, <1>2, PTL DEF Spec, WorkerWindsDown

\* A worker that clears m_running itself, before Stop has looked, leaves a
\* std::thread that is never joined: the program ends in std::terminate, if it
\* ends.
THEOREM UnjoinedForGood == Spec => FailureIsFatal
<1>1. IInv /\ [Next]_vars => [Broken \/ (Fail /\ main \in {"key", "stop"}) => Broken']_vars
  <2> SUFFICES ASSUME IInv, [Next]_vars, Broken \/ (Fail /\ main \in {"key", "stop"})
               PROVE  Broken'
    OBVIOUS
  <2> USE DEF Broken, Ended, IInv, TypeOK, memory
  <2>1. CASE Broken
    <3>1. CASE MainStep
      <4>1. CASE StartFlag \/ StartResetStats \/ StartSpawn
        BY <2>1, <4>1 DEF StartFlag, StartResetStats, StartSpawn
      <4>2. CASE KeyPressed \/ Quit \/ StopTest \/ Report \/ Destroy
        <5>1. running' = running /\ joinable' = joinable /\ worker' = worker
          BY <4>2 DEF KeyPressed, Quit, StopTest, Report, Destroy
        <5>2. /\ main \in {"key", "stop", "report", "menu", "destroy"}
              /\ main' \in {"stop", "report", "menu", "destroy", "terminated"}
          BY <2>1, <4>2 DEF KeyPressed, Quit, StopTest, Report, Destroy
        <5> QED
          BY <2>1, <5>1, <5>2
      <4>4. ~StopClear /\ ~StopJoin
        BY <2>1 DEF StopClear, StopJoin
      <4> QED
        BY <3>1, <4>1, <4>2, <4>4 DEF MainStep
    <3>2. ~WorkerStep
      BY <2>1 DEF WorkerStep, OpenSocket, Bind, Fail, TestRunning, Receive,
                  ReceiveTimeout, Forward, Count, CloseSocket
    <3>3. CASE Arrive \/ UNCHANGED vars
      <4>1. UNCHANGED <<running, joinable, worker, main>>
        BY <3>3 DEF Arrive, vars
      <4> QED
        BY <2>1, <4>1
    <3> QED
      BY <3>1, <3>2, <3>3 DEF Next
  <2>2. CASE Fail /\ main \in {"key", "stop"}
    BY <2>2 DEF Fail, ThreadOwned
  <2> QED
    BY <2>1, <2>2
<1> QED
  BY Invariance, <1>1, PTL DEF Spec, FailureIsFatal

\* While no worker has failed the thread object is joinable during a session
\* only, and Stop finds the flag set.
JoinedInTime ==
  /\ main # "terminated"
  /\ main \in {"menu", "reset", "spawn", "report", "destroy", "exited"} => ~joinable
  /\ main \in {"key", "clear"} => running
  /\ main = "stop" => running = joinable

\* A step that is not Fail keeps that.
LEMMA JoinedStep ==
  ASSUME IInv, JoinedInTime, [Next]_vars, ~Fail
  PROVE  JoinedInTime'
<1> USE DEF JoinedInTime
<1>1. CASE MainStep
  BY <1>1 DEF MainStep, StartFlag, StartResetStats, StartSpawn, KeyPressed, Quit,
              StopTest, StopClear, StopJoin, Report, Destroy, memory, IInv, TypeOK,
              FlagFollowsSession, SessionHasThread
<1>2. CASE WorkerStep
  BY <1>2 DEF WorkerStep, OpenSocket, Bind, TestRunning, Receive, ReceiveTimeout,
              Forward, Count, CloseSocket, memory
<1>3. CASE Arrive \/ UNCHANGED vars
  BY <1>3 DEF Arrive, vars, memory
<1> QED
  BY <1>1, <1>2, <1>3 DEF Next

\* The failed worker is the only cause: as long as every worker opens its port,
\* no sequence of starts, stops and quits reaches std::terminate.
THEOREM OnlyFailureTerminates == Spec /\ [][~Fail]_vars => []NeverTerminated
<1>1. Init => JoinedInTime
  BY DEF Init, JoinedInTime
<1>2. IInv /\ JoinedInTime /\ [Next]_vars /\ [~Fail]_vars => JoinedInTime'
  <2> SUFFICES ASSUME IInv, JoinedInTime, [Next]_vars, [~Fail]_vars PROVE JoinedInTime'
    OBVIOUS
  <2>1. CASE ~Fail
    BY <2>1, JoinedStep
  <2>2. CASE UNCHANGED vars
    BY <2>2 DEF vars, JoinedInTime
  <2> QED
    BY <2>1, <2>2
<1>3. JoinedInTime => NeverTerminated
  BY DEF JoinedInTime, NeverTerminated
<1> QED
  BY Invariance, <1>1, <1>2, <1>3, PTL DEF Spec

-----------------------------------------------------------------------------
(* The two threads implement LossyRelay.  Only a receive, a send, the arrival *)
(* of a datagram and the end of the session show in the abstract relay; the   *)
(* datagram in hand is still pending there.                                   *)

\* Moving the oldest datagram from the queue to the hand moves nothing.
LEMMA TakeFirst ==
  ASSUME NEW S, NEW q \in Seq(S), q # <<>>
  PROVE  /\ <<Head(q)>> \o Tail(q) = q
         /\ <<>> \o q = q
         /\ <<>> \o Tail(q) = Tail(q)
<1>1. Head(q) \in S /\ Tail(q) \in Seq(S) /\ Len(Tail(q)) = Len(q) - 1
  OBVIOUS
<1>2. <<Head(q)>> \in Seq(S) /\ Len(<<Head(q)>>) = 1
  BY <1>1
<1>3. <<Head(q)>> \o Tail(q) \in Seq(S) /\ Len(<<Head(q)>> \o Tail(q)) = Len(q)
  BY <1>1, <1>2
<1>4. \A i \in 1..Len(q) : (<<Head(q)>> \o Tail(q))[i] = q[i]
  BY <1>1, <1>2
<1>5. <<Head(q)>> \o Tail(q) = q
  BY <1>3, <1>4
<1> QED
  BY <1>1, <1>5, ConcatEmptySeq

\* A hand with one datagram is its head, in front of the queue and behind the
\* output.
LEMMA HandIsHead ==
  ASSUME NEW S, NEW h \in Seq(S), Len(h) = 1, NEW q \in Seq(S), NEW s \in Seq(S)
  PROVE  /\ h \o q # <<>>
         /\ Head(h \o q) = h[1] /\ Tail(h \o q) = q
         /\ s \o h = Append(s, h[1])
<1>1. h = <<h[1]>> /\ h[1] \in S
  OBVIOUS
<1>2. h \o q \in Seq(S) /\ Len(h \o q) = 1 + Len(q)
  BY ConcatProperties
<1>3. Head(h \o q) = h[1]
  BY <1>2
<1>4. Tail(h \o q) = q
  <2>1. Tail(h \o q) \in Seq(S) /\ Len(Tail(h \o q)) = Len(q)
    BY <1>2
  <2>2. \A i \in 1..Len(q) : Tail(h \o q)[i] = q[i]
    BY <1>2
  <2> QED
    BY <2>1, <2>2
<1>5. Append(s, h[1]) = s \o <<h[1]>>
  BY <1>1, AppendIsConcat
<1> QED
  BY <1>1, <1>2, <1>3, <1>4, <1>5

\* The initial state is one of the relay's.
LEMMA InitRefines == Init => Relay!Init
<1>1. <<>> \o <<>> = <<>>
  BY EmptySeq, ConcatEmptySeq
<1> QED
  BY <1>1 DEF Init, Relay!Init

\* What the main thread does the relay does not see.
LEMMA MainRefines == MainStep => UNCHANGED <<hand \o queue, out>>
  BY DEF MainStep, StartFlag, StartResetStats, StartSpawn, KeyPressed, Quit,
         StopTest, StopClear, StopJoin, Report, Destroy, network

\* A step of the worker is a step of the relay, or none.
LEMMA WorkerRefines == IInv /\ WorkerStep => [Relay!Next]_(Relay!vars)
<1> SUFFICES ASSUME IInv, WorkerStep PROVE [Relay!Next]_(Relay!vars)
  OBVIOUS
<1>1. queue \in Seq(Datagram) /\ hand \in Seq(Datagram) /\ out \in Seq(Datagram)
  BY DEF IInv, TypeOK
<1>2. CASE OpenSocket \/ Bind \/ Fail \/ TestRunning \/ ReceiveTimeout \/ Count
  BY <1>2 DEF OpenSocket, Bind, Fail, TestRunning, ReceiveTimeout, Count, network,
              Relay!vars
<1>3. CASE Receive
  <2>1. /\ hand = <<>> /\ queue # <<>> /\ queue' = Tail(queue) /\ out' = out
        /\ hand' = <<>> \/ hand' = <<Head(queue)>>
    BY <1>3 DEF Receive, IInv, HandHoldsDatagram
  <2>2. hand \o queue = queue
    BY <1>1, <2>1, TakeFirst
  <2>3. CASE hand' = <<>>
    <3>1. (hand \o queue)' = Tail(hand \o queue) /\ hand \o queue # <<>>
      BY <1>1, <2>1, <2>2, <2>3, TakeFirst
    <3> QED
      BY <2>1, <3>1 DEF Relay!Next, Relay!Lose
  <2>4. CASE hand' = <<Head(queue)>>
    <3>1. (hand \o queue)' = hand \o queue
      BY <1>1, <2>1, <2>2, <2>4, TakeFirst
    <3> QED
      BY <2>1, <3>1 DEF Relay!vars
  <2> QED
    BY <2>1, <2>3, <2>4
<1>4. CASE Forward
  <2>1. /\ Len(hand) = 1 /\ hand' = <<>> /\ queue' = queue
        /\ out' = out \o hand \/ out' = out
    BY <1>4 DEF Forward, IInv, HandHoldsDatagram
  <2>2. /\ hand \o queue # <<>> /\ Head(hand \o queue) = hand[1]
        /\ Tail(hand \o queue) = queue /\ out \o hand = Append(out, hand[1])
    BY <1>1, <2>1, HandIsHead
  <2>3. (hand \o queue)' = Tail(hand \o queue)
    BY <1>1, <2>1, <2>2, ConcatEmptySeq
  <2>4. CASE out' = out \o hand
    BY <2>2, <2>3, <2>4 DEF Relay!Next, Relay!Forward
  <2>5. CASE out' = out
    BY <2>2, <2>3, <2>5 DEF Relay!Next, Relay!Lose
  <2> QED
    BY <2>1, <2>4, <2>5
<1>5. CASE CloseSocket
  <2>1. hand' = <<>> /\ queue' = <<>> /\ out' = out
    BY <1>5 DEF CloseSocket, IInv, HandHoldsDatagram
  <2>2. (hand \o queue)' = <<>>
    BY <2>1, EmptySeq, ConcatEmptySeq
  <2> QED
    BY <2>1, <2>2 DEF Relay!Next, Relay!Close
<1> QED
  BY WorkerStep, <1>2, <1>3, <1>4, <1>5 DEF WorkerStep

\* A datagram that finds room is accepted; one that does not was never there.
LEMMA ArriveRefines == IInv /\ Arrive => [Relay!Next]_(Relay!vars)
<1> SUFFICES ASSUME IInv, Arrive PROVE [Relay!Next]_(Relay!vars)
  OBVIOUS
<1>1. queue \in Seq(Datagram) /\ hand \in Seq(Datagram)
  BY DEF IInv, TypeOK
<1>2. PICK from \in Sender, empty \in BOOLEAN :
        queue' = IF Len(queue) < QueueCap
                   THEN Append(queue, [id |-> arrivals + 1, from |-> from, empty |-> empty])
                   ELSE queue
  BY DEF Arrive
<1> DEFINE d == [id |-> arrivals + 1, from |-> from, empty |-> empty]
<1>3. d \in Datagram
  BY BoundsAssumption DEF Arrive, IInv, TypeOK, Datagram
<1>4. hand' = hand /\ out' = out
  BY DEF Arrive
<1> HIDE DEF d
<1>5. CASE queue' = Append(queue, d)
  <2>1. hand \o Append(queue, d) = Append(hand \o queue, d)
    BY <1>1, <1>3, AppendIsConcat, ConcatAssociative, ConcatProperties
  <2> QED
    BY <1>3, <1>4, <1>5, <2>1 DEF Relay!Next, Relay!Accept
<1>6. CASE queue' = queue
  BY <1>4, <1>6 DEF Relay!vars
<1> QED
  BY <1>2, <1>5, <1>6 DEF d

\* The relay's two threads give the remote host what a lossy one-way relay
\* gives it: every datagram at most once, in order and unchanged.
THEOREM Refinement == Spec => ImplementsRelay
<1>1. IInv /\ [Next]_vars => [Relay!Next]_(Relay!vars)
  <2> SUFFICES ASSUME IInv, [Next]_vars PROVE [Relay!Next]_(Relay!vars)
    OBVIOUS
  <2>1. CASE MainStep
    BY <2>1, MainRefines DEF Relay!vars
  <2>2. CASE WorkerStep \/ Arrive
    BY <2>2, WorkerRefines, ArriveRefines
  <2>3. CASE UNCHANGED vars
    BY <2>3 DEF vars, Relay!vars
  <2> QED
    BY <2>1, <2>2, <2>3 DEF Next
<1> QED
  BY InitRefines, Invariance, <1>1, PTL DEF Spec, ImplementsRelay, Relay!Spec
=============================================================================
