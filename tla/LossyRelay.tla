----------------------------- MODULE LossyRelay -----------------------------
(***************************************************************************)
(* What the UDP relay really promises to the remote host: the datagrams    *)
(* the port has accepted leave in the order they came, each at most once   *)
(* and unchanged.  It does not promise that they leave.  The sources call  *)
(* the relay "zero-loss" (README.md:109, udp_proxy.hpp:22,                 *)
(* disping_routines.asm:312), but it loses datagrams in three ways: one    *)
(* that finds the receive buffer full is never accepted, one that is empty *)
(* or that sendto refuses is dropped and not tried again, and the queue is *)
(* thrown away when the session ends.  UdpProxy.tla is shown to implement  *)
(* this module, and no stronger one.                                       *)
(***************************************************************************)
EXTENDS Sequences

CONSTANT Datagram        \* every datagram that can reach the port

VARIABLES
  pending,               \* accepted by the port, not handed on yet
  delivered              \* handed to the remote host, in order

vars == <<pending, delivered>>

Init ==
  /\ pending = <<>>
  /\ delivered = <<>>

\* The port takes a datagram in.
Accept ==
  /\ \E d \in Datagram : pending' = Append(pending, d)
  /\ UNCHANGED delivered

\* The oldest one is sent.
Forward ==
  /\ pending # <<>>
  /\ delivered' = Append(delivered, Head(pending))
  /\ pending' = Tail(pending)

\* The oldest one is dropped: it is empty, or the one attempt to send it failed.
Lose ==
  /\ pending # <<>>
  /\ pending' = Tail(pending)
  /\ UNCHANGED delivered

\* closesocket discards what has been accepted and not sent.
Close ==
  /\ pending' = <<>>
  /\ UNCHANGED delivered

Next == Accept \/ Forward \/ Lose \/ Close

Spec == Init /\ [][Next]_vars
=============================================================================
