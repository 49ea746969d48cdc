----------------------------- MODULE MCUdpProxy -----------------------------
(* UdpProxy for TLC; the .cfg files bound the datagrams of a behaviour. *)
EXTENDS UdpProxy
=============================================================================
