---------------------------- MODULE MCMtuSearch ----------------------------
(* MtuSearch for TLC: the upper end of the code's payload range, so that the *)
(* MTUs of earlier applications can be kept, and routes whose limit lies at  *)
(* and next to both bounds and the first midpoint.                           *)
EXTENDS MtuSearch

MCPaths == 1455..1457 \union 1463..1465 \union 1471..1473
=============================================================================
