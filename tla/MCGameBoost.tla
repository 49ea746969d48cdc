---------------------------- MODULE MCGameBoost ----------------------------
EXTENDS GameBoost

\* n cores of one class, the first of them with thread first, of w threads each.
MCCores(class, first, n, w) ==
  {[class |-> class, threads |-> (first + w * i)..(first + w * i + w - 1)] : i \in 0..(n - 1)}

MCPlain(n, x3d) ==
  [logical |-> n, cores |-> MCCores(0, 0, n, 1), hybridFlag |-> FALSE, x3d |-> x3d]

MCHybrid(p, w, e) ==
  [logical |-> p * w + e, hybridFlag |-> TRUE, x3d |-> FALSE,
   cores |-> MCCores(1, 0, p, w) \cup MCCores(0, p * w, e, 1)]

\* Six threads; the 7950X3D; one performance core of two threads with eight
\* efficiency cores, where clearing core 0 leaves nothing; eight with four.
MCMachines ==
  {MCPlain(6, FALSE), MCPlain(32, TRUE), MCHybrid(1, 2, 8), MCHybrid(8, 2, 4)}
=============================================================================
