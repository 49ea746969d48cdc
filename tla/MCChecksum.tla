----------------------------- MODULE MCChecksum -----------------------------
EXTENDS Checksum

\* Bytes of two values: 64-bit words have 256.  The words lie at both ends,
\* where carries arise and spread.
MCWords == {0, 1, 254, 255}

\* Every combination of loops, two rounds of a block, and odd ends.
MCLengths == {0, 1, 10, 75, 139, 203, 267}
=============================================================================
