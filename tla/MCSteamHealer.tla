--------------------------- MODULE MCSteamHealer ---------------------------
EXTENDS SteamHealer, TLC

MCSymmetry == Permutations(Pid) \cup Permutations(Healer)
=============================================================================
