SPECIFICATION Spec
CONSTANTS
  Pid = {p1, p2, sys}
  SystemPid = {sys}
  SystemName = system
  Names = {cs2, gta5, winws, system}
  KnownGames = {cs2, gta5}
  GamingProtected = {cs2}
  VpnNames = {winws}
  Machines <- MCMachines
  NoName = NoName
  NoPid = NoPid
INVARIANTS
  TypeOK
  MaskUsable
PROPERTIES
  OnlyIntendedTouched
  
