SPECIFICATION PingSpec
CONSTANTS
  cloudflare = cloudflare
  google = google
  Target <- MCTarget
  Commands <- MCCommands
  Count = 3
  Rtts = {1, 4, 9}
  Sentinel = 99999
INVARIANTS
  PingTypeOK
  TableFitsAnswers
