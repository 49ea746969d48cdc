SPECIFICATION Spec
CONSTANTS
  Low = 1456
  High = 1472
  Paths <- MCPaths
  Nic = {ethernet, wifi, tunnel, vpn}
  Physical = {ethernet, wifi}
  NamedVirtual = {vpn}
INVARIANTS
  TypeOK
  FoundNeverFragments
  ExactWhenReliable
PROPERTIES
  DiscoveryEnds
  ImplementsMeasurement
