SPECIFICATION Spec
CONSTANTS
  Providers <- MCProviders
  Iterations = 2
  Latencies <- MCLatencies
  Physical = {ethernet}
  NamedVirtual = {tap}
  DescribedVirtual = {tun}
INVARIANTS
  TypeOK
  OneProviderPerAdapter
  ChoiceIsFastest
PROPERTIES
  TunnelDnsUntouched
  ShieldHolds
