SPECIFICATION Spec
CONSTANTS
  s1 = s1
  s2 = s2
  s3 = s3
  s4 = s4
  k1 = k1
  k2 = k2
  i1 = i1
  i2 = i2
  Socks = {s1, s2, s3, s4}
  Certs = {k1, k2}
  Ips = {i1, i2}
  RelayCert = RelayCert
  None = None
  MaxInbound = 3
  MaxControl = 3
  MaxPerIp = 2
  MaxRelays = 2
SYMMETRY Symmetric
INVARIANT ControlConserved
INVARIANT PerIpCount
INVARIANT RegistrySound
INVARIANT InboundConserved
INVARIANT RelayConserved
INVARIANT SpliceExclusive
INVARIANT RoutedToDialled
INVARIANT NotifyNotLost
PROPERTY RendezvousSpec
