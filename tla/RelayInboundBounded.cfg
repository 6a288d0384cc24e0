SPECIFICATION Spec
CONSTANTS
  s1 = s1
  s2 = s2
  s3 = s3
  k1 = k1
  i1 = i1
  Socks = {s1, s2, s3}
  Certs = {k1}
  Ips = {i1}
  RelayCert = RelayCert
  None = None
  MaxInbound = 2
  MaxControl = 1
  MaxPerIp = 1
  MaxRelays = 1
INVARIANT InboundBounded
