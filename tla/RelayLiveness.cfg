SPECIFICATION FairSpec
CONSTANTS
  s1 = s1
  s2 = s2
  s3 = s3
  k1 = k1
  i1 = i1
  Socks = {s1, s2, s3}
  Certs = {k1}
  Ips = {i1}
  RelayCert = RelayCert
  None = None
  MaxInbound = 3
  MaxControl = 2
  MaxPerIp = 2
  MaxRelays = 2
PROPERTY NotifyEnds
PROPERTY SupersededEnds
PROPERTY ShutdownDrains
