SPECIFICATION Spec
CONSTANTS
  s1 = s1
  s2 = s2
  k1 = k1
  i1 = i1
  Socks = {s1, s2}
  Certs = {k1}
  Ips = {i1}
  RelayCert = RelayCert
  None = None
  MaxInbound = 2
  MaxControl = 2
  MaxPerIp = 2
  MaxRelays = 1
PROPERTY RegistrationKept
