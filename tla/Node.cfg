SPECIFICATION FairSpec
CONSTANTS
  Binds = {b1, b2}
  RelayBinds = {b2}
  Conns = {c1, c2, c3}
  MaxAddrs = 2
  MaxClones = 2
  None = None
INVARIANT InboundExact
INVARIANT DrainedForGood
INVARIANT SwallowedBounded
PROPERTY NodeStops
PROPERTY HeldResolved
CHECK_DEADLOCK FALSE
