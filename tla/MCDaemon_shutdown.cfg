SPECIFICATION ApartSpec
CONSTANTS
  Daemons = {d1, d2}
  Second = d2
  Conns = {c1, c2}
  max_connections = 2
  max_unauthenticated_connections = 1
INVARIANTS LocksExclusive CountersExact HostsJoined
PROPERTIES KeyStable 
