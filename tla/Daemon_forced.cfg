SPECIFICATION Spec
CONSTANTS
  Daemons = {d1}
  Conns = {c1}
  max_connections = 1
  max_unauthenticated_connections = 1
INVARIANTS ForceStopEndsHosts
