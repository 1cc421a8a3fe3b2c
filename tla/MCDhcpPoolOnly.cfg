\* Four clients on a pool of three, no reservations.
CONSTANTS
  a = a
  b = b
  c = c
  d = d
  Macs <- FourClients
  Addresses <- AnyHost
  Network = 0
  Broadcast = 7
  MaxLease = 3
  ServerIPs <- AnyHost
  MaxReservations = 0
  LeaseTicks = 3
  MaxStations = 2
SPECIFICATION Spec
SYMMETRY ClientSymmetry
INVARIANT PoolSafe
INVARIANT PrintedPoolIsServed
INVARIANT AddressesDistinct
PROPERTY ServedWhileFree
PROPERTY StalestGoFirst
CHECK_DEADLOCK FALSE
