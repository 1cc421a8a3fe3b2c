\* Two clients while reservations in and around the pool come and go.
CONSTANTS
  a = a
  b = b
  c = c
  d = d
  Macs <- TwoClients
  Addresses <- WideAddresses
  Network = 0
  Broadcast = 7
  MaxLease = 2
  ServerIPs <- OneHost
  MaxReservations = 2
  LeaseTicks = 2
  MaxStations = 1
SPECIFICATION FairSpec
INVARIANT ReplyMatchesLease
PROPERTY ReservedAddressKept
PROPERTY OthersUntouched
PROPERTY LeaseEndsOrRenewed
CHECK_DEADLOCK FALSE
