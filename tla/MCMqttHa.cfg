\* One operator, two interfaces to bind to, two connections, each of which may try the
\* password twice.
CONSTANTS
  serial = serial
  AP = AP
  STA = STA
  Operators = {serial}
  Interfaces = {AP, STA}
  MaxAttempts = 2
  MaxClients = 2
  MaxEvents = 3
SPECIFICATION FairSpec
INVARIANT OneTask
INVARIANT OfflineWhenStopped
PROPERTY KickHitsItsSession
PROPERTY ShutdownEnds
PROPERTY CallsReturn
CHECK_DEADLOCK FALSE
