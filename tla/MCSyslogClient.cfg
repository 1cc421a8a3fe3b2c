\* The bounds on lines and edits let this instance come to rest.
CONSTANTS
  a1 = a1
  dns = dns
  l1 = l1
  l2 = l2
  Admins = {a1}
  Connectors = {dns}
  Loggers = {l1, l2}
  QueueDepth = 1
  MaxLines = 3
  MaxEdits = 2
SPECIFICATION SyslogFairSpec
INVARIANT BuffersHeld
INVARIANT SenderHasQueue
INVARIANT RunsIffEnabled
PROPERTY CallsEnd
CHECK_DEADLOCK FALSE
