SPECIFICATION Spec
CONSTANTS
  c1 = c1
  serial = serial
  httpd = httpd
  button = button
  none = none
  absent = absent
  Clients = {c1}
  Tasks = {serial, httpd, button}
  Rules <- MCRules
  MaxRules = 2
  VpnSettings <- MCVpnSettings
  MaxEdits = 2
  MaxFailures = 1
  NoRule = none
  Absent = absent
  Httpd = httpd
  Button = button
  Stored <- MCStored
INVARIANT Barred
INVARIANT Spared
INVARIANT PromiseKept
INVARIANT ImageKept
CONSTRAINT Focus
