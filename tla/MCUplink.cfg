CONSTANTS
  admin = admin
  ip1 = ip1
  ip2 = ip2
  tun = tun
  zero = zero
  p = p
  q = q
  none = none
  Admins = {admin}
  Addresses = {ip1, ip2}
  TunnelIP = tun
  NoIP = zero
  Ports = {p, q}
  NoPort = none
  TabSize = 2
  Modes <- AllModes
  MaxEvents = 3
  MaxEdits = 2
SPECIFICATION Spec
SYMMETRY Alike
INVARIANT NatFollowsTable
INVARIANT TunnelKeepsRoute
CHECK_DEADLOCK FALSE
