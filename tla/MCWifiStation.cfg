CONSTANTS
  serial = serial
  remote = remote
  Consoles = {serial, remote}
  Web = web
  MaxEvents = 4
  MaxEdits = 3
SPECIFICATION Spec
SYMMETRY EitherConsole
INVARIANT KeepsTrying
CHECK_DEADLOCK FALSE
