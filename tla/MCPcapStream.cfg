\* A ring that one record nearly fills: records are dropped, wrap, and are cut
\* into several reads.
CONSTANTS
  h1 = h1
  h2 = h2
  u1 = u1
  Hooks = {h1, h2}
  Users = {u1}
  Lengths = {2, 3}
  Snaplens = {2, 3}
  Size = 4
  MaxRead = 2
  MaxPackets = 2
  MaxEdits = 3
SPECIFICATION FairSpec
INVARIANT NoUseAfterFree
INVARIANT StreamFramed
PROPERTY CapturedIsSent
