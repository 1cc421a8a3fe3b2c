\* Three keys in three slots, one direction.
CONSTANTS
  k1 = k1
  k2 = k2
  k3 = k3
  Keys <- ThreeKeys
  Dirs = {"ingress"}
  TableSize = 2
  ProbeLimit = 2
  Hash <- Overlapping
  Limits <- OneLimit
  MaxAge = 1
SPECIFICATION FairSpec
INVARIANT OneFlowPerKey
INVARIANT TaskHasTable
INVARIANT SentOnce
PROPERTY StalestEvicted
PROPERTY FlowsLeave
