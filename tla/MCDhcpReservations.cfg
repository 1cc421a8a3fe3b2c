CONSTANTS
  httpd = httpd
  console = console
  a = a
  b = b
  c = c
  Tasks <- TwoTasks
  MacAddrs <- ThreeMacs
  TableSize = 2
SPECIFICATION TableSpec
SYMMETRY EditorSymmetry
INVARIANT CountExactWhenIdle
INVARIANT PersistedWhenIdle
