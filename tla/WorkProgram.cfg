CONSTANTS
  Nodes = {1, 2, 3}
  Controls = {1, 2, 3}
  Weights = {1, 4, 6}
  Budget = 8
SPECIFICATION Spec
INVARIANT ParentsFirst
CHECK_DEADLOCK FALSE
