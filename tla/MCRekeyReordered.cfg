CONSTANTS
  Peers = {a, b}
  Scenarios <- Reordered
  MaxRekeys = 2
SPECIFICATION Spec
INVARIANTS NeverDown
CHECK_DEADLOCK FALSE
