CONSTANTS
  Peers = {a, b}
  Scenarios <- MCScenarios
  MaxRekeys = 3
SPECIFICATION Spec
INVARIANTS TasksSound NotFoundExplained Converged NoOutage
PROPERTIES DownExplained Settles
CHECK_DEADLOCK FALSE
