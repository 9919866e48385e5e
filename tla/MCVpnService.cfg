CONSTANTS
  p1 = p1
  p2 = p2
  None = None
  Profiles = {p1, p2}
  MaxInstances = 2
  MaxRequests = 2
  MaxReports = 1
  Events = {"up", "down", "error", "instr", "imc", "imcUnknown", "certs"}
SPECIFICATION LiveSpec
CHECK_DEADLOCK FALSE
INVARIANTS OneDaemon NoStaleReports LastRequestWins ShownTrue
PROPERTIES CallbacksReturn DisconnectCompletes
