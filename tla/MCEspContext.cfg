CONSTANTS
  WindowSize = 4
  MaxSeqno = 15
SPECIFICATION Spec
INVARIANTS TypeOK NoReplay NoFalseAlarm
CHECK_DEADLOCK FALSE
