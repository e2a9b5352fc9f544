CONSTANTS
  MaxMinute = 5
  MaxQueue = 1
  MaxSessions = 3
  MaxGap = 2
  RepairFaults = TRUE
SPECIFICATION Spec
INVARIANTS NoHoleInRecord
PROPERTIES EntryIsCausal WatchedInOrder
CHECK_DEADLOCK FALSE
