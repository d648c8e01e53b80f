SPECIFICATION ViewingSpec
CONSTANTS
  MaxEpoch = 1
  MaxNotes = 2
INVARIANTS AuditorReadsHistory
CHECK_DEADLOCK FALSE
