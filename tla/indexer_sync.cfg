SPECIFICATION LiveSpec
CONSTANTS
  Syncers = {s1, s2}
  PageLimit = 1
  NotesLimit = 1
  StartLedger = 0
  LastLedger = 2
  MaxEvents = 2
  MaxFaults = 1
  noToken = noToken
  NoToken <- noToken
INVARIANTS NothingSkipped
PROPERTIES StoredNotesServed EverythingIndexed
CHECK_DEADLOCK FALSE
