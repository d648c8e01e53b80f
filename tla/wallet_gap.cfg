SPECIFICATION FeedSpec
CONSTANTS
  Syncers = {s1}
  PageLimit = 2
  NotesLimit = 2
  StartLedger = 0
  LastLedger = 3
  MaxEvents = 4
  MaxFaults = 1
  noToken = noToken
  NoToken <- noToken
INVARIANTS FeedComplete
CHECK_DEADLOCK FALSE
