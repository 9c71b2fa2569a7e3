SPECIFICATION StreamSpec
CHECK_DEADLOCK FALSE
CONSTANTS
  QueueCap = 1
  MaxEvents = 2
  MaxBreaks = 1
  MaxSessions = 2
  EventKinds <- CashAndAuth
INVARIANTS
  CursorBehindRecorded
PROPERTIES
  FirstSendOnCurrentFunds
  NoSendPastControl
  WorkResumes
