CONSTANTS
  MaxSessions = 2
  MaxCount = 1
  MaxChanges = 1
  MaxChats = 2
  QueueLimit = 2
  MaxBackoff = 2
  WireLimit = 1
  None = None
SPECIFICATION Spec
INVARIANTS TypeOK OldWriterTakesOne
PROPERTIES ImplementsChannel StatusConverges ComesBack
CHECK_DEADLOCK FALSE
