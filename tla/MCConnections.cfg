SPECIFICATION Spec
CONSTANTS
  l = l
  a = a
  b = b
  Entries <- MCEntries
  Listening = l
  None = None
  Used = {"read"}
  MaxGets = 3
  MaxOps = 6
  MaxPolls = 3
CHECK_DEADLOCK FALSE
INVARIANTS TypeOK FreeList NothingLeftBehind EventCurrent
