\* A dialog over HTTP and a register that leaves the query open.
CONSTANTS
  p1 = p1
  p2 = p2
  Dialogs = {p1}
  Transports = {"http"}
  Firsts <- SomeFirsts
  Posts <- AppEvents
  Faults = {}
  HlrContinues <- UnansweredOpen
  SuspendTimeouts = FALSE
  WarningEnabled = TRUE
  MaxPosts = 1
  MaxQueries = 1
SPECIFICATION Spec
CHECK_DEADLOCK FALSE
INVARIANT InProgressCounted
