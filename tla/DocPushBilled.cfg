\* A dialog over HTTP that its mobile ends.
CONSTANTS
  p1 = p1
  p2 = p2
  Dialogs = {p1}
  Transports = {"http"}
  Firsts <- SomeFirsts
  Posts <- AppEvents
  Faults = {}
  HlrContinues <- LocatedOpen
  SuspendTimeouts = FALSE
  WarningEnabled = TRUE
  MaxPosts = 1
  MaxQueries = 1
SPECIFICATION Spec
CHECK_DEADLOCK FALSE
INVARIANT EveryPushBilled
