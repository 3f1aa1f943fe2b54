\* One dialog with fair delivery and timers, and a SLEE that gives up suspended POSTs; a dialog that is over stops.
CONSTANTS
  p1 = p1
  p2 = p2
  Dialogs = {p1}
  Transports = {"http", "sip"}
  Firsts <- SomeFirsts
  Posts <- AppEvents
  Faults = {"query", "create", "send", "reply"}
  HlrContinues <- LocatedOpen
  SuspendTimeouts = TRUE
  WarningEnabled = FALSE
  MaxPosts = 2
  MaxQueries = 2
SPECIFICATION FairSpec
CHECK_DEADLOCK FALSE
INVARIANT
  FailedSessionEnded
PROPERTIES
  LifecycleLive
  PostAnswered
