\* One dialog against every behaviour of its register, mobile and application; a dialog that is over stops.
CONSTANTS
  p1 = p1
  p2 = p2
  Dialogs = {p1}
  Transports = {"http", "sip"}
  Firsts <- AllFirsts
  Posts <- MainPosts
  Faults = {"query", "create", "send", "reply"}
  HlrContinues <- LocatedOpen
  SuspendTimeouts = FALSE
  WarningEnabled = TRUE
  MaxPosts = 3
  MaxQueries = 2
SPECIFICATION Spec
CHECK_DEADLOCK FALSE
INVARIANTS
  TypeOK
  InProcessExact
  SriAnsweredOnce
  SessionEndedDialogOver
  SuspendedPostGuarded
  
  BilledOver
  
  EstablishedSent
  SipTold
  
PROPERTIES
  CdrWriteOnce
  LifecycleSafe
