\* One dialog against every behaviour of its mobile and its application; a dialog that is over stops.
CONSTANTS
  d1 = d1
  d2 = d2
  Dialogs = {d1}
  MaxActivityCount = 0
  Routes = {"http", "sip", "none", "undecodable"}
  Urls = {TRUE, FALSE}
  Answers <- AllAnswers
  MaxRounds = 2
SPECIFICATION Spec
CHECK_DEADLOCK FALSE
INVARIANTS
  TypeOK
  SessionConsistent
  CdrAgreesWithOutcome
  
  AwaitGuarded
  
  FailureCounted
  NoHttpLeak
  NoSipLeak
PROPERTIES
  CdrWriteOnce
  
