\* Every established dialog ends, with mobiles and applications that may fall silent; every HTTP activity ends when exchanges end.
CONSTANTS
  d1 = d1
  d2 = d2
  Dialogs = {d1}
  MaxActivityCount = 0
  Routes = {"http", "sip", "none", "undecodable"}
  Urls = {TRUE, FALSE}
  Answers <- AllAnswers
  MaxRounds = 1
SPECIFICATION FairSpec
CHECK_DEADLOCK FALSE
PROPERTIES
  LifecycleLive
  HttpActivityEnded
