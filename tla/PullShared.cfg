\* Two dialogs that share the stack, its limit and the counter of dialogs in process.
CONSTANTS
  d1 = d1
  d2 = d2
  Dialogs = {d1, d2}
  MaxActivityCount = 2
  Routes = {"http", "sip", "none", "undecodable"}
  Urls = {TRUE, FALSE}
  Answers <- FinalAnswers
  MaxRounds = 0
SPECIFICATION Spec
CHECK_DEADLOCK FALSE
SYMMETRY Symmetry
INVARIANTS
  InProcessExact
  StackBounded
PROPERTY
  LifecycleSafe
