\* A successful dialog is counted as a failure.
CONSTANTS
  d1 = d1
  d2 = d2
  Dialogs = {d1}
  MaxActivityCount = 0
  Routes = {"http"}
  Urls = {TRUE}
  Answers <- AllAnswers
  MaxRounds = 0
SPECIFICATION Spec
CHECK_DEADLOCK FALSE
INVARIANT
  SuccessIsNoFailure
