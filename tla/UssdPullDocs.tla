---------------------------- MODULE UssdPullDocs ----------------------------
(***************************************************************************)
(* What the administration guide says of the PULL service and the code     *)
(* does not do.  The property is refuted by a run of its own; the finding  *)
(* in PROJECT.json quotes the sentence.                                    *)
(***************************************************************************)
EXTENDS UssdPull

\* DialogsAllFailed counts failed dialogs: a timeout that was queued when the
\* application's final answer was handled counts the successful one.
SuccessIsNoFailure ==
  \A d \in Dialogs :
    dlg[d].cdr = "SUCCESS" => dlg[d].count["DialogsAllFailed"] = 0
=============================================================================
