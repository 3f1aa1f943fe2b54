---------------------------- MODULE UssdPushDocs ----------------------------
(***************************************************************************)
(* What the administration guide says of the PUSH service and the code     *)
(* does not do.  Each property is refuted by a run of its own; the         *)
(* findings in PROJECT.json quote the sentence.                            *)
(***************************************************************************)
EXTENDS UssdPush

\* The CDR is generated for every transaction, including the response of users:
\* a response that ends the dialog (the timer it starts tells that it was handled)
\* leaves no CDR.
EveryPushBilled ==
  \A d \in Dialogs : dlg[d].timerID > 0 /\ ~dlg[d].aci => dlg[d].cdr # "none"

\* The dialogs in progress are those that are being located or pushed: a register
\* that leaves the query unanswered and then ends it is given up twice.
InProgressCounted ==
  inProcess = Cardinality({d \in Dialogs : Locating(dlg[d]) \/ dlg[d].aci})
=============================================================================
