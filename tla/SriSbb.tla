------------------------------- MODULE SriSbb -------------------------------
(***************************************************************************)
(* The child of both server SBBs that asks the home register for the       *)
(* location of the subscriber (sri/SriSbb.java).  It stores what the       *)
(* components of an answer say, and tells its parent when the message they *)
(* came in is complete.  An InvokeTimeout is only logged.                  *)
(***************************************************************************)
EXTENDS PushDialog

\* performSRIQuery, unless it throws.
PerformSriQuery(r) == [r EXCEPT !.sri = "open", !.sriq = << >>, !.queries = @ + 1]

\* detachFromCurrentDialog: what was fired on that dialog is not delivered.
DetachFromCurrentDialog(r) == [r EXCEPT !.sri = "none", !.sriq = << >>]

\* close(false), local on a dialog that the register has left open.
CloseQuery(r) == [r EXCEPT !.sri = IF @ = "open" THEN "ended" ELSE @]

\* Faulty variant: keeps the component itself.
StoreComponentRaw(r, e) ==
  IF e = "Response" THEN [r EXCEPT !.located = TRUE] ELSE [r EXCEPT !.refusal = e]

StoreComponent(r, e) ==
  CASE e = "Response" -> [r EXCEPT !.located = TRUE]
    [] e = "ErrorComponent" -> [r EXCEPT !.refusal = "error"]
    [] e = "RejectComponent" -> [r EXCEPT !.refusal = "reject"]

\* onSriFullResponse without a location: the status for the CDR.
NotLocatedStatus(r) ==
  CASE r.refusal = "error" -> "SRI_MAP_ERROR_COMPONENT"
    [] r.refusal = "reject" -> "SRI_MAP_REJECT_COMPONENT"
    [] OTHER -> "FAILED_SYSTEM_FAILURE"

\* The status when the dialog itself fails.
QueryFailedStatus(e) ==
  CASE e \in {"Reject", "RejectAcn"} -> "SRI_DIALOG_REJECTED"
    [] e = "UserAbort" -> "SRI_DIALOG_USER_ABORT"
    [] e = "ProviderAbort" -> "SRI_PROVIDER_ABORT"
    [] e = "DialogTimeout" -> "SRI_DIALOG_TIMEOUT"
=============================================================================
