----------------------------- MODULE ParentSbb -----------------------------
(***************************************************************************)
(* The root SBB of a PULL dialog (ParentSbb.java): it refuses the request  *)
(* or hands the MAP activity, with the request still to be delivered, to a *)
(* child of the transport that the routing rule names.                     *)
(***************************************************************************)
EXTENDS PullDialog

\* A new dialog: TC-BEGIN with the request fires DialogRequest, which only
\* fills the XML dialog, and the request itself.
Received(rule, urlOk) ==
  Fire([NoDialog EXCEPT !.map = "initialReceived", !.aci = TRUE,
                        !.owner = "parent", !.rule = rule, !.urlOk = urlOk],
       "ProcessUnstructuredSSRequest")

\* Faulty variant: the new dialog is taken for one the stack does not count yet.
CheckMaxActivityCountOff(max, live) == max = 0 \/ live <= max

\* checkMaxActivityCount: live counts every dialog of the stack, this one too.
CheckMaxActivityCount(max, live) == max = 0 \/ live < max

\* sendError, then the counters: close() throws on a dialog that is over and
\* the counters stay as they are.
Refuse(r, S) == IF Live(r) THEN Count(SendErrorMessage(r), S) ELSE r

OnOverload(r) == Refuse(r, {"DialogsAllFailed", "DialogsPullFailed"})

OnNoRoutingRule(r) ==
  Refuse(r, {"DialogsAllFailed", "DialogsPullFailed", "UssdPullNoRoutingRule"})

\* forwardEvent: attach the child, detach the parent.
Forward(r) ==
  Count([r EXCEPT !.owner = r.rule],
        {"DialogsAllEstablished", "DialogsPullEstablished",
         "ProcessUssdRequestOperations", "MessagesRecieved", "MessagesAll",
         IF r.rule = "http" THEN "DialogsHttpEstablished" ELSE "DialogsSipEstablished"})
=============================================================================
