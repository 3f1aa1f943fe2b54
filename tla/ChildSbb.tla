------------------------------ MODULE ChildSbb ------------------------------
(***************************************************************************)
(* The SBB that owns a routed PULL dialog (ChildSbb.java): one handler per *)
(* event of the MAP activity.  Its abstract methods are those of the HTTP  *)
(* or the SIP subclass, whichever the routing rule chose.                  *)
(***************************************************************************)
EXTENDS HttpClientSbb, SipClientSbb

IsSip(r) == r.owner = "sip"

SendOk(r, type, hasMessage) ==
  IF IsSip(r) THEN SipSendOk(r, type, hasMessage) ELSE HttpSendOk(r)

SendUssdData(r, type) ==
  IF IsSip(r) THEN SipSendUssdData(r, type) ELSE HttpSendUssdData(r)

TerminateProtocolConnection(r) ==
  IF IsSip(r) THEN SipTerminate(r) ELSE HttpTerminate(r)

UpdateDialogFailureStat(r) ==
  IF IsSip(r) THEN SipUpdateDialogFailureStat(r) ELSE HttpUpdateDialogFailureStat(r)

\* What a sendUssdData that throws leaves: over HTTP, the activity it created.
FailedSend(r) == IF IsSip(r) THEN r ELSE HttpSendUssdData(r)

\* sendUssdData of a dialog without a message, under a catch that only logs.
NotifyApp(r, type) ==
  IF SendOk(r, type, FALSE) THEN SendUssdData(r, type) ELSE FailedSend(r)

Fail(r, status) == CreateCdr(UpdateDialogFailureStat(r), status)

-----------------------------------------------------------------------------
(***************************************************************************)
(* Requests and answers of the mobile: post them, then arm the timer.      *)
(***************************************************************************)
\* Faulty variant: no timer for the second and later answers.
ForwardUntimed(r, type) ==
  IF SendOk(r, type, TRUE)
  THEN IF type = "Begin" THEN SetTimer(SendUssdData(r, type)) ELSE SendUssdData(r, type)
  ELSE Fail(TerminateProtocolConnection(SendErrorMessage(FailedSend(r))),
            "FAILED_SYSTEM_FAILURE")

ForwardToApp(r, type) ==
  IF SendOk(r, type, TRUE)
  THEN SetTimer(SendUssdData(r, type))
  ELSE Fail(TerminateProtocolConnection(SendErrorMessage(FailedSend(r))),
            "FAILED_SYSTEM_FAILURE")

\* The message type is the one of DialogRequest, stored in the XML dialog.
OnProcessUnstructuredSSRequest(r) == ForwardToApp(r, "Begin")

\* The message type is read from the MAP dialog when the event is handled.
OnUnstructuredSSResponse(r) ==
  ForwardToApp(Count(r, {"MessagesRecieved", "MessagesAll"}), r.tcap)

-----------------------------------------------------------------------------
(***************************************************************************)
(* The end of the dialog, by the network or the mobile.                    *)
(***************************************************************************)
OnAbortIndication(r, status) ==
  Fail(TerminateProtocolConnection(NotifyApp(r, r.tcap)), status)

OnDialogReject(r) == OnAbortIndication(r, "FAILED_DIALOG_REJECTED")
OnDialogUserAbort(r) == OnAbortIndication(r, "FAILED_DIALOG_USER_ABORT")
OnDialogProviderAbort(r) == OnAbortIndication(r, "FAILED_PROVIDER_ABORT")

\* Faulty variants: no failure statistic, no end of the connection, no CDR.
OnDialogCloseUncounted(r) ==
  CreateCdr(TerminateProtocolConnection(r), "FAILED_SYSTEM_FAILURE")
OnDialogCloseOpen(r) == Fail(r, "FAILED_SYSTEM_FAILURE")
OnDialogCloseUnbilled(r) == UpdateDialogFailureStat(TerminateProtocolConnection(r))

\* The application is not told.
OnDialogClose(r) == Fail(TerminateProtocolConnection(r), "FAILED_SYSTEM_FAILURE")

\* Behind the abort: the application is told; an HTTP connection stays open for
\* the answer that onResponseEvent discards.
DialogTimedOut(r) ==
  LET told == NotifyApp(r, "Abort")
      closed == IF IsSip(told)
                THEN TerminateProtocolConnection(told)
                ELSE [told EXCEPT !.final = TRUE]
  IN  Fail(Count(closed, {"MapDialogTimeouts"}), "FAILED_DIALOG_TIMEOUT")

\* Faulty variant: a dialog that was kept alive is left to the stack.
OnDialogTimeoutLeft(r) == IF Live(r) THEN r ELSE DialogTimedOut(r)

OnDialogTimeout(r) == DialogTimedOut(MapAbort(r))

\* removeDialogsInProcess is left to the caller: the counter is shared.
OnDialogRelease(r) == [r EXCEPT !.aci = FALSE, !.mapq = << >>, !.timers = {}]

-----------------------------------------------------------------------------
(***************************************************************************)
(* Components.                                                             *)
(***************************************************************************)
OnInvokeTimeout(r) ==
  Fail(Count(TerminateProtocolConnection(NotifyApp(MapAbort(r), "Abort")),
             {"MapInvokeTimeouts"}),
       "FAILED_INVOKE_TIMEOUT")

\* In a TC-END the DialogClose that follows does the failure statistic.
OnErrorComponent(r) ==
  LET t == TerminateProtocolConnection(NotifyApp(MapAbort(r), r.tcap))
      f == IF r.tcap # "End" THEN UpdateDialogFailureStat(t) ELSE t
  IN  CreateCdr(Count(f, {"MapErrorComponentOther"}), "FAILED_MAP_ERROR_COMPONENT")

\* No terminateProtocolConnection, and fixed failure counters.
OnRejectComponent(r) ==
  Count(CreateCdr(NotifyApp(MapAbort(r), r.tcap), "FAILED_MAP_REJECT_COMPONENT"),
        {"DialogsAllFailed", "DialogsPushFailed", "DialogsHttpFailed"})

-----------------------------------------------------------------------------
\* onTimerEvent: the application did not answer within dialogtimeout.
OnTimerEvent(r) ==
  LET e == SendErrorMessage(r)
      told == IF IsSip(e) THEN NotifyApp(e, "Abort") ELSE e
  IN  Fail(Count(TerminateProtocolConnection(told), {"AppTimeouts"}), "FAILED_APP_TIMEOUT")
=============================================================================
