---------------------------- MODULE SipClientSbb ----------------------------
(***************************************************************************)
(* The SIP side of a PULL dialog (sip/SipClientSbb.java): an INVITE opens  *)
(* a SIP dialog with the application, INFO requests carry the menu in both *)
(* directions and a BYE of the application carries the last answer.        *)
(***************************************************************************)
EXTENDS PullDialog

\* An INFO takes its text from the first MAP message and needs a SIP dialog; an
\* INVITE needs an address; what ends the dialog never throws.
SipSendOk(r, type, hasMessage) ==
  CASE type = "Begin" -> hasMessage /\ r.urlOk
    [] type = "Continue" -> hasMessage /\ r.conn \in {"confirmed", "bye"}
    [] OTHER -> TRUE

\* sendBye: a BYE on a confirmed dialog, else the dialog is deleted.
AbortSipDialog(r) ==
  CASE r.conn = "confirmed" -> [r EXCEPT !.conn = "bye"]
    [] r.conn = "early" -> [r EXCEPT !.conn = "lateInvite", !.waiting = 0]
    [] OTHER -> r

SipSendUssdData(r, type) ==
  CASE type = "Begin" -> [r EXCEPT !.conn = "early", !.waiting = @ + 1]
    [] type = "Continue" -> [r EXCEPT !.waiting = @ + 1]
    [] OTHER -> AbortSipDialog(r)

\* Faulty variant: a confirmed dialog is left to the application.
SipTerminateUnconfirmed(r) ==
  CASE r.conn = "early" -> [r EXCEPT !.conn = "lateInvite", !.waiting = 0]
    [] r.conn = "bye" -> [r EXCEPT !.conn = "lateBye", !.waiting = 0]
    [] OTHER -> r

\* terminateProtocolConnection: delete(), whose transactions live on.
SipTerminate(r) ==
  CASE r.conn = "early" -> [r EXCEPT !.conn = "lateInvite", !.waiting = 0]
    [] r.conn = "bye" -> [r EXCEPT !.conn = "lateBye", !.waiting = 0]
    [] r.conn = "confirmed" -> [r EXCEPT !.conn = "over", !.waiting = 0]
    [] OTHER -> r

SipUpdateDialogFailureStat(r) ==
  Count(r, {"DialogsAllFailed", "DialogsPullFailed", "DialogsSipFailed"})

SipFail(r, status) == CreateCdr(SipUpdateDialogFailureStat(r), status)

-----------------------------------------------------------------------------
(***************************************************************************)
(* Responses.  The answer to an INVITE changes the dialog in the SIP       *)
(* stack, before the SBB sees the event.                                   *)
(***************************************************************************)
\* onSuccessRespEvent whose ACK cannot be sent.
OnSuccessNoAck(r) ==
  SipFail(AbortSipDialog(SendErrorMessage(r)), "FAILED_TRANSPORT_FAILURE")

\* onClientErrorRespEvent, onServerErrorRespEvent, onGlobalFailureRespEvent.
OnFailureResponse(r) ==
  SipFail(AbortSipDialog(SendErrorMessage(r)), "FAILED_TRANSPORT_ERROR")

-----------------------------------------------------------------------------
(***************************************************************************)
(* onInfoReqEvent.                                                         *)
(***************************************************************************)
\* No payload: the only error path that moves no failure counter.
OnEmptyInfo(r) ==
  CreateCdr(AbortSipDialog(SendErrorMessage(r)), "FAILED_CORRUPTED_MESSAGE")

OnGarbledInfo(r) ==
  SipFail(AbortSipDialog(SendErrorMessage(r)), "FAILED_CORRUPTED_MESSAGE")

\* The MAP activity is gone: getMAPDialog() is null.
OnOrphanInfo(r) == SipFail(AbortSipDialog(r), "FAILED_DIALOG_TIMEOUT")

\* send() throws when the dialog is over, after the counters moved.
OnRequestInfo(r) ==
  LET c == Count(r, {"UssdRequestOperations", "MessagesSent", "MessagesAll"})
  IN  IF Live(c) THEN MapSend(c, "request") ELSE OnGarbledInfo(c)

OnErrorInfo(r) == SipFail(AbortSipDialog(SendErrorMessage(r)), "ABORT_APP")

\* Faulty variant: the timer of the application is not cancelled.
OnInfoReqEventTimed(r, k) ==
  CASE k = "infoEmpty" -> OnEmptyInfo(r)
    [] k = "infoGarbled" -> OnGarbledInfo(r)
    [] k \in {"infoRequest", "infoError"} /\ ~r.aci -> OnOrphanInfo(r)
    [] k = "infoRequest" /\ r.aci -> OnRequestInfo(r)
    [] OTHER -> OnErrorInfo(r)

OnInfoReqEvent(r, k) ==
  LET c == CancelTimer(r)
  IN  CASE k = "infoEmpty" -> OnEmptyInfo(c)
        [] k = "infoGarbled" -> OnGarbledInfo(c)
        [] k \in {"infoRequest", "infoError"} /\ ~c.aci -> OnOrphanInfo(c)
        [] k = "infoRequest" /\ c.aci -> OnRequestInfo(c)
        [] OTHER -> OnErrorInfo(c)

-----------------------------------------------------------------------------
(***************************************************************************)
(* onCallTerminated: a BYE.  Its 200 terminates the SIP dialog as a        *)
(* delete() does.                                                          *)
(***************************************************************************)

OnGarbledBye(r) == SipFail(SendErrorMessage(r), "FAILED_CORRUPTED_MESSAGE")

\* No failure of close() leaves a SUCCESS; no message counter moves.
OnAnswerBye(r) ==
  IF Live(r) THEN CreateCdr(Expunge(r, "answer"), "SUCCESS") ELSE OnGarbledBye(r)

OnErrorBye(r) ==
  IF r.aci THEN SipFail(MapAbort(r), "ABORT_APP") ELSE OnGarbledBye(r)

OnCallTerminated(r, k) ==
  LET c == SipTerminate(CancelTimer(r))
  IN  CASE k = "byeAnswer" -> OnAnswerBye(c)
        [] k = "byeError" -> OnErrorBye(c)
        [] OTHER -> OnGarbledBye(c)
=============================================================================
