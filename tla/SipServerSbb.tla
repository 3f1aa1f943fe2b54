---------------------------- MODULE SipServerSbb ----------------------------
(***************************************************************************)
(* A PUSH dialog that a SIP application started (sip/SipServerSbb.java):   *)
(* its INVITE carries the first message, INFO requests the others, and a   *)
(* BYE of either side ends it.                                             *)
(***************************************************************************)
EXTENDS SriSbb

\* sendSipBye, abortSipDialog; a BYE on top of another changes nothing.
AbortSipDialog(r) == [r EXCEPT !.conn = IF @ = "confirmed" THEN "bye" ELSE @]

\* terminateProtocolConnection: delete(), whose BYE lives on.
DeleteSipDialog(r) ==
  [r EXCEPT !.conn = CASE @ = "bye" -> "lateBye"
                       [] @ = "confirmed" -> "over"
                       [] OTHER -> @]

\* The stack ends the dialog when the BYE of the application is accepted.
ByeAccepted(r) == DeleteSipDialog(r)

-----------------------------------------------------------------------------
(***************************************************************************)
(* onInvite.  The counter of dialogs in process is left to the caller.     *)
(***************************************************************************)
\* 503: no payload, or not a request or notification.
OnUnusableInvite(r) ==
  UpdateDialogFailureStat([r EXCEPT !.owner = "sip", !.conn = "over"])

StartSipPush(r, op) ==
  [r EXCEPT !.owner = "sip", !.conn = "confirmed", !.posts = 1, !.op = op]

OnInvite(r, op) == PerformSriQuery(StartSipPush(r, op))

\* performSRIQuery throws: 503, no CDR.
OnInviteNoQuery(r, op) ==
  UpdateDialogFailureStat([StartSipPush(r, op) EXCEPT !.conn = "over"])

\* 180 or 200 cannot be sent: 503, and the query goes on.
OnInviteNoReply(r, op) ==
  UpdateDialogFailureStat([OnInvite(r, op) EXCEPT !.conn = "over"])

-----------------------------------------------------------------------------
(***************************************************************************)
(* onSRIResult, onSriError, onDialogAccept.                                *)
(***************************************************************************)
PushPayloadFailed(r) ==
  Fail(AbortSipDialog(MapRelease(r)), "FAILED_SYSTEM_FAILURE")

SipOnSriResult(r, fault) ==
  LET c == CreateNewDialog(r)
  IN  CASE fault = "create" -> PushPayloadFailed(r)
        [] fault = "send" -> PushPayloadFailed(c)
        [] OTHER -> MapSend(c, {r.op})

SipOnSriError(r, status) == Fail(AbortSipDialog(r), status)

SipOnDialogAccept(r) == UpdateDialogEstablishedStat(r)

-----------------------------------------------------------------------------
(***************************************************************************)
(* Answers of the mobile: an INFO in a TC-CONTINUE, else a BYE.  An INFO   *)
(* needs a SIP dialog; the exception is logged.                            *)
(***************************************************************************)
InfoOk(r) == r.tcap # "Continue" \/ r.conn \in {"confirmed", "bye"}

SendAnswer(r) ==
  IF r.tcap = "Continue" THEN [r EXCEPT !.info = TRUE] ELSE AbortSipDialog(r)

SipProcessReceivedMapEvent(r) == IF InfoOk(r) THEN SendAnswer(r) ELSE r

SipOnUnstructuredSSResponse(r) == IF InfoOk(r) THEN SetTimer(SendAnswer(r)) ELSE r

SipOnNotifyResponse(r) ==
  IF r.final /\ CloseOk(r) THEN Expunge(r, "final") ELSE SipProcessReceivedMapEvent(r)

-----------------------------------------------------------------------------
(***************************************************************************)
(* Failures on the MAP side.                                               *)
(***************************************************************************)
SipOnAbortIndication(r, status) == Fail(AbortSipDialog(r), status)

\* onInvokeTimeout, onRejectComponent.
SipOnComponentFailure(r, status) == Fail(AbortSipDialog(AbortMapDialog(r)), status)

\* onErrorComponent leaves the dialog with the mobile open.
SipOnErrorComponent(r) == Fail(AbortSipDialog(r), "FAILED_MAP_ERROR_COMPONENT")

SipOnDialogTimeout(r) == Fail(AbortSipDialog(MapAbort(r)), "FAILED_DIALOG_TIMEOUT")

\* Faulty variant: the application is not told.
SipOnTimerEventQuiet(r) == Fail(SendErrorMessage(r), "FAILED_APP_TIMEOUT")

SipOnTimerEvent(r) ==
  Fail(DeleteSipDialog(AbortSipDialog(SendErrorMessage(r))), "FAILED_APP_TIMEOUT")

-----------------------------------------------------------------------------
(***************************************************************************)
(* Requests of the application, and the failure of those of the gateway.   *)
(***************************************************************************)
\* onDialogBye: a TC-BEGIN that is unanswered stays so, and the CDR says SUCCESS.
OnDialogBye(r) ==
  LET c == ByeAccepted(CancelTimer(r))
  IN  CASE c.map \in {"none", "expunged"} -> c
        [] c.map = "active" -> CreateCdr(Expunge(c, "answer"), "SUCCESS")
        [] OTHER -> CreateCdr(c, "SUCCESS")

\* The BYE cannot be answered.
OnByeNoReply(r) == Fail(AbortMapDialog(CancelTimer(r)), "FAILED_TRANSPORT_FAILURE")

OnCorruptedInfo(r) ==
  Fail(AbortMapDialog(AbortSipDialog(r)), "FAILED_CORRUPTED_MESSAGE")

\* An INFO that cannot be answered fares as one that cannot be read.
OnInfoNoReply(r) == OnCorruptedInfo(CancelTimer(r))

OnDialogInfo(r, k) ==
  LET c == CancelTimer(r)
  IN  CASE k = "infoRequest" /\ SendOk(c) -> MapSend(c, {"request"})
        [] k = "infoNotify" /\ SendOk(c) -> MapSend(c, {"notify"})
        [] OTHER -> OnCorruptedInfo(c)

\* onResponseClientError, onResponseServerError, onResponseGlobalFailure and
\* onSipDialogTimeout: the SIP dialog is not ended.
OnTransportError(r) == Fail(AbortMapDialog(r), "FAILED_TRANSPORT_ERROR")
=============================================================================
