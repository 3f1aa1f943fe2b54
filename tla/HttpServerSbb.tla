--------------------------- MODULE HttpServerSbb ---------------------------
(***************************************************************************)
(* A PUSH dialog that an HTTP application started                          *)
(* (http/HttpServerSbb.java).  The POST that carries a message of the      *)
(* application stays suspended (eventContext) until the mobile answers,    *)
(* and its response carries the answer.                                    *)
(***************************************************************************)
EXTENDS SriSbb

CONSTANT WarningEnabled   \* whether the logger lets warnings pass

ASSUME WarningAssumption == WarningEnabled \in BOOLEAN

\* resumeHttpEventContext: the CMP field reads null once the POST is resumed.
ResumeHttpEventContext(r) == [r EXCEPT !.ctx = "none"]

EndHttpSessionActivity(r) == [r EXCEPT !.conn = IF @ = "open" THEN "over" ELSE @]

\* Faulty variant: the session stays open.
AbortHttpDialogOpen(r) == ResumeHttpEventContext(r)

\* abortHttpDialog: the early return of a dialog without a suspended POST stands
\* inside the check of the log level.
AbortHttpDialog(r) ==
  IF r.ctx = "none" /\ WarningEnabled
  THEN r
  ELSE EndHttpSessionActivity(ResumeHttpEventContext(r))

\* Answers with what the application asked for: the dialog is over for it.
Conclude(r) == EndHttpSessionActivity(ResumeHttpEventContext(r))

-----------------------------------------------------------------------------
(***************************************************************************)
(* onPost.                                                                 *)
(***************************************************************************)
\* Unreadable, or without a subscriber number: answered, no session.
OnUnusablePost(r) == UpdateDialogFailureStat([r EXCEPT !.owner = "http"])

StartPush(r, first) ==
  [r EXCEPT !.owner = "http", !.ctx = "first", !.conn = "open", !.posts = 1,
            !.op = first.op, !.handshake = first.handshake, !.last = first.last]

OnPost(r, first) == PerformSriQuery(StartPush(r, first))

\* performSRIQuery throws: no CDR.
OnPostNoQuery(r, first) ==
  UpdateDialogFailureStat(AbortHttpDialog(StartPush(r, first)))

-----------------------------------------------------------------------------
(***************************************************************************)
(* pushToDevice and onSessionPost.                                         *)
(***************************************************************************)
\* Faulty variant: the POST is not remembered, its answer will be lost.
SuspendForgotten(r) == r

SuspendPost(r) == [r EXCEPT !.ctx = "session"]

\* The finally block.
OnFailedPost(r) ==
  Fail(MapAbort(AbortHttpDialog(r)), "FAILED_CORRUPTED_MESSAGE")

\* abort() needs the MAP activity only.
OnAbortPost(r) ==
  IF r.aci THEN CreateCdr(Conclude(MapAbort(r)), "ABORT_APP") ELSE OnFailedPost(r)

\* Faulty variant: it does not notice that close() failed.
OnFinalPostUnchecked(r) ==
  CreateCdr(Conclude(IF CloseOk(r) THEN Expunge(r, "answer") ELSE r), "SUCCESS")

\* prearrangedEnd.
OnFinalPost(r) ==
  IF CloseOk(r)
  THEN CreateCdr(Conclude(Expunge(r, "answer")), "SUCCESS")
  ELSE OnFailedPost(r)

OnContinuePost(r, op) == IF SendOk(r) THEN MapSend(r, {op}) ELSE OnFailedPost(r)

\* Faulty variant: the timer of the application runs on.
OnSessionPostTimed(r, k) ==
  LET c == SuspendPost(r)
  IN  CASE r.ctx # "none" -> r
        [] r.ctx = "none" /\ k = "abort" -> OnAbortPost(c)
        [] r.ctx = "none" /\ k = "end" -> OnFinalPost(c)
        [] r.ctx = "none" /\ k \in {"request", "notify"} -> OnContinuePost(c, k)
        [] OTHER -> OnFailedPost(c)

\* A POST while another is suspended is dropped, without a response.
OnSessionPost(r, k) ==
  LET c == SuspendPost(CancelTimer(r))
  IN  CASE r.ctx # "none" -> r
        [] r.ctx = "none" /\ k = "abort" -> OnAbortPost(c)
        [] r.ctx = "none" /\ k = "end" -> OnFinalPost(c)
        [] r.ctx = "none" /\ k \in {"request", "notify"} -> OnContinuePost(c, k)
        [] OTHER -> OnFailedPost(c)

-----------------------------------------------------------------------------
(***************************************************************************)
(* onSRIResult and onDialogAccept: the first message, or the handshake and *)
(* then the first message.                                                 *)
(***************************************************************************)
PushFailed(r) ==
  Fail(AbortHttpDialog(MapRelease(r)), "FAILED_SYSTEM_FAILURE")

\* pushToDevice with the first message; its close() ends the dialog without CDR.
PushFirst(r) ==
  CASE r.last /\ CloseOk(r) -> Conclude(Expunge(r, "answer"))
    [] ~r.last /\ SendOk(r) -> MapSend(r, {r.op})
    [] OTHER -> PushFailed(r)

\* fault: what throws, if anything.
HttpOnSriResult(r, fault) ==
  LET c == CreateNewDialog(r)
  IN  CASE fault = "create" -> PushFailed(r)
        [] fault = "send" -> PushFailed(c)
        [] OTHER -> IF r.handshake THEN MapSend(c, {}) ELSE PushFirst(c)

HttpOnSriError(r, status) == Fail(AbortHttpDialog(r), status)

\* Faulty variant: no early return from the catch.
HttpOnDialogAcceptAnyway(r) ==
  IF r.handshake
  THEN UpdateDialogEstablishedStat(PushFirst(r))
  ELSE UpdateDialogEstablishedStat(r)

HttpOnDialogAccept(r) ==
  CASE ~r.handshake -> UpdateDialogEstablishedStat(r)
    [] r.handshake /\ SendOk(r) -> UpdateDialogEstablishedStat(PushFirst(r))
    [] OTHER -> PushFirst(r)

-----------------------------------------------------------------------------
(***************************************************************************)
(* Answers of the mobile.                                                  *)
(***************************************************************************)
\* processReceivedMAPEvent: the response of the suspended POST, lost without one;
\* the message type is read from the MAP dialog when the event is handled.
ProcessReceivedMapEvent(r) ==
  LET a == ResumeHttpEventContext(r)
  IN  IF r.tcap = "End" THEN EndHttpSessionActivity(a) ELSE a

HttpOnUnstructuredSSResponse(r) == SetTimer(ProcessReceivedMapEvent(r))

\* The answer to the error message of the gateway ends the dialog; close() throws
\* on a dialog that is over, and the event is processed as any other.
HttpOnNotifyResponse(r) ==
  IF r.final /\ CloseOk(r) THEN Expunge(r, "final") ELSE ProcessReceivedMapEvent(r)

-----------------------------------------------------------------------------
(***************************************************************************)
(* Failures: onDialogReject, onDialogUserAbort, onDialogProviderAbort, and *)
(* those that abort the dialog first.                                      *)
(***************************************************************************)
HttpOnAbortIndication(r, status) == Fail(AbortHttpDialog(r), status)

\* onInvokeTimeout, onErrorComponent, onRejectComponent.
HttpOnComponentFailure(r, status) ==
  Fail(AbortHttpDialog(AbortMapDialog(r)), status)

\* Faulty variant: it trusts an InvokeTimeout to have done the work.
HttpOnDialogTimeoutIgnored(r) == r

HttpOnDialogTimeout(r) ==
  Fail(AbortHttpDialog(MapAbort(r)), "FAILED_DIALOG_TIMEOUT")

\* onTimerEvent: the session is not ended (terminateProtocolConnection is empty).
HttpOnTimerEvent(r) == Fail(SendErrorMessage(r), "FAILED_APP_TIMEOUT")
=============================================================================
