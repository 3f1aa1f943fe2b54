--------------------------- MODULE HttpClientSbb ---------------------------
(***************************************************************************)
(* The HTTP side of a PULL dialog (http/HttpClientSbb.java): one HTTP      *)
(* client activity per dialog, a POST for every event of the mobile and    *)
(* the handler of the responses.                                           *)
(***************************************************************************)
EXTENDS PullDialog

\* sendUssdData throws for an address that is no URL and on an activity that
\* already ended.
HttpSendOk(r) == r.urlOk /\ r.conn # "ending"

\* The activity is created on the first POST, before the address is looked at.
HttpSendUssdData(r) ==
  IF HttpSendOk(r)
  THEN [r EXCEPT !.conn = "open", !.waiting = @ + 1]
  ELSE [r EXCEPT !.conn = IF @ = "none" THEN "open" ELSE @]

HttpUpdateDialogFailureStat(r) ==
  Count(r, {"DialogsAllFailed", "DialogsPullFailed", "DialogsHttpFailed"})

\* terminateProtocolConnection and endHttpClientActivity.
HttpTerminate(r) ==
  IF r.conn = "open" THEN [r EXCEPT !.conn = "ending", !.waiting = 0] ELSE r

HttpFail(r, status) ==
  CreateCdr(HttpUpdateDialogFailureStat(HttpTerminate(r)), status)

-----------------------------------------------------------------------------
(***************************************************************************)
(* onResponseEvent, by what the response holds.                            *)
(***************************************************************************)

\* The counters move while the messages are listed, before one is executed.
CountAnswer(r, k) ==
  Count(r, CASE k = "continue" -> {"UssdRequestOperations", "MessagesSent", "MessagesAll"}
             [] k = "notify" -> {"UssdNotifyOperations", "MessagesSent", "MessagesAll"}
             [] k \in {"reply", "end"} -> {"MessagesSent", "MessagesAll"}
             [] OTHER -> {})

\* The outer catch: a payload that is missing, unreadable or not executable.
OnCorruptedResponse(r) ==
  HttpFail(SendErrorMessage(r), "FAILED_CORRUPTED_MESSAGE")

\* Any status but 200.
OnErrorStatus(r) == HttpFail(SendErrorMessage(r), "FAILED_TRANSPORT_FAILURE")

\* The payload holds a mapUserAbortChoice; getMAPDialog() is null without the
\* MAP activity.
OnAbortResponse(r) ==
  IF r.aci THEN HttpFail(MapAbort(r), "ABORT_APP") ELSE OnCorruptedResponse(r)

\* Faulty variant: what close() answers is not looked at.
OnFinalResponseUnchecked(r, k) ==
  LET c == CountAnswer(r, k)
  IN  CreateCdr(HttpTerminate(IF Live(c) THEN Expunge(c, "answer") ELSE c), "SUCCESS")

\* prearrangedEnd is there: false closes with a last answer, true drops.
OnFinalResponse(r, k) ==
  LET c == CountAnswer(r, k)
  IN  IF Live(c)
      THEN CreateCdr(HttpTerminate(Expunge(c, IF k = "end" THEN "answer" ELSE "drop")),
                     "SUCCESS")
      ELSE OnCorruptedResponse(c)

\* Faulty variant: the answer itself is taken for the operation.
OnContinueResponseRaw(r, k) ==
  LET c == CountAnswer(r, k)
  IN  IF Live(c) THEN MapSend(c, k) ELSE OnCorruptedResponse(c)

\* The dialog stays open, with a request or a notification for the mobile or with
\* an answer ("reply") that leaves nothing outstanding.
Operation(k) == CASE k = "continue" -> "request"
                  [] k = "notify" -> "notify"
                  [] OTHER -> "none"

OnContinueResponse(r, k) ==
  LET c == CountAnswer(r, k)
  IN  IF Live(c)
      THEN MapSend(c, Operation(k))
      ELSE OnCorruptedResponse(c)

\* Faulty variant: the early return of a dialog that timed out keeps the activity.
OnResponseEventKept(r, k) ==
  LET c == CancelTimer(r)
  IN  CASE c.final -> c
        [] ~c.final /\ k = "non200" -> OnErrorStatus(c)
        [] ~c.final /\ k = "abort" -> OnAbortResponse(c)
        [] ~c.final /\ k \in {"end", "drop"} -> OnFinalResponse(c, k)
        [] ~c.final /\ k \in {"continue", "notify", "reply"} -> OnContinueResponse(c, k)
        [] OTHER -> OnCorruptedResponse(c)

OnResponseEvent(r, k) ==
  LET c == CancelTimer(r)
  IN  CASE c.final -> HttpTerminate(c)
        [] ~c.final /\ k = "non200" -> OnErrorStatus(c)
        [] ~c.final /\ k = "abort" -> OnAbortResponse(c)
        [] ~c.final /\ k \in {"end", "drop"} -> OnFinalResponse(c, k)
        [] ~c.final /\ k \in {"continue", "notify", "reply"} -> OnContinueResponse(c, k)
        [] OTHER -> OnCorruptedResponse(c)
=============================================================================
