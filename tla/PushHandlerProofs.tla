------------------------- MODULE PushHandlerProofs -------------------------
(***************************************************************************)
(* Lemmas about the handlers of a PUSH dialog.  Whatever a handler of      *)
(* either server SBB does, it leaves the query and the ownership of the    *)
(* record alone, keeps a CDR that was written, re-opens no connection, and *)
(* moves the MAP dialog forward only: it sends on it, or ends it with one  *)
(* Release.  The relation is transitive, and handlers are pipelines.       *)
(***************************************************************************)
EXTENDS HttpServerSbb, SipServerSbb, TLAPS

\* What no handler changes.
Kept(r) == << r.owner, r.sri, r.sriq, r.located, r.queries, r.answers, r.posts,
              r.appq, r.aci >>

Running == {"idle", "initialSent", "active"}

MapEvolves(r, s) ==
  \/ s.map = r.map /\ s.mapq = r.mapq /\ s.ending = r.ending
  \/ /\ r.map \in Running /\ s.map \in Running
     /\ s.mapq = r.mapq /\ s.ending = r.ending
  \/ r.map \in Running /\ s.map = "expunged" /\ s.mapq = Append(r.mapq, "Release")

CdrKept(r, s) == r.cdr # "none" => s.cdr = r.cdr

Evolves(r, s) ==
  /\ s \in PushRecord /\ Kept(s) = Kept(r)
  /\ CdrKept(r, s) /\ MapEvolves(r, s)
  /\ r.conn \in {"none", "over"} => s.conn = r.conn

\* Nothing done.
LEMMA EvolvesRefl ==
  ASSUME NEW r \in PushRecord
  PROVE  Evolves(r, r)
BY DEF Evolves, CdrKept, MapEvolves

\* One service after the other.
LEMMA EvolvesTrans ==
  ASSUME NEW r, NEW s, NEW t, Evolves(r, s), Evolves(s, t)
  PROVE  Evolves(r, t)
<1>1. MapEvolves(r, t)
  BY DEF Evolves, MapEvolves, Running
<1> QED
  BY <1>1 DEF Evolves, CdrKept

-----------------------------------------------------------------------------
(***************************************************************************)
(* The MAP stack and the services.                                         *)
(***************************************************************************)
\* The end of a dialog that runs.
LEMMA ExpungeEvolves ==
  ASSUME NEW r \in PushRecord, NEW how \in Endings, r.map \in Running
  PROVE  Evolves(r, Expunge(r, how))
<1>1. Append(r.mapq, "Release") \in Seq(MapEvents)
  BY DEF PushRecord, MapEvents
<1>2. Expunge(r, how) \in PushRecord
  BY <1>1 DEF Expunge, Fire, PushRecord, MapStates
<1> QED
  BY <1>2 DEF Expunge, Fire, PushRecord, Evolves, Kept, CdrKept, MapEvolves

\* send() on a dialog that accepts it.
LEMMA MapSendEvolves ==
  ASSUME NEW r \in PushRecord, NEW ops \in SUBSET Operations, SendOk(r)
  PROVE  Evolves(r, MapSend(r, ops))
<1>1. MapSend(r, ops) \in PushRecord
  BY DEF MapSend, PushRecord, MapStates
<1> QED
  BY <1>1 DEF MapSend, SendOk, PushRecord, Evolves, Kept, CdrKept, MapEvolves, Running

\* abort().
LEMMA MapAbortEvolves ==
  ASSUME NEW r \in PushRecord
  PROVE  Evolves(r, MapAbort(r))
BY ExpungeEvolves, EvolvesRefl DEF MapAbort, Live, Running, Endings

\* release().
LEMMA MapReleaseEvolves ==
  ASSUME NEW r \in PushRecord
  PROVE  Evolves(r, MapRelease(r))
BY ExpungeEvolves, EvolvesRefl DEF MapRelease, Live, Running, Endings

\* close() of a dialog that accepts it.
LEMMA CloseEvolves ==
  ASSUME NEW r \in PushRecord, NEW how \in Endings, CloseOk(r)
  PROVE  Evolves(r, Expunge(r, how))
BY ExpungeEvolves DEF CloseOk, Running

\* createRecord.
LEMMA CreateCdrEvolves ==
  ASSUME NEW r \in PushRecord, NEW status \in CdrStatuses
  PROVE  Evolves(r, CreateCdr(r, status))
<1>1. CreateCdr(r, status) \in PushRecord
  BY DEF CreateCdr, PushRecord
<1> QED
  BY <1>1 DEF CreateCdr, PushRecord, Evolves, Kept, CdrKept, MapEvolves

\* setTimer.
LEMMA SetTimerEvolves ==
  ASSUME NEW r \in PushRecord
  PROVE  Evolves(r, SetTimer(r))
<1>1. r.timerID + 1 \in Nat /\ r.timers \cup {r.timerID + 1} \in SUBSET Nat
  BY DEF PushRecord
<1>2. SetTimer(r) \in PushRecord
  BY <1>1 DEF SetTimer, PushRecord
<1> QED
  BY <1>2 DEF SetTimer, PushRecord, Evolves, Kept, CdrKept, MapEvolves

\* cancelTimer.
LEMMA CancelTimerEvolves ==
  ASSUME NEW r \in PushRecord
  PROVE  Evolves(r, CancelTimer(r))
<1>1. CancelTimer(r) \in PushRecord
  BY DEF CancelTimer, PushRecord
<1> QED
  BY <1>1 DEF CancelTimer, PushRecord, Evolves, Kept, CdrKept, MapEvolves

\* updateDialogFailureStat.
LEMMA FailureStatEvolves ==
  ASSUME NEW r \in PushRecord
  PROVE  Evolves(r, UpdateDialogFailureStat(r))
<1>1. UpdateDialogFailureStat(r) \in PushRecord
  BY DEF UpdateDialogFailureStat, PushRecord
<1> QED
  BY <1>1 DEF UpdateDialogFailureStat, PushRecord, Evolves, Kept, CdrKept, MapEvolves

\* The counters of an established dialog.
LEMMA EstablishedStatEvolves ==
  ASSUME NEW r \in PushRecord
  PROVE  Evolves(r, UpdateDialogEstablishedStat(r))
<1>1. UpdateDialogEstablishedStat(r) \in PushRecord
  BY DEF UpdateDialogEstablishedStat, PushRecord
<1> QED
  BY <1>1 DEF UpdateDialogEstablishedStat, PushRecord, Evolves, Kept, CdrKept, MapEvolves

\* Counted and billed as a failure.
LEMMA FailEvolves ==
  ASSUME NEW r \in PushRecord, NEW status \in CdrStatuses
  PROVE  Evolves(r, Fail(r, status))
<1> DEFINE f == UpdateDialogFailureStat(r)
<1>1. Evolves(r, f)
  BY FailureStatEvolves
<1>2. Evolves(f, CreateCdr(f, status))
  BY <1>1, CreateCdrEvolves DEF Evolves
<1> QED
  BY <1>1, <1>2, EvolvesTrans DEF Fail

\* A failure behind other services.
LEMMA ThenFail ==
  ASSUME NEW r, NEW s, Evolves(r, s), NEW status \in CdrStatuses
  PROVE  Evolves(r, Fail(s, status))
<1>1. Evolves(s, Fail(s, status))
  BY FailEvolves DEF Evolves
<1> QED
  BY <1>1, EvolvesTrans

\* abortMapDialog.
LEMMA AbortMapDialogEvolves ==
  ASSUME NEW r \in PushRecord
  PROVE  Evolves(r, AbortMapDialog(r))
BY MapAbortEvolves, MapReleaseEvolves DEF AbortMapDialog

\* sendErrorMessage.
LEMMA SendErrorMessageEvolves ==
  ASSUME NEW r \in PushRecord
  PROVE  Evolves(r, SendErrorMessage(r))
<1>1. CASE SendOk(r)
  <2> DEFINE s == MapSend(r, {"notify"})
  <2>1. Evolves(r, s)
    BY <1>1, MapSendEvolves DEF Operations
  <2> HIDE DEF s
  <2>2. [s EXCEPT !.final = TRUE] \in PushRecord
    BY <2>1 DEF Evolves, PushRecord
  <2>3. Evolves(s, [s EXCEPT !.final = TRUE])
    BY <2>1, <2>2 DEF PushRecord, Evolves, Kept, CdrKept, MapEvolves
  <2>4. Evolves(r, [s EXCEPT !.final = TRUE])
    BY <2>1, <2>3, EvolvesTrans
  <2> QED
    BY <1>1, <2>4 DEF SendErrorMessage, s
<1>2. CASE ~SendOk(r)
  BY <1>2, EvolvesRefl DEF SendErrorMessage
<1> QED
  BY <1>1, <1>2

-----------------------------------------------------------------------------
(***************************************************************************)
(* The HTTP server SBB.                                                    *)
(***************************************************************************)
\* resumeHttpEventContext.
LEMMA ResumeEvolves ==
  ASSUME NEW r \in PushRecord
  PROVE  Evolves(r, ResumeHttpEventContext(r))
<1>1. ResumeHttpEventContext(r) \in PushRecord
  BY DEF ResumeHttpEventContext, PushRecord, Contexts
<1> QED
  BY <1>1 DEF ResumeHttpEventContext, PushRecord, Evolves, Kept, CdrKept, MapEvolves

\* suspendDelivery.
LEMMA SuspendEvolves ==
  ASSUME NEW r \in PushRecord
  PROVE  Evolves(r, SuspendPost(r))
<1>1. SuspendPost(r) \in PushRecord
  BY DEF SuspendPost, PushRecord, Contexts
<1> QED
  BY <1>1 DEF SuspendPost, PushRecord, Evolves, Kept, CdrKept, MapEvolves

\* endHttpSessionActivity.
LEMMA EndSessionEvolves ==
  ASSUME NEW r \in PushRecord
  PROVE  Evolves(r, EndHttpSessionActivity(r))
<1>1. EndHttpSessionActivity(r) \in PushRecord
  BY DEF EndHttpSessionActivity, PushRecord, ConnStates
<1> QED
  BY <1>1 DEF EndHttpSessionActivity, PushRecord, Evolves, Kept, CdrKept, MapEvolves

\* The response that ends the session.
LEMMA ConcludeEvolves ==
  ASSUME NEW r \in PushRecord
  PROVE  Evolves(r, Conclude(r))
<1> DEFINE a == ResumeHttpEventContext(r)
<1>1. Evolves(r, a)
  BY ResumeEvolves
<1>2. Evolves(a, EndHttpSessionActivity(a))
  BY <1>1, EndSessionEvolves DEF Evolves
<1> QED
  BY <1>1, <1>2, EvolvesTrans DEF Conclude

\* abortHttpDialog.
LEMMA AbortHttpDialogEvolves ==
  ASSUME NEW r \in PushRecord
  PROVE  Evolves(r, AbortHttpDialog(r))
BY ConcludeEvolves, EvolvesRefl DEF AbortHttpDialog, Conclude

\* abortHttpDialog behind other services, and then the failure.
LEMMA ThenAbortAndFail ==
  ASSUME NEW r, NEW s, Evolves(r, s), NEW status \in CdrStatuses
  PROVE  Evolves(r, Fail(AbortHttpDialog(s), status))
<1>1. Evolves(s, AbortHttpDialog(s))
  BY AbortHttpDialogEvolves DEF Evolves
<1>2. Evolves(r, AbortHttpDialog(s))
  BY <1>1, EvolvesTrans
<1> QED
  BY <1>2, ThenFail

\* onSessionPost: the finally block.
LEMMA OnFailedPostEvolves ==
  ASSUME NEW r \in PushRecord
  PROVE  Evolves(r, OnFailedPost(r))
<1> DEFINE a == AbortHttpDialog(r)
<1>1. Evolves(r, a)
  BY AbortHttpDialogEvolves
<1>2. Evolves(a, MapAbort(a))
  BY <1>1, MapAbortEvolves DEF Evolves
<1>3. Evolves(r, MapAbort(a))
  BY <1>1, <1>2, EvolvesTrans
<1> HIDE DEF a
<1>4. "FAILED_CORRUPTED_MESSAGE" \in CdrStatuses
  BY DEF CdrStatuses
<1>5. Evolves(r, Fail(MapAbort(a), "FAILED_CORRUPTED_MESSAGE"))
  BY <1>3, <1>4, ThenFail
<1> QED
  BY <1>5 DEF OnFailedPost, a

\* The CDR behind the response that ends the session.
LEMMA ThenConclude ==
  ASSUME NEW r, NEW s, Evolves(r, s), NEW status \in CdrStatuses
  PROVE  Evolves(r, Conclude(s)) /\ Evolves(r, CreateCdr(Conclude(s), status))
<1>1. Evolves(s, Conclude(s))
  BY ConcludeEvolves DEF Evolves
<1>2. Evolves(r, Conclude(s))
  BY <1>1, EvolvesTrans
<1>3. Evolves(Conclude(s), CreateCdr(Conclude(s), status))
  BY <1>2, CreateCdrEvolves DEF Evolves
<1> QED
  BY <1>2, <1>3, EvolvesTrans

\* pushToDevice of a POST of the session.
LEMMA SessionPushEvolves ==
  ASSUME NEW r \in PushRecord, NEW op \in Operations
  PROVE  /\ Evolves(r, OnAbortPost(r))
         /\ Evolves(r, OnFinalPost(r))
         /\ Evolves(r, OnContinuePost(r, op))
<1>1. "ABORT_APP" \in CdrStatuses /\ "SUCCESS" \in CdrStatuses /\ "answer" \in Endings
  BY DEF CdrStatuses, Endings
<1>2. Evolves(r, OnAbortPost(r))
  BY <1>1, MapAbortEvolves, ThenConclude, OnFailedPostEvolves DEF OnAbortPost
<1>3. Evolves(r, OnFinalPost(r))
  BY <1>1, CloseEvolves, ThenConclude, OnFailedPostEvolves DEF OnFinalPost
<1>4. Evolves(r, OnContinuePost(r, op))
  BY MapSendEvolves, OnFailedPostEvolves DEF OnContinuePost
<1> QED
  BY <1>2, <1>3, <1>4

\* onSessionPost.
LEMMA OnSessionPostEvolves ==
  ASSUME NEW r \in PushRecord, NEW k \in SessionPosts
  PROVE  Evolves(r, OnSessionPost(r, k))
<1> DEFINE a == CancelTimer(r)
           c == SuspendPost(a)
<1>1. Evolves(r, a)
  BY CancelTimerEvolves
<1>2. Evolves(a, c)
  BY <1>1, SuspendEvolves DEF Evolves
<1>3. Evolves(r, c)
  BY <1>1, <1>2, EvolvesTrans
<1>4. "request" \in Operations /\ "notify" \in Operations
  BY DEF Operations
<1>5. /\ Evolves(c, OnAbortPost(c)) /\ Evolves(c, OnFinalPost(c))
      /\ Evolves(c, OnFailedPost(c))
      /\ Evolves(c, OnContinuePost(c, "request"))
      /\ Evolves(c, OnContinuePost(c, "notify"))
  <2>1. c \in PushRecord
    BY <1>2 DEF Evolves
  <2> HIDE DEF c
  <2> QED
    BY <1>4, <2>1, SessionPushEvolves, OnFailedPostEvolves
<1> HIDE DEF c
<1>6. /\ Evolves(r, OnAbortPost(c)) /\ Evolves(r, OnFinalPost(c))
      /\ Evolves(r, OnFailedPost(c))
      /\ Evolves(r, OnContinuePost(c, "request"))
      /\ Evolves(r, OnContinuePost(c, "notify"))
  BY <1>3, <1>5, EvolvesTrans
<1>7. Evolves(r, r)
  BY EvolvesRefl
<1> QED
  BY <1>6, <1>7 DEF OnSessionPost, c, a

\* onSRIResult: the catch.
LEMMA PushFailedEvolves ==
  ASSUME NEW r \in PushRecord
  PROVE  Evolves(r, PushFailed(r))
<1>1. "FAILED_SYSTEM_FAILURE" \in CdrStatuses
  BY DEF CdrStatuses
<1> QED
  BY <1>1, MapReleaseEvolves, ThenAbortAndFail DEF PushFailed

\* pushToDevice of the first message.
LEMMA PushFirstEvolves ==
  ASSUME NEW r \in PushRecord
  PROVE  Evolves(r, PushFirst(r))
<1>1. CASE r.last /\ CloseOk(r)
  <2>1. "SUCCESS" \in CdrStatuses /\ "answer" \in Endings
    BY DEF CdrStatuses, Endings
  <2> QED
    BY <1>1, <2>1, CloseEvolves, ThenConclude DEF PushFirst
<1>2. CASE ~r.last /\ SendOk(r)
  <2>1. {r.op} \in SUBSET Operations
    BY DEF PushRecord
  <2> QED
    BY <1>2, <2>1, MapSendEvolves DEF PushFirst
<1>3. CASE ~(r.last /\ CloseOk(r)) /\ ~(~r.last /\ SendOk(r))
  BY <1>3, PushFailedEvolves DEF PushFirst
<1> QED
  BY <1>1, <1>2, <1>3

\* onSRIResult: without a MAP dialog, or from the dialog that was created.
LEMMA HttpOnSriResultEvolves ==
  ASSUME NEW r \in PushRecord, NEW fault, CreateNewDialog(r) \in PushRecord
  PROVE  IF fault = "create" THEN Evolves(r, HttpOnSriResult(r, fault))
                             ELSE Evolves(CreateNewDialog(r), HttpOnSriResult(r, fault))
<1> DEFINE c == CreateNewDialog(r)
<1>1. SendOk(c)
  BY DEF CreateNewDialog, SendOk, PushRecord
<1> HIDE DEF c
<1>2. Evolves(c, MapSend(c, {})) /\ Evolves(c, PushFirst(c)) /\ Evolves(c, PushFailed(c))
  BY <1>1, MapSendEvolves, PushFirstEvolves, PushFailedEvolves DEF c
<1> QED
  BY <1>2, PushFailedEvolves DEF HttpOnSriResult, c

\* onSriError, and the ends of the dialog that the network reports.
LEMMA HttpOnSriErrorEvolves ==
  ASSUME NEW r \in PushRecord, NEW status \in CdrStatuses
  PROVE  /\ Evolves(r, HttpOnSriError(r, status))
         /\ Evolves(r, HttpOnAbortIndication(r, status))
BY EvolvesRefl, ThenAbortAndFail DEF HttpOnSriError, HttpOnAbortIndication

\* onDialogAccept.
LEMMA HttpOnDialogAcceptEvolves ==
  ASSUME NEW r \in PushRecord
  PROVE  Evolves(r, HttpOnDialogAccept(r))
<1> DEFINE p == PushFirst(r)
<1>1. Evolves(r, p)
  BY PushFirstEvolves
<1> HIDE DEF p
<1>2. Evolves(p, UpdateDialogEstablishedStat(p))
  BY <1>1, EstablishedStatEvolves DEF Evolves
<1>3. Evolves(r, UpdateDialogEstablishedStat(p))
  BY <1>1, <1>2, EvolvesTrans
<1>4. Evolves(r, UpdateDialogEstablishedStat(r))
  BY EstablishedStatEvolves
<1> QED
  BY <1>1, <1>3, <1>4 DEF HttpOnDialogAccept, p

\* processReceivedMAPEvent.
LEMMA ProcessReceivedEvolves ==
  ASSUME NEW r \in PushRecord
  PROVE  Evolves(r, ProcessReceivedMapEvent(r))
BY ResumeEvolves, ConcludeEvolves DEF ProcessReceivedMapEvent, Conclude

\* Answers of the mobile.
LEMMA HttpAnswersEvolve ==
  ASSUME NEW r \in PushRecord
  PROVE  /\ Evolves(r, HttpOnUnstructuredSSResponse(r))
         /\ Evolves(r, HttpOnNotifyResponse(r))
<1> DEFINE p == ProcessReceivedMapEvent(r)
<1>1. Evolves(r, p)
  BY ProcessReceivedEvolves
<1> HIDE DEF p
<1>2. Evolves(p, SetTimer(p))
  BY <1>1, SetTimerEvolves DEF Evolves
<1>3. Evolves(r, SetTimer(p))
  BY <1>1, <1>2, EvolvesTrans
<1>4. "final" \in Endings
  BY DEF Endings
<1>5. Evolves(r, HttpOnNotifyResponse(r))
  BY <1>1, <1>4, CloseEvolves DEF HttpOnNotifyResponse, p
<1> QED
  BY <1>3, <1>5 DEF HttpOnUnstructuredSSResponse, p

\* Failures.
LEMMA HttpFailuresEvolve ==
  ASSUME NEW r \in PushRecord, NEW status \in CdrStatuses
  PROVE  /\ Evolves(r, HttpOnComponentFailure(r, status))
         /\ Evolves(r, HttpOnDialogTimeout(r))
         /\ Evolves(r, HttpOnTimerEvent(r))
<1>1. "FAILED_DIALOG_TIMEOUT" \in CdrStatuses /\ "FAILED_APP_TIMEOUT" \in CdrStatuses
  BY DEF CdrStatuses
<1>2. Evolves(r, HttpOnComponentFailure(r, status))
  BY AbortMapDialogEvolves, ThenAbortAndFail DEF HttpOnComponentFailure
<1>3. Evolves(r, HttpOnDialogTimeout(r))
  BY <1>1, MapAbortEvolves, ThenAbortAndFail DEF HttpOnDialogTimeout
<1>4. Evolves(r, HttpOnTimerEvent(r))
  BY <1>1, SendErrorMessageEvolves, ThenFail DEF HttpOnTimerEvent
<1> QED
  BY <1>2, <1>3, <1>4

-----------------------------------------------------------------------------
(***************************************************************************)
(* The SIP server SBB.                                                     *)
(***************************************************************************)
\* A BYE of the gateway.
LEMMA AbortSipDialogEvolves ==
  ASSUME NEW r \in PushRecord
  PROVE  Evolves(r, AbortSipDialog(r))
<1>1. AbortSipDialog(r) \in PushRecord
  BY DEF AbortSipDialog, PushRecord, ConnStates
<1> QED
  BY <1>1 DEF AbortSipDialog, PushRecord, Evolves, Kept, CdrKept, MapEvolves

\* delete().
LEMMA DeleteSipDialogEvolves ==
  ASSUME NEW r \in PushRecord
  PROVE  Evolves(r, DeleteSipDialog(r))
<1>1. DeleteSipDialog(r) \in PushRecord
  BY DEF DeleteSipDialog, PushRecord, ConnStates
<1> QED
  BY <1>1 DEF DeleteSipDialog, PushRecord, Evolves, Kept, CdrKept, MapEvolves

\* A BYE behind other services, and then the failure.
LEMMA ThenByeAndFail ==
  ASSUME NEW r, NEW s, Evolves(r, s), NEW status \in CdrStatuses
  PROVE  Evolves(r, Fail(AbortSipDialog(s), status))
<1>1. Evolves(s, AbortSipDialog(s))
  BY AbortSipDialogEvolves DEF Evolves
<1>2. Evolves(r, AbortSipDialog(s))
  BY <1>1, EvolvesTrans
<1> QED
  BY <1>2, ThenFail

\* onSRIResult: without a MAP dialog, or from the dialog that was created.
LEMMA SipOnSriResultEvolves ==
  ASSUME NEW r \in PushRecord, NEW fault, CreateNewDialog(r) \in PushRecord
  PROVE  IF fault = "create" THEN Evolves(r, SipOnSriResult(r, fault))
                             ELSE Evolves(CreateNewDialog(r), SipOnSriResult(r, fault))
<1> DEFINE c == CreateNewDialog(r)
<1>1. SendOk(c) /\ {r.op} \in SUBSET Operations
  BY DEF CreateNewDialog, SendOk, PushRecord
<1>2. "FAILED_SYSTEM_FAILURE" \in CdrStatuses
  BY DEF CdrStatuses
<1>3. Evolves(r, PushPayloadFailed(r))
  BY <1>2, MapReleaseEvolves, ThenByeAndFail DEF PushPayloadFailed
<1> HIDE DEF c
<1>4. Evolves(c, MapSend(c, {r.op}))
  BY <1>1, MapSendEvolves DEF c
<1>5. Evolves(c, PushPayloadFailed(c))
  BY <1>2, MapReleaseEvolves, ThenByeAndFail DEF PushPayloadFailed, c
<1> QED
  BY <1>3, <1>4, <1>5 DEF SipOnSriResult, c

\* onSriError, and the ends of the dialog that the network reports.
LEMMA SipOnSriErrorEvolves ==
  ASSUME NEW r \in PushRecord, NEW status \in CdrStatuses
  PROVE  /\ Evolves(r, SipOnSriError(r, status))
         /\ Evolves(r, SipOnAbortIndication(r, status))
BY EvolvesRefl, ThenByeAndFail DEF SipOnSriError, SipOnAbortIndication

\* An INFO or a BYE with the answer of the mobile.
LEMMA SendAnswerEvolves ==
  ASSUME NEW r \in PushRecord
  PROVE  Evolves(r, SendAnswer(r))
<1>1. [r EXCEPT !.info = TRUE] \in PushRecord
  BY DEF PushRecord
<1>2. Evolves(r, [r EXCEPT !.info = TRUE])
  BY <1>1 DEF PushRecord, Evolves, Kept, CdrKept, MapEvolves
<1> QED
  BY <1>2, AbortSipDialogEvolves DEF SendAnswer

\* Answers of the mobile.
LEMMA SipAnswersEvolve ==
  ASSUME NEW r \in PushRecord
  PROVE  /\ Evolves(r, SipProcessReceivedMapEvent(r))
         /\ Evolves(r, SipOnUnstructuredSSResponse(r))
         /\ Evolves(r, SipOnNotifyResponse(r))
         /\ Evolves(r, SipOnDialogAccept(r))
<1> DEFINE a == SendAnswer(r)
<1>1. Evolves(r, a) /\ Evolves(r, r)
  BY SendAnswerEvolves, EvolvesRefl
<1> HIDE DEF a
<1>2. Evolves(r, SipProcessReceivedMapEvent(r))
  BY <1>1 DEF SipProcessReceivedMapEvent, a
<1>3. Evolves(a, SetTimer(a))
  BY <1>1, SetTimerEvolves DEF Evolves
<1>4. Evolves(r, SetTimer(a))
  BY <1>1, <1>3, EvolvesTrans
<1>5. Evolves(r, SipOnUnstructuredSSResponse(r))
  BY <1>1, <1>4 DEF SipOnUnstructuredSSResponse, a
<1>6. "final" \in Endings
  BY DEF Endings
<1>7. Evolves(r, SipOnNotifyResponse(r))
  BY <1>2, <1>6, CloseEvolves DEF SipOnNotifyResponse
<1>8. Evolves(r, SipOnDialogAccept(r))
  BY EstablishedStatEvolves DEF SipOnDialogAccept
<1> QED
  BY <1>2, <1>5, <1>7, <1>8

\* onTimerEvent.
LEMMA SipOnTimerEventEvolves ==
  ASSUME NEW r \in PushRecord
  PROVE  Evolves(r, SipOnTimerEvent(r))
<1> DEFINE a == SendErrorMessage(r)
           b == AbortSipDialog(a)
           c == DeleteSipDialog(b)
<1>1. Evolves(r, a)
  BY SendErrorMessageEvolves
<1>2. Evolves(a, b)
  BY <1>1, AbortSipDialogEvolves DEF Evolves
<1>3. Evolves(b, c)
  BY <1>2, DeleteSipDialogEvolves DEF Evolves
<1> HIDE DEF a, b, c
<1>4. Evolves(r, c)
  BY <1>1, <1>2, <1>3, EvolvesTrans
<1>5. Evolves(r, Fail(c, "FAILED_APP_TIMEOUT"))
  BY <1>4, ThenFail DEF CdrStatuses
<1> QED
  BY <1>5 DEF SipOnTimerEvent, a, b, c

\* Failures.
LEMMA SipFailuresEvolve ==
  ASSUME NEW r \in PushRecord, NEW status \in CdrStatuses
  PROVE  /\ Evolves(r, SipOnComponentFailure(r, status))
         /\ Evolves(r, SipOnErrorComponent(r))
         /\ Evolves(r, SipOnDialogTimeout(r))
         /\ Evolves(r, OnTransportError(r))
<1>1. /\ "FAILED_DIALOG_TIMEOUT" \in CdrStatuses
      /\ "FAILED_MAP_ERROR_COMPONENT" \in CdrStatuses
      /\ "FAILED_TRANSPORT_ERROR" \in CdrStatuses
  BY DEF CdrStatuses
<1>2. Evolves(r, SipOnComponentFailure(r, status))
  BY AbortMapDialogEvolves, ThenByeAndFail DEF SipOnComponentFailure
<1>3. Evolves(r, SipOnErrorComponent(r))
  BY <1>1, EvolvesRefl, ThenByeAndFail DEF SipOnErrorComponent
<1>4. Evolves(r, SipOnDialogTimeout(r))
  BY <1>1, MapAbortEvolves, ThenByeAndFail DEF SipOnDialogTimeout
<1>5. Evolves(r, OnTransportError(r))
  BY <1>1, AbortMapDialogEvolves, ThenFail DEF OnTransportError
<1> QED
  BY <1>2, <1>3, <1>4, <1>5

\* onDialogBye.
LEMMA OnDialogByeEvolves ==
  ASSUME NEW r \in PushRecord
  PROVE  Evolves(r, OnDialogBye(r)) /\ Evolves(r, OnByeNoReply(r))
<1> DEFINE a == CancelTimer(r)
           c == ByeAccepted(a)
<1>1. Evolves(r, a)
  BY CancelTimerEvolves
<1>2. Evolves(a, c)
  BY <1>1, DeleteSipDialogEvolves DEF Evolves, ByeAccepted
<1>3. Evolves(a, AbortMapDialog(a))
  BY <1>1, AbortMapDialogEvolves DEF Evolves
<1> HIDE DEF a, c
<1>4. Evolves(r, c)
  BY <1>1, <1>2, EvolvesTrans
<1>5. "SUCCESS" \in CdrStatuses /\ "answer" \in Endings
  BY DEF CdrStatuses, Endings
<1>6. Evolves(r, CreateCdr(c, "SUCCESS"))
  BY <1>4, <1>5, CreateCdrEvolves, EvolvesTrans DEF Evolves
<1>7. Evolves(r, OnDialogBye(r))
  <2>1. CASE c.map = "active"
    <3> DEFINE e == Expunge(c, "answer")
    <3>1. Evolves(c, e)
      BY <1>4, <1>5, <2>1, ExpungeEvolves DEF Evolves, Running
    <3>2. Evolves(e, CreateCdr(e, "SUCCESS"))
      BY <1>5, <3>1, CreateCdrEvolves DEF Evolves
    <3> HIDE DEF e
    <3>3. Evolves(r, CreateCdr(e, "SUCCESS"))
      BY <1>4, <3>1, <3>2, EvolvesTrans
    <3> QED
      BY <2>1, <3>3 DEF OnDialogBye, a, c, e
  <2>2. CASE c.map # "active"
    BY <1>4, <1>6, <2>2 DEF OnDialogBye, a, c
  <2> QED
    BY <2>1, <2>2
<1>8. Evolves(r, AbortMapDialog(a))
  BY <1>1, <1>3, EvolvesTrans
<1>9. Evolves(r, OnByeNoReply(r))
  BY <1>8, ThenFail DEF OnByeNoReply, a, CdrStatuses
<1> QED
  BY <1>7, <1>9

\* onDialogInfo: the catch.
LEMMA OnCorruptedInfoEvolves ==
  ASSUME NEW r \in PushRecord
  PROVE  Evolves(r, OnCorruptedInfo(r))
<1> DEFINE b == AbortSipDialog(r)
<1>1. Evolves(r, b)
  BY AbortSipDialogEvolves
<1>2. Evolves(b, AbortMapDialog(b))
  BY <1>1, AbortMapDialogEvolves DEF Evolves
<1> HIDE DEF b
<1>3. Evolves(r, AbortMapDialog(b))
  BY <1>1, <1>2, EvolvesTrans
<1> QED
  BY <1>3, ThenFail DEF OnCorruptedInfo, b, CdrStatuses

\* onDialogInfo.
LEMMA OnDialogInfoEvolves ==
  ASSUME NEW r \in PushRecord, NEW k
  PROVE  Evolves(r, OnDialogInfo(r, k)) /\ Evolves(r, OnInfoNoReply(r))
<1> DEFINE c == CancelTimer(r)
<1>1. Evolves(r, c)
  BY CancelTimerEvolves
<1> HIDE DEF c
<1>2. c \in PushRecord
  BY <1>1 DEF Evolves
<1>3. Evolves(r, OnCorruptedInfo(c))
  BY <1>1, <1>2, OnCorruptedInfoEvolves, EvolvesTrans
<1>4. Evolves(r, OnInfoNoReply(r))
  BY <1>3 DEF OnInfoNoReply, c
<1>5. ASSUME NEW op \in {"request", "notify"}, SendOk(c)
      PROVE  Evolves(r, MapSend(c, {op}))
  <2>1. Evolves(c, MapSend(c, {op}))
    BY <1>2, <1>5, MapSendEvolves DEF Operations
  <2> QED
    BY <1>1, <2>1, EvolvesTrans
<1>6. OnDialogInfo(r, k) \in
        {OnCorruptedInfo(c)} \cup
        {MapSend(c, {op}) : op \in IF SendOk(c) THEN {"request", "notify"} ELSE {}}
  BY Zenon DEF OnDialogInfo, c
<1>7. Evolves(r, OnDialogInfo(r, k))
  BY <1>3, <1>5, <1>6
<1> QED
  BY <1>4, <1>7
=============================================================================
