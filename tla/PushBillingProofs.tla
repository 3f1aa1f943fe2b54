------------------------- MODULE PushBillingProofs -------------------------
(***************************************************************************)
(* When a PUSH dialog is billed.  The CDR of a dialog agrees with its end, *)
(* a dialog that is billed is over, and a session that is ended leaves no  *)
(* dialog behind, for any dialogs, messages and failures, if the register  *)
(* leaves open only what it answered and no suspended POST times out.      *)
(***************************************************************************)
EXTENDS UssdPushProofs

AbortEvents == {"Reject", "UserAbort", "ProviderAbort"}

\* What a SIP application may cause before the subscriber is located.
EarlyStatuses == {"SUCCESS", "FAILED_CORRUPTED_MESSAGE", "FAILED_TRANSPORT_ERROR",
                  "FAILED_TRANSPORT_FAILURE"}

\* The CDR of one dialog agrees with its state (BilledOver, HttpCdrAgrees).
HttpRight(r) ==
  /\ r.cdr # "none" /\ Live(r) => r.cdr = "FAILED_APP_TIMEOUT"
  /\ r.cdr = "SUCCESS" => r.ending = "answer"
  /\ r.cdr = "ABORT_APP" => ~ Live(r)
  /\ r.cdr = "FAILED_DIALOG_REJECTED" => r.ending = "peerAbort"

SipRight(r) ==
  r.cdr # "none" /\ Live(r) =>
    r.cdr \in EarlyStatuses \cup {"FAILED_APP_TIMEOUT", "FAILED_MAP_ERROR_COMPONENT"}

BillSound(r) == IF r.owner = "sip" THEN SipRight(r) ELSE HttpRight(r)

\* The ends that the network reports are ends.
NoAborts(q) == \A i \in 1 .. Len(q) : q[i] \notin AbortEvents

AbortsSound(r) ==
  /\ r.map # "expunged" => NoAborts(r.mapq)
  /\ r.ending # "peerAbort" => \A i \in 1 .. Len(r.mapq) : r.mapq[i] # "Reject"

MapSound(r) ==
  /\ r.map # "idle"
  /\ r.ending # "open" => r.map = "expunged"
  /\ r.owner # "sip" /\ r.tcap = "End" => r.map = "expunged"

\* The side of the application is that of its transport.
SideSound(r) ==
  /\ r.owner = "http" =>
       /\ r.conn \in {"none", "open", "over"} /\ ~ r.info
       /\ r.conn = "over" => ~ Live(r)
       /\ \A i \in 1 .. Len(r.appq) : r.appq[i] \in SessionPosts
  /\ r.owner = "sip" =>
       /\ r.conn # "open"
       /\ \A i \in 1 .. Len(r.appq) : r.appq[i] \in SipEvents

\* The dialog before the subscriber is located.
EarlySound(r) ==
  r.answers = 0 =>
    /\ r.map = "none"
    /\ r.owner # "sip" => r.cdr = "none"
    /\ r.owner = "sip" => r.cdr \in EarlyStatuses \cup {"none"}
    /\ r.owner = "http" =>
         \/ r.ctx = "first" /\ r.conn = "open"
         \/ r.queries = 0 /\ r.appq = << >> /\ r.conn # "open"

Sound(r) ==
  BillSound(r) /\ AbortsSound(r) /\ MapSound(r) /\ SideSound(r) /\ EarlySound(r)

\* Statuses that need no more than that the dialog is over.
FailureStatuses ==
  CdrStatuses \ {"SUCCESS", "ABORT_APP", "FAILED_DIALOG_REJECTED"}

-----------------------------------------------------------------------------
(***************************************************************************)
(* Services, as far as the invariant sees them.                            *)
(***************************************************************************)
Dialog(r) == << r.owner, r.map, r.ending, r.tcap, r.info >>

\* Services that change neither the dialog nor the bill nor the connection.
LEMMA Unseen ==
  ASSUME NEW r \in PushRecord,
         NEW s \in {CancelTimer(r), SuspendPost(r), SetTimer(r),
                    UpdateDialogFailureStat(r), UpdateDialogEstablishedStat(r),
                    ResumeHttpEventContext(r)}
  PROVE  Dialog(s) = Dialog(r) /\ s.cdr = r.cdr /\ s.conn = r.conn
<1>1. CASE s = CancelTimer(r)
  BY <1>1 DEF CancelTimer, PushRecord, Dialog
<1>2. CASE s = SuspendPost(r)
  BY <1>2 DEF SuspendPost, PushRecord, Dialog
<1>3. CASE s = SetTimer(r)
  BY <1>3 DEF SetTimer, PushRecord, Dialog
<1>4. CASE s = UpdateDialogFailureStat(r)
  BY <1>4 DEF UpdateDialogFailureStat, PushRecord, Dialog
<1>5. CASE s = UpdateDialogEstablishedStat(r)
  BY <1>5 DEF UpdateDialogEstablishedStat, PushRecord, Dialog
<1>6. CASE s = ResumeHttpEventContext(r)
  BY <1>6 DEF ResumeHttpEventContext, PushRecord, Dialog
<1> QED
  BY <1>1, <1>2, <1>3, <1>4, <1>5, <1>6

\* Services that may end the session.
LEMMA SessionEnds ==
  ASSUME NEW r \in PushRecord,
         NEW s \in {EndHttpSessionActivity(r), Conclude(r), AbortHttpDialog(r)}
  PROVE  Dialog(s) = Dialog(r) /\ s.cdr = r.cdr /\ s.conn \in {r.conn, "over"}
BY DEF EndHttpSessionActivity, Conclude, AbortHttpDialog, ResumeHttpEventContext,
       PushRecord, Dialog

\* Services of the SIP dialog.
LEMMA ByeSent ==
  ASSUME NEW r \in PushRecord,
         NEW s \in {AbortSipDialog(r), DeleteSipDialog(r)}
  PROVE  /\ Dialog(s) = Dialog(r) /\ s.cdr = r.cdr
         /\ s.conn = r.conn \/ s.conn \in {"bye", "lateBye", "over"}
BY DEF AbortSipDialog, DeleteSipDialog, PushRecord, Dialog

\* Services that end the dialog with the mobile.
LEMMA Stopped ==
  ASSUME NEW r \in PushRecord,
         NEW s \in {MapAbort(r), MapRelease(r), AbortMapDialog(r)}
  PROVE  /\ ~ Live(s) /\ s.cdr = r.cdr /\ s.conn = r.conn
         /\ << s.owner, s.tcap, s.info >> = << r.owner, r.tcap, r.info >>
         /\ s.map = "idle" => r.map = "idle"
BY DEF MapAbort, MapRelease, AbortMapDialog, Expunge, Fire, Live, PushRecord

\* The end of a dialog.
LEMMA ExpungeSeen ==
  ASSUME NEW r \in PushRecord, NEW how
  PROVE  LET s == Expunge(r, how)
         IN  /\ s.map = "expunged" /\ s.ending = how /\ ~ Live(s)
             /\ s.cdr = r.cdr /\ s.conn = r.conn
             /\ << s.owner, s.tcap, s.info >> = << r.owner, r.tcap, r.info >>
BY DEF Expunge, Fire, Live, PushRecord

\* A message to the mobile.
LEMMA SendSeen ==
  ASSUME NEW r \in PushRecord, NEW ops
  PROVE  LET s == MapSend(r, ops)
         IN  /\ s.map # "idle" /\ s.cdr = r.cdr /\ s.conn = r.conn
             /\ << s.owner, s.tcap, s.info >> = << r.owner, r.tcap, r.info >>
BY DEF MapSend, PushRecord

\* createRecord, alone or with the failure counted.
LEMMA Bill ==
  ASSUME NEW r \in PushRecord, NEW status \in CdrStatuses,
         NEW s \in {CreateCdr(r, status), Fail(r, status)}
  PROVE  Dialog(s) = Dialog(r) /\ s.conn = r.conn /\ s.cdr \in {r.cdr, status}
BY DEF CreateCdr, Fail, UpdateDialogFailureStat, PushRecord, Dialog

-----------------------------------------------------------------------------
(***************************************************************************)
(* What a handler may do to the bill.                                      *)
(***************************************************************************)
HttpDoes(r, s) ==
  /\ << s.owner, s.tcap, s.info >> = << r.owner, r.tcap, r.info >>
  /\ s.map = "idle" => r.map = "idle"
  /\ s.conn = r.conn \/ (s.conn = "over" /\ ~ Live(s))
  /\ s.cdr = r.cdr \/ HttpRight(s)

SipDoes(r, s) ==
  /\ s.owner = r.owner
  /\ s.map = "idle" => r.map = "idle"
  /\ s.conn = r.conn \/ s.conn \in {"bye", "lateBye", "over"}
  /\ s.cdr = r.cdr \/ SipRight(s)

\* A dialog that is over by now, and not billed for it yet.
Halts(r, s) ==
  /\ s \in PushRecord /\ ~ Live(s) /\ s.cdr = r.cdr
  /\ s.conn = r.conn \/ s.conn \in {"bye", "lateBye", "over"}
  /\ << s.owner, s.tcap, s.info >> = << r.owner, r.tcap, r.info >>
  /\ s.map = "idle" => r.map = "idle"

\* The services that end the dialog.
LEMMA StoppedHalts ==
  ASSUME NEW r \in PushRecord
  PROVE  /\ Halts(r, MapAbort(r)) /\ Halts(r, MapRelease(r)) /\ Halts(r, AbortMapDialog(r))
         /\ ~ Live(r) => Halts(r, r)
<1>1. MapAbort(r) \in PushRecord /\ MapRelease(r) \in PushRecord
      /\ AbortMapDialog(r) \in PushRecord
  BY MapAbortEvolves, MapReleaseEvolves, AbortMapDialogEvolves DEF Evolves
<1> QED
  BY <1>1, Stopped DEF Halts

\* Billed as a failure when it is over.
LEMMA FailsSound ==
  ASSUME NEW r, NEW s, Halts(r, s), NEW status \in FailureStatuses
  PROVE  SipDoes(r, Fail(s, status))
<1>1. status \in CdrStatuses /\ s \in PushRecord
  BY DEF FailureStatuses, Halts
<1> DEFINE f == Fail(s, status)
<1>2. Dialog(f) = Dialog(s) /\ f.conn = s.conn /\ f.cdr \in {s.cdr, status}
  BY <1>1, Bill
<1> HIDE DEF f
<1> QED
  BY <1>2 DEF Halts, SipDoes, SipRight, Dialog, Live, f

\* The same over HTTP, with and without the end of the session.
LEMMA HttpFailsSound ==
  ASSUME NEW r, NEW s, Halts(r, s), s.conn \in {r.conn, "over"},
         NEW status \in FailureStatuses \cup {"FAILED_DIALOG_REJECTED"},
         status = "FAILED_DIALOG_REJECTED" => s.ending = "peerAbort"
  PROVE  /\ HttpDoes(r, Fail(AbortHttpDialog(s), status))
         /\ HttpDoes(r, Fail(s, status))
<1>1. status \in CdrStatuses /\ s \in PushRecord
  BY DEF FailureStatuses, CdrStatuses, Halts
<1>2. status \notin {"SUCCESS", "ABORT_APP"}
  BY DEF FailureStatuses
<1>3. ASSUME NEW a \in PushRecord, Dialog(a) = Dialog(s), a.cdr = s.cdr,
             a.conn \in {s.conn, "over"}
      PROVE  HttpDoes(r, Fail(a, status))
  <2> DEFINE f == Fail(a, status)
  <2>1. Dialog(f) = Dialog(a) /\ f.conn = a.conn /\ f.cdr \in {a.cdr, status}
    BY <1>1, <1>3, Bill
  <2> HIDE DEF f
  <2>2. /\ ~ Live(f) /\ f.cdr \in {r.cdr, status}
        /\ f.conn \in {r.conn, "over"}
        /\ status = "FAILED_DIALOG_REJECTED" => f.ending = "peerAbort"
        /\ << f.owner, f.tcap, f.info >> = << r.owner, r.tcap, r.info >>
        /\ f.map = "idle" => r.map = "idle"
    BY <1>3, <2>1 DEF Halts, Dialog, Live
  <2> QED
    BY <1>2, <2>2 DEF HttpDoes, HttpRight, f
<1>4. AbortHttpDialog(s) \in PushRecord
  BY <1>1, AbortHttpDialogEvolves DEF Evolves
<1> QED
  BY <1>1, <1>3, <1>4, SessionEnds

\* The same over SIP, with a BYE.
LEMMA SipFailsSound ==
  ASSUME NEW r, NEW s, Halts(r, s), NEW status \in FailureStatuses
  PROVE  SipDoes(r, Fail(AbortSipDialog(s), status))
<1> DEFINE a == AbortSipDialog(s)
<1>1. s \in PushRecord
  BY DEF Halts
<1>2. a \in PushRecord
  BY <1>1, AbortSipDialogEvolves DEF Evolves
<1>3. Dialog(a) = Dialog(s) /\ a.cdr = s.cdr
      /\ (a.conn = s.conn \/ a.conn \in {"bye", "lateBye", "over"})
  BY <1>1, ByeSent
<1> HIDE DEF a
<1>4. Halts(r, a)
  BY <1>2, <1>3 DEF Halts, Dialog, Live
<1> QED
  BY <1>4, FailsSound DEF a

-----------------------------------------------------------------------------
(***************************************************************************)
(* The HTTP server SBB.                                                    *)
(***************************************************************************)
\* Nothing billed.
LEMMA HttpUnbilled ==
  ASSUME NEW r, NEW s, s.cdr = r.cdr, s.conn = r.conn,
         << s.owner, s.tcap, s.info >> = << r.owner, r.tcap, r.info >>,
         s.map = "idle" => r.map = "idle"
  PROVE  HttpDoes(r, s)
BY DEF HttpDoes

\* onSessionPost: the finally block.
LEMMA OnFailedPostSound ==
  ASSUME NEW r \in PushRecord
  PROVE  HttpDoes(r, OnFailedPost(r))
<1> DEFINE a == AbortHttpDialog(r)
           m == MapAbort(a)
           f == Fail(m, "FAILED_CORRUPTED_MESSAGE")
<1>1. a \in PushRecord
  BY AbortHttpDialogEvolves DEF Evolves
<1>2. Dialog(a) = Dialog(r) /\ a.cdr = r.cdr /\ a.conn \in {r.conn, "over"}
  BY SessionEnds
<1> HIDE DEF a
<1>3. Halts(a, m) /\ m.conn = a.conn
  BY <1>1, StoppedHalts, Stopped
<1> HIDE DEF m
<1>4. Halts(r, m) /\ m.conn \in {r.conn, "over"}
  BY <1>2, <1>3 DEF Halts, Dialog
<1>5. "FAILED_CORRUPTED_MESSAGE" \in FailureStatuses
  BY DEF FailureStatuses, CdrStatuses
<1> QED
  BY <1>4, <1>5, HttpFailsSound DEF OnFailedPost, m, a

\* The response that ends the session of a dialog that is over.
LEMMA ConcludeSound ==
  ASSUME NEW r, NEW s, Halts(r, s), s.conn = r.conn
  PROVE  /\ HttpDoes(r, Conclude(s))
         /\ HttpDoes(r, CreateCdr(Conclude(s), "ABORT_APP"))
         /\ s.ending = "answer" => HttpDoes(r, CreateCdr(Conclude(s), "SUCCESS"))
<1> DEFINE a == Conclude(s)
<1>1. s \in PushRecord /\ "ABORT_APP" \in CdrStatuses /\ "SUCCESS" \in CdrStatuses
  BY DEF Halts, CdrStatuses
<1>2. a \in PushRecord
  BY <1>1, ConcludeEvolves DEF Evolves
<1>3. Dialog(a) = Dialog(s) /\ a.cdr = s.cdr /\ a.conn \in {s.conn, "over"}
  BY <1>1, SessionEnds
<1> HIDE DEF a
<1>4. ASSUME NEW f, Dialog(f) = Dialog(a), f.conn = a.conn,
             \/ f.cdr \in {a.cdr, "ABORT_APP"}
             \/ f.cdr \in {a.cdr, "SUCCESS"} /\ s.ending = "answer"
      PROVE  HttpDoes(r, f)
  BY <1>3, <1>4 DEF Halts, HttpDoes, HttpRight, Dialog, Live
<1>5. /\ Dialog(CreateCdr(a, "ABORT_APP")) = Dialog(a)
      /\ CreateCdr(a, "ABORT_APP").conn = a.conn
      /\ CreateCdr(a, "ABORT_APP").cdr \in {a.cdr, "ABORT_APP"}
      /\ Dialog(CreateCdr(a, "SUCCESS")) = Dialog(a)
      /\ CreateCdr(a, "SUCCESS").conn = a.conn
      /\ CreateCdr(a, "SUCCESS").cdr \in {a.cdr, "SUCCESS"}
  BY <1>1, <1>2, Bill
<1> QED
  BY <1>4, <1>5 DEF a

\* close() halts a dialog.
LEMMA CloseHalts ==
  ASSUME NEW r \in PushRecord, NEW how \in Endings, CloseOk(r)
  PROVE  /\ Halts(r, Expunge(r, how)) /\ Expunge(r, how).conn = r.conn
         /\ Expunge(r, how).ending = how
<1>1. Expunge(r, how) \in PushRecord
  BY CloseEvolves DEF Evolves
<1> QED
  BY <1>1, ExpungeSeen DEF Halts

\* onSessionPost.
LEMMA OnSessionPostSound ==
  ASSUME NEW r \in PushRecord, NEW k \in SessionPosts
  PROVE  HttpDoes(r, OnSessionPost(r, k))
<1> DEFINE a == CancelTimer(r)
           c == SuspendPost(a)
<1>1. a \in PushRecord
  BY CancelTimerEvolves DEF Evolves
<1>2. c \in PushRecord
  BY <1>1, SuspendEvolves DEF Evolves
<1>3. Dialog(c) = Dialog(r) /\ c.cdr = r.cdr /\ c.conn = r.conn
  <2>1. Dialog(a) = Dialog(r) /\ a.cdr = r.cdr /\ a.conn = r.conn
    BY Unseen
  <2>2. Dialog(c) = Dialog(a) /\ c.cdr = a.cdr /\ c.conn = a.conn
    BY <1>1, Unseen
  <2> QED
    BY <2>1, <2>2
<1> HIDE DEF c
<1>4. ASSUME NEW s, HttpDoes(c, s)
      PROVE  HttpDoes(r, s)
  BY <1>3, <1>4 DEF HttpDoes, Dialog
<1>5. HttpDoes(r, r)
  BY HttpUnbilled
<1>6. HttpDoes(c, OnFailedPost(c))
  BY <1>2, OnFailedPostSound
<1>7. HttpDoes(c, OnAbortPost(c))
  <2>1. Halts(c, MapAbort(c)) /\ MapAbort(c).conn = c.conn
    BY <1>2, StoppedHalts, Stopped
  <2> QED
    BY <1>6, <2>1, ConcludeSound DEF OnAbortPost
<1>8. HttpDoes(c, OnFinalPost(c))
  <2>1. "answer" \in Endings
    BY DEF Endings
  <2> QED
    BY <1>2, <1>6, <2>1, CloseHalts, ConcludeSound DEF OnFinalPost
<1>9. ASSUME NEW op
      PROVE  HttpDoes(c, OnContinuePost(c, op))
  BY <1>2, <1>6, SendSeen, HttpUnbilled DEF OnContinuePost
<1> QED
  BY <1>4, <1>5, <1>6, <1>7, <1>8, <1>9 DEF OnSessionPost, c, a

\* onSRIResult: the catch.
LEMMA PushFailedSound ==
  ASSUME NEW r \in PushRecord
  PROVE  HttpDoes(r, PushFailed(r)) /\ PushFailed(r).map # "idle"
<1> DEFINE m == MapRelease(r)
           a == AbortHttpDialog(m)
<1>1. "FAILED_SYSTEM_FAILURE" \in FailureStatuses /\ "FAILED_SYSTEM_FAILURE" \in CdrStatuses
  BY DEF FailureStatuses, CdrStatuses
<1>2. Halts(r, m) /\ m.conn = r.conn
  BY StoppedHalts, Stopped
<1>3. m.map # "idle"
  BY DEF MapRelease, Expunge, Fire, Live, PushRecord
<1> HIDE DEF m
<1>4. m \in PushRecord
  BY <1>2 DEF Halts
<1>5. a \in PushRecord /\ Dialog(a) = Dialog(m)
  BY <1>4, AbortHttpDialogEvolves, SessionEnds DEF Evolves
<1> HIDE DEF a
<1>6. Dialog(Fail(a, "FAILED_SYSTEM_FAILURE")) = Dialog(a)
  BY <1>1, <1>5, Bill
<1>7. PushFailed(r) = Fail(a, "FAILED_SYSTEM_FAILURE")
  BY DEF PushFailed, a, m
<1>8. PushFailed(r).map # "idle"
  BY <1>3, <1>5, <1>6, <1>7 DEF Dialog
<1>9. HttpDoes(r, PushFailed(r))
  BY <1>1, <1>2, HttpFailsSound DEF PushFailed, m
<1> QED
  BY <1>8, <1>9

\* pushToDevice of the first message.
LEMMA PushFirstSound ==
  ASSUME NEW r \in PushRecord
  PROVE  HttpDoes(r, PushFirst(r)) /\ PushFirst(r).map # "idle"
<1>1. "answer" \in Endings
  BY DEF Endings
<1>2. ASSUME CloseOk(r)
      PROVE  /\ HttpDoes(r, Conclude(Expunge(r, "answer")))
             /\ Conclude(Expunge(r, "answer")).map # "idle"
  <2> DEFINE e == Expunge(r, "answer")
  <2>1. Halts(r, e) /\ e.conn = r.conn /\ e.map = "expunged"
    BY <1>1, <1>2, CloseHalts, ExpungeSeen
  <2> HIDE DEF e
  <2>2. Conclude(e).map = e.map
    BY <2>1, SessionEnds DEF Halts, Dialog
  <2> QED
    BY <2>1, <2>2, ConcludeSound DEF e
<1>3. HttpDoes(r, MapSend(r, {r.op})) /\ MapSend(r, {r.op}).map # "idle"
  BY SendSeen, HttpUnbilled
<1> QED
  BY <1>2, <1>3, PushFailedSound DEF PushFirst

\* onSRIResult: without a MAP dialog, or from the dialog that was created.
LEMMA HttpOnSriResultSound ==
  ASSUME NEW r \in PushRecord, NEW fault, CreateNewDialog(r) \in PushRecord
  PROVE  /\ IF fault = "create" THEN HttpDoes(r, HttpOnSriResult(r, fault))
                                ELSE HttpDoes(CreateNewDialog(r), HttpOnSriResult(r, fault))
         /\ HttpOnSriResult(r, fault).map # "idle"
<1> DEFINE c == CreateNewDialog(r)
<1> HIDE DEF c
<1>1. HttpDoes(c, MapSend(c, {})) /\ MapSend(c, {}).map # "idle"
  BY SendSeen, HttpUnbilled DEF c
<1>2. /\ HttpDoes(c, PushFirst(c)) /\ PushFirst(c).map # "idle"
      /\ HttpDoes(c, PushFailed(c)) /\ PushFailed(c).map # "idle"
  BY PushFirstSound, PushFailedSound DEF c
<1>3. HttpDoes(r, PushFailed(r)) /\ PushFailed(r).map # "idle"
  BY PushFailedSound
<1> QED
  BY <1>1, <1>2, <1>3 DEF HttpOnSriResult, c

\* onSriError, and the ends of the dialog that the network reports: it is over.
LEMMA HttpOnSriErrorSound ==
  ASSUME NEW r \in PushRecord, ~ Live(r),
         NEW status \in FailureStatuses \cup {"FAILED_DIALOG_REJECTED"},
         status = "FAILED_DIALOG_REJECTED" => r.ending = "peerAbort"
  PROVE  HttpDoes(r, HttpOnSriError(r, status)) /\ HttpDoes(r, HttpOnAbortIndication(r, status))
<1>1. Halts(r, r)
  BY StoppedHalts
<1> QED
  BY <1>1, HttpFailsSound DEF HttpOnSriError, HttpOnAbortIndication

\* onDialogAccept.
LEMMA HttpOnDialogAcceptSound ==
  ASSUME NEW r \in PushRecord
  PROVE  HttpDoes(r, HttpOnDialogAccept(r))
<1> DEFINE p == PushFirst(r)
<1>1. HttpDoes(r, p) /\ p \in PushRecord
  BY PushFirstSound, PushFirstEvolves DEF Evolves
<1>2. HttpDoes(r, UpdateDialogEstablishedStat(r))
  BY Unseen, HttpUnbilled DEF Dialog
<1> HIDE DEF p
<1>3. HttpDoes(r, UpdateDialogEstablishedStat(p))
  BY <1>1, Unseen DEF Dialog, HttpDoes, HttpRight, Live
<1> QED
  BY <1>1, <1>2, <1>3 DEF HttpOnDialogAccept, p

\* Answers of the mobile; the session is ended when the mobile has ended the dialog.
LEMMA HttpAnswersSound ==
  ASSUME NEW r \in PushRecord, r.tcap = "End" => ~ Live(r)
  PROVE  /\ HttpDoes(r, ProcessReceivedMapEvent(r))
         /\ HttpDoes(r, HttpOnUnstructuredSSResponse(r))
         /\ HttpDoes(r, HttpOnNotifyResponse(r))
<1> DEFINE p == ProcessReceivedMapEvent(r)
           s == SetTimer(p)
<1>1. p \in PushRecord
  BY ProcessReceivedEvolves DEF Evolves
<1>2. p = IF r.tcap = "End" THEN Conclude(r) ELSE ResumeHttpEventContext(r)
  BY DEF ProcessReceivedMapEvent, Conclude
<1>3. /\ Dialog(p) = Dialog(r) /\ p.cdr = r.cdr
      /\ p.conn = r.conn \/ (p.conn = "over" /\ ~ Live(r))
  BY <1>2, SessionEnds, Unseen
<1> HIDE DEF p
<1>4. Dialog(s) = Dialog(p) /\ s.cdr = p.cdr /\ s.conn = p.conn
  BY <1>1, Unseen
<1> HIDE DEF s
<1>5. HttpDoes(r, p) /\ HttpDoes(r, s)
  BY <1>3, <1>4 DEF Dialog, HttpDoes, Live
<1>6. HttpDoes(r, Expunge(r, "final"))
  BY ExpungeSeen, HttpUnbilled
<1> QED
  BY <1>5, <1>6 DEF HttpOnUnstructuredSSResponse, HttpOnNotifyResponse, p, s

\* Failures.
LEMMA HttpFailuresSound ==
  ASSUME NEW r \in PushRecord, NEW status \in FailureStatuses
  PROVE  /\ HttpDoes(r, HttpOnComponentFailure(r, status))
         /\ HttpDoes(r, HttpOnDialogTimeout(r))
         /\ HttpDoes(r, HttpOnTimerEvent(r))
<1>1. "FAILED_DIALOG_TIMEOUT" \in FailureStatuses
  BY DEF FailureStatuses, CdrStatuses
<1>2. HttpDoes(r, HttpOnComponentFailure(r, status))
  <2> DEFINE m == AbortMapDialog(r)
  <2>1. Halts(r, m) /\ m.conn = r.conn /\ status # "FAILED_DIALOG_REJECTED"
    BY StoppedHalts, Stopped DEF FailureStatuses
  <2> HIDE DEF m
  <2>2. HttpDoes(r, Fail(AbortHttpDialog(m), status))
    BY <2>1, HttpFailsSound
  <2> QED
    BY <2>2 DEF HttpOnComponentFailure, m
<1>3. HttpDoes(r, HttpOnDialogTimeout(r))
  BY <1>1, StoppedHalts, Stopped, HttpFailsSound DEF HttpOnDialogTimeout
<1>4. HttpDoes(r, HttpOnTimerEvent(r))
  <2> DEFINE m == SendErrorMessage(r)
             f == Fail(m, "FAILED_APP_TIMEOUT")
  <2>1. m \in PushRecord
    BY SendErrorMessageEvolves DEF Evolves
  <2>2. /\ m.map = "idle" => r.map = "idle"
        /\ m.cdr = r.cdr /\ m.conn = r.conn
        /\ << m.owner, m.tcap, m.info >> = << r.owner, r.tcap, r.info >>
    BY DEF SendErrorMessage, MapSend, PushRecord
  <2> HIDE DEF m
  <2>3. Dialog(f) = Dialog(m) /\ f.conn = m.conn /\ f.cdr \in {m.cdr, "FAILED_APP_TIMEOUT"}
    BY <2>1, Bill DEF CdrStatuses
  <2> HIDE DEF f
  <2>4. HttpDoes(r, f)
    BY <2>2, <2>3 DEF Dialog, HttpDoes, HttpRight, Live
  <2> QED
    BY <2>4 DEF HttpOnTimerEvent, f, m
<1> QED
  BY <1>2, <1>3, <1>4

-----------------------------------------------------------------------------
(***************************************************************************)
(* The SIP server SBB.                                                     *)
(***************************************************************************)
\* onSRIResult: the catch.
LEMMA PushPayloadFailedSound ==
  ASSUME NEW r \in PushRecord
  PROVE  SipDoes(r, PushPayloadFailed(r)) /\ PushPayloadFailed(r).map # "idle"
<1> DEFINE m == MapRelease(r)
           a == AbortSipDialog(m)
<1>1. "FAILED_SYSTEM_FAILURE" \in FailureStatuses /\ "FAILED_SYSTEM_FAILURE" \in CdrStatuses
  BY DEF FailureStatuses, CdrStatuses
<1>2. Halts(r, m) /\ m.map # "idle"
  BY StoppedHalts DEF MapRelease, Expunge, Fire, Live, PushRecord
<1> HIDE DEF m
<1>3. m \in PushRecord
  BY <1>2 DEF Halts
<1>4. a \in PushRecord /\ Dialog(a) = Dialog(m)
  BY <1>3, AbortSipDialogEvolves, ByeSent DEF Evolves
<1> HIDE DEF a
<1>5. Dialog(Fail(a, "FAILED_SYSTEM_FAILURE")) = Dialog(a)
  BY <1>1, <1>4, Bill
<1>6. PushPayloadFailed(r) = Fail(a, "FAILED_SYSTEM_FAILURE")
  BY DEF PushPayloadFailed, a, m
<1>7. SipDoes(r, PushPayloadFailed(r))
  BY <1>1, <1>2, SipFailsSound DEF PushPayloadFailed, m
<1> QED
  BY <1>2, <1>4, <1>5, <1>6, <1>7 DEF Dialog

\* onSRIResult: without a MAP dialog, or from the dialog that was created.
LEMMA SipOnSriResultSound ==
  ASSUME NEW r \in PushRecord, NEW fault, CreateNewDialog(r) \in PushRecord
  PROVE  /\ IF fault = "create" THEN SipDoes(r, SipOnSriResult(r, fault))
                                ELSE SipDoes(CreateNewDialog(r), SipOnSriResult(r, fault))
         /\ SipOnSriResult(r, fault).map # "idle"
<1> DEFINE c == CreateNewDialog(r)
<1> HIDE DEF c
<1>1. SipDoes(c, MapSend(c, {r.op})) /\ MapSend(c, {r.op}).map # "idle"
  BY SendSeen DEF SipDoes, c
<1>2. SipDoes(c, PushPayloadFailed(c)) /\ PushPayloadFailed(c).map # "idle"
  BY PushPayloadFailedSound DEF c
<1>3. SipDoes(r, PushPayloadFailed(r)) /\ PushPayloadFailed(r).map # "idle"
  BY PushPayloadFailedSound
<1> QED
  BY <1>1, <1>2, <1>3 DEF SipOnSriResult, c

\* onSriError, and the ends of the dialog that the network reports: it is over.
LEMMA SipOnSriErrorSound ==
  ASSUME NEW r \in PushRecord, ~ Live(r),
         NEW status \in FailureStatuses \cup {"FAILED_DIALOG_REJECTED"}
  PROVE  SipDoes(r, SipOnSriError(r, status)) /\ SipDoes(r, SipOnAbortIndication(r, status))
<1> DEFINE a == AbortSipDialog(r)
           f == Fail(a, status)
<1>1. status \in CdrStatuses
  BY DEF FailureStatuses, CdrStatuses
<1>2. a \in PushRecord
  BY AbortSipDialogEvolves DEF Evolves
<1>3. Dialog(a) = Dialog(r) /\ a.cdr = r.cdr
      /\ (a.conn = r.conn \/ a.conn \in {"bye", "lateBye", "over"})
  BY ByeSent
<1> HIDE DEF a
<1>4. Dialog(f) = Dialog(a) /\ f.conn = a.conn
  BY <1>1, <1>2, Bill
<1> HIDE DEF f
<1>5. SipDoes(r, f)
  BY <1>3, <1>4 DEF Dialog, SipDoes, SipRight, Live
<1> QED
  BY <1>5 DEF SipOnSriError, SipOnAbortIndication, f, a

\* Nothing billed.
LEMMA SipUnbilled ==
  ASSUME NEW r, NEW s, s.cdr = r.cdr, s.owner = r.owner,
         s.conn = r.conn \/ s.conn \in {"bye", "lateBye", "over"},
         s.map = "idle" => r.map = "idle"
  PROVE  SipDoes(r, s)
BY DEF SipDoes

\* Answers of the mobile.
LEMMA SipAnswersSound ==
  ASSUME NEW r \in PushRecord
  PROVE  /\ SipDoes(r, SipProcessReceivedMapEvent(r))
         /\ SipDoes(r, SipOnUnstructuredSSResponse(r))
         /\ SipDoes(r, SipOnNotifyResponse(r))
         /\ SipDoes(r, SipOnDialogAccept(r))
<1> DEFINE a == SendAnswer(r)
           s == SetTimer(a)
<1>1. a \in PushRecord
  BY SendAnswerEvolves DEF Evolves
<1>2. /\ a.owner = r.owner /\ a.map = r.map /\ a.cdr = r.cdr
      /\ a.conn = r.conn \/ a.conn \in {"bye", "lateBye", "over"}
  BY DEF SendAnswer, AbortSipDialog, PushRecord
<1> HIDE DEF a
<1>3. Dialog(s) = Dialog(a) /\ s.cdr = a.cdr /\ s.conn = a.conn
  BY <1>1, Unseen
<1> HIDE DEF s
<1>4. SipDoes(r, r) /\ SipDoes(r, a) /\ SipDoes(r, s)
  BY <1>2, <1>3, SipUnbilled DEF Dialog
<1>5. SipDoes(r, Expunge(r, "final"))
  BY ExpungeSeen, SipUnbilled
<1>6. SipDoes(r, UpdateDialogEstablishedStat(r))
  BY Unseen, SipUnbilled DEF Dialog
<1> QED
  BY <1>4, <1>5, <1>6
  DEF SipProcessReceivedMapEvent, SipOnUnstructuredSSResponse, SipOnNotifyResponse,
      SipOnDialogAccept, a, s

\* Failures on the MAP side.
LEMMA SipFailuresSound ==
  ASSUME NEW r \in PushRecord, NEW status \in FailureStatuses
  PROVE  /\ SipDoes(r, SipOnComponentFailure(r, status))
         /\ SipDoes(r, SipOnErrorComponent(r))
         /\ SipDoes(r, SipOnDialogTimeout(r))
<1>1. "FAILED_DIALOG_TIMEOUT" \in FailureStatuses /\ "FAILED_MAP_ERROR_COMPONENT" \in CdrStatuses
  BY DEF FailureStatuses, CdrStatuses
<1>2. SipDoes(r, SipOnComponentFailure(r, status))
  BY StoppedHalts, SipFailsSound DEF SipOnComponentFailure
<1>3. SipDoes(r, SipOnErrorComponent(r))
  <2> DEFINE a == AbortSipDialog(r)
             f == Fail(a, "FAILED_MAP_ERROR_COMPONENT")
  <2>1. a \in PushRecord
    BY AbortSipDialogEvolves DEF Evolves
  <2>2. Dialog(a) = Dialog(r) /\ a.cdr = r.cdr
        /\ (a.conn = r.conn \/ a.conn \in {"bye", "lateBye", "over"})
    BY ByeSent
  <2> HIDE DEF a
  <2>3. Dialog(f) = Dialog(a) /\ f.conn = a.conn
        /\ f.cdr \in {a.cdr, "FAILED_MAP_ERROR_COMPONENT"}
    BY <1>1, <2>1, Bill
  <2> HIDE DEF f
  <2>4. SipDoes(r, f)
    BY <2>2, <2>3 DEF Dialog, SipDoes, SipRight
  <2> QED
    BY <2>4 DEF SipOnErrorComponent, f, a
<1>4. SipDoes(r, SipOnDialogTimeout(r))
  BY <1>1, StoppedHalts, SipFailsSound DEF SipOnDialogTimeout
<1> QED
  BY <1>2, <1>3, <1>4

\* onTimerEvent.
LEMMA SipOnTimerEventSound ==
  ASSUME NEW r \in PushRecord
  PROVE  SipDoes(r, SipOnTimerEvent(r))
<1> DEFINE m == SendErrorMessage(r)
           a == AbortSipDialog(m)
           c == DeleteSipDialog(a)
           f == Fail(c, "FAILED_APP_TIMEOUT")
<1>1. m \in PushRecord
  BY SendErrorMessageEvolves DEF Evolves
<1>2. /\ m.map = "idle" => r.map = "idle"
      /\ m.cdr = r.cdr /\ m.conn = r.conn /\ m.owner = r.owner
  BY DEF SendErrorMessage, MapSend, PushRecord
<1> HIDE DEF m
<1>3. a \in PushRecord
  BY <1>1, AbortSipDialogEvolves DEF Evolves
<1>4. Dialog(a) = Dialog(m) /\ a.cdr = m.cdr
      /\ (a.conn = m.conn \/ a.conn \in {"bye", "lateBye", "over"})
  BY <1>1, ByeSent
<1> HIDE DEF a
<1>5. c \in PushRecord
  BY <1>3, DeleteSipDialogEvolves DEF Evolves
<1>6. Dialog(c) = Dialog(a) /\ c.cdr = a.cdr
      /\ (c.conn = a.conn \/ c.conn \in {"bye", "lateBye", "over"})
  BY <1>3, ByeSent
<1> HIDE DEF c
<1>7. Dialog(f) = Dialog(c) /\ f.conn = c.conn /\ f.cdr \in {c.cdr, "FAILED_APP_TIMEOUT"}
  BY <1>5, Bill DEF CdrStatuses
<1> HIDE DEF f
<1>8. SipDoes(r, f)
  BY <1>2, <1>4, <1>6, <1>7 DEF Dialog, SipDoes, SipRight
<1> QED
  BY <1>8 DEF SipOnTimerEvent, f, c, a, m

\* Requests of the application, at any time.
SipAppDoes(r, s) == SipDoes(r, s) /\ s.cdr \in {r.cdr} \cup EarlyStatuses

\* The CDR that ends such a request.
LEMMA EarlyBill ==
  ASSUME NEW r, NEW s \in PushRecord, s.owner = r.owner, s.cdr = r.cdr,
         s.conn = r.conn \/ s.conn \in {"bye", "lateBye", "over"},
         s.map = "idle" => r.map = "idle", NEW status \in EarlyStatuses
  PROVE  /\ SipAppDoes(r, s)
         /\ SipAppDoes(r, Fail(s, status)) /\ SipAppDoes(r, CreateCdr(s, status))
<1>1. status \in CdrStatuses
  BY DEF EarlyStatuses, CdrStatuses
<1>2. ASSUME NEW f \in {Fail(s, status), CreateCdr(s, status)}
      PROVE  SipAppDoes(r, f)
  <2>1. Dialog(f) = Dialog(s) /\ f.conn = s.conn /\ f.cdr \in {s.cdr, status}
    BY <1>1, <1>2, Bill
  <2> QED
    BY <2>1 DEF SipAppDoes, SipDoes, SipRight, Dialog
<1>3. SipAppDoes(r, s)
  BY DEF SipAppDoes, SipDoes
<1> QED
  BY <1>2, <1>3

\* abortMapDialog, and an early CDR.
LEMMA StoppedBill ==
  ASSUME NEW r, NEW s \in PushRecord, s.owner = r.owner, s.cdr = r.cdr,
         s.conn = r.conn \/ s.conn \in {"bye", "lateBye", "over"},
         s.map = "idle" => r.map = "idle", NEW status \in EarlyStatuses
  PROVE  SipAppDoes(r, Fail(AbortMapDialog(s), status))
<1> DEFINE m == AbortMapDialog(s)
<1>1. m \in PushRecord
  BY AbortMapDialogEvolves DEF Evolves
<1>2. m.owner = s.owner /\ m.cdr = s.cdr /\ m.conn = s.conn /\ (m.map = "idle" => s.map = "idle")
  BY Stopped
<1> HIDE DEF m
<1>3. SipAppDoes(r, Fail(m, status))
  BY <1>1, <1>2, EarlyBill
<1> QED
  BY <1>3 DEF m

\* onDialogInfo, onDialogBye and their failures, and the failures of the transport.
LEMMA SipRequestsSound ==
  ASSUME NEW r \in PushRecord, NEW k
  PROVE  /\ SipAppDoes(r, OnDialogBye(r)) /\ SipAppDoes(r, OnByeNoReply(r))
         /\ SipAppDoes(r, OnDialogInfo(r, k)) /\ SipAppDoes(r, OnInfoNoReply(r))
         /\ SipAppDoes(r, OnTransportError(r))
<1> DEFINE a == CancelTimer(r)
           b == AbortSipDialog(a)
           c == ByeAccepted(a)
           e == Expunge(c, "answer")
<1>1. /\ "SUCCESS" \in EarlyStatuses /\ "FAILED_CORRUPTED_MESSAGE" \in EarlyStatuses
      /\ "FAILED_TRANSPORT_FAILURE" \in EarlyStatuses
      /\ "FAILED_TRANSPORT_ERROR" \in EarlyStatuses
  BY DEF EarlyStatuses
<1>2. a \in PushRecord
  BY CancelTimerEvolves DEF Evolves
<1>3. a.owner = r.owner /\ a.cdr = r.cdr /\ a.conn = r.conn /\ a.map = r.map
  BY Unseen DEF Dialog
<1> HIDE DEF a
<1>4. b \in PushRecord /\ c \in PushRecord
  BY <1>2, AbortSipDialogEvolves, DeleteSipDialogEvolves DEF Evolves, ByeAccepted
<1>5. /\ b.owner = a.owner /\ b.cdr = a.cdr /\ b.map = a.map
      /\ b.conn = a.conn \/ b.conn \in {"bye", "lateBye", "over"}
      /\ c.owner = a.owner /\ c.cdr = a.cdr /\ c.map = a.map
      /\ c.conn = a.conn \/ c.conn \in {"bye", "lateBye", "over"}
  BY <1>2, ByeSent DEF Dialog, ByeAccepted
<1> HIDE DEF b, c
<1>6. SipAppDoes(r, OnTransportError(r))
  BY <1>1, StoppedBill DEF OnTransportError
<1>7. SipAppDoes(r, OnByeNoReply(r))
  BY <1>1, <1>2, <1>3, StoppedBill DEF OnByeNoReply, a
<1>8. SipAppDoes(r, OnCorruptedInfo(a))
  BY <1>1, <1>3, <1>4, <1>5, StoppedBill DEF OnCorruptedInfo, b
<1>9. SipAppDoes(r, OnInfoNoReply(r))
  BY <1>8 DEF OnInfoNoReply, a
<1>10. ASSUME NEW op
       PROVE  SipAppDoes(r, MapSend(a, {op}))
  BY <1>2, <1>3, SendSeen, SipUnbilled DEF SipAppDoes
<1>11. SipAppDoes(r, OnDialogInfo(r, k))
  <2>1. OnDialogInfo(r, k) \in
          {OnCorruptedInfo(a), MapSend(a, {"request"}), MapSend(a, {"notify"})}
    BY Zenon DEF OnDialogInfo, a
  <2> QED
    BY <1>8, <1>10, <2>1
<1>12. SipAppDoes(r, c) /\ SipAppDoes(r, CreateCdr(c, "SUCCESS"))
  BY <1>1, <1>3, <1>4, <1>5, EarlyBill
<1>13. ASSUME c.map = "active"
       PROVE  SipAppDoes(r, CreateCdr(e, "SUCCESS"))
  <2>1. e \in PushRecord
    BY <1>4, <1>13, ExpungeEvolves DEF Evolves, Running, Endings
  <2>2. e.owner = c.owner /\ e.cdr = c.cdr /\ e.conn = c.conn /\ e.map = "expunged"
    BY <1>4, ExpungeSeen
  <2> HIDE DEF e
  <2> QED
    BY <1>1, <1>3, <1>5, <2>1, <2>2, EarlyBill
<1>14. SipAppDoes(r, OnDialogBye(r))
  BY <1>12, <1>13 DEF OnDialogBye, a, c, e
<1> QED
  BY <1>6, <1>7, <1>9, <1>11, <1>14

-----------------------------------------------------------------------------
(***************************************************************************)
(* Handlers keep the invariant.                                            *)
(***************************************************************************)
\* The bill of a dialog that was not touched, and the queue of its MAP activity.
LEMMA EvolvesSound ==
  ASSUME NEW r \in PushRecord, NEW s, Sound(r), Evolves(r, s),
         s.map = "idle" => r.map = "idle"
  PROVE  /\ s.owner = r.owner /\ s.queries = r.queries /\ s.answers = r.answers
         /\ s.appq = r.appq
         /\ s.map # "idle" /\ (s.ending # "open" => s.map = "expunged")
         /\ Live(s) => Live(r)
         /\ r.map = "none" => s.map = "none"
         /\ r.map = "expunged" => s.map = "expunged"
         /\ s.cdr = r.cdr => BillSound(s)
         /\ AbortsSound(s)
<1>1. /\ s.owner = r.owner /\ s.queries = r.queries /\ s.answers = r.answers
      /\ s.appq = r.appq /\ s \in PushRecord
  BY DEF Evolves, Kept
<1>2. r.map # "idle" /\ s.map # "idle" /\ (r.ending # "open" => r.map = "expunged")
  BY DEF Sound, MapSound
<1>3. CASE s.map = r.map /\ s.mapq = r.mapq /\ s.ending = r.ending
  BY <1>1, <1>2, <1>3
  DEF Live, Sound, BillSound, HttpRight, SipRight, AbortsSound
<1>4. CASE /\ r.map \in Running /\ s.map \in Running
           /\ s.mapq = r.mapq /\ s.ending = r.ending
  BY <1>1, <1>2, <1>4
  DEF Live, Running, Sound, BillSound, HttpRight, SipRight, AbortsSound
<1>5. CASE r.map \in Running /\ s.map = "expunged" /\ s.mapq = Append(r.mapq, "Release")
  <2>1. r.mapq \in Seq(MapEvents) /\ r.ending = "open" /\ Live(r)
    BY <1>2, <1>5 DEF PushRecord, Running, Live
  <2>2. AbortsSound(s)
    <3>1. \A i \in 1 .. Len(r.mapq) : r.mapq[i] # "Reject"
      BY <2>1 DEF Sound, AbortsSound
    <3> QED
      BY <1>5, <2>1, <3>1 DEF AbortsSound
  <2>3. s.cdr = r.cdr => BillSound(s)
    BY <1>1, <1>5, <2>1 DEF Sound, BillSound, HttpRight, SipRight, Live
  <2> QED
    BY <1>1, <1>2, <1>5, <2>1, <2>2, <2>3 DEF Running, Live
<1> QED
  BY <1>3, <1>4, <1>5 DEF Evolves, MapEvolves

\* A handler of a dialog over HTTP whose subscriber was located, or not found.
LEMMA HttpKeepsSound ==
  ASSUME NEW r \in PushRecord, NEW s, Sound(r), Evolves(r, s), HttpDoes(r, s),
         r.owner = "http", r.answers # 0
  PROVE  Sound(s)
<1>1. /\ s.owner = "http" /\ s.answers # 0 /\ s.appq = r.appq
      /\ s.map # "idle" /\ (s.ending # "open" => s.map = "expunged")
      /\ Live(s) => Live(r)
      /\ r.map = "expunged" => s.map = "expunged"
      /\ s.cdr = r.cdr => BillSound(s)
      /\ AbortsSound(s)
  BY EvolvesSound DEF HttpDoes
<1>2. s.tcap = r.tcap /\ s.info = r.info
  BY DEF HttpDoes
<1>3. BillSound(s)
  BY <1>1 DEF HttpDoes, BillSound
<1>4. SideSound(s)
  BY <1>1, <1>2 DEF HttpDoes, Sound, SideSound
<1>5. MapSound(s)
  BY <1>1, <1>2 DEF Sound, MapSound
<1> QED
  BY <1>1, <1>3, <1>4, <1>5 DEF Sound, EarlySound

\* A handler of a dialog over SIP; only the application speaks before that.
LEMMA SipKeepsSound ==
  ASSUME NEW r \in PushRecord, NEW s, Sound(r), Evolves(r, s), SipDoes(r, s),
         r.owner = "sip", r.answers # 0 \/ SipAppDoes(r, s)
  PROVE  Sound(s)
<1>1. /\ s.owner = "sip" /\ s.answers = r.answers /\ s.appq = r.appq
      /\ s.map # "idle" /\ (s.ending # "open" => s.map = "expunged")
      /\ r.map = "none" => s.map = "none"
      /\ s.cdr = r.cdr => BillSound(s)
      /\ AbortsSound(s)
  BY EvolvesSound DEF SipDoes
<1>2. BillSound(s)
  BY <1>1 DEF SipDoes, BillSound
<1>3. SideSound(s)
  BY <1>1 DEF SipDoes, Sound, SideSound
<1>4. MapSound(s)
  BY <1>1 DEF MapSound
<1>5. EarlySound(s)
  BY <1>1 DEF Sound, EarlySound, SipAppDoes
<1> QED
  BY <1>1, <1>2, <1>3, <1>4, <1>5 DEF Sound

\* An event leaves its queue.
LEMMA RestSound ==
  ASSUME NEW r \in PushRecord, r.mapq # << >>, Sound(r)
  PROVE  /\ Sound(Rest(r)) /\ Rest(r).owner = r.owner /\ Rest(r).answers = r.answers
         /\ Head(r.mapq) \in AbortEvents => ~ Live(Rest(r))
         /\ Head(r.mapq) = "Reject" => Rest(r).ending = "peerAbort"
         /\ r.owner = "http" /\ Rest(r).tcap = "End" => ~ Live(Rest(r))
<1> DEFINE q == Rest(r)
<1>1. /\ << q.owner, q.map, q.ending, q.tcap, q.info, q.cdr, q.conn, q.ctx, q.appq,
            q.queries, q.answers >>
         = << r.owner, r.map, r.ending, r.tcap, r.info, r.cdr, r.conn, r.ctx, r.appq,
              r.queries, r.answers >>
      /\ q.mapq = Tail(r.mapq)
  BY DEF Rest, PushRecord
<1>2. r.mapq \in Seq(MapEvents)
  BY DEF PushRecord
<1>3. /\ Len(r.mapq) \in Nat /\ Len(r.mapq) > 0 /\ Head(r.mapq) = r.mapq[1]
      /\ Len(Tail(r.mapq)) = Len(r.mapq) - 1
      /\ \A i \in 1 .. Len(Tail(r.mapq)) : Tail(r.mapq)[i] = r.mapq[i + 1]
  BY <1>2
<1> HIDE DEF q
<1>4. AbortsSound(q)
  BY <1>1, <1>3 DEF Sound, AbortsSound, NoAborts
<1>5. BillSound(q) /\ MapSound(q) /\ SideSound(q) /\ EarlySound(q)
  BY <1>1 DEF Sound, BillSound, HttpRight, SipRight, MapSound, SideSound, EarlySound, Live
<1>6. /\ Head(r.mapq) \in AbortEvents => r.map = "expunged"
      /\ Head(r.mapq) = "Reject" => r.ending = "peerAbort"
  BY <1>3 DEF Sound, AbortsSound, NoAborts
<1> QED
  BY <1>1, <1>4, <1>5, <1>6 DEF Sound, MapSound, Live, q

\* An event of the application leaves its queue.
LEMMA AppRestSound ==
  ASSUME NEW r \in PushRecord, r.appq # << >>, Sound(r)
  PROVE  /\ Sound(AppRest(r)) /\ AppRest(r).owner = r.owner
         /\ AppRest(r).answers = r.answers /\ AppRest(r).ctx = r.ctx
         /\ r.owner = "http" => Head(r.appq) \in SessionPosts
         /\ r.owner = "sip" => Head(r.appq) \in SipEvents
         /\ r.owner = "http" /\ r.answers = 0 => r.ctx = "first"
<1> DEFINE q == AppRest(r)
<1>1. /\ << q.owner, q.map, q.ending, q.tcap, q.info, q.cdr, q.conn, q.ctx, q.mapq,
            q.queries, q.answers >>
         = << r.owner, r.map, r.ending, r.tcap, r.info, r.cdr, r.conn, r.ctx, r.mapq,
              r.queries, r.answers >>
      /\ q.appq = Tail(r.appq)
  BY DEF AppRest, PushRecord
<1>2. r.appq \in Seq(AppEvents)
  BY DEF PushRecord
<1>3. /\ Len(r.appq) \in Nat /\ Len(r.appq) > 0 /\ Head(r.appq) = r.appq[1]
      /\ Len(Tail(r.appq)) = Len(r.appq) - 1
      /\ \A i \in 1 .. Len(Tail(r.appq)) : Tail(r.appq)[i] = r.appq[i + 1]
  BY <1>2
<1> HIDE DEF q
<1>4. SideSound(q)
  BY <1>1, <1>3 DEF Sound, SideSound, Live
<1>5. BillSound(q) /\ MapSound(q) /\ AbortsSound(q)
  BY <1>1 DEF Sound, BillSound, HttpRight, SipRight, MapSound, AbortsSound, Live
<1>6. r.owner = "http" /\ r.answers = 0 => r.ctx = "first" /\ r.conn = "open"
  BY DEF Sound, EarlySound
<1>7. EarlySound(q)
  BY <1>1, <1>6 DEF Sound, EarlySound
<1>8. /\ r.owner = "http" => Head(r.appq) \in SessionPosts
      /\ r.owner = "sip" => Head(r.appq) \in SipEvents
  BY <1>3 DEF Sound, SideSound
<1> QED
  BY <1>1, <1>4, <1>5, <1>6, <1>7, <1>8 DEF Sound, q

-----------------------------------------------------------------------------
(***************************************************************************)
(* Steps keep the invariant: the query.                                    *)
(***************************************************************************)
BecomesSound(d) == \E s : Becomes(d, s) /\ Sound(s)

\* All that the invariant reads, but for the number of queries.
Seen(r) == << r.owner, r.map, r.ending, r.tcap, r.info, r.cdr, r.conn, r.ctx,
              r.appq, r.mapq, r.answers >>

\* What the invariant does not read may change.
LEMMA SeenSound ==
  ASSUME NEW r, NEW s, Sound(r), Seen(s) = Seen(r),
         s.queries = r.queries \/ r.queries # 0
  PROVE  Sound(s)
BY DEF Seen, Sound, BillSound, HttpRight, SipRight, AbortsSound, MapSound, SideSound,
       EarlySound, Live

\* The register, whatever it says.
LEMMA RegisterSound ==
  ASSUME TypeOK, NEW d \in Dialogs, Sound(dlg[d]), Register(d)
  PROVE  BecomesSound(d)
<1> DEFINE r == dlg[d]
<1>1. r \in PushRecord
  BY DEF TypeOK
<1>2. ASSUME NEW es
      PROVE  Sound(FireSri(r, es)) /\ Sound(QueryOver(r, es))
  <2>1. /\ Seen(FireSri(r, es)) = Seen(r) /\ FireSri(r, es).queries = r.queries
        /\ Seen(QueryOver(r, es)) = Seen(r) /\ QueryOver(r, es).queries = r.queries
    BY <1>1 DEF FireSri, QueryOver, PushRecord, Seen
  <2> QED
    BY <2>1, SeenSound
<1>3. ASSUME NEW es, Update(d, FireSri(r, es)) \/ Update(d, QueryOver(r, es))
      PROVE  BecomesSound(d)
  BY <1>2, <1>3 DEF BecomesSound, Update
<1> QED
  BY <1>3 DEF Register, HlrAnswers, HlrAnswersOpen, HlrEnds, HlrAborts, HlrRejects,
              QueryExpires

\* What the SriSbb does on its own.
LEMMA QuerySeen ==
  ASSUME NEW r \in PushRecord, r.sriq # << >>
  PROVE  /\ SriRest(r) \in PushRecord
         /\ Seen(SriRest(r)) = Seen(r) /\ SriRest(r).queries = r.queries
         /\ \A e \in Answers :
              /\ Seen(StoreComponent(SriRest(r), e)) = Seen(r)
              /\ StoreComponent(SriRest(r), e).queries = r.queries
<1> DEFINE q == SriRest(r)
<1>1. q \in PushRecord /\ q = [r EXCEPT !.sriq = Tail(r.sriq)]
  BY SriRestType
<1>2. Seen(q) = Seen(r) /\ q.queries = r.queries
  BY <1>1 DEF Seen, PushRecord
<1> HIDE DEF q
<1>3. ASSUME NEW e \in Answers
      PROVE  Seen(StoreComponent(q, e)) = Seen(q) /\ StoreComponent(q, e).queries = q.queries
  <2>1. CASE e = "Response"
    BY <1>1, <2>1 DEF StoreComponent, Seen, PushRecord
  <2>2. CASE e = "ErrorComponent"
    BY <1>1, <2>2 DEF StoreComponent, Seen, PushRecord
  <2>3. CASE e = "RejectComponent"
    BY <1>1, <2>3 DEF StoreComponent, Seen, PushRecord
  <2> QED
    BY <2>1, <2>2, <2>3 DEF Answers
<1> QED
  BY <1>1, <1>2, <1>3 DEF q

\* The query is left, closed, or repeated.
LEMMA DetachedSeen ==
  ASSUME NEW q \in PushRecord
  PROVE  /\ DetachFromCurrentDialog(q) \in PushRecord /\ CloseQuery(q) \in PushRecord
         /\ Seen(DetachFromCurrentDialog(q)) = Seen(q) /\ Seen(CloseQuery(q)) = Seen(q)
         /\ DetachFromCurrentDialog(q).queries = q.queries
         /\ CloseQuery(q).queries = q.queries
         /\ Seen(PerformSriQuery(q)) = Seen(q)
<1>1. << >> \in Seq(SriEvents)
  OBVIOUS
<1> QED
  BY <1>1 DEF DetachFromCurrentDialog, CloseQuery, PerformSriQuery, Seen, PushRecord, SriStates

\* A dialog that the parent starts with the mobile, fresh from createNewDialog.
LEMMA FreshSound ==
  ASSUME NEW n \in PushRecord, NEW s, Evolves(n, s),
         n.map = "idle", n.mapq = << >>, n.ending = "open", n.answers # 0,
         SideSound(n), s.map # "idle",
         \/ /\ n.owner = "http" /\ HttpDoes(n, s) /\ n.cdr = "none"
            /\ n.tcap # "End" /\ n.conn = "open"
         \/ n.owner = "sip" /\ SipDoes(n, s) /\ n.cdr \in EarlyStatuses \cup {"none"}
  PROVE  Sound(s)
<1>1. s.owner = n.owner /\ s.answers # 0 /\ s.appq = n.appq
  BY DEF Evolves, Kept
<1>2. \/ s.map \in Running /\ s.mapq = << >> /\ s.ending = "open"
      \/ s.map = "expunged" /\ s.mapq = << "Release" >>
  BY DEF Evolves, MapEvolves, Running
<1>3. AbortsSound(s)
  <2>1. CASE s.mapq = << >> /\ s.map \in Running
    BY <2>1 DEF AbortsSound, NoAborts
  <2>2. CASE s.mapq = << "Release" >> /\ s.map = "expunged"
    BY <2>2 DEF AbortsSound, NoAborts
  <2> QED
    BY <1>2, <2>1, <2>2
<1>4. CASE n.owner = "http" /\ HttpDoes(n, s) /\ n.cdr = "none" /\ n.tcap # "End"
           /\ n.conn = "open"
  <2>1. BillSound(s)
    BY <1>1, <1>4 DEF HttpDoes, BillSound, HttpRight
  <2>2. MapSound(s)
    BY <1>2, <1>4 DEF HttpDoes, MapSound, Running
  <2>3. SideSound(s)
    BY <1>1, <1>4 DEF HttpDoes, SideSound
  <2> QED
    BY <1>1, <1>3, <2>1, <2>2, <2>3 DEF Sound, EarlySound
<1>5. CASE n.owner = "sip" /\ SipDoes(n, s) /\ n.cdr \in EarlyStatuses \cup {"none"}
  <2>1. BillSound(s)
    BY <1>1, <1>5 DEF SipDoes, BillSound, SipRight
  <2>2. MapSound(s)
    BY <1>1, <1>2, <1>5 DEF MapSound, Running
  <2>3. SideSound(s)
    BY <1>1, <1>5 DEF SipDoes, SideSound
  <2> QED
    BY <1>1, <1>3, <2>1, <2>2, <2>3 DEF Sound, EarlySound
<1> QED
  BY <1>4, <1>5

\* The record the parent is told about, and its new dialog.
LEMMA ToldSound ==
  ASSUME NEW r \in PushRecord, Sound(r), Consistent(r), r.sriq # << >>,
         NEW q \in PushRecord, Seen(q) = Seen(r), q.queries = r.queries
  PROVE  LET c == ParentAnswered(q)
             n == CreateNewDialog(c)
         IN  /\ c \in PushRecord /\ c.owner \in {"http", "sip"} /\ c.answers # 0
             /\ Sound(c) /\ ~ Live(c)
             /\ n \in PushRecord /\ n.owner = c.owner
             /\ n.map = "idle" /\ n.mapq = << >> /\ n.ending = "open" /\ n.answers # 0
             /\ SideSound(n)
             /\ n.owner = "http" => n.cdr = "none" /\ n.tcap # "End" /\ n.conn = "open"
             /\ n.owner = "sip" => n.cdr \in EarlyStatuses \cup {"none"}
<1> DEFINE c == ParentAnswered(q)
           n == CreateNewDialog(c)
<1>1. /\ r.owner \in {"http", "sip"} /\ r.queries # 0 /\ r.answers = 0
      /\ r.map = "none" /\ r.mapq = << >> /\ r.ending = "open"
      /\ r.owner = "http" => r.cdr = "none" /\ r.tcap # "End" /\ r.conn = "open"
      /\ r.owner = "sip" => r.cdr \in EarlyStatuses \cup {"none"}
  BY StillLocating DEF Sound, EarlySound, MapSound, PushRecord, Owners
<1>2. q.answers + 1 \in Nat /\ q.answers = 0
  BY <1>1 DEF Seen, PushRecord
<1>3. c \in PushRecord
  BY <1>2 DEF ParentAnswered, PushRecord
<1>4. /\ c.answers = 1
      /\ << c.owner, c.map, c.ending, c.tcap, c.info, c.cdr, c.conn, c.ctx, c.appq, c.mapq >>
         = << q.owner, q.map, q.ending, q.tcap, q.info, q.cdr, q.conn, q.ctx, q.appq, q.mapq >>
  BY <1>2 DEF ParentAnswered, PushRecord
<1> HIDE DEF c
<1>5. n \in PushRecord
  BY <1>3 DEF CreateNewDialog, PushRecord, MapStates
<1>6. /\ n.map = "idle" /\ n.answers = 1
      /\ << n.owner, n.ending, n.tcap, n.info, n.cdr, n.conn, n.ctx, n.appq, n.mapq >>
         = << c.owner, c.ending, c.tcap, c.info, c.cdr, c.conn, c.ctx, c.appq, c.mapq >>
  BY <1>3, <1>4 DEF CreateNewDialog, PushRecord
<1> HIDE DEF n
<1>7. << c.owner, c.map, c.ending, c.tcap, c.info, c.cdr, c.conn, c.ctx, c.appq, c.mapq >>
      = << r.owner, r.map, r.ending, r.tcap, r.info, r.cdr, r.conn, r.ctx, r.appq, r.mapq >>
  BY <1>4 DEF Seen
<1>8. Sound(c) /\ ~ Live(c)
  BY <1>1, <1>4, <1>7 DEF Sound, BillSound, HttpRight, SipRight, AbortsSound, MapSound,
                          SideSound, EarlySound, Live
<1>9. SideSound(n)
  BY <1>1, <1>6, <1>7 DEF Sound, SideSound, Live
<1> QED
  BY <1>1, <1>3, <1>4, <1>5, <1>6, <1>7, <1>8, <1>9 DEF c, n

\* onSriFullResponse with a location.
LEMMA TellResultSound ==
  ASSUME TypeOK, NEW d \in Dialogs, Sound(dlg[d]), Consistent(dlg[d]), dlg[d].sriq # << >>,
         NEW q \in PushRecord, Seen(q) = Seen(dlg[d]), q.queries = dlg[d].queries,
         TellResult(d, q)
  PROVE  BecomesSound(d)
<1> DEFINE r == dlg[d]
           c == ParentAnswered(q)
           n == CreateNewDialog(c)
<1>1. PICK fault \in {"none"} \cup (Faults \cap {"create", "send"}) :
        Becomes(d, OnSriResult(c, fault))
  BY DEF TellResult
<1> DEFINE s == OnSriResult(c, fault)
<1>2. r \in PushRecord
  BY DEF TypeOK
<1>3. /\ c \in PushRecord /\ c.owner \in {"http", "sip"} /\ c.answers # 0
      /\ Sound(c)
      /\ n \in PushRecord /\ n.owner = c.owner
      /\ n.map = "idle" /\ n.mapq = << >> /\ n.ending = "open" /\ n.answers # 0
      /\ SideSound(n)
      /\ n.owner = "http" => n.cdr = "none" /\ n.tcap # "End" /\ n.conn = "open"
      /\ n.owner = "sip" => n.cdr \in EarlyStatuses \cup {"none"}
  BY <1>2, ToldSound
<1> HIDE DEF r
<1>4. IF fault = "create" THEN Evolves(c, s) ELSE Evolves(n, s)
  BY <1>3, HttpOnSriResultEvolves, SipOnSriResultEvolves DEF OnSriResult
<1>5. /\ c.owner = "http" => IF fault = "create" THEN HttpDoes(c, s) ELSE HttpDoes(n, s)
      /\ c.owner = "sip" => IF fault = "create" THEN SipDoes(c, s) ELSE SipDoes(n, s)
      /\ s.map # "idle"
  BY <1>3, HttpOnSriResultSound, SipOnSriResultSound DEF OnSriResult
<1> HIDE DEF s, c, n
<1>6. CASE fault = "create"
  BY <1>1, <1>3, <1>4, <1>5, <1>6, HttpKeepsSound, SipKeepsSound DEF BecomesSound, s
<1>7. CASE fault # "create"
  <2>1. Sound(s)
    BY <1>3, <1>4, <1>5, <1>7, FreshSound
  <2> QED
    BY <1>1, <2>1 DEF BecomesSound, s
<1> QED
  BY <1>6, <1>7

\* onSriError.
LEMMA TellErrorSound ==
  ASSUME TypeOK, NEW d \in Dialogs, Sound(dlg[d]), Consistent(dlg[d]), dlg[d].sriq # << >>,
         NEW q \in PushRecord, Seen(q) = Seen(dlg[d]), q.queries = dlg[d].queries,
         NEW status \in FailureStatuses, TellError(d, q, status)
  PROVE  BecomesSound(d)
<1> DEFINE r == dlg[d]
           c == ParentAnswered(q)
           s == OnSriError(c, status)
<1>1. Becomes(d, s) /\ status \in CdrStatuses /\ status # "FAILED_DIALOG_REJECTED"
  BY DEF TellError, FailureStatuses
<1>2. r \in PushRecord
  BY DEF TypeOK
<1>3. /\ c \in PushRecord /\ c.owner \in {"http", "sip"} /\ c.answers # 0
      /\ Sound(c) /\ ~ Live(c)
  BY <1>2, ToldSound
<1> HIDE DEF r, c
<1>4. Evolves(c, s)
  BY <1>1, <1>3, HttpOnSriErrorEvolves, SipOnSriErrorEvolves DEF OnSriError
<1>5. (c.owner = "http" => HttpDoes(c, s)) /\ (c.owner = "sip" => SipDoes(c, s))
  BY <1>1, <1>3, HttpOnSriErrorSound, SipOnSriErrorSound DEF OnSriError
<1> HIDE DEF s
<1>6. Sound(s)
  BY <1>3, <1>4, <1>5, HttpKeepsSound, SipKeepsSound
<1> QED
  BY <1>1, <1>6 DEF BecomesSound

\* The SriSbb, on the dialog of the query.
LEMMA SriSound ==
  ASSUME TypeOK, NEW d \in Dialogs, Sound(dlg[d]), Consistent(dlg[d]), HandleSri(d)
  PROVE  BecomesSound(d)
<1> DEFINE r == dlg[d]
           q == SriRest(r)
<1>1. r \in PushRecord
  BY DEF TypeOK
<1>2. r.sriq # << >>
  BY DEF HandleSri, SriStoresComponent, SriClose, SriDelimiter, SriRetries, SriQueryFails,
         SriDelivered
<1>3. /\ q \in PushRecord /\ Seen(q) = Seen(r) /\ q.queries = r.queries
      /\ \A e \in Answers : /\ Seen(StoreComponent(q, e)) = Seen(r)
                            /\ StoreComponent(q, e).queries = r.queries
  BY <1>1, <1>2, QuerySeen
<1>4. SriStatuses \subseteq FailureStatuses /\ "FAILED_SYSTEM_FAILURE" \in FailureStatuses
  BY DEF SriStatuses, FailureStatuses, CdrStatuses
<1> HIDE DEF q
<1>5. CASE SriStoresComponent(d)
  <2>1. PICK e \in Answers : Update(d, StoreComponent(q, e))
    BY <1>5 DEF SriStoresComponent, SriDelivered, Answers, q
  <2>2. Sound(StoreComponent(q, e))
    BY <1>3, SeenSound
  <2> QED
    BY <2>1, <2>2 DEF BecomesSound, Update
<1>6. ASSUME NEW p \in PushRecord, Seen(p) = Seen(r), p.queries = r.queries,
             SriFullResponse(d, p)
      PROVE  BecomesSound(d)
  <2>1. NotLocatedStatus(p) \in FailureStatuses
    BY <1>4 DEF NotLocatedStatus, SriStatuses
  <2>2. CASE p.located
    <3> DEFINE t == DetachFromCurrentDialog(p)
    <3>1. t \in PushRecord /\ Seen(t) = Seen(r) /\ t.queries = r.queries
      BY <1>6, DetachedSeen
    <3>2. TellResult(d, t)
      BY <1>6, <2>2 DEF SriFullResponse
    <3> HIDE DEF t
    <3> QED
      BY <1>2, <3>1, <3>2, TellResultSound
  <2>3. CASE ~ p.located
    <3>1. TellError(d, p, NotLocatedStatus(p))
      BY <1>6, <2>3 DEF SriFullResponse
    <3> QED
      BY <1>2, <1>6, <2>1, <3>1, TellErrorSound
  <2> QED
    BY <2>2, <2>3
<1>7. CASE SriClose(d)
  BY <1>3, <1>6, <1>7 DEF SriClose, q
<1>8. CASE SriDelimiter(d)
  BY <1>3, <1>6, <1>8, DetachedSeen DEF SriDelimiter, q
<1>9. CASE SriRetries(d)
  <2> DEFINE t == DetachFromCurrentDialog(q)
             p == PerformSriQuery(t)
  <2>1. t \in PushRecord /\ Seen(t) = Seen(r) /\ t.queries = r.queries
    BY <1>3, DetachedSeen
  <2>2. Update(d, p) \/ TellError(d, t, QueryFailedStatus("RejectAcn"))
    BY <1>9 DEF SriRetries, q
  <2>3. QueryFailedStatus("RejectAcn") \in FailureStatuses
    BY <1>4 DEF QueryFailedStatus, SriStatuses
  <2> HIDE DEF t
  <2>4. Seen(p) = Seen(r) /\ r.queries # 0
    BY <1>1, <1>2, <2>1, DetachedSeen, StillLocating
  <2> HIDE DEF p
  <2>5. Sound(p)
    BY <2>4, SeenSound
  <2>6. CASE Update(d, p)
    BY <2>5, <2>6 DEF BecomesSound, Update
  <2>7. CASE TellError(d, t, QueryFailedStatus("RejectAcn"))
    BY <1>2, <2>1, <2>3, <2>7, TellErrorSound
  <2> QED
    BY <2>2, <2>6, <2>7
<1>10. CASE SriQueryFails(d)
  <2>1. PICK e \in {"Reject", "UserAbort", "ProviderAbort", "DialogTimeout"} :
          TellError(d, q, QueryFailedStatus(e))
    BY <1>10 DEF SriQueryFails, SriDelivered, q
  <2>2. QueryFailedStatus(e) \in FailureStatuses
    BY <1>4 DEF QueryFailedStatus, SriStatuses
  <2> QED
    BY <1>2, <1>3, <2>1, <2>2, TellErrorSound
<1> QED
  BY <1>5, <1>7, <1>8, <1>9, <1>10 DEF HandleSri

-----------------------------------------------------------------------------
(***************************************************************************)
(* Steps keep the invariant: the mobile and the MAP stack.                 *)
(***************************************************************************)
\* A signal that reports no end.
Reports(r, q) ==
  /\ Signals(r, q) /\ q.ending = r.ending
  /\ NoAborts(r.mapq) => NoAborts(q.mapq)

\* An event of the MAP stack.
LEMMA FireReports ==
  ASSUME NEW r, NEW q, Reports(r, q), NEW e \in MapEvents, e # "Release"
  PROVE  /\ Fire(q, e).ending = q.ending /\ Fire(q, e).tcap = q.tcap
         /\ Signals(r, Fire(q, e))
         /\ e \notin AbortEvents => Reports(r, Fire(q, e))
<1>1. q \in PushRecord /\ q.mapq \in Seq(MapEvents)
  BY DEF Reports, Signals, PushRecord
<1>2. /\ Fire(q, e).mapq = Append(q.mapq, e)
      /\ Fire(q, e).ending = q.ending /\ Fire(q, e).tcap = q.tcap
  BY <1>1 DEF Fire, PushRecord
<1>3. Signals(r, Fire(q, e))
  BY FireSignals DEF Reports
<1>4. NoAborts(q.mapq) /\ e \notin AbortEvents => NoAborts(Append(q.mapq, e))
  BY <1>1 DEF NoAborts
<1> QED
  BY <1>2, <1>3, <1>4 DEF Reports

\* The message of the mobile, and the acceptance of the dialog.
LEMMA ReachedReports ==
  ASSUME NEW r \in PushRecord, Live(r), NEW tcap \in TcapTypes
  PROVE  /\ Reports(r, Reached(r, tcap)) /\ Reached(r, tcap).tcap = tcap
         /\ Reports(r, [r EXCEPT !.tcap = tcap])
<1> DEFINE a == [r EXCEPT !.tcap = tcap]
           b == [r EXCEPT !.tcap = tcap, !.map = "active"]
<1>1. a \in PushRecord /\ b \in PushRecord
  BY DEF PushRecord, MapStates
<1>2. Reports(r, a) /\ Reports(r, b) /\ a.tcap = tcap /\ b.tcap = tcap
  BY <1>1 DEF Reports, Signals, PushRecord, Kept, Live
<1>3. Reports(r, Fire(b, "Accept")) /\ Fire(b, "Accept").tcap = tcap
  BY <1>2, FireReports DEF MapEvents, AbortEvents
<1> QED
  BY <1>2, <1>3 DEF Reached

\* An operation that is answered or given up.
LEMMA InvokeReports ==
  ASSUME NEW r, NEW q, Reports(r, q), NEW op
  PROVE  /\ Reports(r, [q EXCEPT !.invokes = @ \ {op}])
         /\ [q EXCEPT !.invokes = @ \ {op}].tcap = q.tcap
<1>1. Signals(r, [q EXCEPT !.invokes = @ \ {op}]) /\ q \in PushRecord
  BY InvokeSignals DEF Reports, Signals
<1> QED
  BY <1>1 DEF Reports, PushRecord

\* A report, and the end that the stack or the mobile puts to the dialog.
LEMMA ReportSound ==
  ASSUME NEW r \in PushRecord, Sound(r), r.answers # 0, NEW q, Signals(r, q),
         q.ending = r.ending, NEW how \in Endings
  PROVE  /\ Reports(r, q) /\ (q.tcap = r.tcap \/ q.tcap # "End") => Sound(q)
         /\ Reports(r, q) \/ how = "peerAbort" => Sound(Expunge(q, how))
<1>1. /\ q \in PushRecord /\ Live(r) /\ Live(q) /\ q.owner = r.owner /\ q.appq = r.appq
      /\ q.answers # 0 /\ q.cdr = r.cdr /\ q.conn = r.conn /\ q.info = r.info
      /\ q.ending = r.ending
  BY DEF Signals, Kept
<1>2. NoAborts(r.mapq) /\ r.ending = "open" /\ (r.owner # "sip" => r.tcap # "End")
  BY <1>1 DEF Sound, AbortsSound, MapSound, Live
<1>3. ASSUME Reports(r, q), q.tcap = r.tcap \/ q.tcap # "End"
      PROVE  Sound(q)
  <2>1. AbortsSound(q)
    BY <1>2, <1>3 DEF AbortsSound, NoAborts, AbortEvents, Reports
  <2>2. MapSound(q)
    BY <1>1, <1>2, <1>3 DEF MapSound, Live
  <2>3. BillSound(q)
    BY <1>1 DEF Sound, BillSound, HttpRight, SipRight
  <2>4. SideSound(q)
    BY <1>1 DEF Sound, SideSound
  <2> QED
    BY <1>1, <2>1, <2>2, <2>3, <2>4 DEF Sound, EarlySound
<1>4. ASSUME Reports(r, q) \/ how = "peerAbort"
      PROVE  Sound(Expunge(q, how))
  <2> DEFINE s == Expunge(q, how)
  <2>1. /\ s.map = "expunged" /\ s.ending = how /\ ~ Live(s)
        /\ s.cdr = q.cdr /\ s.conn = q.conn
        /\ << s.owner, s.tcap, s.info >> = << q.owner, q.tcap, q.info >>
    BY <1>1, ExpungeSeen
  <2>2. s.mapq = Append(q.mapq, "Release") /\ s.appq = q.appq /\ s.answers = q.answers
    BY <1>1 DEF Expunge, Fire, PushRecord
  <2> HIDE DEF s
  <2>3. AbortsSound(s)
    <3>1. q.mapq \in Seq(MapEvents)
      BY <1>1 DEF PushRecord
    <3>2. how # "peerAbort" => NoAborts(q.mapq)
      BY <1>2, <1>4 DEF Reports
    <3> QED
      BY <2>1, <2>2, <3>1, <3>2 DEF AbortsSound, NoAborts, AbortEvents
  <2>4. MapSound(s)
    BY <2>1 DEF MapSound
  <2>5. BillSound(s)
    BY <1>1, <1>2, <2>1 DEF Sound, BillSound, HttpRight, SipRight
  <2>6. SideSound(s)
    BY <1>1, <2>1, <2>2 DEF Sound, SideSound
  <2> QED
    BY <1>1, <2>2, <2>3, <2>4, <2>5, <2>6 DEF Sound, EarlySound, s
<1> QED
  BY <1>3, <1>4

\* The mobile answers, its network fails, or a timer expires.
LEMMA MobileSound ==
  ASSUME TypeOK, NEW d \in Dialogs, Sound(dlg[d]), Consistent(dlg[d]), Mobile(d)
  PROVE  BecomesSound(d)
<1> DEFINE r == dlg[d]
<1>1. r \in PushRecord
  BY DEF TypeOK
<1>2. Live(r)
  BY DEF Mobile, MobileAnswers, MobileEnds, MobileAborts, InvokeExpires, DialogExpires,
         TimerExpires
<1>3. r.answers # 0
  BY <1>2 DEF Consistent, MapConsistent, Live, Running
<1>4. /\ "peerEnd" \in Endings /\ "peerAbort" \in Endings /\ "idle" \in Endings
      /\ "Continue" \in TcapTypes /\ "End" \in TcapTypes /\ "Abort" \in TcapTypes
  BY DEF Endings, TcapTypes
<1>5. Reports(r, r)
  BY <1>1, <1>2 DEF Reports, Signals
<1>6. ASSUME NEW q, Reports(r, q), NEW how \in Endings, Update(d, Expunge(q, how))
      PROVE  BecomesSound(d)
  BY <1>1, <1>3, <1>6, ReportSound DEF BecomesSound, Update, Reports
<1>7. ASSUME NEW q, Reports(r, q), q.tcap = r.tcap \/ q.tcap # "End", Update(d, q)
      PROVE  BecomesSound(d)
  BY <1>1, <1>3, <1>4, <1>7, ReportSound DEF BecomesSound, Update, Reports
<1>8. ASSUME NEW tcap \in TcapTypes, NEW op \in r.invokes, NEW e \in Replies(op)
      PROVE  /\ Reports(r, Answer(Reached(r, tcap), op, e))
             /\ Answer(Reached(r, tcap), op, e).tcap = tcap
  <2>1. op \in Operations
    BY <1>1, <1>8 DEF PushRecord
  <2>2. e \in MapEvents /\ e # "Release" /\ e \notin AbortEvents
    BY <1>8, <2>1 DEF Replies, AnswerOf, Operations, MapEvents, AnswerEvents, AbortEvents
  <2> DEFINE a == Reached(r, tcap)
             b == [a EXCEPT !.invokes = @ \ {op}]
  <2>3. Reports(r, a) /\ a.tcap = tcap
    BY <1>1, <1>2, <1>8, ReachedReports
  <2> HIDE DEF a
  <2>4. Reports(r, b) /\ b.tcap = tcap
    BY <2>3, InvokeReports
  <2> HIDE DEF b
  <2>5. Reports(r, Fire(b, e)) /\ Fire(b, e).tcap = tcap
    BY <2>2, <2>4, FireReports
  <2> QED
    BY <2>5 DEF Answer, a, b
<1> HIDE DEF r
<1>9. CASE MobileAnswers(d)
  BY <1>1, <1>2, <1>4, <1>7, <1>8, <1>9, ReachedReports DEF MobileAnswers, r
<1>10. CASE MobileEnds(d)
  BY <1>1, <1>2, <1>4, <1>6, <1>8, <1>10, ReachedReports DEF MobileEnds, r
<1>11. CASE MobileAborts(d)
  <2> DEFINE q == [r EXCEPT !.tcap = "Abort"]
  <2>1. PICK e \in {"Reject", "UserAbort", "ProviderAbort"} :
          Update(d, Expunge(Fire(q, e), "peerAbort"))
    BY <1>11 DEF MobileAborts, r
  <2>2. Reports(r, q)
    BY <1>1, <1>2, <1>4, ReachedReports
  <2> HIDE DEF q
  <2>3. Signals(r, Fire(q, e)) /\ Fire(q, e).ending = r.ending
    BY <2>2, FireReports DEF MapEvents, Reports
  <2>4. Sound(r)
    BY DEF r
  <2>5. Sound(Expunge(Fire(q, e), "peerAbort"))
    BY <1>1, <1>3, <1>4, <2>3, <2>4, ReportSound
  <2> QED
    BY <2>1, <2>5 DEF BecomesSound, Update
<1>12. CASE InvokeExpires(d)
  <2>1. PICK op \in r.invokes :
          Update(d, Fire([r EXCEPT !.invokes = @ \ {op}], "InvokeTimeout"))
    BY <1>12 DEF InvokeExpires, r
  <2> DEFINE q == [r EXCEPT !.invokes = @ \ {op}]
  <2>2. Reports(r, q) /\ q.tcap = r.tcap
    BY <1>5, InvokeReports
  <2> HIDE DEF q
  <2>3. Reports(r, Fire(q, "InvokeTimeout")) /\ Fire(q, "InvokeTimeout").tcap = r.tcap
    BY <2>2, FireReports DEF MapEvents, AbortEvents
  <2> QED
    BY <1>7, <2>1, <2>3 DEF q
<1>13. CASE DialogExpires(d)
  <2>1. Reports(r, Fire(r, "DialogTimeout")) /\ Fire(r, "DialogTimeout").tcap = r.tcap
    BY <1>5, FireReports DEF MapEvents, AbortEvents
  <2> QED
    BY <1>4, <1>6, <1>7, <1>13, <2>1 DEF DialogExpires, r
<1>14. CASE TimerExpires(d)
  <2>1. PICK t \in r.timers : Update(d, Fire([r EXCEPT !.timers = @ \ {t}], "Timer"))
    BY <1>14 DEF TimerExpires, r
  <2> DEFINE q == [r EXCEPT !.timers = @ \ {t}]
  <2>2. q \in PushRecord
    BY <1>1 DEF PushRecord
  <2>3. Reports(r, q) /\ q.tcap = r.tcap
    BY <1>1, <1>2, <2>2 DEF Reports, Signals, PushRecord, Kept, Live
  <2> HIDE DEF q
  <2>4. Reports(r, Fire(q, "Timer")) /\ Fire(q, "Timer").tcap = r.tcap
    BY <2>3, FireReports DEF MapEvents, AbortEvents
  <2> QED
    BY <1>7, <2>1, <2>4 DEF q
<1> QED
  BY <1>9, <1>10, <1>11, <1>12, <1>13, <1>14 DEF Mobile

-----------------------------------------------------------------------------
(***************************************************************************)
(* Steps keep the invariant: the server SBBs.                              *)
(***************************************************************************)
\* onDialogRelease.
LEMMA ReleaseSound ==
  ASSUME NEW r \in PushRecord, Sound(r), r.answers # 0
  PROVE  Sound(OnDialogRelease(r))
<1> DEFINE s == OnDialogRelease(r)
<1>1. /\ << s.owner, s.map, s.ending, s.tcap, s.info, s.cdr, s.conn, s.appq, s.answers >>
         = << r.owner, r.map, r.ending, r.tcap, r.info, r.cdr, r.conn, r.appq, r.answers >>
      /\ s.mapq = << >>
  BY DEF OnDialogRelease, PushRecord
<1> HIDE DEF s
<1>2. AbortsSound(s)
  BY <1>1 DEF AbortsSound, NoAborts
<1>3. BillSound(s) /\ MapSound(s) /\ SideSound(s) /\ EarlySound(s)
  BY <1>1 DEF Sound, BillSound, HttpRight, SipRight, MapSound, SideSound, EarlySound, Live
<1> QED
  BY <1>2, <1>3 DEF Sound, s

\* The server SBB, on the MAP activity.
LEMMA MapHandlersSound ==
  ASSUME TypeOK, NEW d \in Dialogs, Sound(dlg[d]), Consistent(dlg[d]), HandleMap(d)
  PROVE  BecomesSound(d)
<1> DEFINE r == dlg[d]
           q == Rest(r)
<1>1. r \in PushRecord
  BY DEF TypeOK
<1>2. r.mapq # << >>
  BY DEF HandleMap, HandleUnstructuredSSResponse, HandleNotifyResponse, HandleOtherMessage,
         HandleAccept, HandleReject, HandleUserAbort, HandleProviderAbort,
         HandleInvokeTimeout, HandleRejectComponent, HandleErrorComponent,
         HandleDialogTimeout, HandleTimer, HandleRelease, OnAbortIndication,
         OnComponentFailure, Delivered
<1>3. r.answers # 0 /\ r.owner \in {"http", "sip"}
  <2>1. r.owner # "none"
    BY <1>1, <1>2, RestStep
  <2>2. r.answers # 0
    BY <1>2 DEF Consistent, MapConsistent
  <2> QED
    BY <1>1, <2>1, <2>2 DEF PushRecord, Owners
<1>4. /\ q \in PushRecord /\ Sound(q) /\ q.owner \in {"http", "sip"} /\ q.answers # 0
      /\ Head(r.mapq) \in AbortEvents => ~ Live(q)
      /\ Head(r.mapq) = "Reject" => q.ending = "peerAbort"
      /\ q.owner = "http" /\ q.tcap = "End" => ~ Live(q)
  BY <1>1, <1>2, <1>3, RestStep, RestSound
<1> HIDE DEF q
<1>5. ASSUME NEW http, NEW sip,
             q.owner = "http" => Evolves(q, http) /\ HttpDoes(q, http),
             q.owner = "sip" => Evolves(q, sip) /\ SipDoes(q, sip),
             Update(d, ByOwner(q, http, sip))
      PROVE  BecomesSound(d)
  <2>1. q.owner = "http" => Sound(http)
    BY <1>4, <1>5, HttpKeepsSound
  <2>2. q.owner = "sip" => Sound(sip)
    BY <1>4, <1>5, SipKeepsSound
  <2>3. Sound(ByOwner(q, http, sip))
    BY <1>4, <2>1, <2>2 DEF ByOwner
  <2> QED
    BY <1>5, <2>3 DEF BecomesSound, Update
<1>6. /\ "FAILED_DIALOG_USER_ABORT" \in FailureStatuses
      /\ "FAILED_PROVIDER_ABORT" \in FailureStatuses
      /\ "FAILED_INVOKE_TIMEOUT" \in FailureStatuses
      /\ "FAILED_MAP_REJECT_COMPONENT" \in FailureStatuses
      /\ "FAILED_MAP_ERROR_COMPONENT" \in FailureStatuses
      /\ "FAILED_DIALOG_REJECTED" \in CdrStatuses
      /\ FailureStatuses \subseteq CdrStatuses
  BY DEF FailureStatuses, CdrStatuses
<1>7. CASE HandleUnstructuredSSResponse(d)
  BY <1>4, <1>5, <1>7, HttpAnswersEvolve, SipAnswersEvolve, HttpAnswersSound, SipAnswersSound
  DEF HandleUnstructuredSSResponse, q
<1>8. CASE HandleNotifyResponse(d)
  BY <1>4, <1>5, <1>8, HttpAnswersEvolve, SipAnswersEvolve, HttpAnswersSound, SipAnswersSound
  DEF HandleNotifyResponse, q
<1>9. CASE HandleOtherMessage(d)
  BY <1>4, <1>5, <1>9, ProcessReceivedEvolves, SipAnswersEvolve, HttpAnswersSound,
     SipAnswersSound
  DEF HandleOtherMessage, q
<1>10. CASE HandleAccept(d)
  BY <1>4, <1>5, <1>10, HttpOnDialogAcceptEvolves, SipAnswersEvolve, HttpOnDialogAcceptSound,
     SipAnswersSound
  DEF HandleAccept, q
<1>11. ASSUME NEW e \in AbortEvents,
              NEW status \in FailureStatuses \cup {"FAILED_DIALOG_REJECTED"},
              status = "FAILED_DIALOG_REJECTED" => e = "Reject",
              OnAbortIndication(d, e, status)
       PROVE  BecomesSound(d)
  <2> DEFINE http == HttpOnAbortIndication(q, status)
             sip == SipOnAbortIndication(q, status)
  <2>1. Head(r.mapq) = e /\ Update(d, ByOwner(q, http, sip))
    BY <1>11 DEF OnAbortIndication, Delivered, q
  <2>2. /\ Evolves(q, http) /\ HttpDoes(q, http)
        /\ Evolves(q, sip) /\ SipDoes(q, sip)
    BY <1>4, <1>6, <1>11, <2>1, HttpOnSriErrorEvolves, SipOnSriErrorEvolves,
       HttpOnSriErrorSound, SipOnSriErrorSound
  <2> HIDE DEF http, sip
  <2> QED
    BY <1>5, <2>1, <2>2
<1>12. ASSUME NEW e, NEW status \in FailureStatuses, OnComponentFailure(d, e, status)
       PROVE  BecomesSound(d)
  BY <1>4, <1>5, <1>6, <1>12, HttpFailuresEvolve, SipFailuresEvolve, HttpFailuresSound,
     SipFailuresSound
  DEF OnComponentFailure, q
<1>13. CASE HandleErrorComponent(d)
  BY <1>4, <1>5, <1>6, <1>13, HttpFailuresEvolve, SipFailuresEvolve, HttpFailuresSound,
     SipFailuresSound
  DEF HandleErrorComponent, q
<1>14. CASE HandleDialogTimeout(d)
  BY <1>4, <1>5, <1>6, <1>14, HttpFailuresEvolve, SipFailuresEvolve, HttpFailuresSound,
     SipFailuresSound
  DEF HandleDialogTimeout, q
<1>15. CASE HandleTimer(d)
  BY <1>4, <1>5, <1>6, <1>15, HttpFailuresEvolve, SipOnTimerEventEvolves, HttpFailuresSound,
     SipOnTimerEventSound
  DEF HandleTimer, q
<1>16. CASE HandleRelease(d)
  BY <1>1, <1>3, <1>16, ReleaseSound DEF HandleRelease, BecomesSound
<1>17. HandleReject(d) \/ HandleUserAbort(d) \/ HandleProviderAbort(d) => BecomesSound(d)
  BY <1>6, <1>11 DEF HandleReject, HandleUserAbort, HandleProviderAbort, AbortEvents,
                     FailureStatuses
<1>18. HandleInvokeTimeout(d) \/ HandleRejectComponent(d) => BecomesSound(d)
  BY <1>6, <1>12 DEF HandleInvokeTimeout, HandleRejectComponent
<1> QED
  BY <1>7, <1>8, <1>9, <1>10, <1>13, <1>14, <1>15, <1>16, <1>17, <1>18 DEF HandleMap

\* The server SBB, on the session or the SIP dialog.
LEMMA AppHandlersSound ==
  ASSUME TypeOK, NEW d \in Dialogs, Sound(dlg[d]), Consistent(dlg[d]), HandleApp(d)
  PROVE  BecomesSound(d)
<1> DEFINE r == dlg[d]
           q == AppRest(r)
<1>1. r \in PushRecord
  BY DEF TypeOK
<1>2. r.appq # << >>
  BY DEF HandleApp, HandleSessionPost, HandleInfo, HandleBye, HandleTransportError, Received
<1>3. r.owner \in {"http", "sip"}
  BY <1>1, <1>2, AppRestStep DEF PushRecord, Owners
<1>4. /\ q \in PushRecord /\ Sound(q) /\ q.owner = r.owner
      /\ q.owner = "http" => Head(r.appq) \in SessionPosts
      /\ q.owner = "sip" => Head(r.appq) \in SipEvents
      /\ q.owner = "http" /\ q.answers = 0 => q.ctx = "first"
  BY <1>1, <1>2, AppRestStep, AppRestSound
<1> HIDE DEF q
<1>5. ASSUME NEW s, q.owner = "sip", Evolves(q, s), SipAppDoes(q, s), Update(d, s)
      PROVE  BecomesSound(d)
  <2>1. Sound(s)
    BY <1>4, <1>5, SipKeepsSound DEF SipAppDoes
  <2> QED
    BY <1>5, <2>1 DEF BecomesSound, Update
<1>6. SipEvents \cap SessionPosts = {}
  BY DEF SipEvents, SessionPosts
<1>7. CASE HandleSessionPost(d)
  <2>1. PICK k \in SessionPosts : Update(d, OnSessionPost(q, k)) /\ k = Head(r.appq)
    BY <1>7 DEF HandleSessionPost, Received, q
  <2>2. q.owner = "http"
    BY <1>3, <1>4, <1>6, <2>1
  <2> DEFINE s == OnSessionPost(q, k)
  <2>3. Evolves(q, s) /\ HttpDoes(q, s)
    BY <1>4, <2>1, OnSessionPostEvolves, OnSessionPostSound
  <2>4. q.ctx # "none" => s = q
    BY DEF OnSessionPost
  <2> HIDE DEF s
  <2>5. Sound(s)
    BY <1>4, <2>2, <2>3, <2>4, HttpKeepsSound
  <2> QED
    BY <2>1, <2>5 DEF BecomesSound, Update, s
<1>8. CASE HandleInfo(d)
  <2>1. q.owner = "sip"
    BY <1>3, <1>4, <1>8 DEF HandleInfo, Received, SessionPosts
  <2> QED
    BY <1>4, <1>5, <1>8, <2>1, OnDialogInfoEvolves, SipRequestsSound
    DEF HandleInfo, Received, q
<1>9. CASE HandleBye(d)
  <2>1. q.owner = "sip"
    BY <1>3, <1>4, <1>9 DEF HandleBye, Received, SessionPosts
  <2> QED
    BY <1>4, <1>5, <1>9, <2>1, OnDialogByeEvolves, SipRequestsSound DEF HandleBye, q
<1>10. CASE HandleTransportError(d)
  <2>1. q.owner = "sip" /\ "FAILED_TRANSPORT_ERROR" \in CdrStatuses
    BY <1>3, <1>4, <1>10 DEF HandleTransportError, Received, SessionPosts, CdrStatuses
  <2> QED
    BY <1>4, <1>5, <1>10, <2>1, SipFailuresEvolve, SipRequestsSound
    DEF HandleTransportError, q
<1> QED
  BY <1>7, <1>8, <1>9, <1>10 DEF HandleApp

-----------------------------------------------------------------------------
(***************************************************************************)
(* Steps keep the invariant: the applications.                             *)
(***************************************************************************)
\* A record that an application takes.
LEMMA TakenSound ==
  ASSUME NEW r \in PushRecord, Sound(r), Consistent(r), r.owner = "none", NEW s,
         << s.map, s.ending, s.tcap, s.info, s.cdr, s.appq, s.mapq, s.answers >>
         = << r.map, r.ending, r.tcap, r.info, r.cdr, r.appq, r.mapq, r.answers >>,
         \/ s.owner = "http" /\ s.ctx = "first" /\ s.conn = "open"
         \/ s.owner = "http" /\ s.queries = r.queries /\ s.conn \in {"none", "over"}
         \/ s.owner = "sip" /\ s.conn # "open"
  PROVE  Sound(s)
<1>1. /\ r.queries = 0 /\ r.answers = 0 /\ r.appq = << >> /\ ~ r.info
      /\ r.map = "none" /\ r.cdr = "none" /\ r.mapq = << >>
  BY DEF Consistent, Untouched, QueryConsistent, MapConsistent, Sound, EarlySound
<1>2. AbortsSound(s)
  BY <1>1 DEF AbortsSound, NoAborts
<1>3. BillSound(s) /\ MapSound(s)
  BY <1>1 DEF Sound, BillSound, HttpRight, SipRight, MapSound, Live
<1>4. SideSound(s)
  BY <1>1 DEF SideSound, Live
<1>5. EarlySound(s)
  BY <1>1 DEF EarlySound
<1> QED
  BY <1>2, <1>3, <1>4, <1>5 DEF Sound

\* The first POST.
LEMMA PostSound ==
  ASSUME NEW r \in PushRecord, Sound(r), Consistent(r), r.owner = "none"
  PROVE  /\ Sound(OnUnusablePost(r))
         /\ \A first \in Firsts :
              Sound(OnPost(r, first)) /\ Sound(OnPostNoQuery(r, first))
<1> DEFINE u == OnUnusablePost(r)
<1>1. /\ u.owner = "http" /\ u.queries = r.queries /\ u.conn = r.conn
      /\ << u.map, u.ending, u.tcap, u.info, u.cdr, u.appq, u.mapq, u.answers >>
         = << r.map, r.ending, r.tcap, r.info, r.cdr, r.appq, r.mapq, r.answers >>
  BY DEF OnUnusablePost, UpdateDialogFailureStat, PushRecord
<1>2. r.conn = "none"
  BY DEF Consistent, Untouched
<1> HIDE DEF u
<1>3. Sound(u)
  BY <1>1, <1>2, TakenSound
<1>4. ASSUME NEW first \in Firsts
      PROVE  Sound(OnPost(r, first)) /\ Sound(OnPostNoQuery(r, first))
  <2> DEFINE q == StartPush(r, first)
             s == PerformSriQuery(q)
             n == UpdateDialogFailureStat(AbortHttpDialog(q))
  <2>1. first.op \in Operations /\ first.handshake \in BOOLEAN /\ first.last \in BOOLEAN
    BY InputsAssumption
  <2>2. q \in PushRecord
    BY <2>1 DEF StartPush, PushRecord, Owners, Contexts, ConnStates
  <2>3. /\ q.owner = "http" /\ q.ctx = "first" /\ q.conn = "open" /\ q.queries = r.queries
        /\ << q.map, q.ending, q.tcap, q.info, q.cdr, q.appq, q.mapq, q.answers >>
           = << r.map, r.ending, r.tcap, r.info, r.cdr, r.appq, r.mapq, r.answers >>
    BY DEF StartPush, PushRecord
  <2> HIDE DEF q
  <2>4. Seen(s) = Seen(q)
    BY <2>2, DetachedSeen
  <2>5. /\ n.owner = "http" /\ n.conn = "over" /\ n.queries = q.queries
        /\ << n.map, n.ending, n.tcap, n.info, n.cdr, n.appq, n.mapq, n.answers >>
           = << q.map, q.ending, q.tcap, q.info, q.cdr, q.appq, q.mapq, q.answers >>
    BY <2>2, <2>3
    DEF AbortHttpDialog, EndHttpSessionActivity, ResumeHttpEventContext,
        UpdateDialogFailureStat, PushRecord
  <2> HIDE DEF s, n
  <2>6. Sound(s)
    BY <2>3, <2>4, TakenSound DEF Seen
  <2>7. Sound(n)
    BY <2>3, <2>5, TakenSound
  <2> QED
    BY <2>6, <2>7 DEF OnPost, OnPostNoQuery, q, s, n
<1> QED
  BY <1>3, <1>4 DEF u

\* The INVITE.
LEMMA InviteSound ==
  ASSUME NEW r \in PushRecord, Sound(r), Consistent(r), r.owner = "none",
         NEW op \in Operations
  PROVE  /\ Sound(OnUnusableInvite(r)) /\ Sound(OnInvite(r, op))
         /\ Sound(OnInviteNoReply(r, op)) /\ Sound(OnInviteNoQuery(r, op))
<1> DEFINE u == OnUnusableInvite(r)
           q == StartSipPush(r, op)
           s == PerformSriQuery(q)
           n == OnInviteNoReply(r, op)
           x == OnInviteNoQuery(r, op)
<1>1. /\ u.owner = "sip" /\ u.conn = "over"
      /\ << u.map, u.ending, u.tcap, u.info, u.cdr, u.appq, u.mapq, u.answers >>
         = << r.map, r.ending, r.tcap, r.info, r.cdr, r.appq, r.mapq, r.answers >>
  BY DEF OnUnusableInvite, UpdateDialogFailureStat, PushRecord
<1>2. q \in PushRecord
  BY DEF StartSipPush, PushRecord, Owners, ConnStates
<1>3. /\ q.owner = "sip" /\ q.conn = "confirmed"
      /\ << q.map, q.ending, q.tcap, q.info, q.cdr, q.appq, q.mapq, q.answers >>
         = << r.map, r.ending, r.tcap, r.info, r.cdr, r.appq, r.mapq, r.answers >>
  BY DEF StartSipPush, PushRecord
<1>4. /\ x.owner = "sip" /\ x.conn = "over"
      /\ << x.map, x.ending, x.tcap, x.info, x.cdr, x.appq, x.mapq, x.answers >>
         = << q.map, q.ending, q.tcap, q.info, q.cdr, q.appq, q.mapq, q.answers >>
  BY <1>2, <1>3 DEF OnInviteNoQuery, UpdateDialogFailureStat, PushRecord
<1>5. n = UpdateDialogFailureStat([s EXCEPT !.conn = "over"])
  BY DEF OnInviteNoReply, OnInvite
<1>6. s \in PushRecord /\ Seen(s) = Seen(q)
  BY <1>2, QuerySent, DetachedSeen
<1> HIDE DEF u, q, s, x, n
<1>7. /\ n.owner = s.owner /\ n.conn = "over"
      /\ << n.map, n.ending, n.tcap, n.info, n.cdr, n.appq, n.mapq, n.answers >>
         = << s.map, s.ending, s.tcap, s.info, s.cdr, s.appq, s.mapq, s.answers >>
  BY <1>5, <1>6 DEF UpdateDialogFailureStat, PushRecord
<1>8. Sound(u)
  BY <1>1, TakenSound
<1>9. Sound(x)
  BY <1>3, <1>4, TakenSound
<1>10. Sound(s)
  BY <1>3, <1>6, TakenSound DEF Seen
<1>11. Sound(n)
  BY <1>3, <1>6, <1>7, TakenSound DEF Seen
<1> QED
  BY <1>8, <1>9, <1>10, <1>11 DEF u, q, s, x, n, OnInvite

\* A message of an application, or its side of a SIP dialog, changes.
LEMMA MessageSound ==
  ASSUME NEW r \in PushRecord, Sound(r), NEW s,
         << s.owner, s.map, s.ending, s.tcap, s.cdr, s.ctx, s.mapq, s.queries, s.answers >>
         = << r.owner, r.map, r.ending, r.tcap, r.cdr, r.ctx, r.mapq, r.queries, r.answers >>,
         \/ /\ r.owner = "http" /\ r.conn = "open" /\ s.conn = "open" /\ s.info = r.info
            /\ \E k \in SessionPosts : s.appq = Append(r.appq, k)
         \/ /\ r.owner = "sip" /\ s.conn \in {r.conn, "over"}
            /\ s.appq = r.appq \/ \E k \in SipEvents : s.appq = Append(r.appq, k)
  PROVE  Sound(s)
<1>1. BillSound(s) /\ MapSound(s) /\ AbortsSound(s)
  BY DEF Sound, BillSound, HttpRight, SipRight, MapSound, AbortsSound, Live
<1>2. EarlySound(s)
  BY DEF Sound, EarlySound
<1>3. r.appq \in Seq(AppEvents)
  BY DEF PushRecord
<1>4. ASSUME NEW S, \A i \in 1 .. Len(r.appq) : r.appq[i] \in S,
             NEW k \in S, s.appq = Append(r.appq, k)
      PROVE  \A i \in 1 .. Len(s.appq) : s.appq[i] \in S
  BY <1>3, <1>4
<1>5. CASE /\ r.owner = "http" /\ r.conn = "open" /\ s.conn = "open" /\ s.info = r.info
           /\ \E k \in SessionPosts : s.appq = Append(r.appq, k)
  <2>1. \A i \in 1 .. Len(s.appq) : s.appq[i] \in SessionPosts
    BY <1>4, <1>5 DEF Sound, SideSound
  <2>2. SideSound(s)
    BY <1>5, <2>1 DEF Sound, SideSound
  <2> QED
    BY <1>1, <1>2, <2>2 DEF Sound
<1>6. CASE /\ r.owner = "sip" /\ s.conn \in {r.conn, "over"}
           /\ s.appq = r.appq \/ \E k \in SipEvents : s.appq = Append(r.appq, k)
  <2>1. \A i \in 1 .. Len(s.appq) : s.appq[i] \in SipEvents
    BY <1>4, <1>6 DEF Sound, SideSound
  <2>2. SideSound(s)
    BY <1>6, <2>1 DEF Sound, SideSound
  <2> QED
    BY <1>1, <1>2, <2>2 DEF Sound
<1> QED
  BY <1>5, <1>6

\* What an application does; no suspended POST is given up.
LEMMA ApplicationSound ==
  ASSUME TypeOK, NEW d \in Dialogs, Sound(dlg[d]), Consistent(dlg[d]), Application(d),
         ~ SuspendTimeouts \/ dlg[d].ctx = "none"
  PROVE  BecomesSound(d)
<1> DEFINE r == dlg[d]
<1>1. r \in PushRecord
  BY DEF TypeOK
<1>2. /\ r.owner = "none" => r.conn = "none" /\ ~ r.info
      /\ r.owner = "http" => r.conn \in {"none", "open", "over"} /\ ~ r.info
      /\ r.owner = "sip" => r.conn # "open"
      /\ r.owner \in {"none", "http", "sip"}
  BY <1>1 DEF Consistent, Untouched, Sound, SideSound, PushRecord, Owners
<1>3. SipOperations \subseteq Operations /\ "notify" \in Operations
  BY InputsAssumption DEF SipOperations, Operations
<1>4. CASE HttpPostUnusable(d) \/ HttpPost(d) \/ HttpPostNoQuery(d)
  BY <1>1, <1>4, PostSound
  DEF HttpPostUnusable, HttpPost, HttpPostNoQuery, New, Update, BecomesSound
<1>5. CASE SipInviteUnusable(d) \/ SipInvite(d) \/ SipInviteNoQuery(d)
  BY <1>1, <1>3, <1>5, InviteSound
  DEF SipInviteUnusable, SipInvite, SipInviteNoQuery, New, Update, BecomesSound
<1>6. ASSUME NEW k,
             \/ r.conn = "open" /\ k \in SessionPosts
             \/ r.conn \in {"confirmed", "bye"} /\ k \in SipEvents
      PROVE  Sound(Sends(r, k))
  <2> DEFINE s == Sends(r, k)
  <2>1. /\ << s.owner, s.map, s.ending, s.tcap, s.cdr, s.ctx, s.mapq, s.queries,
              s.answers >>
           = << r.owner, r.map, r.ending, r.tcap, r.cdr, r.ctx, r.mapq, r.queries,
                r.answers >>
        /\ s.conn = r.conn /\ s.info = r.info /\ s.appq = Append(r.appq, k)
    BY <1>1 DEF Sends, PushRecord
  <2> HIDE DEF s
  <2>2. Sound(s)
    BY <1>1, <1>2, <1>6, <2>1, MessageSound
  <2> QED
    BY <2>2 DEF s
<1>7. CASE HttpAppPosts(d)
  BY <1>6, <1>7 DEF HttpAppPosts, Update, BecomesSound
<1>8. CASE SipAppSends(d)
  BY <1>6, <1>8 DEF SipAppSends, SipEvents, Update, BecomesSound
<1>9. ASSUME NEW s, Becomes(d, s), r.owner = "sip", s.conn \in {r.conn, "over"},
             << s.owner, s.map, s.ending, s.tcap, s.cdr, s.ctx, s.mapq, s.queries,
                s.answers >>
             = << r.owner, r.map, r.ending, r.tcap, r.cdr, r.ctx, r.mapq, r.queries,
                  r.answers >>,
             s.appq = r.appq \/ \E k \in SipEvents : s.appq = Append(r.appq, k)
      PROVE  BecomesSound(d)
  BY <1>1, <1>9, MessageSound DEF BecomesSound
<1>10. CASE SipAppRefuses(d)
  <2> DEFINE s == [r EXCEPT !.info = FALSE, !.appq = Append(@, "failure")]
             t == [r EXCEPT !.conn = "over", !.appq = Append(@, "failure")]
  <2>1. /\ s.conn = r.conn /\ t.conn = "over"
        /\ s.appq = Append(r.appq, "failure") /\ t.appq = Append(r.appq, "failure")
        /\ << s.owner, s.map, s.ending, s.tcap, s.cdr, s.ctx, s.mapq, s.queries, s.answers >>
           = << r.owner, r.map, r.ending, r.tcap, r.cdr, r.ctx, r.mapq, r.queries, r.answers >>
        /\ << t.owner, t.map, t.ending, t.tcap, t.cdr, t.ctx, t.mapq, t.queries, t.answers >>
           = << r.owner, r.map, r.ending, r.tcap, r.cdr, r.ctx, r.mapq, r.queries, r.answers >>
    BY <1>1 DEF PushRecord
  <2>2. "failure" \in SipEvents
    BY DEF SipEvents
  <2>3. r.owner = "sip" /\ (Becomes(d, s) \/ Becomes(d, t))
    BY <1>2, <1>10 DEF SipAppRefuses, Update
  <2> HIDE DEF s, t
  <2> QED
    BY <1>9, <2>1, <2>2, <2>3
<1>11. CASE SipAppAcceptsBye(d)
  <2> DEFINE s == [r EXCEPT !.conn = "over"]
  <2>1. /\ s.conn = "over" /\ s.appq = r.appq
        /\ << s.owner, s.map, s.ending, s.tcap, s.cdr, s.ctx, s.mapq, s.queries, s.answers >>
           = << r.owner, r.map, r.ending, r.tcap, r.cdr, r.ctx, r.mapq, r.queries, r.answers >>
    BY <1>1 DEF PushRecord
  <2>2. r.owner = "sip" /\ Becomes(d, s)
    BY <1>2, <1>11 DEF SipAppAcceptsBye, Update
  <2> HIDE DEF s
  <2> QED
    BY <1>9, <2>1, <2>2
<1>12. CASE SipDialogExpires(d)
  <2> DEFINE s == [r EXCEPT !.conn = "over", !.appq = Append(@, "dialogTimeout")]
  <2>1. /\ s.conn = "over" /\ s.appq = Append(r.appq, "dialogTimeout")
        /\ << s.owner, s.map, s.ending, s.tcap, s.cdr, s.ctx, s.mapq, s.queries, s.answers >>
           = << r.owner, r.map, r.ending, r.tcap, r.cdr, r.ctx, r.mapq, r.queries, r.answers >>
    BY <1>1 DEF PushRecord
  <2>2. r.owner = "sip" /\ Becomes(d, s) /\ "dialogTimeout" \in SipEvents
    BY <1>2, <1>12 DEF SipDialogExpires, Update, SipEvents
  <2> HIDE DEF s
  <2> QED
    BY <1>9, <2>1, <2>2
<1> QED
  BY <1>4, <1>5, <1>7, <1>8, <1>10, <1>11, <1>12 DEF Application, SuspendExpires

-----------------------------------------------------------------------------
(***************************************************************************)
(* Theorems.                                                               *)
(***************************************************************************)
AllSound == \A d \in Dialogs : Sound(dlg[d])

\* The record before the first message.
LEMMA NoPushSound == Sound(NoPush)
<1>1. /\ NoPush.owner = "none" /\ NoPush.cdr = "none" /\ NoPush.queries = 0
      /\ NoPush.answers = 0 /\ NoPush.conn = "none" /\ NoPush.tcap = "Begin"
      /\ NoPush.appq = << >> /\ NoPush.info = FALSE /\ NoPush.ending = "open"
      /\ NoPush.map = "none" /\ NoPush.mapq = << >>
  BY DEF NoPush
<1> QED
  BY <1>1 DEF Sound, BillSound, HttpRight, AbortsSound, NoAborts, MapSound, SideSound,
              EarlySound

\* The invariant from which the others follow: the CDR, the connection and the queues
\* of every dialog agree with how far it has come, as long as no suspended POST is
\* given up.
THEOREM Soundness == RegisterCloses /\ ~ SuspendTimeouts => (Spec => []AllSound)
<1> SUFFICES ASSUME RegisterCloses, ~ SuspendTimeouts PROVE Spec => []AllSound
  OBVIOUS
<1>1. Init => AllSound
  BY NoPushSound DEF Init, AllSound
<1>2. TypeOK /\ AllConsistent /\ AllSound /\ [Next]_vars => AllSound'
  <2> SUFFICES ASSUME TypeOK, AllConsistent, AllSound, [Next]_vars PROVE AllSound'
    OBVIOUS
  <2>1. CASE UNCHANGED vars
    BY <2>1 DEF vars, AllSound
  <2>2. CASE Next
    <3>1. PICK d \in Dialogs : \/ Register(d) \/ HandleSri(d) \/ Mobile(d)
                               \/ HandleMap(d) \/ Application(d) \/ HandleApp(d)
      BY <2>2 DEF Next
    <3>2. Sound(dlg[d]) /\ Consistent(dlg[d])
      BY DEF AllSound, AllConsistent
    <3>3. BecomesSound(d)
      BY <3>1, <3>2, RegisterSound, SriSound, MobileSound, MapHandlersSound,
         ApplicationSound, AppHandlersSound
    <3>4. PICK s : Becomes(d, s) /\ Sound(s)
      BY <3>3 DEF BecomesSound
    <3> QED
      BY <3>4, Frame DEF AllSound
  <2> QED
    BY <2>1, <2>2
<1> QED
  BY <1>1, <1>2, Consistency, PTL DEF Spec

\* A dialog that is billed is over, with the exceptions that BilledOver names, for
\* any dialogs and messages.
THEOREM BilledDialogsOver == RegisterCloses /\ ~ SuspendTimeouts => (Spec => []BilledOver)
<1> SUFFICES ASSUME RegisterCloses, ~ SuspendTimeouts PROVE Spec => []BilledOver
  OBVIOUS
<1>1. AllSound => BilledOver
  <2> SUFFICES ASSUME AllSound, NEW d \in Dialogs, dlg[d].cdr # "none", Live(dlg[d])
               PROVE  \/ dlg[d].cdr = "FAILED_APP_TIMEOUT"
                      \/ dlg[d].owner = "sip" /\ dlg[d].cdr \in
                           {"SUCCESS", "FAILED_CORRUPTED_MESSAGE", "FAILED_TRANSPORT_ERROR",
                            "FAILED_TRANSPORT_FAILURE", "FAILED_MAP_ERROR_COMPONENT"}
    BY DEF BilledOver
  <2>1. Sound(dlg[d]) /\ dlg[d].map # "none"
    BY DEF AllSound, Live
  <2> QED
    BY <2>1 DEF Sound, BillSound, HttpRight, SipRight, EarlyStatuses
<1> QED
  BY <1>1, Soundness, PTL

\* The CDR of an HTTP dialog says how the dialog ended.
THEOREM HttpCdrs == RegisterCloses /\ ~ SuspendTimeouts => (Spec => []HttpCdrAgrees)
<1> SUFFICES ASSUME RegisterCloses, ~ SuspendTimeouts PROVE Spec => []HttpCdrAgrees
  OBVIOUS
<1>1. AllSound => HttpCdrAgrees
  BY DEF AllSound, Sound, BillSound, HttpRight, HttpCdrAgrees
<1> QED
  BY <1>1, Soundness, PTL

\* The session of an HTTP application is not ended before its dialog with the mobile.
THEOREM SessionEnded == RegisterCloses /\ ~ SuspendTimeouts => (Spec => []SessionEndedDialogOver)
<1> SUFFICES ASSUME RegisterCloses, ~ SuspendTimeouts PROVE Spec => []SessionEndedDialogOver
  OBVIOUS
<1>1. AllSound => SessionEndedDialogOver
  BY DEF AllSound, Sound, SideSound, SessionEndedDialogOver
<1> QED
  BY <1>1, Soundness, PTL
=============================================================================
