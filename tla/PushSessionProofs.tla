------------------------- MODULE PushSessionProofs -------------------------
(***************************************************************************)
(* The session of a PUSH dialog.  Whoever holds a suspended POST or a SIP  *)
(* dialog hears of the end of the dialog with the mobile, an answer of the *)
(* mobile finds the POST it belongs to, and the timer runs only while the  *)
(* application thinks, for any dialogs, messages and failures, if the      *)
(* register leaves open only what it answered and no suspended POST times  *)
(* out.  SIP dialogs need the first of the two only, and that the session  *)
(* of a failed HTTP dialog is ended needs neither.                         *)
(***************************************************************************)
EXTENDS PushBillingProofs

\* An event of es stands in q; at most one does.
Queued(q, es) == \E i \in 1 .. Len(q) : q[i] \in es

AtMostOne(q, es) ==
  \A i, j \in 1 .. Len(q) : q[i] \in es /\ q[j] \in es => i = j

\* Before there is a dialog with the mobile, nothing of it is there.
BlankSound(r) ==
  /\ r.map = "none" => r.mapq = << >> /\ r.invokes = {} /\ r.timers = {} /\ ~r.final
  /\ r.owner # "http" => r.ctx = "none"

\* The session of an HTTP application is open or over, and over if its dialog has
\* failed (FailedSessionEnded).
FailedSound(r) ==
  r.owner = "http" =>
    /\ r.queries > 0 => r.conn \in {"open", "over"}
    /\ ~WarningEnabled /\ r.cdr \notin {"none", "FAILED_APP_TIMEOUT"} => r.conn = "over"

\* Bills of dialogs that nobody was to see.
UnsentStatuses == SriStatuses \cup {"FAILED_SYSTEM_FAILURE"}

\* The mobile accepts once, and what was billed as unsent is over by then.
AcceptSound(r) ==
  /\ AtMostOne(r.mapq, {"Accept"})
  /\ r.map \in {"none", "initialSent"} => ~Queued(r.mapq, {"Accept"})
  /\ r.map \in {"none", "initialSent"} \/ Queued(r.mapq, {"Accept"}) => ~r.established
  /\ r.cdr \in UnsentStatuses =>
       ~r.established /\ ~Live(r) /\ ~Queued(r.mapq, {"Accept"})

\* Release is the last event of the dialog.
ReleaseLast(r) ==
  \A i \in 1 .. Len(r.mapq) : r.mapq[i] = "Release" => i = Len(r.mapq)

\* A bill that leaves the SIP dialog to the application.
BilledTold(r) ==
  r.owner = "sip" /\ r.cdr # "none" /\ r.conn = "confirmed" =>
    r.cdr \in {"FAILED_TRANSPORT_ERROR", "FAILED_TRANSPORT_FAILURE"}

\* The armed timer is the one that is stored, and it never runs while a POST is
\* suspended, the mobile is asked, or its answer is on the way.
TimerSound(r) ==
  r.owner = "http" =>
    /\ r.timers \subseteq {r.timerID}
    /\ AtMostOne(r.mapq, {"UnstructuredSSResponse"})
    /\ Queued(r.mapq, {"UnstructuredSSResponse"}) =>
         r.timers = {} /\ "request" \notin r.invokes
    /\ "request" \in r.invokes => r.timers = {}
    /\ r.ctx # "none" => r.timers = {}

\* What the application has asked and the mobile has not answered, and the answers
\* under way; the error message of the gateway is not the application's.
Asked(r) == r.invokes \ IF r.final THEN {"notify"} ELSE {}

Replied(r) == AnswerEvents \ IF r.final THEN {"NotifyResponse"} ELSE {}

\* What does not happen before the first question is sent.
Held == AnswerEvents \cup {"Timer"}

\* The dialog goes on, or it has ended without a failure that was noticed.
Going(r) == Live(r) \/ r.cdr = "none"

\* There is at most one question, and its POST is suspended until the answer is
\* handled; a handshake holds back the first one.
AnswerSound(r) ==
  r.owner = "http" =>
    /\ r.cdr = "none" => ~r.final
    /\ r.map = "initialSent" => ~Queued(r.mapq, AnswerEvents)
    /\ Going(r) =>
         /\ AtMostOne(r.mapq, Replied(r))
         /\ \A a, b \in Asked(r) : a = b
         /\ Queued(r.mapq, Replied(r)) => Asked(r) = {}
         /\ Queued(r.mapq, Replied(r)) \/ Asked(r) # {} => r.ctx # "none"
    /\ Live(r) /\ r.handshake /\ (r.map = "initialSent" \/ Queued(r.mapq, {"Accept"})) =>
         r.ctx # "none" /\ r.invokes = {} /\ ~Queued(r.mapq, Held) /\ ~r.final

\* Events that tell the gateway of an end that it has not heard of yet.
EndEvents == AbortEvents \cup {"DialogTimeout"}

\* The application waits for the dialog.
Waits(r) ==
  IF r.owner = "sip" THEN r.cdr = "none" /\ r.conn = "confirmed" ELSE r.ctx # "none"

\* The application hears of the end of a dialog, or the mobile has ended it.
HeardSound(r) ==
  r.answers > 0 /\ ~Live(r) /\ Waits(r) =>
    r.ending \in {"peerEnd", "final"} \/ Queued(r.mapq, EndEvents)

\* What a handler finds when its event has left the queue, and the whole.
Ready(r) ==
  /\ BlankSound(r) /\ FailedSound(r) /\ AcceptSound(r) /\ ReleaseLast(r)
  /\ BilledTold(r) /\ TimerSound(r) /\ AnswerSound(r)

SessionSound(r) == Ready(r) /\ HeardSound(r)

-----------------------------------------------------------------------------
(***************************************************************************)
(* Queues.                                                                 *)
(***************************************************************************)
\* An event joins a queue.
LEMMA QueuedAppend ==
  ASSUME NEW q \in Seq(MapEvents), NEW e \in MapEvents, NEW es
  PROVE  /\ Queued(Append(q, e), es) <=> Queued(q, es) \/ e \in es
         /\ AtMostOne(q, es) /\ (e \notin es \/ ~Queued(q, es)) => AtMostOne(Append(q, e), es)
<1> DEFINE t == Append(q, e)
<1>1. /\ Len(q) \in Nat /\ Len(t) = Len(q) + 1 /\ t[Len(q) + 1] = e
      /\ \A i \in 1 .. Len(q) : t[i] = q[i]
  OBVIOUS
<1> HIDE DEF t
<1>2. 1 .. Len(t) = (1 .. Len(q)) \cup {Len(q) + 1}
  BY <1>1
<1>3. Queued(t, es) <=> Queued(q, es) \/ e \in es
  BY <1>1, <1>2 DEF Queued
<1>4. AtMostOne(q, es) /\ (e \notin es \/ ~Queued(q, es)) => AtMostOne(t, es)
  BY <1>1, <1>2 DEF AtMostOne, Queued
<1> QED
  BY <1>3, <1>4 DEF t

\* The head of a queue leaves it.
LEMMA QueuedTail ==
  ASSUME NEW q \in Seq(MapEvents), q # << >>, NEW es
  PROVE  /\ Queued(q, es) <=> Head(q) \in es \/ Queued(Tail(q), es)
         /\ AtMostOne(q, es) =>
              AtMostOne(Tail(q), es) /\ (Head(q) \in es => ~Queued(Tail(q), es))
<1> DEFINE t == Tail(q)
<1>1. /\ Len(q) \in Nat /\ Len(q) > 0 /\ Head(q) = q[1] /\ Len(t) = Len(q) - 1
      /\ \A i \in 1 .. Len(t) : t[i] = q[i + 1]
  OBVIOUS
<1>2. \A i \in 1 .. Len(q) : i = 1 \/ (i - 1 \in 1 .. Len(t) /\ q[i] = t[i - 1])
  BY <1>1
<1>3. \A i \in 1 .. Len(t) : i + 1 \in 1 .. Len(q) /\ i + 1 # 1 /\ q[i + 1] = t[i]
  BY <1>1
<1> HIDE DEF t
<1>4. 1 \in 1 .. Len(q)
  BY <1>1
<1>5. Queued(q, es) => Head(q) \in es \/ Queued(t, es)
  BY <1>1, <1>2 DEF Queued
<1>6. Head(q) \in es \/ Queued(t, es) => Queued(q, es)
  BY <1>1, <1>3, <1>4 DEF Queued
<1>7. ASSUME AtMostOne(q, es)
      PROVE  AtMostOne(t, es) /\ (Head(q) \in es => ~Queued(t, es))
  <2>1. AtMostOne(t, es)
    <3> SUFFICES ASSUME NEW i \in 1 .. Len(t), NEW j \in 1 .. Len(t),
                        t[i] \in es, t[j] \in es
                 PROVE  i = j
      BY DEF AtMostOne
    <3>1. i + 1 = j + 1
      BY <1>3, <1>7 DEF AtMostOne
    <3> QED
      BY <3>1
  <2>2. Head(q) \in es => ~Queued(t, es)
    BY <1>1, <1>3, <1>4, <1>7 DEF AtMostOne, Queued
  <2> QED
    BY <2>1, <2>2
<1> QED
  BY <1>5, <1>6, <1>7 DEF t

\* Nothing stands in an empty queue.
LEMMA QueuedNothing ==
  ASSUME NEW es
  PROVE  ~Queued(<< >>, es) /\ AtMostOne(<< >>, es)
BY DEF Queued, AtMostOne

\* A larger set of events.
LEMMA QueuedMonotone ==
  ASSUME NEW q, NEW es, NEW fs, es \subseteq fs
  PROVE  /\ Queued(q, es) => Queued(q, fs)
         /\ AtMostOne(q, fs) => AtMostOne(q, es)
BY DEF Queued, AtMostOne

-----------------------------------------------------------------------------
(***************************************************************************)
(* Services, as far as the invariant sees them.                            *)
(***************************************************************************)
\* A handler that goes on with the dialog, or ends it.
Calm(r, s) ==
  /\ Evolves(r, s) /\ s.map \in {r.map, "expunged"}
  /\ s.established = r.established /\ s.handshake = r.handshake

\* One that asks nothing and arms nothing.
Tame(r, s) ==
  /\ Calm(r, s) /\ s.final = r.final /\ s.timerID = r.timerID
  /\ s.timers \subseteq r.timers /\ s.invokes \subseteq r.invokes

\* Nothing done, and one service after the other.
LEMMA TameRefl ==
  ASSUME NEW r \in PushRecord
  PROVE  Tame(r, r)
BY EvolvesRefl DEF Tame, Calm

\* Transitivity.
LEMMA TameTrans ==
  ASSUME NEW r, NEW s, NEW t
  PROVE  /\ Calm(r, s) /\ Calm(s, t) => Calm(r, t)
         /\ Tame(r, s) /\ Tame(s, t) => Tame(r, t)
<1>1. ASSUME Calm(r, s), Calm(s, t)
      PROVE  Calm(r, t)
  <2>1. Evolves(r, t)
    BY <1>1, EvolvesTrans DEF Calm
  <2> QED
    BY <1>1, <2>1 DEF Calm
<1> QED
  BY <1>1 DEF Tame

\* The end of a dialog that runs.
LEMMA ExpungeTame ==
  ASSUME NEW r \in PushRecord, NEW how \in Endings, r.map \in Running
  PROVE  LET s == Expunge(r, how)
         IN  /\ Tame(r, s) /\ ~Live(s) /\ s.map = "expunged" /\ s.ending = how
             /\ s.mapq = Append(r.mapq, "Release") /\ s.invokes = {}
             /\ s.ctx = r.ctx /\ s.conn = r.conn /\ s.cdr = r.cdr
<1> DEFINE s == Expunge(r, how)
<1>1. Evolves(r, s)
  BY ExpungeEvolves
<1>2. /\ s.map = "expunged" /\ s.ending = how /\ s.mapq = Append(r.mapq, "Release")
      /\ s.invokes = {} /\ s.ctx = r.ctx /\ s.conn = r.conn /\ s.cdr = r.cdr
      /\ s.established = r.established /\ s.handshake = r.handshake /\ s.final = r.final
      /\ s.timerID = r.timerID /\ s.timers = r.timers
  BY DEF Expunge, Fire, PushRecord
<1> HIDE DEF s
<1>3. Tame(r, s) /\ ~Live(s)
  BY <1>1, <1>2 DEF Tame, Calm, Live
<1> QED
  BY <1>2, <1>3 DEF s

\* abort(), release() and abortMapDialog.
LEMMA StopTame ==
  ASSUME NEW r \in PushRecord,
         NEW s \in {MapAbort(r), MapRelease(r), AbortMapDialog(r)}
  PROVE  Tame(r, s) /\ ~Live(s) /\ s.ctx = r.ctx /\ s.conn = r.conn /\ s.cdr = r.cdr
<1>1. "abort" \in Endings /\ "release" \in Endings
  BY DEF Endings
<1>2. Tame(r, r)
  BY TameRefl
<1>3. \/ s = r /\ ~Live(r)
      \/ r.map \in Running /\ s \in {Expunge(r, "abort"), Expunge(r, "release")}
  BY DEF MapAbort, MapRelease, AbortMapDialog, Live, Running
<1> QED
  BY <1>1, <1>2, <1>3, ExpungeTame

\* Services of the CMP fields and the timer.
LEMMA FieldsTame ==
  ASSUME NEW r \in PushRecord,
         NEW s \in {CancelTimer(r), SuspendPost(r), UpdateDialogFailureStat(r),
                    ResumeHttpEventContext(r), EndHttpSessionActivity(r)}
  PROVE  /\ Tame(r, s) /\ s.map = r.map /\ s.cdr = r.cdr
         /\ s.conn = r.conn \/ s = EndHttpSessionActivity(r)
<1>1. Evolves(r, s)
  BY CancelTimerEvolves, SuspendEvolves, FailureStatEvolves, ResumeEvolves,
     EndSessionEvolves
<1>2. /\ s.map = r.map /\ s.cdr = r.cdr
      /\ s.conn = r.conn \/ s = EndHttpSessionActivity(r)
      /\ s.established = r.established /\ s.handshake = r.handshake /\ s.final = r.final
      /\ s.timerID = r.timerID /\ s.timers \subseteq r.timers /\ s.invokes = r.invokes
  <2>1. CASE s = CancelTimer(r)
    BY <2>1 DEF CancelTimer, PushRecord
  <2>2. CASE s = SuspendPost(r)
    BY <2>2 DEF SuspendPost, PushRecord
  <2>3. CASE s = UpdateDialogFailureStat(r)
    BY <2>3 DEF UpdateDialogFailureStat, PushRecord
  <2>4. CASE s = ResumeHttpEventContext(r)
    BY <2>4 DEF ResumeHttpEventContext, PushRecord
  <2>5. CASE s = EndHttpSessionActivity(r)
    BY <2>5 DEF EndHttpSessionActivity, PushRecord
  <2> QED
    BY <2>1, <2>2, <2>3, <2>4, <2>5
<1>3. Tame(r, s)
  BY <1>1, <1>2 DEF Tame, Calm
<1> QED
  BY <1>2, <1>3

\* The end of the session.
LEMMA SessionTame ==
  ASSUME NEW r \in PushRecord, NEW s \in {Conclude(r), AbortHttpDialog(r)}
  PROVE  /\ Tame(r, s) /\ s.map = r.map /\ s.cdr = r.cdr /\ s.ctx = "none"
         /\ s.conn \in {r.conn, "over"}
         /\ ~WarningEnabled /\ r.conn = "open" => s.conn = "over"
<1> DEFINE a == ResumeHttpEventContext(r)
           c == EndHttpSessionActivity(a)
<1>1. Tame(r, a) /\ a.map = r.map /\ a.cdr = r.cdr /\ a.ctx = "none" /\ a.conn = r.conn
  <2>1. Tame(r, a) /\ a.map = r.map /\ a.cdr = r.cdr
    BY FieldsTame
  <2>2. a.ctx = "none" /\ a.conn = r.conn
    BY DEF ResumeHttpEventContext, PushRecord
  <2> QED
    BY <2>1, <2>2
<1>2. a \in PushRecord
  BY <1>1 DEF Tame, Calm, Evolves
<1> HIDE DEF a
<1>3. Tame(a, c) /\ c.map = a.map /\ c.cdr = a.cdr
  BY <1>2, FieldsTame
<1>4. c.ctx = a.ctx /\ c.conn = IF a.conn = "open" THEN "over" ELSE a.conn
  BY <1>2 DEF EndHttpSessionActivity, PushRecord
<1> HIDE DEF c
<1>5. Tame(r, c)
  BY <1>1, <1>3, TameTrans
<1>6. /\ Tame(r, c) /\ c.map = r.map /\ c.cdr = r.cdr /\ c.ctx = "none"
      /\ c.conn \in {r.conn, "over"} /\ (r.conn = "open" => c.conn = "over")
  BY <1>1, <1>3, <1>4, <1>5
<1>7. s = c \/ (s = r /\ r.ctx = "none" /\ WarningEnabled)
  BY DEF Conclude, AbortHttpDialog, a, c
<1> QED
  BY <1>6, <1>7, TameRefl

\* The end of the SIP dialog.
LEMMA ByeTame ==
  ASSUME NEW r \in PushRecord, NEW s \in {AbortSipDialog(r), DeleteSipDialog(r)}
  PROVE  Tame(r, s) /\ s.map = r.map /\ s.cdr = r.cdr /\ s.ctx = r.ctx
         /\ s.conn # "confirmed"
<1>1. Evolves(r, s)
  BY AbortSipDialogEvolves, DeleteSipDialogEvolves
<1>2. /\ s.map = r.map /\ s.cdr = r.cdr /\ s.ctx = r.ctx /\ s.conn # "confirmed"
      /\ s.established = r.established /\ s.handshake = r.handshake /\ s.final = r.final
      /\ s.timerID = r.timerID /\ s.timers = r.timers /\ s.invokes = r.invokes
  BY DEF AbortSipDialog, DeleteSipDialog, PushRecord
<1> QED
  BY <1>1, <1>2 DEF Tame, Calm

\* createRecord, alone or with the failure counted.
LEMMA BillTame ==
  ASSUME NEW r \in PushRecord, NEW status \in CdrStatuses,
         NEW s \in {CreateCdr(r, status), Fail(r, status)}
  PROVE  Tame(r, s) /\ s.map = r.map /\ s.ctx = r.ctx /\ s.conn = r.conn
         /\ s.cdr = IF r.cdr = "none" THEN status ELSE r.cdr
<1>1. Evolves(r, s)
  BY CreateCdrEvolves, FailEvolves
<1>2. /\ s.map = r.map /\ s.ctx = r.ctx /\ s.conn = r.conn
      /\ s.cdr = IF r.cdr = "none" THEN status ELSE r.cdr
      /\ s.established = r.established /\ s.handshake = r.handshake /\ s.final = r.final
      /\ s.timerID = r.timerID /\ s.timers = r.timers /\ s.invokes = r.invokes
  BY DEF CreateCdr, Fail, UpdateDialogFailureStat, PushRecord
<1> QED
  BY <1>1, <1>2 DEF Tame, Calm

\* What a tame service leaves of the type and the queue.
LEMMA TameFacts ==
  ASSUME NEW r \in PushRecord, NEW s, Calm(r, s)
  PROVE  /\ s \in PushRecord /\ s.owner = r.owner /\ s.queries = r.queries
         /\ s.answers = r.answers
         /\ s.map = r.map => s.mapq = r.mapq /\ s.ending = r.ending
         /\ s.map # r.map =>
              r.map \in Running /\ s.map = "expunged" /\ s.mapq = Append(r.mapq, "Release")
BY DEF Calm, Evolves, Kept, MapEvolves, Running

-----------------------------------------------------------------------------
(***************************************************************************)
(* Handlers that give the dialog up.                                       *)
(***************************************************************************)
\* An HTTP dialog is over, billed, and its POST answered.
Quits(r, s, status) ==
  /\ Tame(r, s) /\ ~Live(s) /\ s.ctx = "none"
  /\ s.cdr = IF r.cdr = "none" THEN status ELSE r.cdr
  /\ s.conn \in {r.conn, "over"}
  /\ ~WarningEnabled /\ r.conn = "open" => s.conn = "over"

\* The bill at the end of the handler.
LEMMA BillQuits ==
  ASSUME NEW r \in PushRecord, NEW a, Tame(r, a), ~Live(a), a.ctx = "none",
         a.cdr = r.cdr, a.conn \in {r.conn, "over"},
         ~WarningEnabled /\ r.conn = "open" => a.conn = "over",
         NEW status \in CdrStatuses,
         NEW s \in {CreateCdr(a, status), Fail(a, status)}
  PROVE  Quits(r, s, status)
<1>1. a \in PushRecord
  BY TameFacts DEF Tame
<1>2. /\ Tame(a, s) /\ s.map = a.map /\ s.ctx = a.ctx /\ s.conn = a.conn
      /\ s.cdr = IF a.cdr = "none" THEN status ELSE a.cdr
  BY <1>1, BillTame
<1>3. Tame(r, s)
  BY <1>2, TameTrans
<1> QED
  BY <1>2, <1>3 DEF Quits, Live

\* The session ends behind the dialog, or before it.
LEMMA EndQuits ==
  ASSUME NEW r \in PushRecord, NEW a, Tame(r, a), ~Live(a), a.ctx = r.ctx,
         a.cdr = r.cdr, a.conn = r.conn, NEW status \in CdrStatuses
  PROVE  /\ Quits(r, Fail(AbortHttpDialog(a), status), status)
         /\ Quits(r, CreateCdr(Conclude(a), status), status)
<1>1. a \in PushRecord
  BY TameFacts DEF Tame
<1>2. ASSUME NEW b \in {Conclude(a), AbortHttpDialog(a)}
      PROVE  /\ Tame(r, b) /\ ~Live(b) /\ b.ctx = "none" /\ b.cdr = r.cdr
             /\ b.conn \in {r.conn, "over"}
             /\ ~WarningEnabled /\ r.conn = "open" => b.conn = "over"
  <2>1. /\ Tame(a, b) /\ b.map = a.map /\ b.cdr = a.cdr /\ b.ctx = "none"
        /\ b.conn \in {a.conn, "over"}
        /\ ~WarningEnabled /\ a.conn = "open" => b.conn = "over"
    BY <1>1, <1>2, SessionTame
  <2>2. Tame(r, b)
    BY <2>1, TameTrans
  <2> QED
    BY <2>1, <2>2 DEF Live
<1> QED
  BY <1>2, BillQuits

\* The failures of the MAP side.
LEMMA FailuresQuit ==
  ASSUME NEW r \in PushRecord, NEW status \in CdrStatuses
  PROVE  /\ Quits(r, HttpOnComponentFailure(r, status), status)
         /\ Quits(r, HttpOnDialogTimeout(r), "FAILED_DIALOG_TIMEOUT")
         /\ Quits(r, PushFailed(r), "FAILED_SYSTEM_FAILURE")
         /\ ~Live(r) => Quits(r, HttpOnAbortIndication(r, status), status)
         /\ ~Live(r) => Quits(r, HttpOnSriError(r, status), status)
<1>1. "FAILED_DIALOG_TIMEOUT" \in CdrStatuses /\ "FAILED_SYSTEM_FAILURE" \in CdrStatuses
  BY DEF CdrStatuses
<1>2. ASSUME NEW a \in {MapAbort(r), MapRelease(r), AbortMapDialog(r)}
      PROVE  Tame(r, a) /\ ~Live(a) /\ a.ctx = r.ctx /\ a.cdr = r.cdr /\ a.conn = r.conn
  BY <1>2, StopTame
<1>3. Quits(r, HttpOnComponentFailure(r, status), status)
  BY <1>2, EndQuits DEF HttpOnComponentFailure
<1>4. Quits(r, HttpOnDialogTimeout(r), "FAILED_DIALOG_TIMEOUT")
  BY <1>1, <1>2, EndQuits DEF HttpOnDialogTimeout
<1>5. Quits(r, PushFailed(r), "FAILED_SYSTEM_FAILURE")
  BY <1>1, <1>2, EndQuits DEF PushFailed
<1>6. ~Live(r) => /\ Quits(r, HttpOnAbortIndication(r, status), status)
                  /\ Quits(r, HttpOnSriError(r, status), status)
  BY TameRefl, EndQuits DEF HttpOnAbortIndication, HttpOnSriError
<1> QED
  BY <1>3, <1>4, <1>5, <1>6

\* The failures of a POST, its abort and its end.
LEMMA PostQuits ==
  ASSUME NEW r \in PushRecord
  PROVE  /\ Quits(r, OnFailedPost(r), "FAILED_CORRUPTED_MESSAGE")
         /\ r.aci => Quits(r, OnAbortPost(r), "ABORT_APP")
         /\ ~r.aci => Quits(r, OnAbortPost(r), "FAILED_CORRUPTED_MESSAGE")
         /\ CloseOk(r) => Quits(r, OnFinalPost(r), "SUCCESS")
         /\ ~CloseOk(r) => Quits(r, OnFinalPost(r), "FAILED_CORRUPTED_MESSAGE")
<1>1. /\ "FAILED_CORRUPTED_MESSAGE" \in CdrStatuses /\ "ABORT_APP" \in CdrStatuses
      /\ "SUCCESS" \in CdrStatuses /\ "answer" \in Endings
  BY DEF CdrStatuses, Endings
<1> DEFINE a == AbortHttpDialog(r)
           b == MapAbort(a)
<1>2. /\ Tame(r, a) /\ a.cdr = r.cdr /\ a.ctx = "none" /\ a.conn \in {r.conn, "over"}
      /\ ~WarningEnabled /\ r.conn = "open" => a.conn = "over"
  BY SessionTame
<1> HIDE DEF a
<1>3. Tame(a, b) /\ ~Live(b) /\ b.ctx = a.ctx /\ b.conn = a.conn /\ b.cdr = a.cdr
  BY <1>2, StopTame, TameFacts DEF Tame
<1> HIDE DEF b
<1>4. Tame(r, b)
  BY <1>2, <1>3, TameTrans
<1>5. Quits(r, OnFailedPost(r), "FAILED_CORRUPTED_MESSAGE")
  <2>1. Quits(r, Fail(b, "FAILED_CORRUPTED_MESSAGE"), "FAILED_CORRUPTED_MESSAGE")
    BY <1>1, <1>2, <1>3, <1>4, BillQuits
  <2> QED
    BY <2>1 DEF OnFailedPost, a, b
<1>6. r.aci => Quits(r, OnAbortPost(r), "ABORT_APP")
  BY <1>1, StopTame, EndQuits DEF OnAbortPost
<1>7. CloseOk(r) => Quits(r, OnFinalPost(r), "SUCCESS")
  BY <1>1, ExpungeTame, EndQuits DEF OnFinalPost, CloseOk, Running
<1> QED
  BY <1>5, <1>6, <1>7 DEF OnAbortPost, OnFinalPost

\* The queue behind a calm service.
LEMMA CalmQueue ==
  ASSUME NEW r \in PushRecord, Ready(r), r.map # "expunged" => NoRelease(r.mapq),
         NEW s, Calm(r, s)
  PROVE  /\ ReleaseLast(s)
         /\ \A es : "Release" \notin es =>
              /\ Queued(s.mapq, es) <=> Queued(r.mapq, es)
              /\ AtMostOne(r.mapq, es) => AtMostOne(s.mapq, es)
<1>1. /\ s.map = r.map => s.mapq = r.mapq
      /\ s.map # r.map =>
           r.map \in Running /\ s.map = "expunged" /\ s.mapq = Append(r.mapq, "Release")
  BY TameFacts
<1>2. r.mapq \in Seq(MapEvents) /\ "Release" \in MapEvents
  BY DEF PushRecord, MapEvents
<1>3. ASSUME NEW es, "Release" \notin es
      PROVE  /\ Queued(s.mapq, es) <=> Queued(r.mapq, es)
             /\ AtMostOne(r.mapq, es) => AtMostOne(s.mapq, es)
  <2>1. /\ Queued(Append(r.mapq, "Release"), es) <=> Queued(r.mapq, es)
        /\ AtMostOne(r.mapq, es) => AtMostOne(Append(r.mapq, "Release"), es)
    BY <1>2, <1>3, QueuedAppend
  <2> QED
    BY <1>1, <2>1
<1>4. ReleaseLast(s)
  <2>1. CASE s.map = r.map
    BY <1>1, <2>1 DEF Ready, ReleaseLast
  <2>2. CASE s.map # r.map
    BY <1>1, <1>2, <2>2 DEF ReleaseLast, NoRelease, Running
  <2> QED
    BY <2>1, <2>2
<1> QED
  BY <1>3, <1>4

\* A calm service leaves the acceptance of the dialog alone.
LEMMA CalmAccept ==
  ASSUME NEW r \in PushRecord, Ready(r), r.map # "expunged" => NoRelease(r.mapq),
         NEW s, Calm(r, s),
         \/ s.cdr = r.cdr
         \/ s.cdr \notin UnsentStatuses
         \/ ~r.established /\ ~Queued(r.mapq, {"Accept"}) /\ ~Live(s)
  PROVE  AcceptSound(s)
<1>1. /\ Queued(s.mapq, {"Accept"}) <=> Queued(r.mapq, {"Accept"})
      /\ AtMostOne(r.mapq, {"Accept"}) => AtMostOne(s.mapq, {"Accept"})
  BY CalmQueue
<1>2. s.map \in {r.map, "expunged"} /\ s.established = r.established
  BY DEF Calm
<1>3. AcceptSound(r)
  BY DEF Ready
<1> QED
  BY <1>1, <1>2, <1>3 DEF AcceptSound, Live

\* A dialog that is given up is sound.
LEMMA QuitsSession ==
  ASSUME NEW r \in PushRecord, Ready(r), r.owner = "http", r.conn \in {"open", "over"},
         r.map # "expunged" => NoRelease(r.mapq),
         NEW s, NEW status \in CdrStatuses, Quits(r, s, status),
         status \in UnsentStatuses => ~r.established /\ ~Queued(r.mapq, {"Accept"})
  PROVE  SessionSound(s)
<1>1. /\ s \in PushRecord /\ s.owner = "http" /\ s.queries = r.queries
      /\ s.map = r.map => s.mapq = r.mapq
      /\ s.map # r.map =>
           r.map \in Running /\ s.map = "expunged" /\ s.mapq = Append(r.mapq, "Release")
  BY TameFacts DEF Quits, Tame
<1>2. /\ s.ctx = "none" /\ ~Live(s) /\ s.established = r.established
      /\ s.final = r.final /\ s.timerID = r.timerID /\ s.timers \subseteq r.timers
      /\ s.invokes \subseteq r.invokes /\ s.conn \in {"open", "over"}
      /\ ~WarningEnabled => s.conn = "over"
      /\ s.cdr = IF r.cdr = "none" THEN status ELSE r.cdr
  BY DEF Quits, Tame, Calm
<1>3. s.cdr # "none"
  BY <1>2 DEF CdrStatuses, SriStatuses
<1>4. Calm(r, s)
  BY DEF Quits, Tame
<1>5. /\ ReleaseLast(s)
      /\ \A es : "Release" \notin es =>
           /\ Queued(s.mapq, es) <=> Queued(r.mapq, es)
           /\ AtMostOne(r.mapq, es) => AtMostOne(s.mapq, es)
  BY <1>4, CalmQueue
<1>6. /\ Queued(s.mapq, {"UnstructuredSSResponse"})
           <=> Queued(r.mapq, {"UnstructuredSSResponse"})
      /\ AtMostOne(r.mapq, {"UnstructuredSSResponse"})
           => AtMostOne(s.mapq, {"UnstructuredSSResponse"})
  BY <1>5
<1>7. BlankSound(s)
  BY <1>1, <1>2 DEF Ready, BlankSound
<1>8. FailedSound(s)
  BY <1>2 DEF FailedSound
<1>9. AcceptSound(s)
  BY <1>2, <1>4, CalmAccept
<1>10. BilledTold(s)
  BY <1>1 DEF BilledTold
<1>11. TimerSound(s)
  BY <1>2, <1>6 DEF Ready, TimerSound
<1>12. AnswerSound(s)
  BY <1>2, <1>3 DEF AnswerSound, Going, Live
<1>13. HeardSound(s)
  BY <1>1, <1>2 DEF HeardSound, Waits
<1> QED
  BY <1>5, <1>7, <1>8, <1>9, <1>10, <1>11, <1>12, <1>13 DEF SessionSound, Ready

\* A SIP handler, whatever it does to the connection.
LEMMA SipSession ==
  ASSUME NEW r \in PushRecord, Ready(r), r.owner = "sip",
         r.map # "expunged" => NoRelease(r.mapq),
         NEW s, Calm(r, s), s.ctx = r.ctx,
         r.map = "none" => s.invokes = {} /\ s.timers = {} /\ ~s.final,
         \/ s.cdr = r.cdr
         \/ s.cdr \notin UnsentStatuses
         \/ ~r.established /\ ~Queued(r.mapq, {"Accept"}) /\ ~Live(s),
         \/ s.conn # "confirmed"
         \/ s.conn = r.conn /\ s.cdr = r.cdr
         \/ s.conn = r.conn /\ s.cdr \in {"FAILED_TRANSPORT_ERROR", "FAILED_TRANSPORT_FAILURE"},
         \/ s.conn # "confirmed"
         \/ s.cdr # "none"
         \/ Live(s)
         \/ s.ending \in {"peerEnd", "final"}
         \/ HeardSound(r) /\ s.map = r.map /\ s.cdr = r.cdr /\ s.conn = r.conn
  PROVE  SessionSound(s)
<1>1. /\ s \in PushRecord /\ s.owner = "sip" /\ s.answers = r.answers
      /\ s.map = r.map => s.mapq = r.mapq /\ s.ending = r.ending
      /\ s.map # r.map => s.map = "expunged"
  BY TameFacts
<1>2. AcceptSound(s) /\ ReleaseLast(s)
  BY CalmAccept, CalmQueue
<1>3. BlankSound(s)
  BY <1>1 DEF Ready, BlankSound
<1>4. BilledTold(s)
  BY <1>1 DEF Ready, BilledTold
<1>5. FailedSound(s) /\ TimerSound(s) /\ AnswerSound(s)
  BY <1>1 DEF FailedSound, TimerSound, AnswerSound
<1>6. HeardSound(s)
  BY <1>1 DEF HeardSound, Waits, Live
<1> QED
  BY <1>2, <1>3, <1>4, <1>5, <1>6 DEF SessionSound, Ready

-----------------------------------------------------------------------------
(***************************************************************************)
(* An event leaves its queue.                                              *)
(***************************************************************************)
\* All of the record that the invariant reads, but for the queue.
Outside(r) == << r.owner, r.handshake, r.queries, r.answers, r.map, r.ending, r.ctx, r.conn,
                 r.final, r.timerID, r.timers, r.invokes, r.cdr, r.established, r.aci >>

\* What the handler of an event finds.
LEMMA RestReady ==
  ASSUME NEW r \in PushRecord, r.mapq # << >>, SessionSound(r),
         r.map # "expunged" => NoRelease(r.mapq)
  PROVE  LET c == Rest(r)
             e == Head(r.mapq)
         IN  /\ c \in PushRecord /\ Outside(c) = Outside(r) /\ Ready(c) /\ c.map # "none"
             /\ c.map # "expunged" => NoRelease(c.mapq)
             /\ e \notin EndEvents => HeardSound(c)
             /\ e = "Accept" =>
                  /\ ~c.established /\ c.cdr \notin UnsentStatuses
                  /\ ~Queued(c.mapq, {"Accept"}) /\ c.map \notin {"none", "initialSent"}
                  /\ c.owner = "http" /\ Live(c) /\ c.handshake =>
                       c.ctx # "none" /\ c.invokes = {} /\ ~c.final /\ ~Queued(c.mapq, Held)
             /\ c.owner = "http" /\ e \in AnswerEvents => c.map # "initialSent"
             /\ c.owner = "http" /\ e \in Held =>
                  ~(Live(c) /\ c.handshake
                      /\ (c.map = "initialSent" \/ Queued(c.mapq, {"Accept"})))
             /\ c.owner = "http" /\ Going(c) /\ e \in Replied(c) =>
                  Asked(c) = {} /\ ~Queued(c.mapq, Replied(c))
             /\ c.owner = "http" /\ e = "UnstructuredSSResponse" =>
                  /\ c.timers = {} /\ "request" \notin c.invokes
                  /\ ~Queued(c.mapq, {"UnstructuredSSResponse"})
             /\ e = "Release" => c.mapq = << >> /\ c.map = "expunged"
<1> DEFINE c == Rest(r)
           e == Head(r.mapq)
<1>1. r.mapq \in Seq(MapEvents)
  BY DEF PushRecord
<1>2. Outside(c) = Outside(r) /\ c.mapq = Tail(r.mapq)
  BY DEF Rest, Outside, PushRecord
<1>3. c \in PushRecord
  BY RestStep
<1>4. /\ Len(r.mapq) \in Nat /\ Len(r.mapq) > 0 /\ e = r.mapq[1]
      /\ c.mapq \in Seq(MapEvents) /\ Len(c.mapq) = Len(r.mapq) - 1
      /\ \A i \in 1 .. Len(c.mapq) : c.mapq[i] = r.mapq[i + 1]
  BY <1>1, <1>2
<1>5. ASSUME NEW es
      PROVE  /\ Queued(r.mapq, es) <=> e \in es \/ Queued(c.mapq, es)
             /\ AtMostOne(r.mapq, es) =>
                  AtMostOne(c.mapq, es) /\ (e \in es => ~Queued(c.mapq, es))
  BY <1>1, <1>2, QueuedTail
<1> HIDE DEF c, e
<1>6. /\ << c.owner, c.handshake, c.queries, c.answers, c.map, c.ending, c.ctx, c.conn,
            c.final, c.timerID, c.timers, c.invokes, c.cdr, c.established >>
         = << r.owner, r.handshake, r.queries, r.answers, r.map, r.ending, r.ctx, r.conn,
              r.final, r.timerID, r.timers, r.invokes, r.cdr, r.established >>
  BY <1>2 DEF Outside
<1>7. Asked(c) = Asked(r) /\ Replied(c) = Replied(r) /\ (Live(c) <=> Live(r))
      /\ (Going(c) <=> Going(r))
  BY <1>6 DEF Asked, Replied, Live, Going
<1>8. NoRelease(r.mapq) => NoRelease(c.mapq)
  BY <1>4 DEF NoRelease
<1>9. ReleaseLast(c)
  <2> SUFFICES ASSUME NEW i \in 1 .. Len(c.mapq), c.mapq[i] = "Release"
               PROVE  i = Len(c.mapq)
    BY DEF ReleaseLast
  <2>1. i + 1 \in 1 .. Len(r.mapq) /\ r.mapq[i + 1] = "Release"
    BY <1>4
  <2>2. i + 1 = Len(r.mapq)
    BY <2>1 DEF SessionSound, Ready, ReleaseLast
  <2> QED
    BY <1>4, <2>2
<1>10. e = "Release" => c.mapq = << >> /\ c.map = "expunged"
  <2> SUFFICES ASSUME e = "Release"
               PROVE  c.mapq = << >> /\ c.map = "expunged"
    OBVIOUS
  <2>1. 1 \in 1 .. Len(r.mapq) /\ r.mapq[1] = "Release"
    BY <1>4
  <2>2. 1 = Len(r.mapq) /\ ~NoRelease(r.mapq)
    BY <2>1 DEF SessionSound, Ready, ReleaseLast, NoRelease
  <2>3. c.map = "expunged" /\ Len(c.mapq) = 0
    BY <1>4, <1>6, <2>2
  <2> QED
    BY <1>4, <2>3
<1>11. BlankSound(c) /\ c.map # "none"
  <2>1. r.map # "none"
    BY DEF SessionSound, Ready, BlankSound
  <2> QED
    BY <1>6, <2>1 DEF SessionSound, Ready, BlankSound
<1>12. FailedSound(c) /\ BilledTold(c)
  BY <1>6 DEF SessionSound, Ready, FailedSound, BilledTold
<1>13. AcceptSound(c)
  BY <1>5, <1>6, <1>7 DEF SessionSound, Ready, AcceptSound
<1>14. TimerSound(c)
  BY <1>5, <1>6 DEF SessionSound, Ready, TimerSound
<1>15. AnswerSound(c)
  BY <1>5, <1>6, <1>7 DEF SessionSound, Ready, AnswerSound
<1>16. Ready(c)
  BY <1>9, <1>11, <1>12, <1>13, <1>14, <1>15 DEF Ready
<1>17. e \notin EndEvents => HeardSound(c)
  BY <1>5, <1>6, <1>7 DEF SessionSound, HeardSound, Waits
<1>18. e = "Accept" =>
         /\ ~c.established /\ c.cdr \notin UnsentStatuses
         /\ ~Queued(c.mapq, {"Accept"}) /\ c.map \notin {"none", "initialSent"}
  BY <1>5, <1>6 DEF SessionSound, Ready, AcceptSound
<1>19. e = "Accept" /\ c.owner = "http" /\ Live(c) /\ c.handshake =>
         c.ctx # "none" /\ c.invokes = {} /\ ~c.final /\ ~Queued(c.mapq, Held)
  BY <1>5, <1>6, <1>7 DEF SessionSound, Ready, AnswerSound
<1>20. /\ c.owner = "http" /\ e \in AnswerEvents => c.map # "initialSent"
       /\ c.owner = "http" /\ e \in Held =>
            ~(Live(c) /\ c.handshake
                /\ (c.map = "initialSent" \/ Queued(c.mapq, {"Accept"})))
  BY <1>5, <1>6, <1>7 DEF SessionSound, Ready, AnswerSound
<1>21. c.owner = "http" /\ Going(c) /\ e \in Replied(c) =>
         Asked(c) = {} /\ ~Queued(c.mapq, Replied(c))
  BY <1>5, <1>6, <1>7 DEF SessionSound, Ready, AnswerSound
<1>22. c.owner = "http" /\ e = "UnstructuredSSResponse" =>
         /\ c.timers = {} /\ "request" \notin c.invokes
         /\ ~Queued(c.mapq, {"UnstructuredSSResponse"})
  BY <1>5, <1>6 DEF SessionSound, Ready, TimerSound
<1> QED
  BY <1>2, <1>3, <1>6, <1>8, <1>10, <1>11, <1>16, <1>17, <1>18, <1>19, <1>20, <1>21, <1>22 DEF c, e

-----------------------------------------------------------------------------
(***************************************************************************)
(* The HTTP server SBB: answers of the mobile.                             *)
(***************************************************************************)
\* A POST is answered, and nothing was left that needs it.
LEMMA AnswerDone ==
  ASSUME NEW c \in PushRecord, Ready(c), c.owner = "http",
         c.map # "expunged" => NoRelease(c.mapq),
         NEW a, Tame(c, a), a.cdr = c.cdr, a.ctx = "none",
         a.conn \in {c.conn, "over"},
         Going(c) => a.invokes \subseteq c.invokes \ Asked(c) /\ ~Queued(c.mapq, Replied(c)),
         ~(Live(a) /\ c.handshake /\ (c.map = "initialSent" \/ Queued(c.mapq, {"Accept"})))
  PROVE  SessionSound(a)
<1>1. /\ a \in PushRecord /\ a.owner = "http" /\ a.queries = c.queries
      /\ a.timers \subseteq c.timers /\ a.timerID = c.timerID /\ a.final = c.final
      /\ a.invokes \subseteq c.invokes /\ a.handshake = c.handshake
      /\ a.map \in {c.map, "expunged"}
  BY TameFacts DEF Tame, Calm
<1>2. AcceptSound(a) /\ ReleaseLast(a)
  BY CalmAccept, CalmQueue DEF Tame
<1>3. \A es : "Release" \notin es =>
        /\ Queued(a.mapq, es) <=> Queued(c.mapq, es)
        /\ AtMostOne(c.mapq, es) => AtMostOne(a.mapq, es)
  BY CalmQueue DEF Tame
<1>4. /\ Queued(a.mapq, {"UnstructuredSSResponse"})
           <=> Queued(c.mapq, {"UnstructuredSSResponse"})
      /\ AtMostOne(c.mapq, {"UnstructuredSSResponse"})
           => AtMostOne(a.mapq, {"UnstructuredSSResponse"})
      /\ Queued(a.mapq, {"Accept"}) <=> Queued(c.mapq, {"Accept"})
      /\ Queued(a.mapq, AnswerEvents) <=> Queued(c.mapq, AnswerEvents)
      /\ Queued(a.mapq, Replied(c)) <=> Queued(c.mapq, Replied(c))
  BY <1>3 DEF AnswerEvents, Replied
<1>5. BlankSound(a)
  BY <1>1, TameFacts DEF Ready, BlankSound, Tame
<1>6. FailedSound(a) /\ BilledTold(a)
  BY <1>1 DEF Ready, FailedSound, BilledTold
<1>7. TimerSound(a)
  BY <1>1, <1>4 DEF Ready, TimerSound
<1>8. /\ Going(a) => Going(c)
      /\ Replied(a) = Replied(c) /\ Asked(a) = a.invokes \cap Asked(c)
  BY <1>1 DEF Going, Live, Replied, Asked
<1>9. Going(a) => Asked(a) = {} /\ ~Queued(a.mapq, Replied(a))
  BY <1>4, <1>8
<1>10. AtMostOne(a.mapq, Replied(a)) \/ ~Going(a)
  BY <1>9 DEF AtMostOne, Queued
<1>11. AnswerSound(a)
  BY <1>1, <1>4, <1>8, <1>9, <1>10 DEF Ready, AnswerSound
<1>12. HeardSound(a)
  BY <1>1 DEF HeardSound, Waits
<1> QED
  BY <1>2, <1>5, <1>6, <1>7, <1>11, <1>12 DEF SessionSound, Ready

\* The timer is armed when the application has its answer.
LEMMA TimerArmed ==
  ASSUME NEW a \in PushRecord, SessionSound(a), a.owner = "http", a.map # "none",
         a.timers = {}, "request" \notin a.invokes, a.ctx = "none",
         ~Queued(a.mapq, {"UnstructuredSSResponse"})
  PROVE  SessionSound(SetTimer(a))
<1> DEFINE s == SetTimer(a)
<1>1. /\ s.owner = "http" /\ s.map = a.map /\ s.mapq = a.mapq /\ s.ctx = "none"
      /\ s.cdr = a.cdr /\ s.conn = a.conn /\ s.established = a.established
      /\ s.queries = a.queries /\ s.final = a.final /\ s.invokes = a.invokes
      /\ s.handshake = a.handshake /\ s.timers = {s.timerID}
  BY DEF SetTimer, PushRecord
<1> HIDE DEF s
<1>2. (Going(s) <=> Going(a)) /\ (Live(s) <=> Live(a)) /\ Replied(s) = Replied(a)
      /\ Asked(s) = Asked(a)
  BY <1>1 DEF Going, Live, Replied, Asked
<1>3. AcceptSound(s) /\ ReleaseLast(s)
  BY <1>1, <1>2 DEF SessionSound, Ready, AcceptSound, ReleaseLast
<1>4. BlankSound(s) /\ FailedSound(s) /\ BilledTold(s)
  BY <1>1 DEF SessionSound, Ready, BlankSound, FailedSound, BilledTold
<1>5. TimerSound(s)
  BY <1>1 DEF SessionSound, Ready, TimerSound
<1>6. AnswerSound(s)
  BY <1>1, <1>2 DEF SessionSound, Ready, AnswerSound
<1>7. HeardSound(s)
  BY <1>1 DEF HeardSound, Waits
<1> QED
  BY <1>3, <1>4, <1>5, <1>6, <1>7 DEF SessionSound, Ready, s

\* processReceivedMAPEvent.
LEMMA ProcessedTame ==
  ASSUME NEW c \in PushRecord
  PROVE  LET a == ProcessReceivedMapEvent(c)
         IN  /\ Tame(c, a) /\ a.map = c.map /\ a.cdr = c.cdr /\ a.ctx = "none"
             /\ a.conn \in {c.conn, "over"}
<1> DEFINE b == ResumeHttpEventContext(c)
<1>1. Tame(c, b) /\ b.map = c.map /\ b.cdr = c.cdr
  BY FieldsTame
<1>2. b.ctx = "none" /\ b.conn = c.conn
  BY DEF ResumeHttpEventContext, PushRecord
<1>3. /\ Tame(c, Conclude(c)) /\ Conclude(c).map = c.map /\ Conclude(c).cdr = c.cdr
      /\ Conclude(c).ctx = "none" /\ Conclude(c).conn \in {c.conn, "over"}
  BY SessionTame
<1> QED
  BY <1>1, <1>2, <1>3, Zenon DEF ProcessReceivedMapEvent, Conclude

\* The answer to the error message of the gateway.
LEMMA FinalSession ==
  ASSUME NEW c \in PushRecord, Ready(c), c.owner = "http", c.final, CloseOk(c),
         c.map # "expunged" => NoRelease(c.mapq)
  PROVE  SessionSound(Expunge(c, "final"))
<1> DEFINE s == Expunge(c, "final")
<1>1. "final" \in Endings /\ c.map \in Running
  BY DEF Endings, CloseOk, Running
<1>2. /\ Tame(c, s) /\ ~Live(s) /\ s.map = "expunged" /\ s.ending = "final"
      /\ s.invokes = {} /\ s.ctx = c.ctx /\ s.conn = c.conn /\ s.cdr = c.cdr
  BY <1>1, ExpungeTame
<1> HIDE DEF s
<1>3. /\ s.owner = "http" /\ s.queries = c.queries /\ s.timerID = c.timerID
      /\ s.timers \subseteq c.timers /\ s.final
  BY <1>2, TameFacts DEF Tame, Calm
<1>4. AcceptSound(s) /\ ReleaseLast(s)
  BY <1>2, CalmAccept, CalmQueue DEF Tame
<1>5. /\ Queued(s.mapq, {"UnstructuredSSResponse"})
           <=> Queued(c.mapq, {"UnstructuredSSResponse"})
      /\ AtMostOne(c.mapq, {"UnstructuredSSResponse"})
           => AtMostOne(s.mapq, {"UnstructuredSSResponse"})
  BY <1>2, CalmQueue DEF Tame
<1>6. BlankSound(s) /\ FailedSound(s) /\ BilledTold(s)
  BY <1>2, <1>3 DEF Ready, BlankSound, FailedSound, BilledTold
<1>7. TimerSound(s)
  BY <1>2, <1>3, <1>5 DEF Ready, TimerSound
<1>8. s.cdr # "none"
  BY <1>2 DEF Ready, AnswerSound
<1>9. AnswerSound(s)
  BY <1>2, <1>3, <1>8 DEF AnswerSound, Going, Live
<1>10. HeardSound(s)
  BY <1>2 DEF HeardSound
<1> QED
  BY <1>4, <1>6, <1>7, <1>9, <1>10 DEF SessionSound, Ready, s

\* Answers of the mobile.
LEMMA HttpAnswersSession ==
  ASSUME NEW r \in PushRecord, r.mapq # << >>, SessionSound(r), r.owner = "http",
         r.map # "expunged" => NoRelease(r.mapq), r.map # "idle"
  PROVE  /\ Head(r.mapq) = "UnstructuredSSResponse" =>
              SessionSound(HttpOnUnstructuredSSResponse(Rest(r)))
         /\ Head(r.mapq) = "NotifyResponse" => SessionSound(HttpOnNotifyResponse(Rest(r)))
         /\ Head(r.mapq) = "OtherMessage" => SessionSound(ProcessReceivedMapEvent(Rest(r)))
<1> DEFINE c == Rest(r)
           e == Head(r.mapq)
           a == ProcessReceivedMapEvent(c)
<1>1. /\ c \in PushRecord /\ Outside(c) = Outside(r) /\ Ready(c) /\ c.map # "none"
      /\ c.map # "expunged" => NoRelease(c.mapq)
      /\ c.owner = "http" /\ e \in AnswerEvents => c.map # "initialSent"
      /\ c.owner = "http" /\ e \in Held =>
           ~(Live(c) /\ c.handshake
               /\ (c.map = "initialSent" \/ Queued(c.mapq, {"Accept"})))
      /\ c.owner = "http" /\ Going(c) /\ e \in Replied(c) =>
           Asked(c) = {} /\ ~Queued(c.mapq, Replied(c))
      /\ c.owner = "http" /\ e = "UnstructuredSSResponse" =>
           /\ c.timers = {} /\ "request" \notin c.invokes
           /\ ~Queued(c.mapq, {"UnstructuredSSResponse"})
  BY RestReady
<1>2. c.owner = "http" /\ c.map # "idle"
  BY <1>1 DEF Outside
<1> HIDE DEF c, e
<1>3. /\ Tame(c, a) /\ a.map = c.map /\ a.cdr = c.cdr /\ a.ctx = "none"
      /\ a.conn \in {c.conn, "over"}
  BY <1>1, ProcessedTame
<1> HIDE DEF a
<1>4. e \in AnswerEvents /\ (e \in Replied(c) \/ ~Going(c)) => SessionSound(a)
  <2> SUFFICES ASSUME e \in AnswerEvents, e \in Replied(c) \/ ~Going(c)
               PROVE  SessionSound(a)
    OBVIOUS
  <2>1. Going(c) => a.invokes \subseteq c.invokes \ Asked(c) /\ ~Queued(c.mapq, Replied(c))
    BY <1>1, <1>2, <1>3 DEF Tame
  <2>2. ~(Live(a) /\ c.handshake /\ (c.map = "initialSent" \/ Queued(c.mapq, {"Accept"})))
    BY <1>1, <1>2, <1>3 DEF Held, Live
  <2> QED
    BY <1>1, <1>2, <1>3, <2>1, <2>2, AnswerDone
<1>5. e = "UnstructuredSSResponse" => SessionSound(SetTimer(a))
  <2> SUFFICES ASSUME e = "UnstructuredSSResponse"
               PROVE  SessionSound(SetTimer(a))
    OBVIOUS
  <2>1. e \in AnswerEvents /\ e \in Replied(c)
    BY DEF AnswerEvents, Replied
  <2>2. /\ a \in PushRecord /\ a.owner = "http" /\ a.mapq = c.mapq
        /\ a.timers \subseteq c.timers /\ a.invokes \subseteq c.invokes
    BY <1>1, <1>2, <1>3, TameFacts DEF Tame
  <2>3. a.timers = {} /\ "request" \notin a.invokes
    BY <1>1, <1>2, <2>2
  <2> QED
    BY <1>1, <1>2, <1>3, <1>4, <2>1, <2>2, <2>3, TimerArmed
<1>6. e = "OtherMessage" => SessionSound(a)
  BY <1>4 DEF AnswerEvents, Replied
<1>7. e = "NotifyResponse" => SessionSound(HttpOnNotifyResponse(c))
  <2> SUFFICES ASSUME e = "NotifyResponse"
               PROVE  SessionSound(HttpOnNotifyResponse(c))
    OBVIOUS
  <2>1. e \in AnswerEvents /\ (~c.final => e \in Replied(c))
    BY DEF AnswerEvents, Replied
  <2>2. CASE c.final /\ CloseOk(c)
    BY <1>1, <1>2, <2>2, FinalSession DEF HttpOnNotifyResponse
  <2>3. CASE ~(c.final /\ CloseOk(c))
    <3>1. c.final => ~Going(c)
      BY <1>1, <1>2, <2>1, <2>3 DEF Ready, AnswerSound, CloseOk, Going, Live
    <3> QED
      BY <1>4, <2>1, <2>3, <3>1 DEF HttpOnNotifyResponse, a
  <2> QED
    BY <2>2, <2>3
<1> QED
  BY <1>5, <1>6, <1>7 DEF HttpOnUnstructuredSSResponse, a, c, e

-----------------------------------------------------------------------------
(***************************************************************************)
(* The HTTP server SBB: the acceptance of the dialog, the timer, failures. *)
(***************************************************************************)
\* A message to a mobile that has nothing to answer, for a POST that waits.
LEMMA SentSession ==
  ASSUME NEW c \in PushRecord, Ready(c), c.owner = "http", c.map = "active",
         c.ctx # "none", c.timers = {}, Asked(c) = {}, ~Queued(c.mapq, Replied(c)),
         ~c.handshake \/ ~Queued(c.mapq, {"Accept"}), NEW op \in Operations
  PROVE  SessionSound(MapSend(c, {op}))
<1> DEFINE s == MapSend(c, {op})
<1>1. /\ s.owner = "http" /\ s.map = "active" /\ s.mapq = c.mapq /\ s.ctx = c.ctx
      /\ s.cdr = c.cdr /\ s.conn = c.conn /\ s.established = c.established
      /\ s.queries = c.queries /\ s.final = c.final /\ s.invokes = c.invokes \cup {op}
      /\ s.handshake = c.handshake /\ s.timers = c.timers /\ s.timerID = c.timerID
  BY DEF MapSend, PushRecord
<1> HIDE DEF s
<1>2. Live(s) /\ Going(s) /\ Live(c) /\ Going(c) /\ Replied(s) = Replied(c)
  BY <1>1 DEF Going, Live, Replied
<1>3. \A a \in Asked(s) : a = op
  BY <1>1 DEF Asked
<1>4. AcceptSound(s) /\ ReleaseLast(s)
  BY <1>1, <1>2 DEF Ready, AcceptSound, ReleaseLast
<1>5. BlankSound(s) /\ FailedSound(s) /\ BilledTold(s)
  BY <1>1 DEF Ready, BlankSound, FailedSound, BilledTold
<1>6. "UnstructuredSSResponse" \in Replied(c)
  BY DEF Replied, AnswerEvents
<1>7. ~Queued(c.mapq, {"UnstructuredSSResponse"})
  BY <1>6, QueuedMonotone
<1>8. TimerSound(s)
  BY <1>1, <1>7 DEF Ready, TimerSound
<1>9. AnswerSound(s)
  BY <1>1, <1>2, <1>3 DEF Ready, AnswerSound
<1>10. HeardSound(s)
  BY <1>2 DEF HeardSound
<1> QED
  BY <1>4, <1>5, <1>8, <1>9, <1>10 DEF SessionSound, Ready, s

\* The dialog is established.
LEMMA EstablishedSession ==
  ASSUME NEW c \in PushRecord, SessionSound(c), c.map \notin {"none", "initialSent"},
         ~Queued(c.mapq, {"Accept"}), c.cdr \notin UnsentStatuses
  PROVE  SessionSound(UpdateDialogEstablishedStat(c))
<1> DEFINE s == UpdateDialogEstablishedStat(c)
<1>1. /\ s.owner = c.owner /\ s.map = c.map /\ s.mapq = c.mapq /\ s.ctx = c.ctx
      /\ s.cdr = c.cdr /\ s.conn = c.conn /\ s.ending = c.ending /\ s.answers = c.answers
      /\ s.queries = c.queries /\ s.final = c.final /\ s.invokes = c.invokes
      /\ s.handshake = c.handshake /\ s.timers = c.timers /\ s.timerID = c.timerID
  BY DEF UpdateDialogEstablishedStat, PushRecord
<1> HIDE DEF s
<1>2. /\ (Going(s) <=> Going(c)) /\ (Live(s) <=> Live(c)) /\ Replied(s) = Replied(c)
      /\ Asked(s) = Asked(c)
  BY <1>1 DEF Going, Live, Replied, Asked
<1>3. AcceptSound(s) /\ ReleaseLast(s)
  BY <1>1 DEF SessionSound, Ready, AcceptSound, ReleaseLast
<1>4. BlankSound(s) /\ FailedSound(s) /\ BilledTold(s)
  BY <1>1 DEF SessionSound, Ready, BlankSound, FailedSound, BilledTold
<1>5. TimerSound(s)
  BY <1>1 DEF SessionSound, Ready, TimerSound
<1>6. AnswerSound(s)
  BY <1>1, <1>2 DEF SessionSound, Ready, AnswerSound
<1>7. HeardSound(s)
  BY <1>1, <1>2 DEF SessionSound, HeardSound, Waits
<1> QED
  BY <1>3, <1>4, <1>5, <1>6, <1>7 DEF SessionSound, Ready, s

\* The first message behind the handshake.
LEMMA FirstSession ==
  ASSUME NEW c \in PushRecord, Ready(c), c.owner = "http", c.map = "active",
         NoRelease(c.mapq), ~Queued(c.mapq, {"Accept"}), c.cdr \notin UnsentStatuses,
         c.ctx # "none", c.invokes = {}, ~Queued(c.mapq, Held)
  PROVE  SessionSound(UpdateDialogEstablishedStat(PushFirst(c)))
<1>1. c.timers = {} /\ ~Queued(c.mapq, Replied(c)) /\ ~Queued(c.mapq, AnswerEvents)
  <2>1. Replied(c) \subseteq Held /\ AnswerEvents \subseteq Held
    BY DEF Held, Replied
  <2> QED
    BY <2>1, QueuedMonotone DEF Ready, TimerSound
<1>2. CASE c.last
  <2> DEFINE x == Expunge(c, "answer")
             p == Conclude(x)
  <2>1. "answer" \in Endings /\ c.map \in Running
    BY DEF Endings, Running
  <2>2. /\ Tame(c, x) /\ ~Live(x) /\ x.map = "expunged" /\ x.invokes = {}
        /\ x.conn = c.conn /\ x.cdr = c.cdr
    BY <2>1, ExpungeTame
  <2>3. x \in PushRecord
    BY <2>2, TameFacts DEF Tame
  <2> HIDE DEF x
  <2>4. /\ Tame(x, p) /\ p.map = x.map /\ p.cdr = x.cdr /\ p.ctx = "none"
        /\ p.conn \in {x.conn, "over"}
    BY <2>3, SessionTame
  <2> HIDE DEF p
  <2>5. Tame(c, p) /\ p.invokes = {} /\ p.map = "expunged" /\ p \in PushRecord
    BY <2>2, <2>3, <2>4, TameTrans, TameFacts DEF Tame
  <2>6. SessionSound(p)
    <3>1. ~Live(p) /\ p.cdr = c.cdr /\ p.ctx = "none" /\ p.conn \in {c.conn, "over"}
      BY <2>2, <2>4, <2>5 DEF Live
    <3> QED
      BY <1>1, <2>5, <3>1, AnswerDone
  <2>7. ~Queued(p.mapq, {"Accept"})
    BY <2>5, CalmQueue DEF Tame
  <2>8. SessionSound(UpdateDialogEstablishedStat(p))
    BY <2>2, <2>4, <2>5, <2>6, <2>7, EstablishedSession
  <2> QED
    BY <1>2, <2>8 DEF PushFirst, CloseOk, p, x
<1>3. CASE ~c.last
  <2> DEFINE s == MapSend(c, {c.op})
  <2>1. c.op \in Operations /\ Asked(c) = {}
    BY DEF PushRecord, Asked
  <2>2. SessionSound(s)
    BY <1>1, <2>1, SentSession
  <2>3. s \in PushRecord /\ s.map = "active" /\ s.mapq = c.mapq /\ s.cdr = c.cdr
    <3>1. {c.op} \in SUBSET Operations /\ SendOk(c)
      BY <2>1 DEF SendOk
    <3>2. s \in PushRecord
      BY <3>1, MapSendEvolves DEF Evolves
    <3> QED
      BY <3>2 DEF MapSend, PushRecord
  <2> HIDE DEF s
  <2>4. SessionSound(UpdateDialogEstablishedStat(s))
    BY <2>2, <2>3, EstablishedSession
  <2> QED
    BY <1>3, <2>4 DEF PushFirst, SendOk, s
<1> QED
  BY <1>2, <1>3

\* onDialogAccept.
LEMMA HttpAcceptSession ==
  ASSUME NEW r \in PushRecord, r.mapq # << >>, SessionSound(r), r.owner = "http",
         r.map # "expunged" => NoRelease(r.mapq), r.map # "idle",
         r.conn \in {"open", "over"}, Head(r.mapq) = "Accept"
  PROVE  SessionSound(HttpOnDialogAccept(Rest(r)))
<1> DEFINE c == Rest(r)
<1>1. /\ c \in PushRecord /\ Outside(c) = Outside(r) /\ Ready(c)
      /\ c.map # "expunged" => NoRelease(c.mapq)
      /\ "Accept" \notin EndEvents => HeardSound(c)
      /\ ~c.established /\ c.cdr \notin UnsentStatuses
      /\ ~Queued(c.mapq, {"Accept"}) /\ c.map \notin {"none", "initialSent"}
      /\ c.owner = "http" /\ Live(c) /\ c.handshake =>
           c.ctx # "none" /\ c.invokes = {} /\ ~c.final /\ ~Queued(c.mapq, Held)
  BY RestReady
<1>2. /\ c.owner = "http" /\ c.map # "idle" /\ c.conn \in {"open", "over"}
  BY <1>1 DEF Outside
<1>3. SessionSound(c)
  BY <1>1 DEF SessionSound, EndEvents, AbortEvents
<1> HIDE DEF c
<1>4. CASE ~c.handshake
  BY <1>1, <1>3, <1>4, EstablishedSession DEF HttpOnDialogAccept, c
<1>5. CASE c.handshake /\ SendOk(c)
  <2>1. c.map = "active"
    BY <1>2, <1>5 DEF SendOk
  <2>2. SessionSound(UpdateDialogEstablishedStat(PushFirst(c)))
    BY <1>1, <1>2, <1>5, <2>1, FirstSession DEF Live
  <2> QED
    BY <1>5, <2>2 DEF HttpOnDialogAccept, c
<1>6. CASE c.handshake /\ ~SendOk(c)
  <2>1. HttpOnDialogAccept(c) = PushFailed(c)
    BY <1>6 DEF HttpOnDialogAccept, PushFirst, SendOk, CloseOk
  <2>2. Quits(c, PushFailed(c), "FAILED_SYSTEM_FAILURE")
    BY <1>1, FailuresQuit DEF CdrStatuses
  <2>3. "FAILED_SYSTEM_FAILURE" \in CdrStatuses
    BY DEF CdrStatuses
  <2>4. SessionSound(PushFailed(c))
    BY <1>1, <1>2, <2>2, <2>3, QuitsSession
  <2> QED
    BY <2>1, <2>4 DEF c
<1> QED
  BY <1>4, <1>5, <1>6

\* Failures of the dialog with the mobile.
LEMMA HttpFailuresSession ==
  ASSUME NEW r \in PushRecord, r.mapq # << >>, SessionSound(r), r.owner = "http",
         r.map # "expunged" => NoRelease(r.mapq), r.conn \in {"open", "over"},
         NEW status \in CdrStatuses \ UnsentStatuses
  PROVE  /\ SessionSound(HttpOnComponentFailure(Rest(r), status))
         /\ SessionSound(HttpOnDialogTimeout(Rest(r)))
         /\ ~Live(Rest(r)) => SessionSound(HttpOnAbortIndication(Rest(r), status))
<1> DEFINE c == Rest(r)
<1>1. /\ c \in PushRecord /\ Outside(c) = Outside(r) /\ Ready(c)
      /\ c.map # "expunged" => NoRelease(c.mapq)
  BY RestReady
<1>2. c.owner = "http" /\ c.conn \in {"open", "over"}
  BY <1>1 DEF Outside
<1> HIDE DEF c
<1>3. "FAILED_DIALOG_TIMEOUT" \in CdrStatuses \ UnsentStatuses
  BY DEF CdrStatuses, UnsentStatuses, SriStatuses
<1>4. /\ Quits(c, HttpOnComponentFailure(c, status), status)
      /\ Quits(c, HttpOnDialogTimeout(c), "FAILED_DIALOG_TIMEOUT")
      /\ ~Live(c) => Quits(c, HttpOnAbortIndication(c, status), status)
  BY <1>1, FailuresQuit
<1>5. ASSUME NEW s, NEW x \in CdrStatuses \ UnsentStatuses, Quits(c, s, x)
      PROVE  SessionSound(s)
  BY <1>1, <1>2, <1>5, QuitsSession
<1> QED
  BY <1>3, <1>4, <1>5 DEF c

\* onTimerEvent: the error message is no question of the application.
LEMMA HttpTimerSession ==
  ASSUME NEW r \in PushRecord, r.mapq # << >>, SessionSound(r), r.owner = "http",
         r.map # "expunged" => NoRelease(r.mapq), r.map # "idle",
         Head(r.mapq) = "Timer"
  PROVE  SessionSound(HttpOnTimerEvent(Rest(r)))
<1> DEFINE c == Rest(r)
           x == SendErrorMessage(c)
           s == Fail(x, "FAILED_APP_TIMEOUT")
<1>1. "Timer" \notin EndEvents /\ "Timer" \in Held
  BY DEF EndEvents, AbortEvents, Held
<1>2. /\ c \in PushRecord /\ Outside(c) = Outside(r) /\ Ready(c) /\ c.map # "none"
      /\ HeardSound(c)
      /\ c.owner = "http" =>
           ~(Live(c) /\ c.handshake /\ (c.map = "initialSent" \/ Queued(c.mapq, {"Accept"})))
  BY <1>1, RestReady
<1>3. c.owner = "http" /\ c.map # "idle"
  BY <1>2 DEF Outside
<1> HIDE DEF c
<1>4. /\ << x.owner, x.handshake, x.queries, x.answers, x.map, x.mapq, x.ending, x.ctx,
            x.conn, x.timerID, x.timers, x.cdr, x.established >>
         = << c.owner, c.handshake, c.queries, c.answers, c.map, c.mapq, c.ending, c.ctx,
              c.conn, c.timerID, c.timers, c.cdr, c.established >>
      /\ \/ x.final = c.final /\ x.invokes = c.invokes
         \/ x.final /\ x.invokes = c.invokes \cup {"notify"}
  <2>1. CASE SendOk(c)
    BY <1>2, <1>3, <2>1 DEF SendErrorMessage, MapSend, SendOk, PushRecord
  <2>2. CASE ~SendOk(c)
    BY <2>2 DEF SendErrorMessage
  <2> QED
    BY <2>1, <2>2
<1>5. x \in PushRecord
  BY <1>2, SendErrorMessageEvolves DEF Evolves
<1> HIDE DEF x
<1>6. /\ << s.owner, s.handshake, s.queries, s.answers, s.map, s.mapq, s.ending, s.ctx,
            s.conn, s.timerID, s.timers, s.established, s.final, s.invokes >>
         = << x.owner, x.handshake, x.queries, x.answers, x.map, x.mapq, x.ending, x.ctx,
              x.conn, x.timerID, x.timers, x.established, x.final, x.invokes >>
      /\ s.cdr = IF x.cdr = "none" THEN "FAILED_APP_TIMEOUT" ELSE x.cdr
  BY <1>5 DEF Fail, CreateCdr, UpdateDialogFailureStat, PushRecord
<1> HIDE DEF s
<1>7. /\ s.cdr # "none"
      /\ s.cdr = c.cdr \/ (c.cdr = "none" /\ s.cdr = "FAILED_APP_TIMEOUT")
  BY <1>4, <1>6
<1>8. "FAILED_APP_TIMEOUT" \notin UnsentStatuses
  BY DEF UnsentStatuses, SriStatuses
<1>9. /\ (Live(s) <=> Live(c)) /\ (Going(s) => Live(c) /\ Going(c))
      /\ Asked(s) \subseteq Asked(c) /\ Replied(s) \subseteq Replied(c)
  BY <1>4, <1>6, <1>7 DEF Live, Going, Asked, Replied
<1>10. AcceptSound(s) /\ ReleaseLast(s)
  BY <1>2, <1>4, <1>6, <1>7, <1>8, <1>9 DEF Ready, AcceptSound, ReleaseLast
<1>11. BlankSound(s) /\ FailedSound(s) /\ BilledTold(s)
  BY <1>2, <1>3, <1>4, <1>6, <1>7 DEF Ready, BlankSound, FailedSound, BilledTold
<1>12. TimerSound(s)
  BY <1>2, <1>4, <1>6 DEF Ready, TimerSound
<1>13. /\ Queued(s.mapq, Replied(s)) => Queued(c.mapq, Replied(c))
       /\ AtMostOne(c.mapq, Replied(c)) => AtMostOne(s.mapq, Replied(s))
  BY <1>4, <1>6, <1>9, QueuedMonotone
<1>14. AnswerSound(s)
  BY <1>2, <1>3, <1>4, <1>6, <1>7, <1>9, <1>13 DEF Ready, AnswerSound
<1>15. HeardSound(s)
  BY <1>2, <1>3, <1>4, <1>6, <1>9 DEF HeardSound, Waits
<1> QED
  BY <1>10, <1>11, <1>12, <1>14, <1>15 DEF SessionSound, Ready, HttpOnTimerEvent, s, x, c

\* onDialogRelease, of both server SBBs.
LEMMA ReleaseSession ==
  ASSUME NEW r \in PushRecord, r.mapq # << >>, SessionSound(r),
         r.map # "expunged" => NoRelease(r.mapq), Head(r.mapq) = "Release"
  PROVE  SessionSound(OnDialogRelease(r))
<1> DEFINE c == Rest(r)
           s == OnDialogRelease(r)
<1>1. "Release" \notin EndEvents
  BY DEF EndEvents, AbortEvents
<1>2. /\ Outside(c) = Outside(r) /\ Ready(c) /\ HeardSound(c)
      /\ c.mapq = << >> /\ c.map = "expunged"
  BY <1>1, RestReady
<1>3. /\ << s.owner, s.handshake, s.queries, s.answers, s.map, s.ending, s.ctx,
            s.conn, s.timerID, s.cdr, s.established, s.final, s.invokes >>
         = << r.owner, r.handshake, r.queries, r.answers, r.map, r.ending, r.ctx,
              r.conn, r.timerID, r.cdr, r.established, r.final, r.invokes >>
      /\ s.mapq = << >> /\ s.timers = {}
  BY DEF OnDialogRelease, PushRecord
<1> HIDE DEF s, c
<1>4. /\ << s.owner, s.handshake, s.queries, s.answers, s.map, s.ending, s.ctx,
            s.conn, s.timerID, s.cdr, s.established, s.final, s.invokes >>
         = << c.owner, c.handshake, c.queries, c.answers, c.map, c.ending, c.ctx,
              c.conn, c.timerID, c.cdr, c.established, c.final, c.invokes >>
      /\ s.mapq = c.mapq /\ s.timers = {}
  BY <1>2, <1>3 DEF Outside
<1>5. /\ (Live(s) <=> Live(c)) /\ (Going(s) <=> Going(c)) /\ Asked(s) = Asked(c)
      /\ Replied(s) = Replied(c)
  BY <1>4 DEF Live, Going, Asked, Replied
<1>6. AcceptSound(s) /\ ReleaseLast(s)
  BY <1>2, <1>4, <1>5 DEF Ready, AcceptSound, ReleaseLast
<1>7. BlankSound(s) /\ FailedSound(s) /\ BilledTold(s)
  BY <1>2, <1>4 DEF Ready, BlankSound, FailedSound, BilledTold
<1>8. TimerSound(s)
  BY <1>2, <1>4 DEF Ready, TimerSound
<1>9. AnswerSound(s)
  BY <1>2, <1>4, <1>5 DEF Ready, AnswerSound
<1>10. HeardSound(s)
  BY <1>2, <1>4, <1>5 DEF HeardSound, Waits
<1> QED
  BY <1>6, <1>7, <1>8, <1>9, <1>10 DEF SessionSound, Ready, s

-----------------------------------------------------------------------------
(***************************************************************************)
(* The SIP server SBB.                                                     *)
(***************************************************************************)
\* Services that leave the bill alone.
Plain(r, s) == Tame(r, s) /\ s.ctx = r.ctx /\ s.cdr = r.cdr

\* One after the other.
LEMMA PlainTrans ==
  ASSUME NEW r, NEW s, NEW t, Plain(r, s), Plain(s, t)
  PROVE  Plain(r, t)
BY TameTrans DEF Plain

\* The services of the SIP server SBB.
LEMMA SipPlain ==
  ASSUME NEW r \in PushRecord,
         NEW s \in {r, CancelTimer(r), AbortSipDialog(r), DeleteSipDialog(r),
                    MapAbort(r), MapRelease(r), AbortMapDialog(r)}
  PROVE  /\ Plain(r, s) /\ s \in PushRecord
         /\ s.conn = r.conn \/ s.conn # "confirmed"
         /\ s \in {AbortSipDialog(r), DeleteSipDialog(r)} => s.conn # "confirmed"
         /\ s \in {r, CancelTimer(r), MapAbort(r), MapRelease(r), AbortMapDialog(r)} =>
              s.conn = r.conn
         /\ s \in {MapAbort(r), MapRelease(r), AbortMapDialog(r)} => ~Live(s)
<1>1. CASE s = r
  <2>1. Plain(r, s) /\ s \in PushRecord
    BY <1>1, TameRefl DEF Plain
  <2> QED
    BY <1>1, <2>1, ByeTame, StopTame
<1>2. CASE s = CancelTimer(r)
  <2>1. Tame(r, s) /\ s.cdr = r.cdr
    BY <1>2, FieldsTame
  <2>2. s.ctx = r.ctx /\ s.conn = r.conn
    BY <1>2 DEF CancelTimer, PushRecord
  <2>3. s \in PushRecord
    BY <2>1, TameFacts DEF Tame
  <2> QED
    BY <1>2, <2>1, <2>2, <2>3, ByeTame, StopTame DEF Plain
<1>3. CASE s \in {AbortSipDialog(r), DeleteSipDialog(r)}
  <2>1. Tame(r, s) /\ s.cdr = r.cdr /\ s.ctx = r.ctx /\ s.conn # "confirmed"
    BY <1>3, ByeTame
  <2>2. s \in PushRecord
    BY <2>1, TameFacts DEF Tame
  <2>3. s = r \/ s = CancelTimer(r) \/ s \in {MapAbort(r), MapRelease(r), AbortMapDialog(r)}
          => s.conn = r.conn
    BY StopTame DEF CancelTimer, PushRecord
  <2> QED
    BY <1>3, <2>1, <2>2, <2>3, StopTame DEF Plain
<1>4. CASE s \in {MapAbort(r), MapRelease(r), AbortMapDialog(r)}
  <2>1. Tame(r, s) /\ ~Live(s) /\ s.ctx = r.ctx /\ s.conn = r.conn /\ s.cdr = r.cdr
    BY <1>4, StopTame
  <2>2. s \in PushRecord
    BY <2>1, TameFacts DEF Tame
  <2> QED
    BY <2>1, <2>2, ByeTame DEF Plain
<1> QED
  BY <1>1, <1>2, <1>3, <1>4

\* A tame handler.
LEMMA PlainSession ==
  ASSUME NEW r \in PushRecord, Ready(r), r.owner = "sip",
         r.map # "expunged" => NoRelease(r.mapq), NEW s, Plain(r, s),
         s.conn = r.conn \/ s.conn # "confirmed",
         \/ s.conn # "confirmed"
         \/ s.ending \in {"peerEnd", "final"}
         \/ HeardSound(r) /\ s.map = r.map
  PROVE  SessionSound(s)
<1>1. r.map = "none" => s.invokes = {} /\ s.timers = {} /\ ~s.final
  BY DEF Plain, Tame, Ready, BlankSound
<1>2. Calm(r, s) /\ s.ctx = r.ctx /\ s.cdr = r.cdr
  BY DEF Plain, Tame
<1>3. \/ s.conn # "confirmed"
      \/ s.conn = r.conn /\ s.cdr = r.cdr
  BY <1>2
<1>4. \/ s.conn # "confirmed"
      \/ s.ending \in {"peerEnd", "final"}
      \/ HeardSound(r) /\ s.map = r.map /\ s.cdr = r.cdr /\ s.conn = r.conn
  BY <1>2
<1> QED
  BY <1>1, <1>2, <1>3, <1>4, SipSession

TransportStatuses == {"FAILED_TRANSPORT_ERROR", "FAILED_TRANSPORT_FAILURE"}

\* A handler that bills the dialog.
LEMMA BilledSession ==
  ASSUME NEW r \in PushRecord, Ready(r), r.owner = "sip",
         r.map # "expunged" => NoRelease(r.mapq),
         NEW a, Calm(r, a), a.ctx = r.ctx, a.cdr = r.cdr,
         r.map = "none" => a.invokes = {} /\ a.timers = {} /\ ~a.final,
         NEW status \in CdrStatuses,
         status \in UnsentStatuses =>
           ~r.established /\ ~Queued(r.mapq, {"Accept"}) /\ ~Live(a),
         a.conn # "confirmed" \/ (a.conn = r.conn /\ status \in TransportStatuses)
  PROVE  SessionSound(Fail(a, status)) /\ SessionSound(CreateCdr(a, status))
<1>1. a \in PushRecord
  BY TameFacts
<1>2. SUFFICES ASSUME NEW s \in {Fail(a, status), CreateCdr(a, status)}
               PROVE  SessionSound(s)
  OBVIOUS
<1>3. /\ Tame(a, s) /\ s.map = a.map /\ s.ctx = a.ctx /\ s.conn = a.conn
      /\ s.cdr = IF a.cdr = "none" THEN status ELSE a.cdr
  BY <1>1, <1>2, BillTame
<1>4. Calm(r, s) /\ s.ctx = r.ctx
  BY <1>3, TameTrans DEF Tame
<1>5. r.map = "none" => s.invokes = {} /\ s.timers = {} /\ ~s.final
  BY <1>3 DEF Tame
<1>6. s.cdr # "none" /\ (s.cdr = r.cdr \/ s.cdr = status) /\ (Live(s) <=> Live(a))
  BY <1>3 DEF CdrStatuses, SriStatuses, Live
<1>7. \/ s.cdr = r.cdr
      \/ s.cdr \notin UnsentStatuses
      \/ ~r.established /\ ~Queued(r.mapq, {"Accept"}) /\ ~Live(s)
  BY <1>6
<1>8. \/ s.conn # "confirmed"
      \/ s.conn = r.conn /\ s.cdr = r.cdr
      \/ s.conn = r.conn /\ s.cdr \in {"FAILED_TRANSPORT_ERROR", "FAILED_TRANSPORT_FAILURE"}
  BY <1>3, <1>6 DEF TransportStatuses
<1> HIDE DEF Calm, SessionSound, Ready
<1> QED
  BY <1>4, <1>5, <1>6, <1>7, <1>8, SipSession

\* The same behind plain services.
LEMMA PlainBilled ==
  ASSUME NEW r \in PushRecord, Ready(r), r.owner = "sip",
         r.map # "expunged" => NoRelease(r.mapq),
         NEW a, Plain(r, a),
         NEW status \in CdrStatuses,
         status \in UnsentStatuses =>
           ~r.established /\ ~Queued(r.mapq, {"Accept"}) /\ ~Live(a),
         a.conn # "confirmed" \/ (a.conn = r.conn /\ status \in TransportStatuses)
  PROVE  SessionSound(Fail(a, status)) /\ SessionSound(CreateCdr(a, status))
<1>1. r.map = "none" => a.invokes = {} /\ a.timers = {} /\ ~a.final
  BY DEF Plain, Tame, Ready, BlankSound
<1>2. Calm(r, a) /\ a.ctx = r.ctx /\ a.cdr = r.cdr
  BY DEF Plain, Tame
<1> QED
  BY <1>1, <1>2, BilledSession

\* An INFO or a BYE with the answer of the mobile.
LEMMA SendAnswerPlain ==
  ASSUME NEW c \in PushRecord
  PROVE  LET a == SendAnswer(c)
         IN  /\ Plain(c, a) /\ a \in PushRecord /\ a.map = c.map
             /\ a.conn = c.conn \/ a.conn # "confirmed"
<1> DEFINE i == [c EXCEPT !.info = TRUE]
<1>1. Evolves(c, SendAnswer(c))
  BY SendAnswerEvolves
<1>2. CASE c.tcap = "Continue"
  <2>1. SendAnswer(c) = i
    BY <1>2 DEF SendAnswer
  <2>2. /\ i.map = c.map /\ i.ctx = c.ctx /\ i.cdr = c.cdr /\ i.conn = c.conn
        /\ i.established = c.established /\ i.handshake = c.handshake /\ i.final = c.final
        /\ i.timerID = c.timerID /\ i.timers = c.timers /\ i.invokes = c.invokes
    BY DEF PushRecord
  <2> HIDE DEF i
  <2> QED
    BY <1>1, <2>1, <2>2 DEF Plain, Tame, Calm, Evolves
<1>3. CASE c.tcap # "Continue"
  <2>1. SendAnswer(c) = AbortSipDialog(c)
    BY <1>3 DEF SendAnswer
  <2>2. AbortSipDialog(c).map = c.map
    BY ByeTame
  <2> QED
    BY <2>1, <2>2, SipPlain
<1> QED
  BY <1>2, <1>3

\* Answers of the mobile, and the acceptance of the dialog.
LEMMA SipAnswersSession ==
  ASSUME NEW r \in PushRecord, r.mapq # << >>, SessionSound(r), r.owner = "sip",
         r.map # "expunged" => NoRelease(r.mapq)
  PROVE  /\ Head(r.mapq) = "UnstructuredSSResponse" =>
              SessionSound(SipOnUnstructuredSSResponse(Rest(r)))
         /\ Head(r.mapq) = "NotifyResponse" => SessionSound(SipOnNotifyResponse(Rest(r)))
         /\ Head(r.mapq) = "OtherMessage" =>
              SessionSound(SipProcessReceivedMapEvent(Rest(r)))
         /\ Head(r.mapq) = "Accept" => SessionSound(SipOnDialogAccept(Rest(r)))
<1> DEFINE c == Rest(r)
           e == Head(r.mapq)
           a == SendAnswer(c)
<1>1. /\ c \in PushRecord /\ Outside(c) = Outside(r) /\ Ready(c) /\ c.map # "none"
      /\ c.map # "expunged" => NoRelease(c.mapq)
      /\ e \notin EndEvents => HeardSound(c)
      /\ e = "Accept" =>
           /\ ~c.established /\ c.cdr \notin UnsentStatuses
           /\ ~Queued(c.mapq, {"Accept"}) /\ c.map \notin {"none", "initialSent"}
  BY RestReady
<1>2. c.owner = "sip"
  BY <1>1 DEF Outside
<1>3. e \in AnswerEvents \cup {"Accept"} => HeardSound(c)
  BY <1>1 DEF AnswerEvents, EndEvents, AbortEvents
<1> HIDE DEF c, e
<1>4. /\ Plain(c, a) /\ a \in PushRecord /\ a.map = c.map
      /\ a.conn = c.conn \/ a.conn # "confirmed"
  BY <1>1, SendAnswerPlain
<1>5. HeardSound(c) => SessionSound(c)
  BY <1>1 DEF SessionSound
<1> HIDE DEF a
<1>6. HeardSound(c) => SessionSound(a)
  BY <1>1, <1>2, <1>4, PlainSession
<1>7. HeardSound(c) => SessionSound(SetTimer(a))
  <2> DEFINE t == SetTimer(a)
  <2>1. Evolves(a, t)
    BY <1>4, SetTimerEvolves
  <2>2. /\ t.map = a.map /\ t.established = a.established /\ t.handshake = a.handshake
        /\ t.ctx = a.ctx /\ t.cdr = a.cdr /\ t.conn = a.conn
    BY <1>4 DEF SetTimer, PushRecord
  <2> HIDE DEF t
  <2>3. Calm(a, t)
    BY <2>1, <2>2 DEF Calm
  <2>4. Calm(c, t)
    BY <1>4, <2>3, TameTrans DEF Plain, Tame
  <2>5. /\ t.ctx = c.ctx /\ t.map = c.map /\ t.cdr = c.cdr
        /\ t.conn # "confirmed" \/ t.conn = c.conn
    BY <1>4, <2>2 DEF Plain
  <2>6. HeardSound(c) => SessionSound(t)
    BY <1>1, <1>2, <2>4, <2>5, SipSession
  <2> QED
    BY <2>6 DEF t
<1>8. SessionSound(c) /\ e = "Accept" => SessionSound(SipOnDialogAccept(c))
  BY <1>1, EstablishedSession DEF SipOnDialogAccept
<1>9. c.final /\ CloseOk(c) => SessionSound(Expunge(c, "final"))
  <2> SUFFICES ASSUME CloseOk(c)
               PROVE  SessionSound(Expunge(c, "final"))
    OBVIOUS
  <2> DEFINE x == Expunge(c, "final")
  <2>1. "final" \in Endings /\ c.map \in Running
    BY DEF Endings, CloseOk, Running
  <2>2. Plain(c, x) /\ x.ending = "final" /\ x.conn = c.conn
    BY <1>1, <2>1, ExpungeTame DEF Plain
  <2> HIDE DEF x
  <2>3. SessionSound(x)
    BY <1>1, <1>2, <2>2, PlainSession
  <2> QED
    BY <2>3 DEF x
<1>10. e \in AnswerEvents =>
         /\ SessionSound(SipOnUnstructuredSSResponse(c))
         /\ SessionSound(SipProcessReceivedMapEvent(c))
         /\ SessionSound(SipOnNotifyResponse(c))
  BY <1>3, <1>5, <1>6, <1>7, <1>9
  DEF SipOnUnstructuredSSResponse, SipProcessReceivedMapEvent, SipOnNotifyResponse, a
<1> QED
  BY <1>3, <1>5, <1>8, <1>10 DEF c, e, AnswerEvents

\* Failures of the dialog with the mobile.
LEMMA SipFailuresSession ==
  ASSUME NEW r \in PushRecord, r.mapq # << >>, SessionSound(r), r.owner = "sip",
         r.map # "expunged" => NoRelease(r.mapq),
         NEW status \in CdrStatuses \ UnsentStatuses
  PROVE  /\ SessionSound(SipOnAbortIndication(Rest(r), status))
         /\ SessionSound(SipOnComponentFailure(Rest(r), status))
         /\ SessionSound(SipOnErrorComponent(Rest(r)))
         /\ SessionSound(SipOnDialogTimeout(Rest(r)))
<1> DEFINE c == Rest(r)
<1>1. /\ c \in PushRecord /\ Outside(c) = Outside(r) /\ Ready(c)
      /\ c.map # "expunged" => NoRelease(c.mapq)
  BY RestReady
<1>2. c.owner = "sip"
  BY <1>1 DEF Outside
<1> HIDE DEF c
<1>3. /\ "FAILED_DIALOG_TIMEOUT" \in CdrStatuses \ UnsentStatuses
      /\ "FAILED_MAP_ERROR_COMPONENT" \in CdrStatuses \ UnsentStatuses
  BY DEF CdrStatuses, UnsentStatuses, SriStatuses
<1>4. ASSUME NEW b \in {c, MapAbort(c), AbortMapDialog(c)},
             NEW x \in CdrStatuses \ UnsentStatuses
      PROVE  SessionSound(Fail(AbortSipDialog(b), x))
  <2> DEFINE a == AbortSipDialog(b)
  <2>1. Plain(c, b) /\ b \in PushRecord
    BY <1>1, <1>4, SipPlain
  <2>2. Plain(b, a) /\ a.conn # "confirmed"
    BY <2>1, SipPlain
  <2> HIDE DEF a
  <2>3. Plain(c, a)
    BY <2>1, <2>2, PlainTrans
  <2>4. SessionSound(Fail(a, x))
    BY <1>1, <1>2, <1>4, <2>2, <2>3, PlainBilled
  <2> QED
    BY <2>4 DEF a
<1> QED
  BY <1>3, <1>4
  DEF SipOnAbortIndication, SipOnComponentFailure, SipOnErrorComponent, SipOnDialogTimeout, c

\* onTimerEvent.
LEMMA SipTimerSession ==
  ASSUME NEW r \in PushRecord, r.mapq # << >>, SessionSound(r), r.owner = "sip",
         r.map # "expunged" => NoRelease(r.mapq), r.map # "idle"
  PROVE  SessionSound(SipOnTimerEvent(Rest(r)))
<1> DEFINE c == Rest(r)
           x == SendErrorMessage(c)
           b == AbortSipDialog(x)
           a == DeleteSipDialog(b)
<1>1. /\ c \in PushRecord /\ Outside(c) = Outside(r) /\ Ready(c) /\ c.map # "none"
      /\ c.map # "expunged" => NoRelease(c.mapq)
  BY RestReady
<1>2. c.owner = "sip" /\ c.map # "idle"
  BY <1>1 DEF Outside
<1> HIDE DEF c
<1>3. Evolves(c, x)
  BY <1>1, SendErrorMessageEvolves
<1>4. /\ x.map = c.map /\ x.established = c.established /\ x.handshake = c.handshake
      /\ x.ctx = c.ctx /\ x.cdr = c.cdr
  <2>1. CASE SendOk(c)
    BY <1>1, <1>2, <2>1 DEF SendErrorMessage, MapSend, SendOk, PushRecord
  <2>2. CASE ~SendOk(c)
    BY <2>2 DEF SendErrorMessage
  <2> QED
    BY <2>1, <2>2
<1> HIDE DEF x
<1>5. Calm(c, x) /\ x \in PushRecord
  BY <1>3, <1>4 DEF Calm, Evolves
<1>6. Plain(x, b) /\ b \in PushRecord
  BY <1>5, SipPlain
<1> HIDE DEF b
<1>7. Plain(b, a) /\ a.conn # "confirmed"
  BY <1>6, SipPlain
<1> HIDE DEF a
<1>8. Calm(c, a) /\ a.ctx = c.ctx /\ a.cdr = c.cdr
  BY <1>4, <1>5, <1>6, <1>7, TameTrans DEF Plain, Tame
<1>9. "FAILED_APP_TIMEOUT" \in CdrStatuses \ UnsentStatuses
  BY DEF CdrStatuses, UnsentStatuses, SriStatuses
<1>10. SessionSound(Fail(a, "FAILED_APP_TIMEOUT"))
  BY <1>1, <1>2, <1>7, <1>8, <1>9, BilledSession
<1> QED
  BY <1>10 DEF SipOnTimerEvent, a, b, x, c

\* A message to the mobile.
LEMMA SipSentSession ==
  ASSUME NEW r \in PushRecord, Ready(r), r.owner = "sip",
         r.map # "expunged" => NoRelease(r.mapq), r.map # "idle",
         NEW c \in PushRecord, Plain(r, c), c.conn = r.conn, SendOk(c),
         NEW op \in Operations
  PROVE  SessionSound(MapSend(c, {op}))
<1> DEFINE s == MapSend(c, {op})
<1>1. {op} \in SUBSET Operations
  OBVIOUS
<1>2. Evolves(c, s)
  BY <1>1, MapSendEvolves
<1>3. c.map \in {r.map, "expunged"}
  BY DEF Plain, Tame, Calm
<1>4. c.map = "active" /\ r.map = "active"
  BY <1>3 DEF SendOk
<1>5. /\ s.map = "active" /\ s.established = c.established /\ s.handshake = c.handshake
      /\ s.ctx = c.ctx /\ s.cdr = c.cdr /\ s.conn = c.conn
  BY <1>4 DEF MapSend, PushRecord
<1> HIDE DEF s
<1>6. Calm(c, s)
  BY <1>2, <1>4, <1>5 DEF Calm
<1>7. Calm(r, s) /\ s.ctx = r.ctx /\ s.cdr = r.cdr /\ s.conn = r.conn /\ Live(s)
  BY <1>5, <1>6, TameTrans DEF Plain, Tame, Live
<1>8. SessionSound(s)
  BY <1>4, <1>7, SipSession
<1> QED
  BY <1>8 DEF s

\* Requests of the application, and the failure of those of the gateway.
LEMMA SipRequestsSession ==
  ASSUME NEW r \in PushRecord, Ready(r), r.owner = "sip",
         r.map # "expunged" => NoRelease(r.mapq), r.map # "idle", NEW k
  PROVE  /\ SessionSound(OnDialogBye(r)) /\ SessionSound(OnByeNoReply(r))
         /\ SessionSound(OnDialogInfo(r, k)) /\ SessionSound(OnInfoNoReply(r))
         /\ SessionSound(OnTransportError(r))
<1> DEFINE c == CancelTimer(r)
<1>1. Plain(r, c) /\ c \in PushRecord /\ c.conn = r.conn
  BY SipPlain
<1> HIDE DEF c
<1>2. /\ "SUCCESS" \in CdrStatuses \ UnsentStatuses
      /\ "FAILED_CORRUPTED_MESSAGE" \in CdrStatuses \ UnsentStatuses
      /\ TransportStatuses \subseteq CdrStatuses \ UnsentStatuses
  BY DEF CdrStatuses, UnsentStatuses, SriStatuses, TransportStatuses
<1>3. ASSUME NEW b, Plain(r, b), b.conn # "confirmed"
      PROVE  /\ SessionSound(b)
             /\ SessionSound(CreateCdr(b, "SUCCESS"))
             /\ SessionSound(Fail(b, "FAILED_CORRUPTED_MESSAGE"))
  BY <1>2, <1>3, PlainSession, PlainBilled
<1>4. SessionSound(OnDialogBye(r))
  <2> DEFINE b == ByeAccepted(c)
             x == Expunge(b, "answer")
  <2>1. Plain(c, b) /\ b \in PushRecord /\ b.conn # "confirmed"
    BY <1>1, SipPlain DEF ByeAccepted
  <2> HIDE DEF b
  <2>2. Plain(r, b)
    BY <1>1, <2>1, PlainTrans
  <2>3. CASE b.map = "active"
    <3>1. "answer" \in Endings /\ b.map \in Running
      BY <2>3 DEF Endings, Running
    <3>2. Plain(b, x) /\ x.conn # "confirmed"
      BY <2>1, <3>1, ExpungeTame DEF Plain
    <3> HIDE DEF x
    <3>3. Plain(r, x)
      BY <2>2, <3>2, PlainTrans
    <3>4. SessionSound(CreateCdr(x, "SUCCESS"))
      BY <1>3, <3>2, <3>3
    <3> QED
      BY <2>3, <3>4 DEF OnDialogBye, x, b, c
  <2>4. CASE b.map # "active"
    <3>1. SessionSound(b) /\ SessionSound(CreateCdr(b, "SUCCESS"))
      BY <1>3, <2>1, <2>2
    <3> QED
      BY <2>4, <3>1 DEF OnDialogBye, b, c
  <2> QED
    BY <2>3, <2>4
<1>5. ASSUME NEW b \in {r, c}, NEW x \in TransportStatuses
      PROVE  SessionSound(Fail(AbortMapDialog(b), x))
  <2> DEFINE a == AbortMapDialog(b)
  <2>1. Plain(r, b) /\ b \in PushRecord /\ b.conn = r.conn
    BY <1>1, <1>5, SipPlain
  <2>2. Plain(b, a) /\ a.conn = b.conn
    BY <2>1, SipPlain
  <2> HIDE DEF a
  <2>3. Plain(r, a) /\ a.conn = r.conn
    BY <2>1, <2>2, PlainTrans
  <2>4. SessionSound(Fail(a, x))
    BY <1>2, <1>5, <2>3, PlainBilled
  <2> QED
    BY <2>4 DEF a
<1>6. SessionSound(OnByeNoReply(r)) /\ SessionSound(OnTransportError(r))
  BY <1>5 DEF OnByeNoReply, OnTransportError, TransportStatuses, c
<1>7. SessionSound(OnCorruptedInfo(c))
  <2> DEFINE b == AbortSipDialog(c)
             a == AbortMapDialog(b)
  <2>1. Plain(c, b) /\ b \in PushRecord /\ b.conn # "confirmed"
    BY <1>1, SipPlain
  <2> HIDE DEF b
  <2>2. Plain(b, a) /\ a.conn = b.conn
    BY <2>1, SipPlain
  <2> HIDE DEF a
  <2>3. Plain(r, a)
    BY <1>1, <2>1, <2>2, PlainTrans
  <2>4. SessionSound(Fail(a, "FAILED_CORRUPTED_MESSAGE"))
    BY <1>3, <2>1, <2>2, <2>3
  <2> QED
    BY <2>4 DEF OnCorruptedInfo, a, b
<1>8. ASSUME NEW op \in {"request", "notify"}, SendOk(c)
      PROVE  SessionSound(MapSend(c, {op}))
  BY <1>1, <1>8, SipSentSession DEF Operations
<1>9. OnDialogInfo(r, k) \in
        {OnCorruptedInfo(c)} \cup
        {MapSend(c, {op}) : op \in IF SendOk(c) THEN {"request", "notify"} ELSE {}}
  BY Zenon DEF OnDialogInfo, c
<1>10. SessionSound(OnDialogInfo(r, k)) /\ SessionSound(OnInfoNoReply(r))
  BY <1>7, <1>8, <1>9 DEF OnInfoNoReply, c
<1> QED
  BY <1>4, <1>6, <1>10

-----------------------------------------------------------------------------
(***************************************************************************)
(* The HTTP server SBB: the POSTs of a session.                            *)
(***************************************************************************)
\* The next POST is suspended and the timer of the application cancelled.
LEMMA SuspendReady ==
  ASSUME NEW r \in PushRecord, Ready(r), r.owner = "http", r.ctx = "none",
         r.map # "expunged" => NoRelease(r.mapq)
  PROVE  LET c == SuspendPost(CancelTimer(r))
         IN  /\ c \in PushRecord /\ Ready(c) /\ c.owner = "http" /\ c.ctx # "none"
             /\ << c.map, c.mapq, c.conn, c.cdr, c.timers >>
                = << r.map, r.mapq, r.conn, r.cdr, {} >>
             /\ Live(c) =>
                  /\ Asked(c) = {} /\ ~Queued(c.mapq, Replied(c))
                  /\ ~c.handshake \/ ~Queued(c.mapq, {"Accept"})
<1> DEFINE a == CancelTimer(r)
           c == SuspendPost(a)
<1>1. a \in PushRecord
  BY CancelTimerEvolves DEF Evolves
<1>2. /\ << a.owner, a.handshake, a.queries, a.answers, a.map, a.mapq, a.ending, a.ctx,
            a.conn, a.timerID, a.cdr, a.established, a.final, a.invokes >>
         = << r.owner, r.handshake, r.queries, r.answers, r.map, r.mapq, r.ending, r.ctx,
              r.conn, r.timerID, r.cdr, r.established, r.final, r.invokes >>
      /\ a.timers = r.timers \ {r.timerID}
  BY DEF CancelTimer, PushRecord
<1> HIDE DEF a
<1>3. /\ << c.owner, c.handshake, c.queries, c.answers, c.map, c.mapq, c.ending,
            c.conn, c.timerID, c.cdr, c.established, c.final, c.invokes, c.timers >>
         = << a.owner, a.handshake, a.queries, a.answers, a.map, a.mapq, a.ending,
              a.conn, a.timerID, a.cdr, a.established, a.final, a.invokes, a.timers >>
      /\ c.ctx = "session"
  BY <1>1 DEF SuspendPost, PushRecord
<1>4. c \in PushRecord
  BY <1>1, SuspendEvolves DEF Evolves
<1> HIDE DEF c
<1>5. c.timers = {}
  BY <1>2, <1>3 DEF Ready, TimerSound
<1>6. /\ (Live(c) <=> Live(r)) /\ (Going(c) <=> Going(r)) /\ Asked(c) = Asked(r)
      /\ Replied(c) = Replied(r)
  BY <1>2, <1>3 DEF Live, Going, Asked, Replied
<1>7. AcceptSound(c) /\ ReleaseLast(c)
  BY <1>2, <1>3, <1>6 DEF Ready, AcceptSound, ReleaseLast
<1>8. BlankSound(c) /\ FailedSound(c) /\ BilledTold(c)
  BY <1>2, <1>3, <1>5 DEF Ready, BlankSound, FailedSound, BilledTold
<1>9. TimerSound(c)
  BY <1>2, <1>3, <1>5 DEF Ready, TimerSound
<1>10. AnswerSound(c)
  BY <1>2, <1>3, <1>6 DEF Ready, AnswerSound
<1>11. Live(c) =>
         /\ Asked(c) = {} /\ ~Queued(c.mapq, Replied(c))
         /\ ~c.handshake \/ ~Queued(c.mapq, {"Accept"})
  BY <1>2, <1>3, <1>6 DEF Ready, AnswerSound, Going
<1> QED
  BY <1>2, <1>3, <1>4, <1>5, <1>7, <1>8, <1>9, <1>10, <1>11 DEF Ready, c, a

\* onSessionPost.
LEMMA HttpPostSession ==
  ASSUME NEW r \in PushRecord, SessionSound(r), r.owner = "http", r.map # "idle",
         r.map # "expunged" => NoRelease(r.mapq), r.conn \in {"open", "over"},
         NEW k \in SessionPosts
  PROVE  SessionSound(OnSessionPost(r, k))
<1> DEFINE c == SuspendPost(CancelTimer(r))
<1>1. CASE r.ctx # "none"
  BY <1>1 DEF OnSessionPost
<1>2. CASE r.ctx = "none"
  <2>1. /\ c \in PushRecord /\ Ready(c) /\ c.owner = "http" /\ c.ctx # "none"
        /\ << c.map, c.mapq, c.conn, c.cdr, c.timers >>
           = << r.map, r.mapq, r.conn, r.cdr, {} >>
        /\ Live(c) =>
             /\ Asked(c) = {} /\ ~Queued(c.mapq, Replied(c))
             /\ ~c.handshake \/ ~Queued(c.mapq, {"Accept"})
    BY <1>2, SuspendReady DEF SessionSound
  <2> HIDE DEF c
  <2>2. /\ "FAILED_CORRUPTED_MESSAGE" \in CdrStatuses \ UnsentStatuses
        /\ "ABORT_APP" \in CdrStatuses \ UnsentStatuses
        /\ "SUCCESS" \in CdrStatuses \ UnsentStatuses
    BY DEF CdrStatuses, UnsentStatuses, SriStatuses
  <2>3. ASSUME NEW s, NEW x \in CdrStatuses \ UnsentStatuses, Quits(c, s, x)
        PROVE  SessionSound(s)
    BY <2>1, <2>3, QuitsSession
  <2>4. /\ SessionSound(OnFailedPost(c)) /\ SessionSound(OnAbortPost(c))
        /\ SessionSound(OnFinalPost(c))
    BY <2>1, <2>2, <2>3, PostQuits
  <2>5. ASSUME NEW op \in {"request", "notify"}
        PROVE  SessionSound(OnContinuePost(c, op))
    <3>1. CASE SendOk(c)
      <4>1. c.map = "active" /\ Live(c) /\ op \in Operations
        BY <2>1, <3>1 DEF SendOk, Live, Operations
      <4>2. SessionSound(MapSend(c, {op}))
        BY <2>1, <4>1, SentSession
      <4> QED
        BY <3>1, <4>2 DEF OnContinuePost
    <3>2. CASE ~SendOk(c)
      BY <2>4, <3>2 DEF OnContinuePost
    <3> QED
      BY <3>1, <3>2
  <2> QED
    BY <1>2, <2>4, <2>5 DEF OnSessionPost, c
<1> QED
  BY <1>1, <1>2

-----------------------------------------------------------------------------
(***************************************************************************)
(* What the invariant reads.                                               *)
(***************************************************************************)
\* All that it reads, but for the number of queries and the connection.
View(r) == << r.owner, r.handshake, r.answers, r.map, r.invokes, r.ending, r.mapq, r.ctx,
              r.final, r.timerID, r.timers, r.cdr, r.established >>

\* Whatever else changes; a SIP application may leave its dialog.
LEMMA ViewSession ==
  ASSUME NEW r, SessionSound(r), NEW s, View(s) = View(r),
         s.queries = r.queries \/ r.queries > 0,
         s.conn = r.conn \/ (r.owner = "sip" /\ s.conn # "confirmed")
  PROVE  SessionSound(s)
<1>1. /\ s.owner = r.owner /\ s.handshake = r.handshake /\ s.answers = r.answers
      /\ s.map = r.map /\ s.invokes = r.invokes /\ s.ending = r.ending /\ s.mapq = r.mapq
      /\ s.ctx = r.ctx /\ s.final = r.final /\ s.timerID = r.timerID
      /\ s.timers = r.timers /\ s.cdr = r.cdr /\ s.established = r.established
  BY DEF View
<1>2. Live(s) <=> Live(r)
  BY <1>1 DEF Live
<1>3. Asked(s) = Asked(r) /\ Replied(s) = Replied(r) /\ (Going(s) <=> Going(r))
  BY <1>1, <1>2 DEF Asked, Replied, Going
<1>4. BlankSound(s) /\ AcceptSound(s) /\ ReleaseLast(s)
  BY <1>1, <1>2 DEF SessionSound, Ready, BlankSound, AcceptSound, ReleaseLast
<1>5. FailedSound(s) /\ BilledTold(s)
  BY <1>1 DEF SessionSound, Ready, FailedSound, BilledTold
<1>6. TimerSound(s)
  BY <1>1 DEF SessionSound, Ready, TimerSound
<1>7. AnswerSound(s)
  BY <1>1, <1>2, <1>3 DEF SessionSound, Ready, AnswerSound
<1>8. HeardSound(s)
  BY <1>1, <1>2 DEF SessionSound, HeardSound, Waits
<1> QED
  BY <1>4, <1>5, <1>6, <1>7, <1>8 DEF SessionSound, Ready

-----------------------------------------------------------------------------
(***************************************************************************)
(* The mobile and the MAP stack.                                           *)
(***************************************************************************)
\* A dialog in service.
Lives(r) == r \in PushRecord /\ Ready(r) /\ Live(r) /\ NoRelease(r.mapq)

\* All of the record that signals of the mobile leave alone.
Silent(r) == << r.owner, r.handshake, r.queries, r.ctx, r.conn, r.final, r.timerID,
                r.cdr, r.established >>

\* The questions and answers of a record with the same error message.
LEMMA SameError ==
  ASSUME NEW r, NEW s, s.final = r.final
  PROVE  /\ Replied(s) = Replied(r)
         /\ s.invokes \subseteq r.invokes => Asked(s) \subseteq Asked(r)
BY DEF Replied, Asked

\* A signal that joins the queue.
LEMMA SignalLives ==
  ASSUME NEW r, Lives(r), NEW s \in PushRecord, Silent(s) = Silent(r), s.map = r.map,
         s.invokes \subseteq r.invokes, s.timers \subseteq r.timers,
         NEW e \in MapEvents \ {"Release", "Accept"}, s.mapq = Append(r.mapq, e),
         r.owner = "http" /\ e \in Held =>
           ~(r.handshake /\ (r.map = "initialSent" \/ Queued(r.mapq, {"Accept"}))),
         e \in AnswerEvents => r.map = "active",
         r.owner = "http" /\ e \in Replied(r) => Asked(r) # {} /\ Asked(s) = {},
         e = "UnstructuredSSResponse" => "request" \in r.invokes \ s.invokes
  PROVE  Lives(s)
<1>1. r \in PushRecord /\ Ready(r) /\ Live(r) /\ NoRelease(r.mapq)
  BY DEF Lives
<1>2. /\ s.owner = r.owner /\ s.handshake = r.handshake /\ s.queries = r.queries
      /\ s.ctx = r.ctx /\ s.conn = r.conn /\ s.final = r.final /\ s.timerID = r.timerID
      /\ s.cdr = r.cdr /\ s.established = r.established /\ s.map = r.map
  BY DEF Silent
<1>3. r.mapq \in Seq(MapEvents) /\ e \in MapEvents
  BY <1>1 DEF PushRecord
<1>4. ASSUME NEW es
      PROVE  /\ Queued(s.mapq, es) <=> Queued(r.mapq, es) \/ e \in es
             /\ AtMostOne(r.mapq, es) /\ (e \notin es \/ ~Queued(r.mapq, es)) =>
                  AtMostOne(s.mapq, es)
  BY <1>3, QueuedAppend
<1>5. Replied(s) = Replied(r) /\ Asked(s) \subseteq Asked(r) /\ (Going(s) <=> Going(r))
  BY <1>2, SameError DEF Going, Live
<1>6. Live(s) /\ NoRelease(s.mapq)
  BY <1>1, <1>2, <1>3, NoReleaseAppend DEF Live
<1>7. ReleaseLast(s)
  BY <1>6 DEF ReleaseLast, NoRelease
<1>8. BlankSound(s) /\ FailedSound(s) /\ BilledTold(s)
  BY <1>1, <1>2 DEF Ready, BlankSound, FailedSound, BilledTold, Live
<1>9. AcceptSound(s)
  <2>1. AcceptSound(r)
    BY <1>1 DEF Ready
  <2>2. e \notin {"Accept"}
    OBVIOUS
  <2>3. /\ Queued(s.mapq, {"Accept"}) <=> Queued(r.mapq, {"Accept"})
        /\ AtMostOne(r.mapq, {"Accept"}) => AtMostOne(s.mapq, {"Accept"})
    BY <1>4, <2>2
  <2> QED
    BY <1>1, <1>2, <2>1, <2>3 DEF AcceptSound, Live
<1>10. TimerSound(s)
  <2>1. TimerSound(r)
    BY <1>1 DEF Ready
  <2>2. /\ Queued(s.mapq, {"UnstructuredSSResponse"}) <=>
             Queued(r.mapq, {"UnstructuredSSResponse"}) \/ e = "UnstructuredSSResponse"
        /\ AtMostOne(r.mapq, {"UnstructuredSSResponse"})
           /\ (e # "UnstructuredSSResponse" \/ ~Queued(r.mapq, {"UnstructuredSSResponse"}))
             => AtMostOne(s.mapq, {"UnstructuredSSResponse"})
    BY <1>4
  <2> QED
    BY <1>2, <2>1, <2>2 DEF TimerSound
<1>11. AnswerSound(s)
  <2> SUFFICES ASSUME r.owner = "http"
               PROVE  AnswerSound(s)
    BY <1>2 DEF AnswerSound
  <2>1. AnswerSound(r)
    BY <1>1 DEF Ready
  <2>2. s.cdr = "none" => ~s.final
    BY <1>2, <2>1 DEF AnswerSound
  <2>3. s.map = "initialSent" => ~Queued(s.mapq, AnswerEvents)
    BY <1>2, <1>4, <2>1 DEF AnswerSound
  <2>4. ASSUME Going(s)
        PROVE  /\ AtMostOne(s.mapq, Replied(s))
               /\ \A a, b \in Asked(s) : a = b
               /\ Queued(s.mapq, Replied(s)) => Asked(s) = {}
               /\ Queued(s.mapq, Replied(s)) \/ Asked(s) # {} => s.ctx # "none"
    <3>1. /\ Queued(s.mapq, Replied(r)) <=> Queued(r.mapq, Replied(r)) \/ e \in Replied(r)
          /\ AtMostOne(r.mapq, Replied(r)) /\ (e \notin Replied(r) \/ ~Queued(r.mapq, Replied(r)))
               => AtMostOne(s.mapq, Replied(r))
      BY <1>4
    <3>2. /\ AtMostOne(r.mapq, Replied(r))
          /\ \A a, b \in Asked(r) : a = b
          /\ Queued(r.mapq, Replied(r)) => Asked(r) = {}
          /\ Queued(r.mapq, Replied(r)) \/ Asked(r) # {} => r.ctx # "none"
      BY <1>5, <2>1, <2>4 DEF AnswerSound
    <3> QED
      BY <1>2, <1>5, <3>1, <3>2
  <2>5. Live(s) /\ s.handshake /\ (s.map = "initialSent" \/ Queued(s.mapq, {"Accept"})) =>
          s.ctx # "none" /\ s.invokes = {} /\ ~Queued(s.mapq, Held) /\ ~s.final
    <3>1. Queued(s.mapq, {"Accept"}) <=> Queued(r.mapq, {"Accept"})
      BY <1>4
    <3>2. Queued(s.mapq, Held) <=> Queued(r.mapq, Held) \/ e \in Held
      BY <1>4
    <3> QED
      BY <1>1, <1>2, <2>1, <3>1, <3>2 DEF AnswerSound
  <2> QED
    BY <2>2, <2>3, <2>4, <2>5 DEF AnswerSound
<1> QED
  BY <1>6, <1>7, <1>8, <1>9, <1>10, <1>11 DEF Lives, Ready

\* A dialog in service is sound.
LEMMA LivesSession ==
  ASSUME NEW r, Lives(r)
  PROVE  SessionSound(r)
BY DEF Lives, SessionSound, HeardSound

\* The first message of the mobile accepts the dialog.
LEMMA ReachedLives ==
  ASSUME NEW r, Lives(r), NEW tcap \in TcapTypes
  PROVE  LET s == Reached(r, tcap)
         IN  Lives(s) /\ s.map = "active" /\ Silent(s) = Silent(r) /\ s.invokes = r.invokes
<1> DEFINE s == Reached(r, tcap)
<1>1. r \in PushRecord /\ Ready(r) /\ Live(r) /\ NoRelease(r.mapq)
  BY DEF Lives
<1>2. r.mapq \in Seq(MapEvents) /\ "Accept" \in MapEvents
  BY <1>1 DEF PushRecord, MapEvents
<1>3. s \in PushRecord
  BY <1>1, ReachedSignals DEF Signals
<1>4. /\ s.owner = r.owner /\ s.handshake = r.handshake /\ s.queries = r.queries
      /\ s.ctx = r.ctx /\ s.conn = r.conn /\ s.final = r.final /\ s.timerID = r.timerID
      /\ s.cdr = r.cdr /\ s.established = r.established
      /\ s.invokes = r.invokes /\ s.timers = r.timers /\ s.map = "active"
      /\ s.mapq = IF r.map = "initialSent" THEN Append(r.mapq, "Accept") ELSE r.mapq
  BY <1>1 DEF Reached, Fire, PushRecord, Live
<1> HIDE DEF s
<1>5. Live(s) /\ Replied(s) = Replied(r) /\ Asked(s) = Asked(r) /\ (Going(s) <=> Going(r))
  BY <1>1, <1>4 DEF Live, Replied, Asked, Going
<1>6. ASSUME NEW es, "Accept" \notin es
      PROVE  /\ Queued(s.mapq, es) <=> Queued(r.mapq, es)
             /\ AtMostOne(r.mapq, es) => AtMostOne(s.mapq, es)
  BY <1>2, <1>4, <1>6, QueuedAppend
<1>7. NoRelease(s.mapq)
  BY <1>1, <1>2, <1>4, NoReleaseAppend
<1>8. ReleaseLast(s)
  BY <1>7 DEF ReleaseLast, NoRelease
<1>9. BlankSound(s) /\ FailedSound(s) /\ BilledTold(s)
  BY <1>1, <1>4 DEF Ready, BlankSound, FailedSound, BilledTold
<1>10. AcceptSound(s)
  <2>1. AcceptSound(r)
    BY <1>1 DEF Ready
  <2>2. CASE r.map = "initialSent"
    <3>1. /\ ~Queued(r.mapq, {"Accept"}) /\ ~r.established
          /\ AtMostOne(r.mapq, {"Accept"}) /\ r.cdr \notin UnsentStatuses
      BY <1>1, <2>1, <2>2 DEF AcceptSound
    <3>2. AtMostOne(s.mapq, {"Accept"})
      BY <1>2, <1>4, <2>2, <3>1, QueuedAppend
    <3> QED
      BY <1>4, <3>1, <3>2 DEF AcceptSound
  <2>3. CASE r.map # "initialSent"
    BY <1>1, <1>4, <2>1, <2>3 DEF AcceptSound, Live
  <2> QED
    BY <2>2, <2>3
<1>11. TimerSound(s)
  <2>1. TimerSound(r)
    BY <1>1 DEF Ready
  <2>2. /\ Queued(s.mapq, {"UnstructuredSSResponse"}) <=>
             Queued(r.mapq, {"UnstructuredSSResponse"})
        /\ AtMostOne(r.mapq, {"UnstructuredSSResponse"})
             => AtMostOne(s.mapq, {"UnstructuredSSResponse"})
    BY <1>6
  <2> QED
    BY <1>4, <2>1, <2>2 DEF TimerSound
<1>12. AnswerSound(s)
  <2> SUFFICES ASSUME r.owner = "http"
               PROVE  AnswerSound(s)
    BY <1>4 DEF AnswerSound
  <2>1. AnswerSound(r)
    BY <1>1 DEF Ready
  <2>2. /\ Queued(s.mapq, Replied(r)) <=> Queued(r.mapq, Replied(r))
        /\ AtMostOne(r.mapq, Replied(r)) => AtMostOne(s.mapq, Replied(r))
    <3>1. "Accept" \notin Replied(r)
      BY DEF Replied, AnswerEvents
    <3> QED
      BY <1>6, <3>1
  <2>3. Queued(s.mapq, Held) <=> Queued(r.mapq, Held)
    <3>1. "Accept" \notin Held
      BY DEF Held, AnswerEvents
    <3> QED
      BY <1>6, <3>1
  <2>4. Queued(s.mapq, {"Accept"}) => r.map = "initialSent" \/ Queued(r.mapq, {"Accept"})
    BY <1>4
  <2>5. Live(s) /\ s.handshake /\ (s.map = "initialSent" \/ Queued(s.mapq, {"Accept"})) =>
          s.ctx # "none" /\ s.invokes = {} /\ ~Queued(s.mapq, Held) /\ ~s.final
    BY <1>1, <1>4, <2>1, <2>3, <2>4 DEF AnswerSound
  <2> QED
    BY <1>4, <1>5, <2>1, <2>2, <2>5 DEF AnswerSound
<1>13. Silent(s) = Silent(r)
  BY <1>4 DEF Silent
<1> QED
  BY <1>3, <1>4, <1>5, <1>7, <1>8, <1>9, <1>10, <1>11, <1>12, <1>13 DEF Lives, Ready, s

\* The mobile answers an operation that it was asked.
LEMMA AnswerLives ==
  ASSUME NEW r, Lives(r), r.map = "active", NEW op \in r.invokes, NEW e \in Replies(op)
  PROVE  Lives(Answer(r, op, e))
<1> DEFINE s == Answer(r, op, e)
<1>1. r \in PushRecord /\ Ready(r) /\ Live(r) /\ NoRelease(r.mapq)
  BY DEF Lives
<1>2. op \in Operations
  BY <1>1 DEF PushRecord
<1>3. e \in MapEvents \ {"Release", "Accept"}
  BY <1>2 DEF Replies, AnswerOf, Operations, MapEvents, AnswerEvents
<1>4. r.mapq \in Seq(MapEvents)
  BY <1>1 DEF PushRecord
<1>5. Append(r.mapq, e) \in Seq(MapEvents)
  BY <1>3, <1>4, MapQueue
<1>6. s \in PushRecord
  BY <1>1, <1>5 DEF Answer, Fire, PushRecord
<1>7. /\ Silent(s) = Silent(r) /\ s.map = r.map /\ s.invokes = r.invokes \ {op}
      /\ s.timers = r.timers /\ s.mapq = Append(r.mapq, e) /\ s.final = r.final
  BY <1>1 DEF Answer, Fire, Silent, PushRecord
<1> HIDE DEF s
<1>8. r.owner = "http" =>
        ~(r.handshake /\ (r.map = "initialSent" \/ Queued(r.mapq, {"Accept"})))
  BY <1>1 DEF Ready, AnswerSound
<1>9. ASSUME e \in Replied(r), r.owner = "http"
      PROVE  Asked(r) # {} /\ Asked(s) = {}
  <2>1. op \in Asked(r)
    BY <1>2, <1>9 DEF Replied, Asked, Replies, AnswerOf, Operations, AnswerEvents
  <2>2. \A a, b \in Asked(r) : a = b
    BY <1>1, <1>9 DEF Ready, AnswerSound, Going
  <2>3. Asked(s) = Asked(r) \ {op}
    BY <1>7 DEF Asked
  <2> QED
    BY <2>1, <2>2, <2>3
<1>10. e = "UnstructuredSSResponse" => "request" \in r.invokes \ s.invokes
  BY <1>2, <1>7 DEF Replies, AnswerOf, Operations
<1> QED
  BY <1>3, <1>6, <1>7, <1>8, <1>9, <1>10, SignalLives DEF s

\* A dialog in service that the mobile or the stack ends.
LEMMA EndSession ==
  ASSUME NEW r, Lives(r), NEW how \in Endings,
         how = "peerEnd" \/ Queued(r.mapq, EndEvents)
  PROVE  SessionSound(Expunge(r, how))
<1> DEFINE s == Expunge(r, how)
<1>1. r \in PushRecord /\ Ready(r) /\ Live(r) /\ NoRelease(r.mapq) /\ r.map \in Running
  BY DEF Lives, Live, Running
<1>2. /\ Tame(r, s) /\ ~Live(s) /\ s.map = "expunged" /\ s.ending = how
      /\ s.mapq = Append(r.mapq, "Release") /\ s.invokes = {}
      /\ s.ctx = r.ctx /\ s.conn = r.conn /\ s.cdr = r.cdr
  BY <1>1, ExpungeTame
<1> HIDE DEF s
<1>3. /\ s.owner = r.owner /\ s.queries = r.queries /\ s.timerID = r.timerID
      /\ s.timers \subseteq r.timers /\ s.final = r.final
  BY <1>1, <1>2, TameFacts DEF Tame, Calm
<1>4. AcceptSound(s) /\ ReleaseLast(s)
  BY <1>1, <1>2, CalmAccept, CalmQueue DEF Tame
<1>5. ASSUME NEW es, "Release" \notin es
      PROVE  /\ Queued(s.mapq, es) <=> Queued(r.mapq, es)
             /\ AtMostOne(r.mapq, es) => AtMostOne(s.mapq, es)
  BY <1>1, <1>2, <1>5, CalmQueue DEF Tame
<1>6. BlankSound(s) /\ FailedSound(s) /\ BilledTold(s)
  BY <1>1, <1>2, <1>3 DEF Ready, BlankSound, FailedSound, BilledTold
<1>7. TimerSound(s)
  <2>1. /\ Queued(s.mapq, {"UnstructuredSSResponse"}) <=>
             Queued(r.mapq, {"UnstructuredSSResponse"})
        /\ AtMostOne(r.mapq, {"UnstructuredSSResponse"})
             => AtMostOne(s.mapq, {"UnstructuredSSResponse"})
    BY <1>5
  <2> QED
    BY <1>1, <1>2, <1>3, <2>1 DEF Ready, TimerSound
<1>8. AnswerSound(s)
  <2>1. AnswerSound(r)
    BY <1>1 DEF Ready
  <2>2. Replied(s) = Replied(r) /\ Asked(s) = {} /\ Going(r)
    BY <1>1, <1>2, <1>3 DEF Replied, Asked, Going
  <2>3. "Release" \notin Replied(r)
    BY DEF Replied, AnswerEvents
  <2>4. /\ Queued(s.mapq, Replied(r)) <=> Queued(r.mapq, Replied(r))
        /\ AtMostOne(r.mapq, Replied(r)) => AtMostOne(s.mapq, Replied(r))
    BY <1>5, <2>3
  <2> QED
    BY <1>2, <1>3, <2>1, <2>2, <2>4 DEF AnswerSound
<1>9. HeardSound(s)
  <2>1. "Release" \notin EndEvents
    BY DEF EndEvents, AbortEvents
  <2>2. Queued(s.mapq, EndEvents) <=> Queued(r.mapq, EndEvents)
    BY <1>5, <2>1
  <2> QED
    BY <1>2, <2>2 DEF HeardSound
<1> QED
  BY <1>4, <1>6, <1>7, <1>8, <1>9 DEF SessionSound, Ready, s

BecomesSession(d) == \E s : Becomes(d, s) /\ SessionSound(s)

\* The network or a timer reports to a dialog in service.
LEMMA ReportLives ==
  ASSUME NEW r, Lives(r), NEW s \in PushRecord, Silent(s) = Silent(r), s.map = r.map,
         s.invokes \subseteq r.invokes, s.timers \subseteq r.timers,
         NEW e \in EndEvents \cup {"InvokeTimeout", "Timer"},
         e = "Timer" /\ r.owner = "http" => r.timers # {}
  PROVE  s.mapq = Append(r.mapq, e) => Lives(s)
<1>1. e \in MapEvents \ {"Release", "Accept"} /\ e \notin AnswerEvents
  BY DEF EndEvents, AbortEvents, MapEvents, AnswerEvents
<1>2. e \in Held => e = "Timer"
  BY <1>1 DEF Held
<1>3. r.owner = "http" /\ e \in Held =>
        ~(r.handshake /\ (r.map = "initialSent" \/ Queued(r.mapq, {"Accept"})))
  BY <1>2 DEF Lives, Ready, AnswerSound, TimerSound
<1>4. e \notin Replied(r) /\ e # "UnstructuredSSResponse"
  BY <1>1 DEF Replied, AnswerEvents
<1> QED
  BY <1>1, <1>3, <1>4, SignalLives

\* The mobile answers, its network fails, or a timer expires.
LEMMA MobileSession ==
  ASSUME TypeOK, NEW d \in Dialogs, SessionSound(dlg[d]), Consistent(dlg[d]), Mobile(d)
  PROVE  BecomesSession(d)
<1> DEFINE r == dlg[d]
<1>1. r \in PushRecord
  BY DEF TypeOK
<1>2. Live(r)
  BY DEF Mobile, MobileAnswers, MobileEnds, MobileAborts, InvokeExpires, DialogExpires,
         TimerExpires
<1>3. Lives(r)
  BY <1>1, <1>2 DEF Lives, SessionSound, Consistent, MapConsistent, Live
<1>4. /\ "peerEnd" \in Endings /\ "peerAbort" \in Endings /\ "idle" \in Endings
      /\ "Continue" \in TcapTypes /\ "End" \in TcapTypes /\ "Abort" \in TcapTypes
  BY DEF Endings, TcapTypes
<1>5. ASSUME NEW q, Lives(q), Update(d, q) \/ Update(d, Expunge(q, "peerEnd"))
      PROVE  BecomesSession(d)
  BY <1>4, <1>5, LivesSession, EndSession DEF BecomesSession, Update
<1>6. ASSUME NEW tcap \in TcapTypes
      PROVE  /\ Lives(Reached(r, tcap))
             /\ \A op \in r.invokes : \A e \in Replies(op) :
                  Lives(Answer(Reached(r, tcap), op, e))
  <2> DEFINE q == Reached(r, tcap)
  <2>1. Lives(q) /\ q.map = "active" /\ q.invokes = r.invokes
    BY <1>3, ReachedLives
  <2> HIDE DEF q
  <2>2. \A op \in r.invokes : \A e \in Replies(op) : Lives(Answer(q, op, e))
    BY <2>1, AnswerLives
  <2> QED
    BY <2>1, <2>2 DEF q
<1>7. ASSUME NEW q \in PushRecord, Silent(q) = Silent(r), q.map = r.map,
             q.invokes \subseteq r.invokes, q.timers \subseteq r.timers, q.mapq = r.mapq,
             NEW e \in EndEvents \cup {"InvokeTimeout", "Timer"},
             e = "Timer" => r.timers # {}
      PROVE  /\ Lives(Fire(q, e))
             /\ e \in EndEvents => Queued(Fire(q, e).mapq, EndEvents)
  <2> DEFINE s == Fire(q, e)
  <2>1. e \in MapEvents /\ r.mapq \in Seq(MapEvents)
    BY <1>1 DEF EndEvents, AbortEvents, MapEvents, PushRecord
  <2>2. Append(r.mapq, e) \in Seq(MapEvents)
    BY <2>1, MapQueue
  <2>3. s \in PushRecord
    BY <1>7, <2>2 DEF Fire, PushRecord
  <2>4. /\ Silent(s) = Silent(q) /\ s.map = q.map /\ s.invokes = q.invokes
        /\ s.timers = q.timers /\ s.mapq = Append(q.mapq, e)
    BY <1>7 DEF Fire, Silent, PushRecord
  <2> HIDE DEF s
  <2>5. Lives(s)
    BY <1>3, <1>7, <2>3, <2>4, ReportLives
  <2>6. e \in EndEvents => Queued(s.mapq, EndEvents)
    BY <1>7, <2>1, <2>4, QueuedAppend
  <2> QED
    BY <2>5, <2>6 DEF s
<1> HIDE DEF r
<1>8. CASE MobileAnswers(d)
  BY <1>4, <1>5, <1>6, <1>8 DEF MobileAnswers, r
<1>9. CASE MobileEnds(d)
  BY <1>4, <1>5, <1>6, <1>9 DEF MobileEnds, r
<1>10. CASE MobileAborts(d)
  <2> DEFINE q == [r EXCEPT !.tcap = "Abort"]
  <2>1. PICK e \in {"Reject", "UserAbort", "ProviderAbort"} :
          Update(d, Expunge(Fire(q, e), "peerAbort"))
    BY <1>10 DEF MobileAborts, r
  <2>2. /\ q \in PushRecord /\ Silent(q) = Silent(r) /\ q.map = r.map
        /\ q.invokes = r.invokes /\ q.timers = r.timers /\ q.mapq = r.mapq
    BY <1>1, <1>4 DEF PushRecord, Silent
  <2> HIDE DEF q
  <2>3. e \in EndEvents /\ e # "Timer"
    BY DEF EndEvents, AbortEvents
  <2>4. Lives(Fire(q, e)) /\ Queued(Fire(q, e).mapq, EndEvents)
    BY <1>7, <2>2, <2>3
  <2>5. SessionSound(Expunge(Fire(q, e), "peerAbort"))
    BY <1>4, <2>4, EndSession
  <2> QED
    BY <2>1, <2>5 DEF BecomesSession, Update
<1>11. CASE InvokeExpires(d)
  <2>1. PICK op \in r.invokes :
          Update(d, Fire([r EXCEPT !.invokes = @ \ {op}], "InvokeTimeout"))
    BY <1>11 DEF InvokeExpires, r
  <2> DEFINE q == [r EXCEPT !.invokes = @ \ {op}]
  <2>2. /\ q \in PushRecord /\ Silent(q) = Silent(r) /\ q.map = r.map
        /\ q.invokes \subseteq r.invokes /\ q.timers = r.timers /\ q.mapq = r.mapq
    BY <1>1 DEF PushRecord, Silent
  <2> HIDE DEF q
  <2>3. Lives(Fire(q, "InvokeTimeout"))
    BY <1>7, <2>2
  <2> QED
    BY <1>5, <2>1, <2>3 DEF q
<1>12. CASE DialogExpires(d)
  <2>1. "DialogTimeout" \in EndEvents
    BY DEF EndEvents
  <2>2. Lives(Fire(r, "DialogTimeout")) /\ Queued(Fire(r, "DialogTimeout").mapq, EndEvents)
    BY <1>1, <1>7, <2>1
  <2>3. SessionSound(Expunge(Fire(r, "DialogTimeout"), "idle"))
    BY <1>4, <2>2, EndSession
  <2>4. SessionSound(Fire(r, "DialogTimeout"))
    BY <2>2, LivesSession
  <2> QED
    BY <1>12, <2>3, <2>4 DEF DialogExpires, BecomesSession, Update, r
<1>13. CASE TimerExpires(d)
  <2>1. PICK t \in r.timers : Update(d, Fire([r EXCEPT !.timers = @ \ {t}], "Timer"))
    BY <1>13 DEF TimerExpires, r
  <2> DEFINE q == [r EXCEPT !.timers = @ \ {t}]
  <2>2. /\ q \in PushRecord /\ Silent(q) = Silent(r) /\ q.map = r.map
        /\ q.invokes = r.invokes /\ q.timers \subseteq r.timers /\ q.mapq = r.mapq
    BY <1>1 DEF PushRecord, Silent
  <2> HIDE DEF q
  <2>3. Lives(Fire(q, "Timer"))
    BY <1>7, <2>1, <2>2
  <2> QED
    BY <1>5, <2>1, <2>3 DEF q
<1> QED
  BY <1>8, <1>9, <1>10, <1>11, <1>12, <1>13 DEF Mobile

-----------------------------------------------------------------------------
(***************************************************************************)
(* The query of the home register.                                         *)
(***************************************************************************)
\* The query goes on, and nothing else does.
Asks(r, q) ==
  q \in PushRecord /\ View(q) = View(r) /\ q.queries = r.queries /\ q.conn = r.conn

\* The register, whatever it says.
LEMMA RegisterSession ==
  ASSUME TypeOK, NEW d \in Dialogs, SessionSound(dlg[d]), Register(d)
  PROVE  BecomesSession(d)
<1> DEFINE r == dlg[d]
<1>1. r \in PushRecord
  BY DEF TypeOK
<1>2. ASSUME NEW es
      PROVE  SessionSound(FireSri(r, es)) /\ SessionSound(QueryOver(r, es))
  <2>1. /\ View(FireSri(r, es)) = View(r) /\ View(QueryOver(r, es)) = View(r)
        /\ FireSri(r, es).queries = r.queries /\ QueryOver(r, es).queries = r.queries
        /\ FireSri(r, es).conn = r.conn /\ QueryOver(r, es).conn = r.conn
    BY <1>1 DEF FireSri, QueryOver, PushRecord, View
  <2> QED
    BY <2>1, ViewSession
<1>3. ASSUME NEW es, Update(d, FireSri(r, es)) \/ Update(d, QueryOver(r, es))
      PROVE  BecomesSession(d)
  BY <1>2, <1>3 DEF BecomesSession, Update
<1> QED
  BY <1>3 DEF Register, HlrAnswers, HlrAnswersOpen, HlrEnds, HlrAborts, HlrRejects,
              QueryExpires

\* What the SriSbb does on its own.
LEMMA QueryAsks ==
  ASSUME NEW r \in PushRecord, r.sriq # << >>
  PROVE  /\ Asks(r, SriRest(r))
         /\ \A e \in Answers :
              LET s == StoreComponent(SriRest(r), e)
              IN  View(s) = View(r) /\ s.queries = r.queries /\ s.conn = r.conn
<1> DEFINE q == SriRest(r)
<1>1. q \in PushRecord /\ q = [r EXCEPT !.sriq = Tail(r.sriq)]
  BY SriRestType
<1>2. View(q) = View(r) /\ q.queries = r.queries /\ q.conn = r.conn
  BY <1>1 DEF View, PushRecord
<1> HIDE DEF q
<1>3. ASSUME NEW e \in Answers
      PROVE  LET s == StoreComponent(q, e)
             IN  View(s) = View(q) /\ s.queries = q.queries /\ s.conn = q.conn
  <2>1. CASE e = "Response"
    BY <1>1, <2>1 DEF StoreComponent, View, PushRecord
  <2>2. CASE e = "ErrorComponent"
    BY <1>1, <2>2 DEF StoreComponent, View, PushRecord
  <2>3. CASE e = "RejectComponent"
    BY <1>1, <2>3 DEF StoreComponent, View, PushRecord
  <2> QED
    BY <2>1, <2>2, <2>3 DEF Answers
<1> QED
  BY <1>1, <1>2, <1>3 DEF Asks, q

\* The query is left, closed, or repeated.
LEMMA DetachedAsks ==
  ASSUME NEW r, NEW q, Asks(r, q)
  PROVE  /\ Asks(r, DetachFromCurrentDialog(q)) /\ Asks(r, CloseQuery(q))
         /\ View(PerformSriQuery(q)) = View(r) /\ PerformSriQuery(q).conn = r.conn
<1>1. q \in PushRecord /\ << >> \in Seq(SriEvents)
  BY DEF Asks
<1>2. DetachFromCurrentDialog(q) \in PushRecord /\ CloseQuery(q) \in PushRecord
  BY <1>1, DetachedSeen
<1>3. /\ View(DetachFromCurrentDialog(q)) = View(q) /\ View(CloseQuery(q)) = View(q)
      /\ View(PerformSriQuery(q)) = View(q) /\ PerformSriQuery(q).conn = q.conn
      /\ << DetachFromCurrentDialog(q).queries, DetachFromCurrentDialog(q).conn >>
         = << q.queries, q.conn >>
      /\ << CloseQuery(q).queries, CloseQuery(q).conn >> = << q.queries, q.conn >>
  BY <1>1 DEF DetachFromCurrentDialog, CloseQuery, PerformSriQuery, View, PushRecord
<1> QED
  BY <1>2, <1>3 DEF Asks

\* A parent that has just been told.
Begins(r) ==
  /\ r \in PushRecord /\ r.owner \in {"http", "sip"} /\ Ready(r) /\ ~Live(r)
  /\ r.mapq = << >> /\ r.invokes = {} /\ r.timers = {} /\ ~r.final /\ ~r.established
  /\ r.owner = "http" => r.ctx = "first" /\ r.conn = "open" /\ r.cdr = "none"
  /\ r.owner = "sip" => r.cdr \in EarlyStatuses \cup {"none"}

\* The record the parent is told about, and its new dialog.
LEMMA ToldSession ==
  ASSUME NEW r \in PushRecord, Sound(r), Consistent(r), SessionSound(r), r.sriq # << >>,
         NEW q, Asks(r, q)
  PROVE  LET c == ParentAnswered(q)
             n == CreateNewDialog(c)
         IN  Begins(c) /\ Begins(n) /\ n.map = "idle"
<1> DEFINE c == ParentAnswered(q)
           n == CreateNewDialog(c)
<1>1. /\ r.owner \in {"http", "sip"} /\ r.queries # 0 /\ r.answers = 0
      /\ r.map = "none" /\ r.mapq = << >>
      /\ r.owner = "http" => r.ctx = "first" /\ r.conn = "open" /\ r.cdr = "none"
      /\ r.owner = "sip" => r.cdr \in EarlyStatuses \cup {"none"}
  BY StillLocating DEF Sound, EarlySound, PushRecord, Owners
<1>2. q \in PushRecord /\ q.answers + 1 \in Nat
  BY DEF Asks, PushRecord
<1>3. SessionSound(q)
  BY ViewSession DEF Asks
<1>4. /\ q.owner = r.owner /\ q.map = r.map /\ q.mapq = r.mapq /\ q.ctx = r.ctx
      /\ q.conn = r.conn /\ q.cdr = r.cdr /\ q.queries = r.queries
  BY DEF Asks, View
<1>5. q.invokes = {} /\ q.timers = {} /\ ~q.final /\ ~q.established
  BY <1>1, <1>3, <1>4 DEF SessionSound, Ready, BlankSound, AcceptSound
<1>6. c \in PushRecord
  BY <1>2 DEF ParentAnswered, PushRecord
<1>7. n \in PushRecord /\ n.map = "idle"
  BY <1>6 DEF CreateNewDialog, PushRecord, MapStates
<1>8. /\ c.map = "none"
      /\ << c.owner, c.handshake, c.queries, c.mapq, c.ctx, c.conn, c.final, c.timerID,
            c.timers, c.invokes, c.cdr, c.established >>
         = << q.owner, q.handshake, q.queries, q.mapq, q.ctx, q.conn, q.final, q.timerID,
              q.timers, q.invokes, q.cdr, q.established >>
  BY <1>1, <1>2, <1>4 DEF ParentAnswered, PushRecord
<1> HIDE DEF c
<1>9. << n.owner, n.handshake, n.queries, n.mapq, n.ctx, n.conn, n.final, n.timerID,
         n.timers, n.invokes, n.cdr, n.established >>
      = << c.owner, c.handshake, c.queries, c.mapq, c.ctx, c.conn, c.final, c.timerID,
           c.timers, c.invokes, c.cdr, c.established >>
  BY <1>6 DEF CreateNewDialog, PushRecord
<1> HIDE DEF n
<1>10. ASSUME NEW s \in PushRecord, s.map \in {"none", "idle"},
              << s.owner, s.handshake, s.queries, s.mapq, s.ctx, s.conn, s.final,
                 s.timerID, s.timers, s.invokes, s.cdr, s.established >>
              = << q.owner, q.handshake, q.queries, q.mapq, q.ctx, q.conn, q.final,
                   q.timerID, q.timers, q.invokes, q.cdr, q.established >>
       PROVE  Begins(s)
  <2>1. ~Live(s) /\ s.mapq = << >>
    BY <1>1, <1>4, <1>10 DEF Live
  <2>2. \A es : ~Queued(s.mapq, es) /\ AtMostOne(s.mapq, es)
    BY <2>1, QueuedNothing
  <2>3. BlankSound(s)
    BY <1>3, <1>5, <1>10, <2>1 DEF SessionSound, Ready, BlankSound
  <2>4. FailedSound(s) /\ BilledTold(s)
    BY <1>3, <1>10 DEF SessionSound, Ready, FailedSound, BilledTold
  <2>5. AcceptSound(s) /\ ReleaseLast(s)
    BY <1>5, <1>10, <2>1, <2>2 DEF AcceptSound, ReleaseLast
  <2>6. TimerSound(s) /\ AnswerSound(s)
    BY <1>5, <1>10, <2>1, <2>2 DEF TimerSound, AnswerSound, Asked
  <2>7. Ready(s)
    BY <2>3, <2>4, <2>5, <2>6 DEF Ready
  <2> QED
    BY <1>1, <1>4, <1>5, <1>10, <2>1, <2>7 DEF Begins
<1> QED
  BY <1>6, <1>7, <1>8, <1>9, <1>10 DEF c, n

\* The first message to the mobile, or the handshake.
LEMMA BeginSession ==
  ASSUME NEW n, Begins(n), n.map = "idle", NEW ops \in SUBSET Operations,
         \A a, b \in ops : a = b, n.owner = "http" /\ n.handshake => ops = {}
  PROVE  SessionSound(MapSend(n, ops))
<1> DEFINE s == MapSend(n, ops)
<1>1. n \in PushRecord
  BY DEF Begins
<1>2. /\ s.map = "initialSent" /\ s.invokes = ops /\ s.mapq = << >>
      /\ s.owner = n.owner /\ s.handshake = n.handshake /\ s.queries = n.queries
      /\ s.ctx = n.ctx /\ s.conn = n.conn /\ s.timers = {} /\ ~s.final
      /\ s.cdr = n.cdr /\ ~s.established
  BY <1>1 DEF Begins, MapSend, PushRecord
<1> HIDE DEF s
<1>3. \A es : ~Queued(s.mapq, es) /\ AtMostOne(s.mapq, es)
  BY <1>2, QueuedNothing
<1>4. n.cdr \notin UnsentStatuses
  BY DEF Begins, EarlyStatuses, UnsentStatuses, SriStatuses
<1>5. BlankSound(s) /\ FailedSound(s) /\ BilledTold(s)
  BY <1>2 DEF Begins, Ready, BlankSound, FailedSound, BilledTold
<1>6. AcceptSound(s) /\ ReleaseLast(s)
  BY <1>2, <1>3, <1>4 DEF AcceptSound, ReleaseLast
<1>7. TimerSound(s)
  BY <1>2, <1>3 DEF TimerSound
<1>8. AnswerSound(s)
  BY <1>2, <1>3 DEF AnswerSound, Begins, Asked
<1>9. HeardSound(s)
  BY <1>2 DEF HeardSound, Live
<1> QED
  BY <1>5, <1>6, <1>7, <1>8, <1>9 DEF SessionSound, Ready, s

\* The dialog is given up before there is a dialog with the mobile.
LEMMA GivenUpSession ==
  ASSUME NEW c, Begins(c), NEW status \in UnsentStatuses
  PROVE  /\ SessionSound(OnSriError(c, status))
         /\ c.owner = "http" => SessionSound(PushFailed(c))
         /\ c.owner = "sip" => SessionSound(PushPayloadFailed(c))
<1>1. c \in PushRecord /\ Ready(c) /\ ~Live(c) /\ c.owner \in {"http", "sip"}
  BY DEF Begins
<1>2. NoRelease(c.mapq) /\ ~c.established /\ ~Queued(c.mapq, {"Accept"})
  BY QueuedNothing DEF Begins, NoRelease
<1>3. /\ status \in CdrStatuses /\ "FAILED_SYSTEM_FAILURE" \in CdrStatuses
      /\ status \notin TransportStatuses
  BY DEF UnsentStatuses, SriStatuses, CdrStatuses, TransportStatuses
<1>4. CASE c.owner = "http"
  <2>1. c.conn \in {"open", "over"}
    BY <1>4 DEF Begins
  <2>2. /\ Quits(c, HttpOnSriError(c, status), status)
        /\ Quits(c, PushFailed(c), "FAILED_SYSTEM_FAILURE")
    BY <1>1, <1>3, FailuresQuit
  <2>3. SessionSound(HttpOnSriError(c, status)) /\ SessionSound(PushFailed(c))
    BY <1>1, <1>2, <1>3, <1>4, <2>1, <2>2, QuitsSession
  <2> QED
    BY <1>4, <2>3 DEF OnSriError
<1>5. CASE c.owner = "sip"
  <2> DEFINE a == AbortSipDialog(c)
             m == MapRelease(c)
             b == AbortSipDialog(m)
  <2>1. Plain(c, a) /\ a.conn # "confirmed" /\ a.map = c.map
    BY <1>1, SipPlain, ByeTame
  <2>2. Plain(c, m) /\ m \in PushRecord /\ ~Live(m)
    BY <1>1, SipPlain
  <2> HIDE DEF a, m
  <2>3. Plain(m, b) /\ b.conn # "confirmed" /\ b.map = m.map
    BY <2>2, SipPlain, ByeTame
  <2> HIDE DEF b
  <2>4. Plain(c, b)
    BY <2>2, <2>3, PlainTrans
  <2>5. ~Live(a) /\ ~Live(b)
    BY <1>1, <2>1, <2>2, <2>3 DEF Live
  <2>6. SessionSound(Fail(a, status)) /\ SessionSound(Fail(b, "FAILED_SYSTEM_FAILURE"))
    BY <1>1, <1>2, <1>3, <1>5, <2>1, <2>3, <2>4, <2>5, PlainBilled
  <2> QED
    BY <1>5, <2>6 DEF OnSriError, SipOnSriError, PushPayloadFailed, a, b, m
<1> QED
  BY <1>1, <1>4, <1>5

\* onSriFullResponse with a location.
LEMMA TellResultSession ==
  ASSUME TypeOK, NEW d \in Dialogs, Sound(dlg[d]), Consistent(dlg[d]),
         SessionSound(dlg[d]), dlg[d].sriq # << >>,
         NEW q, Asks(dlg[d], q), TellResult(d, q)
  PROVE  BecomesSession(d)
<1> DEFINE r == dlg[d]
           c == ParentAnswered(q)
           n == CreateNewDialog(c)
<1>1. PICK fault \in {"none"} \cup (Faults \cap {"create", "send"}) :
        Becomes(d, OnSriResult(c, fault))
  BY DEF TellResult
<1>2. r \in PushRecord
  BY DEF TypeOK
<1>3. Begins(c) /\ Begins(n) /\ n.map = "idle"
  BY <1>2, ToldSession
<1>4. n.owner = c.owner /\ n.handshake = c.handshake /\ n.last = c.last /\ n.op = c.op
      /\ c.op \in Operations /\ c.owner \in {"http", "sip"}
  BY <1>3 DEF CreateNewDialog, Begins, PushRecord
<1> HIDE DEF r, c
<1>5. "FAILED_SYSTEM_FAILURE" \in UnsentStatuses
  BY DEF UnsentStatuses
<1>6. /\ c.owner = "http" => SessionSound(PushFailed(c)) /\ SessionSound(PushFailed(n))
      /\ c.owner = "sip" =>
           SessionSound(PushPayloadFailed(c)) /\ SessionSound(PushPayloadFailed(n))
  BY <1>3, <1>4, <1>5, GivenUpSession
<1>7. /\ SessionSound(MapSend(n, {}))
      /\ (c.owner = "http" /\ c.handshake) \/ SessionSound(MapSend(n, {c.op}))
  BY <1>3, <1>4, BeginSession
<1>8. c.owner = "http" /\ ~c.handshake => SessionSound(PushFirst(n))
  BY <1>3, <1>4, <1>6, <1>7 DEF PushFirst, CloseOk
<1>9. n = CreateNewDialog(c)
  OBVIOUS
<1> HIDE DEF n
<1>10. c.owner = "http" => SessionSound(HttpOnSriResult(c, fault))
  BY <1>4, <1>6, <1>7, <1>8, <1>9 DEF HttpOnSriResult
<1>11. c.owner = "sip" => SessionSound(SipOnSriResult(c, fault))
  BY <1>4, <1>6, <1>7, <1>9 DEF SipOnSriResult
<1> QED
  BY <1>1, <1>4, <1>10, <1>11 DEF OnSriResult, BecomesSession

\* onSriError.
LEMMA TellErrorSession ==
  ASSUME TypeOK, NEW d \in Dialogs, Sound(dlg[d]), Consistent(dlg[d]),
         SessionSound(dlg[d]), dlg[d].sriq # << >>,
         NEW q, Asks(dlg[d], q), NEW status \in UnsentStatuses, TellError(d, q, status)
  PROVE  BecomesSession(d)
<1>1. Begins(ParentAnswered(q))
  BY ToldSession DEF TypeOK
<1>2. SessionSound(OnSriError(ParentAnswered(q), status))
  BY <1>1, GivenUpSession
<1> QED
  BY <1>2 DEF TellError, BecomesSession

\* The SriSbb, on the dialog of the query.
LEMMA SriSession ==
  ASSUME TypeOK, NEW d \in Dialogs, Sound(dlg[d]), Consistent(dlg[d]),
         SessionSound(dlg[d]), HandleSri(d)
  PROVE  BecomesSession(d)
<1> DEFINE r == dlg[d]
           q == SriRest(r)
<1>1. r \in PushRecord
  BY DEF TypeOK
<1>2. r.sriq # << >>
  BY DEF HandleSri, SriStoresComponent, SriClose, SriDelimiter, SriRetries, SriQueryFails,
         SriDelivered
<1>3. /\ Asks(r, q)
      /\ \A e \in Answers :
           LET s == StoreComponent(q, e)
           IN  View(s) = View(r) /\ s.queries = r.queries /\ s.conn = r.conn
  BY <1>1, <1>2, QueryAsks
<1> HIDE DEF q
<1>4. CASE SriStoresComponent(d)
  <2>1. PICK e \in Answers : Update(d, StoreComponent(q, e))
    BY <1>4 DEF SriStoresComponent, SriDelivered, Answers, q
  <2>2. SessionSound(StoreComponent(q, e))
    BY <1>3, ViewSession
  <2> QED
    BY <2>1, <2>2 DEF BecomesSession, Update
<1>5. ASSUME NEW p, Asks(r, p), SriFullResponse(d, p)
      PROVE  BecomesSession(d)
  <2>1. NotLocatedStatus(p) \in UnsentStatuses
    BY DEF NotLocatedStatus, UnsentStatuses, SriStatuses
  <2>2. CASE p.located
    <3>1. Asks(r, DetachFromCurrentDialog(p))
      BY <1>5, DetachedAsks
    <3>2. TellResult(d, DetachFromCurrentDialog(p))
      BY <1>5, <2>2 DEF SriFullResponse
    <3> QED
      BY <1>2, <3>1, <3>2, TellResultSession
  <2>3. CASE ~p.located
    <3>1. TellError(d, p, NotLocatedStatus(p))
      BY <1>5, <2>3 DEF SriFullResponse
    <3> QED
      BY <1>2, <1>5, <2>1, <3>1, TellErrorSession
  <2> QED
    BY <2>2, <2>3
<1>6. CASE SriClose(d)
  BY <1>3, <1>5, <1>6 DEF SriClose, q
<1>7. CASE SriDelimiter(d)
  BY <1>3, <1>5, <1>7, DetachedAsks DEF SriDelimiter, q
<1>8. CASE SriRetries(d)
  <2> DEFINE t == DetachFromCurrentDialog(q)
             p == PerformSriQuery(t)
  <2>1. Asks(r, t)
    BY <1>3, DetachedAsks
  <2>2. Update(d, p) \/ TellError(d, t, QueryFailedStatus("RejectAcn"))
    BY <1>8 DEF SriRetries, q
  <2>3. QueryFailedStatus("RejectAcn") \in UnsentStatuses
    BY DEF QueryFailedStatus, UnsentStatuses, SriStatuses
  <2> HIDE DEF t
  <2>4. View(p) = View(r) /\ p.conn = r.conn /\ r.queries > 0
    <3>1. View(p) = View(r) /\ p.conn = r.conn
      BY <2>1, DetachedAsks
    <3>2. r.queries # 0
      BY <1>1, <1>2, StillLocating
    <3> QED
      BY <1>1, <3>1, <3>2 DEF PushRecord
  <2> HIDE DEF p
  <2>5. SessionSound(p)
    BY <2>4, ViewSession
  <2>6. CASE Update(d, p)
    BY <2>5, <2>6 DEF BecomesSession, Update
  <2>7. CASE TellError(d, t, QueryFailedStatus("RejectAcn"))
    BY <1>2, <2>1, <2>3, <2>7, TellErrorSession
  <2> QED
    BY <2>2, <2>6, <2>7
<1>9. CASE SriQueryFails(d)
  <2>1. PICK e \in {"Reject", "UserAbort", "ProviderAbort", "DialogTimeout"} :
          TellError(d, q, QueryFailedStatus(e))
    BY <1>9 DEF SriQueryFails, SriDelivered, q
  <2>2. QueryFailedStatus(e) \in UnsentStatuses
    BY DEF QueryFailedStatus, UnsentStatuses, SriStatuses
  <2> QED
    BY <1>2, <1>3, <2>1, <2>2, TellErrorSession
<1> QED
  BY <1>4, <1>6, <1>7, <1>8, <1>9 DEF HandleSri

-----------------------------------------------------------------------------
(***************************************************************************)
(* The applications.                                                       *)
(***************************************************************************)
\* A record that an application takes.
LEMMA TakenSession ==
  ASSUME NEW r \in PushRecord, Sound(r), Consistent(r), SessionSound(r),
         r.owner = "none", NEW s,
         << s.answers, s.map, s.invokes, s.mapq, s.final, s.timers, s.cdr, s.established >>
         = << r.answers, r.map, r.invokes, r.mapq, r.final, r.timers, r.cdr, r.established >>,
         \/ s.owner = "http" /\ s.conn = "open"
         \/ s.owner = "http" /\ s.conn = "over"
         \/ s.owner = "http" /\ s.queries = r.queries
         \/ s.owner = "sip" /\ s.ctx = r.ctx
  PROVE  SessionSound(s)
<1>1. r.queries = 0 /\ r.answers = 0
  BY DEF Consistent, Untouched, QueryConsistent
<1>2. r.map = "none" /\ r.cdr = "none" /\ r.mapq = << >>
  BY <1>1 DEF Consistent, MapConsistent, Sound, EarlySound
<1>3. /\ r.invokes = {} /\ r.timers = {} /\ ~r.final /\ ~r.established /\ r.ctx = "none"
  BY <1>2 DEF SessionSound, Ready, BlankSound, AcceptSound
<1>4. \A es : ~Queued(s.mapq, es) /\ AtMostOne(s.mapq, es)
  BY <1>2, QueuedNothing
<1>5. BlankSound(s) /\ FailedSound(s) /\ BilledTold(s)
  BY <1>1, <1>2, <1>3 DEF BlankSound, FailedSound, BilledTold
<1>6. AcceptSound(s) /\ ReleaseLast(s)
  BY <1>2, <1>3, <1>4 DEF AcceptSound, ReleaseLast, Live
<1>7. TimerSound(s)
  BY <1>3, <1>4 DEF TimerSound
<1>8. AnswerSound(s)
  BY <1>2, <1>3, <1>4 DEF AnswerSound, Asked, Live
<1>9. HeardSound(s)
  BY <1>1 DEF HeardSound
<1> QED
  BY <1>5, <1>6, <1>7, <1>8, <1>9 DEF SessionSound, Ready

\* The first POST.
LEMMA FirstPostSession ==
  ASSUME NEW r \in PushRecord, Sound(r), Consistent(r), SessionSound(r), r.owner = "none"
  PROVE  /\ SessionSound(OnUnusablePost(r))
         /\ \A first \in Firsts :
              SessionSound(OnPost(r, first)) /\ SessionSound(OnPostNoQuery(r, first))
<1> DEFINE u == OnUnusablePost(r)
<1>1. /\ u.owner = "http" /\ u.queries = r.queries
      /\ << u.answers, u.map, u.invokes, u.mapq, u.final, u.timers, u.cdr, u.established >>
         = << r.answers, r.map, r.invokes, r.mapq, r.final, r.timers, r.cdr, r.established >>
  BY DEF OnUnusablePost, UpdateDialogFailureStat, PushRecord
<1> HIDE DEF u
<1>2. SessionSound(u)
  BY <1>1, TakenSession
<1>3. ASSUME NEW first \in Firsts
      PROVE  SessionSound(OnPost(r, first)) /\ SessionSound(OnPostNoQuery(r, first))
  <2> DEFINE q == StartPush(r, first)
             s == PerformSriQuery(q)
             n == UpdateDialogFailureStat(AbortHttpDialog(q))
  <2>1. first.op \in Operations /\ first.handshake \in BOOLEAN /\ first.last \in BOOLEAN
    BY InputsAssumption
  <2>2. q \in PushRecord
    BY <2>1 DEF StartPush, PushRecord, Owners, Contexts, ConnStates
  <2>3. /\ q.owner = "http" /\ q.ctx = "first" /\ q.conn = "open"
        /\ << q.answers, q.map, q.invokes, q.mapq, q.final, q.timers, q.cdr, q.established >>
           = << r.answers, r.map, r.invokes, r.mapq, r.final, r.timers, r.cdr, r.established >>
    BY DEF StartPush, PushRecord
  <2> HIDE DEF q
  <2>4. /\ s.owner = q.owner /\ s.conn = q.conn
        /\ << s.answers, s.map, s.invokes, s.mapq, s.final, s.timers, s.cdr, s.established >>
           = << q.answers, q.map, q.invokes, q.mapq, q.final, q.timers, q.cdr, q.established >>
    BY <2>2 DEF PerformSriQuery, PushRecord
  <2>5. /\ n.owner = "http" /\ n.conn = "over"
        /\ << n.answers, n.map, n.invokes, n.mapq, n.final, n.timers, n.cdr, n.established >>
           = << q.answers, q.map, q.invokes, q.mapq, q.final, q.timers, q.cdr, q.established >>
    BY <2>2, <2>3
    DEF AbortHttpDialog, EndHttpSessionActivity, ResumeHttpEventContext,
        UpdateDialogFailureStat, PushRecord
  <2> HIDE DEF s, n
  <2>6. SessionSound(s) /\ SessionSound(n)
    BY <2>3, <2>4, <2>5, TakenSession
  <2> QED
    BY <2>6 DEF OnPost, OnPostNoQuery, q, s, n
<1> QED
  BY <1>2, <1>3 DEF u

\* The INVITE.
LEMMA FirstInviteSession ==
  ASSUME NEW r \in PushRecord, Sound(r), Consistent(r), SessionSound(r), r.owner = "none",
         NEW op \in Operations
  PROVE  /\ SessionSound(OnUnusableInvite(r)) /\ SessionSound(OnInvite(r, op))
         /\ SessionSound(OnInviteNoReply(r, op)) /\ SessionSound(OnInviteNoQuery(r, op))
<1>1. ASSUME NEW s \in {OnUnusableInvite(r), OnInvite(r, op), OnInviteNoReply(r, op),
                        OnInviteNoQuery(r, op)}
      PROVE  SessionSound(s)
  <2>1. /\ s.owner = "sip" /\ s.ctx = r.ctx
        /\ << s.answers, s.map, s.invokes, s.mapq, s.final, s.timers, s.cdr, s.established >>
           = << r.answers, r.map, r.invokes, r.mapq, r.final, r.timers, r.cdr, r.established >>
    <3>1. CASE s = OnUnusableInvite(r)
      BY <3>1 DEF OnUnusableInvite, UpdateDialogFailureStat, PushRecord
    <3>2. CASE s = OnInvite(r, op)
      BY <3>2 DEF OnInvite, StartSipPush, PerformSriQuery, PushRecord
    <3>3. CASE s = OnInviteNoReply(r, op)
      BY <3>3 DEF OnInviteNoReply, OnInvite, StartSipPush, PerformSriQuery,
                  UpdateDialogFailureStat, PushRecord
    <3>4. CASE s = OnInviteNoQuery(r, op)
      BY <3>4 DEF OnInviteNoQuery, StartSipPush, UpdateDialogFailureStat, PushRecord
    <3> QED
      BY <1>1, <3>1, <3>2, <3>3, <3>4
  <2> QED
    BY <2>1, TakenSession
<1> QED
  BY <1>1

\* What an application does; no suspended POST is given up.
LEMMA ApplicationSession ==
  ASSUME TypeOK, NEW d \in Dialogs, Sound(dlg[d]), Consistent(dlg[d]),
         SessionSound(dlg[d]), Application(d),
         ~SuspendTimeouts \/ dlg[d].ctx = "none"
  PROVE  BecomesSession(d)
<1> DEFINE r == dlg[d]
<1>1. r \in PushRecord
  BY DEF TypeOK
<1>2. SipOperations \subseteq Operations
  BY InputsAssumption DEF SipOperations, Operations
<1>3. /\ r.owner = "none" => r.conn = "none" /\ ~r.info
      /\ r.owner = "http" => r.conn \in {"none", "open", "over"} /\ ~r.info
      /\ r.owner \in {"none", "http", "sip"}
  BY <1>1 DEF Consistent, Untouched, Sound, SideSound, PushRecord, Owners
<1>4. CASE HttpPostUnusable(d) \/ HttpPost(d) \/ HttpPostNoQuery(d)
  BY <1>1, <1>4, FirstPostSession
  DEF HttpPostUnusable, HttpPost, HttpPostNoQuery, New, Update, BecomesSession
<1>5. CASE SipInviteUnusable(d) \/ SipInvite(d) \/ SipInviteNoQuery(d)
  <2>1. "request" \in Operations
    BY DEF Operations
  <2> QED
    BY <1>1, <1>2, <1>5, <2>1, FirstInviteSession
    DEF SipInviteUnusable, SipInvite, SipInviteNoQuery, New, Update, BecomesSession
<1>6. ASSUME NEW s, Update(d, s), View(s) = View(r), s.queries = r.queries,
             s.conn = r.conn \/ (s.conn = "over" /\ r.conn \in {"confirmed", "bye", "lateBye"})
      PROVE  BecomesSession(d)
  <2>1. SessionSound(s)
    BY <1>3, <1>6, ViewSession
  <2> QED
    BY <1>6, <2>1 DEF BecomesSession, Update
<1>7. ASSUME NEW k, Update(d, Sends(r, k))
      PROVE  BecomesSession(d)
  <2> DEFINE s == Sends(r, k)
  <2>1. View(s) = View(r) /\ s.queries = r.queries /\ s.conn = r.conn
    BY <1>1 DEF Sends, View, PushRecord
  <2> QED
    BY <1>6, <1>7, <2>1
<1>8. CASE HttpAppPosts(d) \/ SipAppSends(d)
  BY <1>7, <1>8 DEF HttpAppPosts, SipAppSends
<1>9. CASE SipAppRefuses(d) \/ SipAppAcceptsBye(d) \/ SipDialogExpires(d)
  <2> DEFINE a == [r EXCEPT !.info = FALSE, !.appq = Append(@, "failure")]
             b == [r EXCEPT !.conn = "over", !.appq = Append(@, "failure")]
             c == [r EXCEPT !.conn = "over"]
             e == [r EXCEPT !.conn = "over", !.appq = Append(@, "dialogTimeout")]
  <2>1. /\ View(a) = View(r) /\ a.queries = r.queries /\ a.conn = r.conn
        /\ View(b) = View(r) /\ b.queries = r.queries /\ b.conn = "over"
        /\ View(c) = View(r) /\ c.queries = r.queries /\ c.conn = "over"
        /\ View(e) = View(r) /\ e.queries = r.queries /\ e.conn = "over"
    BY <1>1 DEF View, PushRecord
  <2>2. \/ Update(d, a)
        \/ /\ Update(d, b) \/ Update(d, c) \/ Update(d, e)
           /\ r.conn \in {"confirmed", "bye", "lateBye"}
    BY <1>9 DEF SipAppRefuses, SipAppAcceptsBye, SipDialogExpires
  <2> HIDE DEF a, b, c, e
  <2> QED
    BY <1>6, <2>1, <2>2
<1> QED
  BY <1>4, <1>5, <1>8, <1>9 DEF Application, SuspendExpires

-----------------------------------------------------------------------------
(***************************************************************************)
(* The server SBBs.                                                        *)
(***************************************************************************)
\* The session of a dialog that its parent was told about.
LEMMA SessionThere ==
  ASSUME NEW r \in PushRecord, Consistent(r), SessionSound(r), r.owner = "http",
         r.answers # 0
  PROVE  r.conn \in {"open", "over"}
<1>1. r.queries # 0 /\ r.queries \in Nat
  BY DEF Consistent, QueryConsistent, PushRecord
<1> QED
  BY <1>1 DEF SessionSound, Ready, FailedSound

\* The server SBB, on the MAP activity.
LEMMA MapHandlersSession ==
  ASSUME TypeOK, NEW d \in Dialogs, Sound(dlg[d]), Consistent(dlg[d]),
         SessionSound(dlg[d]), HandleMap(d)
  PROVE  BecomesSession(d)
<1> DEFINE r == dlg[d]
           q == Rest(r)
<1>1. r \in PushRecord
  BY DEF TypeOK
<1>2. r.mapq # << >>
  BY DEF HandleMap, HandleUnstructuredSSResponse, HandleNotifyResponse, HandleOtherMessage,
         HandleAccept, HandleReject, HandleUserAbort, HandleProviderAbort,
         HandleInvokeTimeout, HandleRejectComponent, HandleErrorComponent,
         HandleDialogTimeout, HandleTimer, HandleRelease, OnAbortIndication,
         OnComponentFailure, Delivered
<1>3. /\ r.owner \in {"http", "sip"} /\ r.answers # 0 /\ r.map # "idle"
      /\ r.map # "expunged" => NoRelease(r.mapq)
  <2>1. r.owner # "none"
    BY <1>1, <1>2, RestStep
  <2>2. r.answers # 0 /\ (r.map # "expunged" => NoRelease(r.mapq))
    BY <1>2 DEF Consistent, MapConsistent
  <2> QED
    BY <1>1, <2>1, <2>2 DEF PushRecord, Owners, Sound, MapSound
<1>4. r.owner = "http" => r.conn \in {"open", "over"}
  BY <1>1, <1>3, SessionThere
<1>5. q.owner = r.owner /\ (Head(r.mapq) \in AbortEvents => ~Live(q))
  BY <1>1, <1>2, RestSound
<1>6. SessionSound(r)
  OBVIOUS
<1> HIDE DEF q, r
<1>7. ASSUME NEW http, NEW sip, Update(d, ByOwner(q, http, sip)),
             r.owner = "http" => SessionSound(http),
             r.owner = "sip" => SessionSound(sip)
      PROVE  BecomesSession(d)
  <2>1. SessionSound(ByOwner(q, http, sip))
    BY <1>3, <1>5, <1>7 DEF ByOwner
  <2> QED
    BY <1>7, <2>1 DEF BecomesSession, Update
<1>8. CASE HandleUnstructuredSSResponse(d)
  <2>1. /\ Head(r.mapq) = "UnstructuredSSResponse"
        /\ Update(d, ByOwner(q, HttpOnUnstructuredSSResponse(q),
                                SipOnUnstructuredSSResponse(q)))
    BY <1>8 DEF HandleUnstructuredSSResponse, Delivered, q, r
  <2>2. r.owner = "http" => SessionSound(HttpOnUnstructuredSSResponse(q))
    BY <1>1, <1>2, <1>3, <1>6, <2>1, HttpAnswersSession DEF q
  <2>3. r.owner = "sip" => SessionSound(SipOnUnstructuredSSResponse(q))
    BY <1>1, <1>2, <1>3, <1>6, <2>1, SipAnswersSession DEF q
  <2> QED
    BY <1>7, <2>1, <2>2, <2>3
<1>9. CASE HandleNotifyResponse(d)
  <2>1. /\ Head(r.mapq) = "NotifyResponse"
        /\ Update(d, ByOwner(q, HttpOnNotifyResponse(q), SipOnNotifyResponse(q)))
    BY <1>9 DEF HandleNotifyResponse, Delivered, q, r
  <2>2. r.owner = "http" => SessionSound(HttpOnNotifyResponse(q))
    BY <1>1, <1>2, <1>3, <1>6, <2>1, HttpAnswersSession DEF q
  <2>3. r.owner = "sip" => SessionSound(SipOnNotifyResponse(q))
    BY <1>1, <1>2, <1>3, <1>6, <2>1, SipAnswersSession DEF q
  <2> QED
    BY <1>7, <2>1, <2>2, <2>3
<1>10. CASE HandleOtherMessage(d)
  <2>1. /\ Head(r.mapq) = "OtherMessage"
        /\ Update(d, ByOwner(q, ProcessReceivedMapEvent(q), SipProcessReceivedMapEvent(q)))
    BY <1>10 DEF HandleOtherMessage, Delivered, q, r
  <2>2. r.owner = "http" => SessionSound(ProcessReceivedMapEvent(q))
    BY <1>1, <1>2, <1>3, <1>6, <2>1, HttpAnswersSession DEF q
  <2>3. r.owner = "sip" => SessionSound(SipProcessReceivedMapEvent(q))
    BY <1>1, <1>2, <1>3, <1>6, <2>1, SipAnswersSession DEF q
  <2> QED
    BY <1>7, <2>1, <2>2, <2>3
<1>11. CASE HandleAccept(d)
  <2>1. /\ Head(r.mapq) = "Accept"
        /\ Update(d, ByOwner(q, HttpOnDialogAccept(q), SipOnDialogAccept(q)))
    BY <1>11 DEF HandleAccept, Delivered, q, r
  <2>2. r.owner = "http" => SessionSound(HttpOnDialogAccept(q))
    BY <1>1, <1>2, <1>3, <1>4, <1>6, <2>1, HttpAcceptSession DEF q
  <2>3. r.owner = "sip" => SessionSound(SipOnDialogAccept(q))
    BY <1>1, <1>2, <1>3, <1>6, <2>1, SipAnswersSession DEF q
  <2> QED
    BY <1>7, <2>1, <2>2, <2>3
<1>12. ASSUME NEW status \in CdrStatuses \ UnsentStatuses
       PROVE  /\ r.owner = "http" =>
                   /\ SessionSound(HttpOnComponentFailure(q, status))
                   /\ SessionSound(HttpOnDialogTimeout(q))
                   /\ ~Live(q) => SessionSound(HttpOnAbortIndication(q, status))
              /\ r.owner = "sip" =>
                   /\ SessionSound(SipOnAbortIndication(q, status))
                   /\ SessionSound(SipOnComponentFailure(q, status))
                   /\ SessionSound(SipOnErrorComponent(q))
                   /\ SessionSound(SipOnDialogTimeout(q))
  BY <1>1, <1>2, <1>3, <1>4, <1>6, HttpFailuresSession, SipFailuresSession DEF q
<1>13. /\ "FAILED_DIALOG_REJECTED" \in CdrStatuses \ UnsentStatuses
       /\ "FAILED_DIALOG_USER_ABORT" \in CdrStatuses \ UnsentStatuses
       /\ "FAILED_PROVIDER_ABORT" \in CdrStatuses \ UnsentStatuses
       /\ "FAILED_INVOKE_TIMEOUT" \in CdrStatuses \ UnsentStatuses
       /\ "FAILED_MAP_REJECT_COMPONENT" \in CdrStatuses \ UnsentStatuses
       /\ "FAILED_MAP_ERROR_COMPONENT" \in CdrStatuses \ UnsentStatuses
  BY DEF CdrStatuses, UnsentStatuses, SriStatuses
<1>14. ASSUME NEW e \in AbortEvents, NEW status \in CdrStatuses \ UnsentStatuses,
              OnAbortIndication(d, e, status)
       PROVE  BecomesSession(d)
  <2>1. Head(r.mapq) = e
        /\ Update(d, ByOwner(q, HttpOnAbortIndication(q, status), SipOnAbortIndication(q, status)))
    BY <1>14 DEF OnAbortIndication, Delivered, q, r
  <2> QED
    BY <1>5, <1>7, <1>12, <2>1
<1>15. ASSUME NEW e, NEW status \in CdrStatuses \ UnsentStatuses,
              OnComponentFailure(d, e, status)
       PROVE  BecomesSession(d)
  <2>1. Update(d, ByOwner(q, HttpOnComponentFailure(q, status),
                             SipOnComponentFailure(q, status)))
    BY <1>15 DEF OnComponentFailure, q, r
  <2> QED
    BY <1>7, <1>12, <2>1
<1>16. CASE HandleErrorComponent(d)
  <2>1. Update(d, ByOwner(q, HttpOnComponentFailure(q, "FAILED_MAP_ERROR_COMPONENT"),
                             SipOnErrorComponent(q)))
    BY <1>16 DEF HandleErrorComponent, q, r
  <2> QED
    BY <1>7, <1>12, <1>13, <2>1
<1>17. CASE HandleDialogTimeout(d)
  <2>1. Update(d, ByOwner(q, HttpOnDialogTimeout(q), SipOnDialogTimeout(q)))
    BY <1>17 DEF HandleDialogTimeout, q, r
  <2> QED
    BY <1>7, <1>12, <1>13, <2>1
<1>18. CASE HandleTimer(d)
  <2>1. /\ Head(r.mapq) = "Timer"
        /\ Update(d, ByOwner(q, HttpOnTimerEvent(q), SipOnTimerEvent(q)))
    BY <1>18 DEF HandleTimer, Delivered, q, r
  <2>2. r.owner = "http" => SessionSound(HttpOnTimerEvent(q))
    BY <1>1, <1>2, <1>3, <1>6, <2>1, HttpTimerSession DEF q
  <2>3. r.owner = "sip" => SessionSound(SipOnTimerEvent(q))
    BY <1>1, <1>2, <1>3, <1>6, <2>1, SipTimerSession DEF q
  <2> QED
    BY <1>7, <2>1, <2>2, <2>3
<1>19. CASE HandleRelease(d)
  <2>1. Head(r.mapq) = "Release" /\ Becomes(d, OnDialogRelease(r))
    BY <1>19 DEF HandleRelease, Delivered, r
  <2>2. SessionSound(OnDialogRelease(r))
    BY <1>1, <1>2, <1>3, <1>6, <2>1, ReleaseSession
  <2> QED
    BY <2>1, <2>2 DEF BecomesSession
<1>20. HandleReject(d) \/ HandleUserAbort(d) \/ HandleProviderAbort(d) => BecomesSession(d)
  BY <1>13, <1>14 DEF HandleReject, HandleUserAbort, HandleProviderAbort, AbortEvents
<1>21. HandleInvokeTimeout(d) \/ HandleRejectComponent(d) => BecomesSession(d)
  BY <1>13, <1>15 DEF HandleInvokeTimeout, HandleRejectComponent
<1> QED
  BY <1>8, <1>9, <1>10, <1>11, <1>16, <1>17, <1>18, <1>19, <1>20, <1>21 DEF HandleMap

\* The server SBB, on the session or the SIP dialog.
LEMMA AppHandlersSession ==
  ASSUME TypeOK, NEW d \in Dialogs, Sound(dlg[d]), Consistent(dlg[d]),
         SessionSound(dlg[d]), HandleApp(d)
  PROVE  BecomesSession(d)
<1> DEFINE r == dlg[d]
           q == AppRest(r)
<1>1. r \in PushRecord
  BY DEF TypeOK
<1>2. r.appq # << >>
  BY DEF HandleApp, HandleSessionPost, HandleInfo, HandleBye, HandleTransportError, Received
<1>3. r.owner \in {"http", "sip"}
  BY <1>1, <1>2, AppRestStep DEF PushRecord, Owners
<1>4. /\ q \in PushRecord /\ Sound(q) /\ Consistent(q) /\ q.owner = r.owner
      /\ q.owner = "http" => Head(r.appq) \in SessionPosts
      /\ q.owner = "sip" => Head(r.appq) \in SipEvents
      /\ q.owner = "http" /\ q.answers = 0 => q.ctx = "first"
  BY <1>1, <1>2, AppRestStep, AppRestSound
<1>5. SessionSound(q)
  <2>1. View(q) = View(r) /\ q.queries = r.queries /\ q.conn = r.conn
    BY <1>1 DEF AppRest, View, PushRecord
  <2> QED
    BY <2>1, ViewSession
<1> HIDE DEF q
<1>6. q.map # "idle" /\ (q.map # "expunged" => NoRelease(q.mapq))
  BY <1>4 DEF Sound, MapSound, Consistent, MapConsistent
<1>7. SipEvents \cap SessionPosts = {}
  BY DEF SipEvents, SessionPosts
<1>8. CASE HandleSessionPost(d)
  <2>1. PICK k \in SessionPosts : Update(d, OnSessionPost(q, k)) /\ k = Head(r.appq)
    BY <1>8 DEF HandleSessionPost, Received, q
  <2>2. q.owner = "http"
    BY <1>3, <1>4, <1>7, <2>1
  <2>3. SessionSound(OnSessionPost(q, k))
    <3>1. CASE q.answers = 0
      <4>1. OnSessionPost(q, k) = q
        BY <1>4, <2>2, <3>1 DEF OnSessionPost
      <4> QED
        BY <1>5, <4>1
    <3>2. CASE q.answers # 0
      <4>1. q.conn \in {"open", "over"}
        BY <1>4, <1>5, <2>2, <3>2, SessionThere
      <4> QED
        BY <1>4, <1>5, <1>6, <2>1, <2>2, <4>1, HttpPostSession
    <3> QED
      BY <3>1, <3>2
  <2> QED
    BY <2>1, <2>3 DEF BecomesSession, Update
<1>9. ASSUME q.owner = "sip", NEW k
      PROVE  /\ SessionSound(OnDialogBye(q)) /\ SessionSound(OnByeNoReply(q))
             /\ SessionSound(OnDialogInfo(q, k)) /\ SessionSound(OnInfoNoReply(q))
             /\ SessionSound(OnTransportError(q))
  BY <1>4, <1>5, <1>6, <1>9, SipRequestsSession DEF SessionSound
<1>10. CASE HandleInfo(d) \/ HandleBye(d) \/ HandleTransportError(d)
  <2>1. q.owner = "sip"
    BY <1>3, <1>4, <1>10
    DEF HandleInfo, HandleBye, HandleTransportError, Received, SessionPosts
  <2> QED
    BY <1>9, <1>10, <2>1
    DEF HandleInfo, HandleBye, HandleTransportError, BecomesSession, Update, q
<1> QED
  BY <1>8, <1>10 DEF HandleApp

-----------------------------------------------------------------------------
(***************************************************************************)
(* The session of a dialog that has failed.  Every handler that bills such *)
(* a dialog ends the session first, whatever else it finds, so that        *)
(* neither the register nor a suspended POST that is given up matters.     *)
(***************************************************************************)
\* What no handler of an HTTP dialog changes.
Inbox(r) == << r.owner, r.info, r.appq >>

\* The session of a dialog that is billed is over, but for the timer.
Closes(r, s) ==
  /\ s \in PushRecord /\ Inbox(s) = Inbox(r) /\ s.conn \in {r.conn, "over"}
  /\ ~WarningEnabled =>
       s.cdr \in {r.cdr, "FAILED_APP_TIMEOUT"} \/ s.conn # "open"

\* A session begins with its first message; until then nothing is there.
Fresh(r) ==
  /\ r.sri = "none" /\ r.sriq = << >> /\ r.map = "none" /\ r.mapq = << >>
  /\ r.appq = << >> /\ r.cdr = "none"

Closed(r) ==
  r.owner # "sip" =>
    /\ r.conn \in {"none", "open", "over"} /\ ~r.info /\ r.appq \in Seq(SessionPosts)
    /\ r.conn = "none" => Fresh(r)
    /\ r.owner = "none" => r.conn = "none"
    /\ ~WarningEnabled /\ r.cdr \notin {"none", "FAILED_APP_TIMEOUT"} => r.conn = "over"

\* One service after the other.
LEMMA ClosesTrans ==
  ASSUME NEW r, NEW s, NEW t, Closes(r, s), Closes(s, t)
  PROVE  Closes(r, t)
BY DEF Closes

\* Services that bill nothing.
LEMMA ServicesClose ==
  ASSUME NEW r \in PushRecord, NEW how \in Endings, NEW ops \in SUBSET Operations
  PROVE  /\ Closes(r, r) /\ Closes(r, CancelTimer(r)) /\ Closes(r, SuspendPost(r))
         /\ Closes(r, SetTimer(r)) /\ Closes(r, UpdateDialogEstablishedStat(r))
         /\ Closes(r, CreateNewDialog(r))
         /\ SendOk(r) => Closes(r, MapSend(r, ops))
         /\ r.map \in Running => Closes(r, Expunge(r, how))
<1>1. Closes(r, r)
  BY DEF Closes
<1>2. Closes(r, CancelTimer(r))
  <2>1. CancelTimer(r) \in PushRecord
    BY CancelTimerEvolves DEF Evolves
  <2> QED
    BY <2>1 DEF CancelTimer, PushRecord, Closes, Inbox
<1>3. Closes(r, SuspendPost(r))
  <2>1. SuspendPost(r) \in PushRecord
    BY SuspendEvolves DEF Evolves
  <2> QED
    BY <2>1 DEF SuspendPost, PushRecord, Closes, Inbox
<1>4. Closes(r, SetTimer(r))
  <2>1. SetTimer(r) \in PushRecord
    BY SetTimerEvolves DEF Evolves
  <2> QED
    BY <2>1 DEF SetTimer, PushRecord, Closes, Inbox
<1>5. Closes(r, UpdateDialogEstablishedStat(r))
  <2>1. UpdateDialogEstablishedStat(r) \in PushRecord
    BY EstablishedStatEvolves DEF Evolves
  <2> QED
    BY <2>1 DEF UpdateDialogEstablishedStat, PushRecord, Closes, Inbox
<1>6. Closes(r, CreateNewDialog(r))
  <2>1. CreateNewDialog(r) \in PushRecord
    BY DEF CreateNewDialog, PushRecord, MapStates
  <2> QED
    BY <2>1 DEF CreateNewDialog, PushRecord, Closes, Inbox
<1>7. SendOk(r) => Closes(r, MapSend(r, ops))
  <2> SUFFICES ASSUME SendOk(r) PROVE Closes(r, MapSend(r, ops))
    OBVIOUS
  <2>1. MapSend(r, ops) \in PushRecord
    BY MapSendEvolves DEF Evolves
  <2> QED
    BY <2>1 DEF MapSend, PushRecord, Closes, Inbox
<1>8. r.map \in Running => Closes(r, Expunge(r, how))
  <2> SUFFICES ASSUME r.map \in Running PROVE Closes(r, Expunge(r, how))
    OBVIOUS
  <2>1. Expunge(r, how) \in PushRecord
    BY ExpungeEvolves DEF Evolves
  <2> QED
    BY <2>1 DEF Expunge, Fire, PushRecord, Closes, Inbox
<1> QED
  BY <1>1, <1>2, <1>3, <1>4, <1>5, <1>6, <1>7, <1>8

\* The end of the MAP dialog, and the message of the gateway.
LEMMA StopsClose ==
  ASSUME NEW r \in PushRecord
  PROVE  /\ Closes(r, MapAbort(r)) /\ Closes(r, MapRelease(r))
         /\ Closes(r, AbortMapDialog(r)) /\ Closes(r, SendErrorMessage(r))
<1>1. "abort" \in Endings /\ "release" \in Endings /\ {"notify"} \in SUBSET Operations
  BY DEF Endings, Operations
<1>2. Closes(r, MapAbort(r)) /\ Closes(r, MapRelease(r)) /\ Closes(r, AbortMapDialog(r))
  BY <1>1, ServicesClose DEF MapAbort, MapRelease, AbortMapDialog, Live, Running
<1>3. SendOk(r) => Closes(r, MapSend(r, {"notify"}))
  BY <1>1, ServicesClose
<1>4. ASSUME NEW s, Closes(r, s)
      PROVE  Closes(r, [s EXCEPT !.final = TRUE])
  <2>1. s \in PushRecord
    BY <1>4 DEF Closes
  <2>2. [s EXCEPT !.final = TRUE] \in PushRecord
    BY <2>1 DEF PushRecord
  <2> QED
    BY <1>4, <2>1, <2>2 DEF Closes, Inbox, PushRecord
<1>5. Closes(r, SendErrorMessage(r))
  BY <1>1, <1>3, <1>4, ServicesClose DEF SendErrorMessage
<1> QED
  BY <1>2, <1>5

\* The end of the session, and the bill behind it.
LEMMA EndsClose ==
  ASSUME NEW r \in PushRecord, NEW status \in CdrStatuses
  PROVE  /\ Closes(r, ResumeHttpEventContext(r)) /\ Closes(r, Conclude(r))
         /\ Closes(r, AbortHttpDialog(r))
         /\ Closes(r, CreateCdr(Conclude(r), status))
         /\ Closes(r, Fail(AbortHttpDialog(r), status))
         /\ Closes(r, Fail(r, "FAILED_APP_TIMEOUT"))
<1> DEFINE a == ResumeHttpEventContext(r)
           c == Conclude(r)
<1>1. a \in PushRecord /\ c \in PushRecord
  BY ResumeEvolves, ConcludeEvolves DEF Evolves
<1>2. /\ Inbox(a) = Inbox(r) /\ a.conn = r.conn /\ a.cdr = r.cdr
      /\ Inbox(c) = Inbox(r) /\ c.cdr = r.cdr
      /\ c.conn = IF r.conn = "open" THEN "over" ELSE r.conn
  BY DEF Conclude, EndHttpSessionActivity, ResumeHttpEventContext, PushRecord, Inbox
<1>3. /\ AbortHttpDialog(r) \in {r, c}
      /\ ~WarningEnabled => AbortHttpDialog(r) = c
  BY DEF AbortHttpDialog, Conclude
<1> HIDE DEF a, c
<1>4. ASSUME NEW s \in PushRecord, NEW x \in CdrStatuses
      PROVE  /\ CreateCdr(s, x) \in PushRecord /\ Fail(s, x) \in PushRecord
             /\ Inbox(CreateCdr(s, x)) = Inbox(s) /\ Inbox(Fail(s, x)) = Inbox(s)
             /\ CreateCdr(s, x).conn = s.conn /\ Fail(s, x).conn = s.conn
             /\ Fail(s, x).cdr \in {s.cdr, x}
  <2>1. CreateCdr(s, x) \in PushRecord /\ Fail(s, x) \in PushRecord
    BY CreateCdrEvolves, FailEvolves DEF Evolves
  <2> QED
    BY <2>1 DEF CreateCdr, Fail, UpdateDialogFailureStat, PushRecord, Inbox
<1>5. Closes(r, a) /\ Closes(r, c) /\ Closes(r, AbortHttpDialog(r))
  BY <1>1, <1>2, <1>3 DEF Closes
<1>6. Closes(r, CreateCdr(c, status))
  BY <1>1, <1>2, <1>4 DEF Closes
<1>7. Closes(r, Fail(AbortHttpDialog(r), status))
  <2>1. AbortHttpDialog(r) \in PushRecord
    BY <1>1, <1>3
  <2>2. /\ Inbox(AbortHttpDialog(r)) = Inbox(r)
        /\ AbortHttpDialog(r).conn \in {r.conn, "over"}
        /\ ~WarningEnabled => AbortHttpDialog(r).conn # "open"
    BY <1>2, <1>3
  <2> QED
    BY <1>4, <2>1, <2>2 DEF Closes
<1>8. Closes(r, Fail(r, "FAILED_APP_TIMEOUT"))
  <2>1. "FAILED_APP_TIMEOUT" \in CdrStatuses
    BY DEF CdrStatuses
  <2> QED
    BY <1>4, <2>1 DEF Closes
<1> QED
  BY <1>5, <1>6, <1>7, <1>8 DEF a, c

\* The POSTs of a session.
LEMMA PostsClose ==
  ASSUME NEW r \in PushRecord, NEW k \in SessionPosts
  PROVE  Closes(r, OnSessionPost(r, k))
<1>1. /\ "FAILED_CORRUPTED_MESSAGE" \in CdrStatuses /\ "ABORT_APP" \in CdrStatuses
      /\ "SUCCESS" \in CdrStatuses /\ "answer" \in Endings
      /\ {"request"} \in SUBSET Operations /\ {"notify"} \in SUBSET Operations
  BY DEF CdrStatuses, Endings, Operations
<1>2. ASSUME NEW c \in PushRecord
      PROVE  Closes(c, OnFailedPost(c))
  <2> DEFINE a == AbortHttpDialog(c)
             b == MapAbort(a)
  <2>1. a \in PushRecord /\ Inbox(a) = Inbox(c) /\ a.conn \in {c.conn, "over"}
        /\ (~WarningEnabled => a.conn # "open")
    <3>1. Closes(c, a)
      BY <1>1, EndsClose
    <3>2. ~WarningEnabled => a.conn # "open"
      BY DEF AbortHttpDialog, EndHttpSessionActivity, ResumeHttpEventContext, PushRecord
    <3> QED
      BY <3>1, <3>2 DEF Closes
  <2> HIDE DEF a
  <2>2. b \in PushRecord /\ Inbox(b) = Inbox(a) /\ b.conn \in {a.conn, "over"}
    BY <2>1, StopsClose DEF Closes
  <2> HIDE DEF b
  <2>3. Fail(b, "FAILED_CORRUPTED_MESSAGE") \in PushRecord
    BY <1>1, <2>2, FailEvolves DEF Evolves
  <2>4. /\ Inbox(Fail(b, "FAILED_CORRUPTED_MESSAGE")) = Inbox(b)
        /\ Fail(b, "FAILED_CORRUPTED_MESSAGE").conn = b.conn
    BY <2>2 DEF Fail, CreateCdr, UpdateDialogFailureStat, PushRecord, Inbox
  <2>5. Closes(c, Fail(b, "FAILED_CORRUPTED_MESSAGE"))
    BY <2>1, <2>2, <2>3, <2>4 DEF Closes
  <2> QED
    BY <2>5 DEF OnFailedPost, a, b
<1>3. ASSUME NEW c \in PushRecord
      PROVE  Closes(c, OnAbortPost(c))
  <2>1. Closes(c, MapAbort(c))
    BY <1>3, StopsClose
  <2>2. Closes(MapAbort(c), CreateCdr(Conclude(MapAbort(c)), "ABORT_APP"))
    BY <1>1, <2>1, EndsClose DEF Closes
  <2> QED
    BY <1>2, <1>3, <2>1, <2>2, ClosesTrans DEF OnAbortPost
<1>4. ASSUME NEW c \in PushRecord
      PROVE  Closes(c, OnFinalPost(c))
  <2>1. CASE CloseOk(c)
    <3>1. Closes(c, Expunge(c, "answer"))
      BY <1>1, <1>4, <2>1, ServicesClose DEF CloseOk, Running
    <3>2. Closes(Expunge(c, "answer"), CreateCdr(Conclude(Expunge(c, "answer")), "SUCCESS"))
      BY <1>1, <3>1, EndsClose DEF Closes
    <3> QED
      BY <2>1, <3>1, <3>2, ClosesTrans DEF OnFinalPost
  <2>2. CASE ~CloseOk(c)
    BY <1>2, <1>4, <2>2 DEF OnFinalPost
  <2> QED
    BY <2>1, <2>2
<1>5. ASSUME NEW c \in PushRecord, NEW op \in {"request", "notify"}
      PROVE  Closes(c, OnContinuePost(c, op))
  BY <1>1, <1>2, <1>5, ServicesClose DEF OnContinuePost
<1> DEFINE t == CancelTimer(r)
           c == SuspendPost(t)
<1>6. Closes(r, t)
  BY <1>1, ServicesClose
<1>7. Closes(t, c)
  BY <1>1, <1>6, ServicesClose DEF Closes
<1>8. c \in PushRecord /\ Closes(r, c)
  BY <1>6, <1>7, ClosesTrans DEF Closes
<1>9. Closes(r, r)
  BY <1>1, ServicesClose
<1> HIDE DEF c
<1>10. /\ Closes(r, OnAbortPost(c)) /\ Closes(r, OnFinalPost(c)) /\ Closes(r, OnFailedPost(c))
       /\ \A op \in {"request", "notify"} : Closes(r, OnContinuePost(c, op))
  BY <1>2, <1>3, <1>4, <1>5, <1>8, ClosesTrans
<1> QED
  BY <1>9, <1>10 DEF OnSessionPost, c

\* The answer of the register, and the first message.
LEMMA FirstCloses ==
  ASSUME NEW r \in PushRecord, NEW fault, NEW status \in CdrStatuses
  PROVE  /\ Closes(r, PushFirst(r)) /\ Closes(r, HttpOnDialogAccept(r))
         /\ Closes(r, HttpOnSriResult(r, fault)) /\ Closes(r, HttpOnSriError(r, status))
<1>1. "FAILED_SYSTEM_FAILURE" \in CdrStatuses /\ "answer" \in Endings
  BY DEF CdrStatuses, Endings
<1>2. ASSUME NEW c \in PushRecord
      PROVE  Closes(c, PushFailed(c))
  <2>1. Closes(c, MapRelease(c))
    BY <1>2, StopsClose
  <2>2. Closes(MapRelease(c), Fail(AbortHttpDialog(MapRelease(c)), "FAILED_SYSTEM_FAILURE"))
    BY <1>1, <2>1, EndsClose DEF Closes
  <2> QED
    BY <2>1, <2>2, ClosesTrans DEF PushFailed
<1>3. ASSUME NEW c \in PushRecord
      PROVE  Closes(c, PushFirst(c))
  <2>1. CASE c.last /\ CloseOk(c)
    <3>1. Closes(c, Expunge(c, "answer"))
      BY <1>1, <1>3, <2>1, ServicesClose DEF CloseOk, Running
    <3>2. Closes(Expunge(c, "answer"), Conclude(Expunge(c, "answer")))
      BY <1>1, <3>1, EndsClose DEF Closes
    <3> QED
      BY <2>1, <3>1, <3>2, ClosesTrans DEF PushFirst
  <2>2. CASE ~c.last /\ SendOk(c)
    <3>1. {c.op} \in SUBSET Operations
      BY <1>3 DEF PushRecord
    <3> QED
      BY <1>1, <1>3, <2>2, <3>1, ServicesClose DEF PushFirst
  <2>3. CASE ~(c.last /\ CloseOk(c)) /\ ~(~c.last /\ SendOk(c))
    BY <1>2, <1>3, <2>3 DEF PushFirst
  <2> QED
    BY <2>1, <2>2, <2>3
<1>4. ASSUME NEW c, Closes(r, c)
      PROVE  Closes(r, UpdateDialogEstablishedStat(c))
  <2>1. Closes(c, UpdateDialogEstablishedStat(c))
    BY <1>1, <1>4, ServicesClose DEF Closes
  <2> QED
    BY <1>4, <2>1, ClosesTrans
<1>5. Closes(r, r) /\ Closes(r, CreateNewDialog(r))
  BY <1>1, ServicesClose
<1>6. Closes(r, HttpOnDialogAccept(r))
  BY <1>3, <1>4, <1>5 DEF HttpOnDialogAccept
<1>7. Closes(r, HttpOnSriResult(r, fault))
  <2> DEFINE c == CreateNewDialog(r)
  <2>1. c \in PushRecord /\ Closes(r, c)
    BY <1>5 DEF Closes
  <2>2. SendOk(c)
    BY DEF CreateNewDialog, SendOk, PushRecord
  <2> HIDE DEF c
  <2>3. Closes(c, MapSend(c, {})) /\ Closes(c, PushFirst(c)) /\ Closes(c, PushFailed(c))
    BY <1>1, <1>2, <1>3, <2>1, <2>2, ServicesClose
  <2>4. Closes(r, MapSend(c, {})) /\ Closes(r, PushFirst(c)) /\ Closes(r, PushFailed(c))
    BY <2>1, <2>3, ClosesTrans
  <2> QED
    BY <1>2, <2>4 DEF HttpOnSriResult, c
<1>8. Closes(r, HttpOnSriError(r, status))
  BY EndsClose DEF HttpOnSriError
<1> QED
  BY <1>3, <1>6, <1>7, <1>8

\* What comes from the mobile and the MAP stack.
LEMMA EventsClose ==
  ASSUME NEW r \in PushRecord, NEW status \in CdrStatuses
  PROVE  /\ Closes(r, HttpOnUnstructuredSSResponse(r)) /\ Closes(r, HttpOnNotifyResponse(r))
         /\ Closes(r, ProcessReceivedMapEvent(r))
         /\ Closes(r, HttpOnAbortIndication(r, status))
         /\ Closes(r, HttpOnComponentFailure(r, status))
         /\ Closes(r, HttpOnDialogTimeout(r)) /\ Closes(r, HttpOnTimerEvent(r))
<1>1. "final" \in Endings /\ "FAILED_DIALOG_TIMEOUT" \in CdrStatuses
  BY DEF Endings, CdrStatuses
<1>2. Closes(r, ProcessReceivedMapEvent(r))
  <2>1. Closes(r, ResumeHttpEventContext(r)) /\ Closes(r, Conclude(r))
    BY EndsClose
  <2> QED
    BY <2>1 DEF ProcessReceivedMapEvent, Conclude
<1>3. Closes(r, HttpOnUnstructuredSSResponse(r))
  <2> DEFINE p == ProcessReceivedMapEvent(r)
  <2>1. Closes(p, SetTimer(p))
    BY <1>1, <1>2, ServicesClose DEF Closes
  <2> QED
    BY <1>2, <2>1, ClosesTrans DEF HttpOnUnstructuredSSResponse
<1>4. Closes(r, HttpOnNotifyResponse(r))
  <2>1. CloseOk(r) => Closes(r, Expunge(r, "final"))
    BY <1>1, ServicesClose DEF CloseOk, Running
  <2> QED
    BY <1>2, <2>1 DEF HttpOnNotifyResponse
<1>5. Closes(r, HttpOnAbortIndication(r, status))
  BY EndsClose DEF HttpOnAbortIndication
<1>6. ASSUME NEW s, Closes(r, s), NEW x \in CdrStatuses
      PROVE  Closes(r, Fail(AbortHttpDialog(s), x)) /\ Closes(r, Fail(s, "FAILED_APP_TIMEOUT"))
  <2>1. Closes(s, Fail(AbortHttpDialog(s), x)) /\ Closes(s, Fail(s, "FAILED_APP_TIMEOUT"))
    BY <1>6, EndsClose DEF Closes
  <2> QED
    BY <1>6, <2>1, ClosesTrans
<1>7. Closes(r, HttpOnComponentFailure(r, status)) /\ Closes(r, HttpOnDialogTimeout(r))
  BY <1>1, <1>6, StopsClose DEF HttpOnComponentFailure, HttpOnDialogTimeout
<1>8. Closes(r, HttpOnTimerEvent(r))
  BY <1>1, <1>6, StopsClose DEF HttpOnTimerEvent
<1> QED
  BY <1>2, <1>3, <1>4, <1>5, <1>7, <1>8

\* A session that is there goes on, or ends with its dialog.
LEMMA StillClosed ==
  ASSUME NEW r, Closed(r), NEW s, s.owner = r.owner,
         r.owner # "sip" =>
           /\ r.conn # "none" /\ s.info = r.info /\ s.conn \in {r.conn, "over"}
           /\ s.appq \in Seq(SessionPosts)
           /\ ~WarningEnabled =>
                s.cdr \in {r.cdr, "FAILED_APP_TIMEOUT"} \/ s.conn # "open"
  PROVE  Closed(s)
BY DEF Closed


\* A step of d that leaves its record closed; an HTTP dialog remains one.
BecomesClosed(d) ==
  \E s : Becomes(d, s) /\ Closed(s) /\ (dlg[d].owner = "http" => s.owner = "http")

\* What only the register or the mobile changes.
LEMMA OutsideClosed ==
  ASSUME TypeOK, NEW d \in Dialogs, Closed(dlg[d]), Register(d) \/ Mobile(d)
  PROVE  BecomesClosed(d)
<1> DEFINE r == dlg[d]
<1>1. r \in PushRecord
  BY DEF TypeOK
<1>2. r.owner # "sip" => r.conn # "none" /\ r.appq \in Seq(SessionPosts)
  BY DEF Register, HlrAnswers, HlrAnswersOpen, HlrEnds, HlrAborts, HlrRejects, QueryExpires,
         Unanswered, Mobile, MobileAnswers, MobileEnds, MobileAborts, InvokeExpires,
         DialogExpires, TimerExpires, Live, Closed, Fresh
<1>3. ASSUME NEW s, Update(d, s), Inbox(s) = Inbox(r), s.conn = r.conn, s.cdr = r.cdr
      PROVE  BecomesClosed(d)
  <2>1. Closed(s)
    BY <1>1, <1>2, <1>3, StillClosed DEF Inbox, PushRecord
  <2> QED
    BY <1>3, <2>1 DEF BecomesClosed, Update, Inbox
<1> HIDE DEF r
<1>4. CASE Register(d)
  <2>1. ASSUME NEW es, NEW s \in {FireSri(r, es), QueryOver(r, es)}
        PROVE  Inbox(s) = Inbox(r) /\ s.conn = r.conn /\ s.cdr = r.cdr
    BY <1>1, <2>1 DEF FireSri, QueryOver, PushRecord, Inbox
  <2>2. ASSUME NEW es, Update(d, FireSri(r, es)) \/ Update(d, QueryOver(r, es))
        PROVE  BecomesClosed(d)
    BY <1>3, <2>1, <2>2
  <2> QED
    BY <1>4, <2>2 DEF Register, HlrAnswers, HlrAnswersOpen, HlrEnds, HlrAborts, HlrRejects,
                      QueryExpires, r
<1>5. CASE Mobile(d)
  <2> DEFINE Same(s) == /\ DOMAIN s = DOMAIN r /\ Inbox(s) = Inbox(r)
                        /\ s.conn = r.conn /\ s.cdr = r.cdr
  <2>1. Same(r) /\ DOMAIN r = DOMAIN NoPush
    BY <1>1 DEF PushRecord, NoPush
  <2>2. ASSUME NEW s, Same(s), NEW x
        PROVE  /\ Same([s EXCEPT !.tcap = x]) /\ Same([s EXCEPT !.timers = @ \ {x}])
               /\ Same([s EXCEPT !.invokes = @ \ {x}]) /\ Same(Fire(s, x))
               /\ Same(Expunge(s, x))
               /\ Same([s EXCEPT !.tcap = x, !.map = "active"])
    BY <2>1, <2>2 DEF Fire, Expunge, Inbox, NoPush
  <2>3. ASSUME NEW s, Same(s), Update(d, s)
        PROVE  BecomesClosed(d)
    BY <1>3, <2>3
  <2>4. ASSUME NEW x
        PROVE  /\ Same(Reached(r, x))
               /\ \A op, e : Same(Answer(Reached(r, x), op, e))
    <3> HIDE DEF Same
    <3>1. Same(Reached(r, x))
      BY <2>1, <2>2 DEF Reached
    <3>2. ASSUME NEW op, NEW e
          PROVE  Same(Answer(Reached(r, x), op, e))
      BY <2>2, <3>1 DEF Answer
    <3> QED
      BY <3>1, <3>2
  <2> HIDE DEF Same
  <2>5. MobileAnswers(d) \/ MobileEnds(d) => BecomesClosed(d)
    BY <2>2, <2>3, <2>4 DEF MobileAnswers, MobileEnds, r
  <2>6. MobileAborts(d) \/ InvokeExpires(d) => BecomesClosed(d)
    BY <2>1, <2>2, <2>3 DEF MobileAborts, InvokeExpires, r
  <2>7. DialogExpires(d) \/ TimerExpires(d) => BecomesClosed(d)
    BY <2>1, <2>2, <2>3 DEF DialogExpires, TimerExpires, r
  <2> QED
    BY <1>5, <2>5, <2>6, <2>7 DEF Mobile
<1> QED
  BY <1>4, <1>5

\* The SriSbb and its parent.
LEMMA SriClosed ==
  ASSUME TypeOK, NEW d \in Dialogs, Closed(dlg[d]), HandleSri(d)
  PROVE  BecomesClosed(d)
<1> DEFINE r == dlg[d]
           q == SriRest(r)
           Same(s) == s \in PushRecord /\ Inbox(s) = Inbox(r) /\ s.conn = r.conn /\ s.cdr = r.cdr
<1>1. r \in PushRecord
  BY DEF TypeOK
<1>2. r.sriq # << >>
  BY DEF HandleSri, SriStoresComponent, SriClose, SriDelimiter, SriRetries, SriQueryFails,
         SriDelivered
<1>3. /\ r.owner # "sip" => r.conn # "none" /\ r.appq \in Seq(SessionPosts)
      /\ Closed(r)
  BY <1>2 DEF Closed, Fresh
<1>4. Same(q) /\ Head(r.sriq) \in SriEvents
  <2>1. q \in PushRecord /\ q = [r EXCEPT !.sriq = Tail(r.sriq)] /\ Head(r.sriq) \in SriEvents
    BY <1>1, <1>2, SriRestType
  <2>2. Inbox(q) = Inbox(r) /\ q.conn = r.conn /\ q.cdr = r.cdr
    BY <1>1, <2>1 DEF Inbox, PushRecord
  <2> QED
    BY <2>1, <2>2
<1>5. ASSUME NEW s, Same(s)
      PROVE  /\ Same(DetachFromCurrentDialog(s)) /\ Same(CloseQuery(s))
             /\ Same(PerformSriQuery(s)) /\ Same(ParentAnswered(s))
  <2>1. /\ << >> \in Seq(SriEvents) /\ s.queries + 1 \in Nat /\ s.answers + 1 \in Nat
    BY <1>5 DEF PushRecord
  <2>2. Same(DetachFromCurrentDialog(s))
    BY <1>5, <2>1 DEF DetachFromCurrentDialog, PushRecord, SriStates, Inbox
  <2>3. Same(CloseQuery(s))
    BY <1>5, <2>1 DEF CloseQuery, PushRecord, SriStates, Inbox
  <2>4. Same(PerformSriQuery(s))
    BY <1>5, <2>1 DEF PerformSriQuery, PushRecord, SriStates, Inbox
  <2>5. Same(ParentAnswered(s))
    BY <1>5, <2>1 DEF ParentAnswered, PushRecord, Inbox
  <2> QED
    BY <2>2, <2>3, <2>4, <2>5
<1>6. ASSUME NEW s, NEW q0, Same(q0), s.owner = r.owner, r.owner # "sip" => Closes(q0, s)
      PROVE  Closed(s) /\ s.owner = r.owner
  BY <1>3, <1>6, StillClosed DEF Closes, Inbox
<1>7. ASSUME NEW s, Same(s)
      PROVE  Closed(s) /\ s.owner = r.owner
  BY <1>3, <1>7, StillClosed DEF Inbox
<1>8. \A e \in Answers :
        Closed(StoreComponent(q, e)) /\ StoreComponent(q, e).owner = r.owner
  <2> SUFFICES ASSUME NEW e \in Answers
               PROVE  Closed(StoreComponent(q, e)) /\ StoreComponent(q, e).owner = r.owner
    OBVIOUS
  <2>1. q \in PushRecord
    BY <1>4
  <2> HIDE DEF q
  <2>2. Same(StoreComponent(q, e))
    <3>1. /\ [q EXCEPT !.located = TRUE] \in PushRecord
          /\ [q EXCEPT !.refusal = "error"] \in PushRecord
          /\ [q EXCEPT !.refusal = "reject"] \in PushRecord
      BY <2>1 DEF PushRecord, Refusals
    <3>2. /\ Inbox([q EXCEPT !.located = TRUE]) = Inbox(q)
          /\ Inbox([q EXCEPT !.refusal = "error"]) = Inbox(q)
          /\ Inbox([q EXCEPT !.refusal = "reject"]) = Inbox(q)
          /\ [q EXCEPT !.located = TRUE].conn = q.conn
          /\ [q EXCEPT !.refusal = "error"].conn = q.conn
          /\ [q EXCEPT !.refusal = "reject"].conn = q.conn
          /\ [q EXCEPT !.located = TRUE].cdr = q.cdr
          /\ [q EXCEPT !.refusal = "error"].cdr = q.cdr
          /\ [q EXCEPT !.refusal = "reject"].cdr = q.cdr
      BY <2>1 DEF Inbox, PushRecord
    <3> QED
      BY <1>4, <3>1, <3>2 DEF StoreComponent, Answers
  <2> QED
    BY <1>7, <2>2
<1>9. ASSUME NEW s, Same(s), NEW status \in CdrStatuses, NEW fault
      PROVE  /\ Closed(OnSriResult(ParentAnswered(s), fault))
             /\ Closed(OnSriError(ParentAnswered(s), status))
             /\ OnSriResult(ParentAnswered(s), fault).owner = r.owner
             /\ OnSriError(ParentAnswered(s), status).owner = r.owner
  <2> DEFINE c == ParentAnswered(s)
             n == CreateNewDialog(c)
  <2>1. Same(c)
    BY <1>5, <1>9
  <2> HIDE DEF c
  <2>2. n \in PushRecord /\ n.owner = c.owner
    BY <2>1 DEF CreateNewDialog, PushRecord, MapStates
  <2>3. /\ SipOnSriResult(c, fault).owner = r.owner
        /\ SipOnSriError(c, status).owner = r.owner
    BY <2>1, <2>2, SipOnSriResultEvolves, SipOnSriErrorEvolves DEF Evolves, Kept, Inbox
  <2>4. Closes(c, HttpOnSriResult(c, fault)) /\ Closes(c, HttpOnSriError(c, status))
    BY <2>1, FirstCloses
  <2>5. /\ HttpOnSriResult(c, fault).owner = r.owner
        /\ HttpOnSriError(c, status).owner = r.owner
    BY <2>1, <2>4 DEF Closes, Inbox
  <2>6. Closed(OnSriResult(c, fault)) /\ OnSriResult(c, fault).owner = r.owner
    BY <1>6, <2>1, <2>3, <2>4, <2>5 DEF OnSriResult, Inbox
  <2>7. Closed(OnSriError(c, status)) /\ OnSriError(c, status).owner = r.owner
    BY <1>6, <2>1, <2>3, <2>4, <2>5 DEF OnSriError, Inbox
  <2> QED
    BY <2>6, <2>7 DEF c
<1>10. ASSUME NEW s, Same(s), NEW status \in CdrStatuses,
              TellResult(d, s) \/ TellError(d, s, status)
       PROVE  BecomesClosed(d)
  BY <1>9, <1>10 DEF TellResult, TellError, BecomesClosed
<1>11. /\ \A s : NotLocatedStatus(s) \in CdrStatuses
       /\ \A e \in {"RejectAcn", "Reject", "UserAbort", "ProviderAbort", "DialogTimeout"} :
            QueryFailedStatus(e) \in CdrStatuses
  BY DEF NotLocatedStatus, QueryFailedStatus, CdrStatuses, SriStatuses
<1> HIDE DEF Same, q, r
<1>12. ASSUME NEW s, Same(s), SriFullResponse(d, s)
       PROVE  BecomesClosed(d)
  BY <1>5, <1>10, <1>11, <1>12 DEF SriFullResponse
<1>13. CASE SriStoresComponent(d)
  <2>1. Head(r.sriq) \in Answers /\ Update(d, StoreComponent(q, Head(r.sriq)))
    BY <1>13 DEF SriStoresComponent, SriDelivered, Answers, q, r
  <2> QED
    BY <1>8, <2>1 DEF BecomesClosed, Update, r
<1>14. CASE SriClose(d) \/ SriDelimiter(d)
  BY <1>4, <1>5, <1>12, <1>14 DEF SriClose, SriDelimiter, q, r
<1>15. CASE SriRetries(d)
  <2> DEFINE c == DetachFromCurrentDialog(q)
  <2>1. Same(c) /\ Closed(PerformSriQuery(c)) /\ PerformSriQuery(c).owner = r.owner
    BY <1>4, <1>5, <1>7
  <2>2. Update(d, PerformSriQuery(c)) \/ TellError(d, c, QueryFailedStatus("RejectAcn"))
    BY <1>15 DEF SriRetries, q, r
  <2> QED
    BY <1>10, <1>11, <2>1, <2>2 DEF BecomesClosed, Update, r
<1>16. CASE SriQueryFails(d)
  <2>1. /\ Head(r.sriq) \in {"Reject", "UserAbort", "ProviderAbort", "DialogTimeout"}
        /\ TellError(d, q, QueryFailedStatus(Head(r.sriq)))
    BY <1>16 DEF SriQueryFails, SriDelivered, q, r
  <2> QED
    BY <1>4, <1>10, <1>11, <2>1
<1> QED
  BY <1>13, <1>14, <1>15, <1>16 DEF HandleSri

\* The server SBB, on the MAP activity.
LEMMA MapHandlersClosed ==
  ASSUME TypeOK, NEW d \in Dialogs, Closed(dlg[d]), HandleMap(d)
  PROVE  BecomesClosed(d)
<1> DEFINE r == dlg[d]
           q == Rest(r)
<1>1. r \in PushRecord
  BY DEF TypeOK
<1>2. r.mapq # << >>
  BY DEF HandleMap, HandleUnstructuredSSResponse, HandleNotifyResponse, HandleOtherMessage,
         HandleAccept, HandleReject, HandleUserAbort, HandleProviderAbort,
         HandleInvokeTimeout, HandleRejectComponent, HandleErrorComponent,
         HandleDialogTimeout, HandleTimer, HandleRelease, OnAbortIndication,
         OnComponentFailure, Delivered
<1>3. r.owner # "sip" => r.conn # "none" /\ r.appq \in Seq(SessionPosts)
  BY <1>2 DEF Closed, Fresh
<1>4. q \in PushRecord /\ Inbox(q) = Inbox(r) /\ q.conn = r.conn /\ q.cdr = r.cdr
  BY <1>1, <1>2, RestStep DEF Rest, PushRecord, Inbox
<1>5. Closed(r)
  OBVIOUS
<1> HIDE DEF q
<1>6. ASSUME NEW http, NEW sip, Update(d, ByOwner(q, http, sip)),
             Closes(q, http), Evolves(q, sip)
      PROVE  BecomesClosed(d)
  <2>1. /\ Closed(ByOwner(q, http, sip))
        /\ ByOwner(q, http, sip).owner = r.owner
    BY <1>3, <1>4, <1>5, <1>6, StillClosed DEF ByOwner, Closes, Evolves, Kept, Inbox
  <2> QED
    BY <1>6, <2>1 DEF BecomesClosed, Update
<1>7. /\ "FAILED_DIALOG_REJECTED" \in CdrStatuses
      /\ "FAILED_DIALOG_USER_ABORT" \in CdrStatuses
      /\ "FAILED_PROVIDER_ABORT" \in CdrStatuses
      /\ "FAILED_INVOKE_TIMEOUT" \in CdrStatuses
      /\ "FAILED_MAP_REJECT_COMPONENT" \in CdrStatuses
      /\ "FAILED_MAP_ERROR_COMPONENT" \in CdrStatuses
  BY DEF CdrStatuses
<1>8. /\ HandleUnstructuredSSResponse(d) => BecomesClosed(d)
      /\ HandleNotifyResponse(d) => BecomesClosed(d)
      /\ HandleOtherMessage(d) => BecomesClosed(d)
  BY <1>4, <1>6, <1>7, EventsClose, SipAnswersEvolve
  DEF HandleUnstructuredSSResponse, HandleNotifyResponse, HandleOtherMessage, q
<1>9. HandleAccept(d) => BecomesClosed(d)
  BY <1>4, <1>6, <1>7, FirstCloses, SipAnswersEvolve DEF HandleAccept, q
<1>10. ASSUME NEW e, NEW status \in CdrStatuses, OnAbortIndication(d, e, status)
       PROVE  BecomesClosed(d)
  BY <1>4, <1>6, <1>10, EventsClose, SipOnSriErrorEvolves DEF OnAbortIndication, q
<1>11. ASSUME NEW e, NEW status \in CdrStatuses, OnComponentFailure(d, e, status)
       PROVE  BecomesClosed(d)
  BY <1>4, <1>6, <1>11, EventsClose, SipFailuresEvolve DEF OnComponentFailure, q
<1>12. HandleErrorComponent(d) => BecomesClosed(d)
  BY <1>4, <1>6, <1>7, EventsClose, SipFailuresEvolve DEF HandleErrorComponent, q
<1>13. HandleDialogTimeout(d) => BecomesClosed(d)
  BY <1>4, <1>6, <1>7, EventsClose, SipFailuresEvolve DEF HandleDialogTimeout, q
<1>14. HandleTimer(d) => BecomesClosed(d)
  BY <1>4, <1>6, <1>7, EventsClose, SipOnTimerEventEvolves DEF HandleTimer, q
<1>15. HandleRelease(d) => BecomesClosed(d)
  <2> SUFFICES ASSUME HandleRelease(d) PROVE BecomesClosed(d)
    OBVIOUS
  <2> DEFINE s == OnDialogRelease(r)
  <2>1. Becomes(d, s)
    BY DEF HandleRelease
  <2>2. Inbox(s) = Inbox(r) /\ s.conn = r.conn /\ s.cdr = r.cdr
    BY <1>1 DEF OnDialogRelease, PushRecord, Inbox
  <2> HIDE DEF s
  <2>3. Closed(s)
    BY <1>3, <1>5, <2>2, StillClosed DEF Inbox
  <2> QED
    BY <2>1, <2>2, <2>3 DEF BecomesClosed, Inbox
<1> QED
  BY <1>7, <1>8, <1>9, <1>10, <1>11, <1>12, <1>13, <1>14, <1>15
  DEF HandleMap, HandleReject, HandleUserAbort, HandleProviderAbort, HandleInvokeTimeout,
      HandleRejectComponent

\* The server SBB, on the session or the SIP dialog.
LEMMA AppHandlersClosed ==
  ASSUME TypeOK, NEW d \in Dialogs, Closed(dlg[d]), HandleApp(d)
  PROVE  BecomesClosed(d)
<1> DEFINE r == dlg[d]
           q == AppRest(r)
<1>1. r \in PushRecord /\ Closed(r)
  BY DEF TypeOK
<1>2. r.appq # << >>
  BY DEF HandleApp, HandleSessionPost, HandleInfo, HandleBye, HandleTransportError, Received
<1>3. /\ q \in PushRecord
      /\ << q.owner, q.info, q.conn, q.cdr >> = << r.owner, r.info, r.conn, r.cdr >>
      /\ q.appq = Tail(r.appq)
  BY <1>1, <1>2, AppRestStep DEF AppRest, PushRecord
<1>4. r.owner # "sip" =>
        /\ r.conn # "none" /\ q.appq \in Seq(SessionPosts)
        /\ Head(r.appq) \in SessionPosts
  <2> SUFFICES ASSUME r.owner # "sip"
               PROVE  /\ r.conn # "none" /\ q.appq \in Seq(SessionPosts)
                      /\ Head(r.appq) \in SessionPosts
    OBVIOUS
  <2>1. r.conn # "none" /\ r.appq \in Seq(SessionPosts)
    BY <1>1, <1>2 DEF Closed, Fresh
  <2> QED
    BY <1>2, <1>3, <2>1, HeadTailProperties
<1> HIDE DEF q
<1>5. ASSUME NEW s, Update(d, s), Evolves(q, s), r.owner # "sip" => Closes(q, s)
      PROVE  BecomesClosed(d)
  <2>1. Closed(s) /\ s.owner = r.owner
    BY <1>1, <1>3, <1>4, <1>5, StillClosed DEF Closes, Evolves, Kept, Inbox
  <2> QED
    BY <1>5, <2>1 DEF BecomesClosed, Update
<1>6. CASE HandleSessionPost(d)
  BY <1>3, <1>5, <1>6, OnSessionPostEvolves, PostsClose DEF HandleSessionPost, Received, q
<1>7. CASE HandleInfo(d) \/ HandleBye(d) \/ HandleTransportError(d)
  <2>1. r.owner = "sip"
    BY <1>4, <1>7
    DEF HandleInfo, HandleBye, HandleTransportError, Received, SessionPosts
  <2>2. "FAILED_TRANSPORT_ERROR" \in CdrStatuses
    BY DEF CdrStatuses
  <2>3. /\ \A k : Evolves(q, OnDialogInfo(q, k))
        /\ Evolves(q, OnInfoNoReply(q)) /\ Evolves(q, OnDialogBye(q))
        /\ Evolves(q, OnByeNoReply(q)) /\ Evolves(q, OnTransportError(q))
    BY <1>3, <2>2, OnDialogInfoEvolves, OnDialogByeEvolves, SipFailuresEvolve
  <2> QED
    BY <1>5, <1>7, <2>1, <2>3 DEF HandleInfo, HandleBye, HandleTransportError, q
<1> QED
  BY <1>6, <1>7 DEF HandleApp

\* What an application does, and the POSTs that are given up.
LEMMA ApplicationClosed ==
  ASSUME TypeOK, NEW d \in Dialogs, Closed(dlg[d]), Application(d)
  PROVE  BecomesClosed(d)
<1> DEFINE r == dlg[d]
<1>1. r \in PushRecord /\ Closed(r)
  BY DEF TypeOK
<1>2. ASSUME NEW s, Becomes(d, s), Closed(s), r.owner = "http" => s.owner = "http"
      PROVE  BecomesClosed(d)
  BY <1>2 DEF BecomesClosed
<1>3. ASSUME r.owner = "none"
      PROVE  r.conn = "none" /\ ~r.info /\ r.appq = << >> /\ Fresh(r)
  BY <1>1, <1>3 DEF Closed, Fresh
<1>4. CASE HttpPostUnusable(d)
  <2> DEFINE s == OnUnusablePost(r)
  <2>1. r.owner = "none" /\ Becomes(d, s)
    BY <1>4 DEF HttpPostUnusable, New, Update
  <2>2. /\ s.owner = "http" /\ s.conn = "none" /\ ~s.info /\ s.appq = << >>
        /\ Fresh(s)
    BY <1>1, <1>3, <2>1 DEF OnUnusablePost, UpdateDialogFailureStat, PushRecord, Fresh
  <2> HIDE DEF s
  <2>3. Closed(s)
    BY <2>2 DEF Closed, Fresh
  <2> QED
    BY <1>2, <2>1, <2>3
<1>5. CASE HttpPost(d) \/ HttpPostNoQuery(d)
  <2>1. PICK first \in Firsts :
          /\ r.owner = "none"
          /\ Becomes(d, OnPost(r, first)) \/ Becomes(d, OnPostNoQuery(r, first))
    BY <1>5 DEF HttpPost, HttpPostNoQuery, New, Update
  <2>2. first.op \in Operations /\ first.handshake \in BOOLEAN /\ first.last \in BOOLEAN
    BY InputsAssumption
  <2> DEFINE q == StartPush(r, first)
             a == AbortHttpDialog(q)
  <2>3. q \in PushRecord
    BY <1>1, <2>2 DEF StartPush, PushRecord, Owners, Contexts, ConnStates
  <2>4. /\ q.owner = "http" /\ q.conn = "open" /\ ~q.info /\ q.appq = << >>
        /\ q.cdr = "none"
    BY <1>1, <1>3, <2>1 DEF StartPush, PushRecord, Fresh
  <2> HIDE DEF q
  <2>5. Inbox(a) = Inbox(q) /\ a.conn \in {q.conn, "over"} /\ a.cdr = q.cdr /\ a \in PushRecord
    <3>1. Tame(q, a) /\ a.cdr = q.cdr /\ a.conn \in {q.conn, "over"}
      BY <2>3, SessionTame
    <3>2. "SUCCESS" \in CdrStatuses
      BY DEF CdrStatuses
    <3> QED
      BY <2>3, <3>1, <3>2, EndsClose DEF Closes
  <2> HIDE DEF a
  <2>6. /\ Inbox(PerformSriQuery(q)) = Inbox(q) /\ PerformSriQuery(q).conn = q.conn
        /\ PerformSriQuery(q).cdr = q.cdr
        /\ Inbox(UpdateDialogFailureStat(a)) = Inbox(a)
        /\ UpdateDialogFailureStat(a).conn = a.conn /\ UpdateDialogFailureStat(a).cdr = a.cdr
    BY <2>3, <2>5 DEF PerformSriQuery, UpdateDialogFailureStat, PushRecord, Inbox
  <2>7. Closed(PerformSriQuery(q)) /\ Closed(UpdateDialogFailureStat(a))
    BY <2>4, <2>5, <2>6 DEF Closed, Inbox
  <2> QED
    BY <1>2, <2>1, <2>7 DEF OnPost, OnPostNoQuery, a, q
<1>6. CASE SipInviteUnusable(d) \/ SipInvite(d) \/ SipInviteNoQuery(d)
  <2>1. ASSUME NEW op
        PROVE  /\ OnUnusableInvite(r).owner = "sip" /\ OnInvite(r, op).owner = "sip"
               /\ OnInviteNoReply(r, op).owner = "sip" /\ OnInviteNoQuery(r, op).owner = "sip"
    BY <1>1 DEF OnUnusableInvite, OnInvite, OnInviteNoReply, OnInviteNoQuery, StartSipPush,
                PerformSriQuery, UpdateDialogFailureStat, PushRecord
  <2> QED
    BY <1>2, <1>6, <2>1
    DEF SipInviteUnusable, SipInvite, SipInviteNoQuery, New, Update, Closed
<1>7. CASE HttpAppPosts(d)
  <2>1. PICK k \in SessionPosts : r.conn = "open" /\ Becomes(d, Sends(r, k))
    BY <1>7 DEF HttpAppPosts, Update
  <2> DEFINE s == Sends(r, k)
  <2>2. /\ << s.owner, s.info, s.conn, s.cdr >> = << r.owner, r.info, r.conn, r.cdr >>
        /\ s.appq = Append(r.appq, k)
    BY <1>1 DEF Sends, PushRecord
  <2>3. r.owner # "sip" => s.appq \in Seq(SessionPosts)
    BY <1>1, <2>1, <2>2, AppendProperties DEF Closed
  <2> HIDE DEF s
  <2>4. Closed(s)
    BY <1>1, <2>1, <2>2, <2>3, StillClosed
  <2> QED
    BY <1>2, <2>1, <2>2, <2>4 DEF s
<1>8. CASE SuspendExpires(d)
  <2> DEFINE s == ResumeHttpEventContext(r)
  <2>1. Becomes(d, s)
    BY <1>8 DEF SuspendExpires, Update
  <2>2. << s.owner, s.info, s.conn, s.cdr, s.appq, s.sri, s.sriq, s.map, s.mapq >>
        = << r.owner, r.info, r.conn, r.cdr, r.appq, r.sri, r.sriq, r.map, r.mapq >>
    BY <1>1 DEF ResumeHttpEventContext, PushRecord
  <2> HIDE DEF s
  <2>3. Closed(s)
    BY <1>1, <2>2 DEF Closed, Fresh
  <2> QED
    BY <1>2, <2>1, <2>2, <2>3
<1>9. CASE SipAppSends(d) \/ SipAppRefuses(d) \/ SipAppAcceptsBye(d) \/ SipDialogExpires(d)
  <2>1. r.conn \in {"confirmed", "bye", "lateBye"} \/ r.info
    BY <1>9 DEF SipAppSends, SipAppRefuses, SipAppAcceptsBye, SipDialogExpires
  <2>2. r.owner = "sip"
    BY <1>1, <2>1 DEF Closed
  <2>3. ASSUME NEW s, s.owner = r.owner, Becomes(d, s)
        PROVE  BecomesClosed(d)
    BY <1>2, <2>2, <2>3 DEF Closed
  <2>4. ASSUME NEW k
        PROVE  /\ Sends(r, k).owner = r.owner
               /\ [r EXCEPT !.info = FALSE, !.appq = Append(@, k)].owner = r.owner
               /\ [r EXCEPT !.conn = "over", !.appq = Append(@, k)].owner = r.owner
               /\ [r EXCEPT !.conn = "over"].owner = r.owner
    BY <1>1 DEF Sends, PushRecord
  <2> HIDE DEF r
  <2> QED
    BY <1>9, <2>3, <2>4
    DEF SipAppSends, SipAppRefuses, SipAppAcceptsBye, SipDialogExpires, Update, r
<1> QED
  BY <1>4, <1>5, <1>6, <1>7, <1>8, <1>9 DEF Application

-----------------------------------------------------------------------------
(***************************************************************************)
(* Theorems.                                                               *)
(***************************************************************************)
\* The invariant of all sessions.
AllSession == \A d \in Dialogs : SessionSound(dlg[d])

\* The record before the first message.
LEMMA NoPushSession == SessionSound(NoPush)
<1>1. /\ NoPush.owner = "none" /\ NoPush.cdr = "none" /\ NoPush.answers = 0
      /\ NoPush.ctx = "none" /\ NoPush.map = "none" /\ NoPush.mapq = << >>
      /\ NoPush.invokes = {} /\ NoPush.timers = {} /\ NoPush.final = FALSE
      /\ NoPush.established = FALSE
  BY DEF NoPush
<1>2. \A es : ~Queued(NoPush.mapq, es) /\ AtMostOne(NoPush.mapq, es)
  BY <1>1, QueuedNothing
<1> QED
  BY <1>1, <1>2
  DEF SessionSound, Ready, HeardSound, BlankSound, FailedSound, AcceptSound, ReleaseLast,
      BilledTold, TimerSound, AnswerSound, UnsentStatuses, SriStatuses

\* The invariant from which the others follow: the session or SIP dialog of the
\* application, its suspended POST and its timer agree with what the mobile was asked
\* and with what is under way from it, as long as no suspended POST is given up.
THEOREM SessionSoundness == RegisterCloses /\ ~ SuspendTimeouts => (Spec => []AllSession)
<1> SUFFICES ASSUME RegisterCloses, ~ SuspendTimeouts PROVE Spec => []AllSession
  OBVIOUS
<1>1. Init => AllSession
  BY NoPushSession DEF Init, AllSession
<1>2. TypeOK /\ AllConsistent /\ AllSound /\ AllSession /\ [Next]_vars => AllSession'
  <2> SUFFICES ASSUME TypeOK, AllConsistent, AllSound, AllSession, [Next]_vars
               PROVE  AllSession'
    OBVIOUS
  <2>1. CASE UNCHANGED vars
    BY <2>1 DEF vars, AllSession
  <2>2. CASE Next
    <3>1. PICK d \in Dialogs : \/ Register(d) \/ HandleSri(d) \/ Mobile(d)
                               \/ HandleMap(d) \/ Application(d) \/ HandleApp(d)
      BY <2>2 DEF Next
    <3>2. Sound(dlg[d]) /\ Consistent(dlg[d]) /\ SessionSound(dlg[d])
      BY DEF AllSound, AllConsistent, AllSession
    <3>3. BecomesSession(d)
      BY <3>1, <3>2, RegisterSession, SriSession, MobileSession, MapHandlersSession,
         ApplicationSession, AppHandlersSession
    <3>4. PICK s : Becomes(d, s) /\ SessionSound(s)
      BY <3>3 DEF BecomesSession
    <3> QED
      BY <3>4, Frame DEF AllSession
  <2> QED
    BY <2>1, <2>2
<1> QED
  BY <1>1, <1>2, Consistency, Soundness, PTL DEF Spec

\* A POST that is suspended when the SBB has left the MAP activity belongs to a dialog
\* that the mobile, or its answer to an error message, has ended.
THEOREM PostGuarded == RegisterCloses /\ ~ SuspendTimeouts => (Spec => []SuspendedPostGuarded)
<1> SUFFICES ASSUME RegisterCloses, ~ SuspendTimeouts PROVE Spec => []SuspendedPostGuarded
  OBVIOUS
<1>1. AllConsistent /\ AllSession => SuspendedPostGuarded
  <2> SUFFICES ASSUME AllConsistent, AllSession, NEW d \in Dialogs, dlg[d].ctx # "none",
                      dlg[d].answers > 0, ~ dlg[d].aci
               PROVE  dlg[d].ending \in {"peerEnd", "final"}
    BY DEF SuspendedPostGuarded
  <2> DEFINE r == dlg[d]
  <2>1. SessionSound(r) /\ ~Live(r) /\ r.mapq = << >>
    BY DEF AllConsistent, AllSession, Consistent, MapConsistent, Live, Running
  <2>2. r.owner = "http" /\ ~Queued(r.mapq, EndEvents)
    BY <2>1, QueuedNothing DEF SessionSound, Ready, BlankSound
  <2> QED
    BY <2>1, <2>2 DEF SessionSound, HeardSound, Waits
<1> QED
  BY <1>1, Consistency, SessionSoundness, PTL

\* No timer runs for an application whose POST waits for the mobile.
THEOREM TimerThinks == RegisterCloses /\ ~ SuspendTimeouts => (Spec => []TimerOnlyWhileAppThinks)
<1> SUFFICES ASSUME RegisterCloses, ~ SuspendTimeouts PROVE Spec => []TimerOnlyWhileAppThinks
  OBVIOUS
<1>1. AllSession => TimerOnlyWhileAppThinks
  BY DEF AllSession, SessionSound, Ready, BlankSound, TimerSound, TimerOnlyWhileAppThinks
<1> QED
  BY <1>1, SessionSoundness, PTL

\* A dialog that counts as established is not billed as one that nobody has seen.
THEOREM Established == RegisterCloses /\ ~ SuspendTimeouts => (Spec => []EstablishedSent)
<1> SUFFICES ASSUME RegisterCloses, ~ SuspendTimeouts PROVE Spec => []EstablishedSent
  OBVIOUS
<1>1. AllSession => EstablishedSent
  BY DEF AllSession, SessionSound, Ready, AcceptSound, UnsentStatuses, EstablishedSent
<1> QED
  BY <1>1, SessionSoundness, PTL

\* The invariant of the sessions.
AllClosed == \A d \in Dialogs : Closed(dlg[d])

\* That it is one, whatever register, mobiles and applications do.
LEMMA SessionsClosed == Spec => []AllClosed
<1>1. Init => AllClosed
  <2>1. Closed(NoPush)
    <3>1. << >> \in Seq(SessionPosts)
      OBVIOUS
    <3> QED
      BY <3>1 DEF NoPush, Closed, Fresh
  <2> QED
    BY <2>1 DEF Init, AllClosed
<1>2. TypeOK /\ AllClosed /\ [Next]_vars => AllClosed'
  <2> SUFFICES ASSUME TypeOK, AllClosed, [Next]_vars
               PROVE  AllClosed'
    OBVIOUS
  <2>1. CASE UNCHANGED vars
    BY <2>1 DEF vars, AllClosed
  <2>2. CASE Next
    <3>1. PICK d \in Dialogs : \/ Register(d) \/ HandleSri(d) \/ Mobile(d)
                               \/ HandleMap(d) \/ Application(d) \/ HandleApp(d)
      BY <2>2 DEF Next
    <3>2. Closed(dlg[d])
      BY DEF AllClosed
    <3>3. BecomesClosed(d)
      BY <3>1, <3>2, OutsideClosed, SriClosed, MapHandlersClosed, ApplicationClosed,
         AppHandlersClosed
    <3>4. PICK s : Becomes(d, s) /\ Closed(s)
      BY <3>3 DEF BecomesClosed
    <3> QED
      BY <3>4, Frame DEF AllClosed
  <2> QED
    BY <2>1, <2>2
<1> QED
  BY <1>1, <1>2, TypeCorrect, PTL DEF Spec

\* The session of an HTTP application is over once its dialog has failed, whatever
\* register, mobiles and applications do, and whether or not POSTs are given up.
THEOREM FailedEnds == Spec => []FailedSessionEnded
<1>1. AllClosed => FailedSessionEnded
  BY DEF AllClosed, Closed, FailedSessionEnded
<1> QED
  BY <1>1, SessionsClosed, PTL

\* Dialogs of SIP applications have no POST that could be given up.
SoundIfSip(r) == r.owner # "http" => Sound(r) /\ SessionSound(r)

AllSipSessions == \A d \in Dialogs : SoundIfSip(dlg[d])

\* For them the invariant holds whether or not timeouts may be suspended.
LEMMA SipSessionSoundness == RegisterCloses => (Spec => []AllSipSessions)
<1> SUFFICES ASSUME RegisterCloses PROVE Spec => []AllSipSessions
  OBVIOUS
<1>1. Init => AllSipSessions
  BY NoPushSound, NoPushSession DEF Init, AllSipSessions, SoundIfSip
<1>2. TypeOK /\ AllConsistent /\ AllClosed /\ AllSipSessions /\ [Next]_vars => AllSipSessions'
  <2> SUFFICES ASSUME TypeOK, AllConsistent, AllClosed, AllSipSessions, [Next]_vars
               PROVE  AllSipSessions'
    OBVIOUS
  <2>1. CASE UNCHANGED vars
    BY <2>1 DEF vars, AllSipSessions
  <2>2. CASE Next
    <3>1. PICK d \in Dialogs : \/ Register(d) \/ HandleSri(d) \/ Mobile(d)
                               \/ HandleMap(d) \/ Application(d) \/ HandleApp(d)
      BY <2>2 DEF Next
    <3>2. Consistent(dlg[d]) /\ Closed(dlg[d]) /\ SoundIfSip(dlg[d])
      BY DEF AllConsistent, AllClosed, AllSipSessions
    <3>3. PICK s : Becomes(d, s) /\ (dlg[d].owner = "http" => s.owner = "http")
      <4>1. BecomesClosed(d)
        BY <3>1, <3>2, OutsideClosed, SriClosed, MapHandlersClosed, ApplicationClosed,
           AppHandlersClosed
      <4> QED
        BY <4>1 DEF BecomesClosed
    <3>4. SoundIfSip(s)
      <4>1. CASE dlg[d].owner = "http"
        BY <3>3, <4>1 DEF SoundIfSip
      <4>2. CASE dlg[d].owner # "http"
        <5>1. Sound(dlg[d]) /\ SessionSound(dlg[d])
          BY <3>2, <4>2 DEF SoundIfSip
        <5>2. dlg[d].ctx = "none"
          BY <4>2, <5>1 DEF SessionSound, Ready, BlankSound
        <5>3. BecomesSound(d)
          BY <3>1, <3>2, <5>1, <5>2, RegisterSound, SriSound, MobileSound,
             MapHandlersSound, ApplicationSound, AppHandlersSound
        <5>4. BecomesSession(d)
          BY <3>1, <3>2, <5>1, <5>2, RegisterSession, SriSession, MobileSession,
             MapHandlersSession, ApplicationSession, AppHandlersSession
        <5>5. PICK x, y : Becomes(d, x) /\ Sound(x) /\ Becomes(d, y) /\ SessionSound(y)
          BY <5>3, <5>4 DEF BecomesSound, BecomesSession
        <5>6. x = s /\ y = s
          BY <3>3, <5>5, Frame
        <5> QED
          BY <5>5, <5>6 DEF SoundIfSip
      <4> QED
        BY <4>1, <4>2
    <3> QED
      BY <3>3, <3>4, Frame DEF AllSipSessions
  <2> QED
    BY <2>1, <2>2
<1> QED
  BY <1>1, <1>2, TypeCorrect, Consistency, SessionsClosed, PTL DEF Spec

\* A SIP application is told of the end of its dialog, unless the mobile ended it or
\* the CDR blames the SIP side, whatever becomes of the POSTs of HTTP applications.
THEOREM SipIsTold == RegisterCloses => (Spec => []SipTold)
<1> SUFFICES ASSUME RegisterCloses PROVE Spec => []SipTold
  OBVIOUS
<1>1. AllConsistent /\ AllSipSessions => SipTold
  <2> SUFFICES ASSUME AllConsistent, AllSipSessions, NEW d \in Dialogs,
                      dlg[d].owner = "sip", dlg[d].answers > 0, ~ dlg[d].aci,
                      dlg[d].conn = "confirmed"
               PROVE  \/ dlg[d].ending \in {"peerEnd", "final"}
                      \/ dlg[d].cdr \in {"FAILED_TRANSPORT_ERROR", "FAILED_TRANSPORT_FAILURE"}
    BY DEF SipTold
  <2> DEFINE r == dlg[d]
  <2>1. SessionSound(r) /\ ~Live(r) /\ r.mapq = << >>
    BY DEF AllConsistent, AllSipSessions, SoundIfSip, Consistent, MapConsistent, Live, Running
  <2>2. ~Queued(r.mapq, EndEvents)
    BY <2>1, QueuedNothing
  <2> QED
    BY <2>1, <2>2 DEF SessionSound, Ready, BilledTold, HeardSound, Waits
<1> QED
  BY <1>1, Consistency, SipSessionSoundness, PTL

\* The handler of an answer finds the POST that the answer belongs to.
THEOREM AnswerHasPost == RegisterCloses /\ ~ SuspendTimeouts => (Spec => []AnswerFindsPost)
<1> SUFFICES ASSUME RegisterCloses, ~ SuspendTimeouts PROVE Spec => []AnswerFindsPost
  OBVIOUS
<1>1. TypeOK /\ AllSession => AnswerFindsPost
  <2> SUFFICES ASSUME TypeOK, AllSession, NEW d \in Dialogs, dlg[d].owner = "http",
                      dlg[d].cdr = "none", dlg[d].mapq # << >>,
                      Head(dlg[d].mapq) \in AnswerEvents
               PROVE  dlg[d].ctx # "none"
    BY DEF AnswerFindsPost
  <2> DEFINE r == dlg[d]
  <2>1. AnswerSound(r) /\ r.mapq \in Seq(MapEvents)
    BY DEF TypeOK, PushRecord, AllSession, SessionSound, Ready
  <2>2. Queued(r.mapq, AnswerEvents)
    BY <2>1, QueuedTail
  <2>3. Going(r) /\ Replied(r) = AnswerEvents
    BY <2>1 DEF AnswerSound, Going, Replied
  <2> QED
    BY <2>1, <2>2, <2>3 DEF AnswerSound
<1> QED
  BY <1>1, Consistency, SessionSoundness, PTL
=============================================================================
