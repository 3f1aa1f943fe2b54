------------------------- MODULE PullSessionProofs -------------------------
(***************************************************************************)
(* Theorems about the session of a PULL dialog: the turns of the mobile    *)
(* and of the application, the timer that guards the wait, the connection  *)
(* and the failure statistics, for any number of dialogs, any limit and    *)
(* any number of menus.  Sound is an invariant of one record, given        *)
(* SessionConsistent: every handler is followed through its services, and  *)
(* each action leaves the record of its dialog sound.                      *)
(***************************************************************************)
EXTENDS UssdPullProofs

\* At most one event of es stands in q.
AtMostOne(q, es) ==
  \A i, j \in 1 .. Len(q) : q[i] \in es /\ q[j] \in es => i = j

\* Events after which it is the application's turn.
Turns == {"ProcessUnstructuredSSRequest", "UnstructuredSSResponse"}

\* Answers after which it is the mobile's turn, or nobody's.
Replies == {"continue", "notify", "reply", "infoRequest"}

\* Events of the application that leave the timer alone.
Silent == {"success", "redirect"}

\* The connection and the events of the application are of the transport that
\* the dialog was routed to; without a child nothing waits and nothing is armed.
SideSound(r) ==
  /\ r.owner = "http" =>
       r.conn \in HttpStates /\ \A i \in 1 .. Len(r.appq) : r.appq[i] \in HttpAnswers
  /\ r.owner = "sip" =>
       r.conn \in SipStates /\ \A i \in 1 .. Len(r.appq) : r.appq[i] \in SipEvents
  /\ ~Established(r) => r.waiting = 0 /\ r.timers = {}

\* Until the child has seen the request, the application knows nothing of the dialog.
RequestSound(r) ==
  Queued(r.mapq, {"ProcessUnstructuredSSRequest"}) =>
    /\ r.conn = "none" /\ r.appq = << >> /\ r.waiting = 0
    /\ r.cdr = "none"

\* The armed timer is the one that is stored, and it never runs while the mobile
\* is asked or while its answer is on the way to the child.
TimerSound(r) ==
  /\ r.timers \subseteq {r.timerID}
  /\ AtMostOne(r.mapq, Turns)
  /\ Queued(r.mapq, Turns) => r.timers = {} /\ r.invoke # "request"
  /\ r.invoke = "request" => r.timers = {}

\* Whose turn it is: at most one request to the application is open, at most one
\* reply to the mobile is on its way, and never together with a question to the
\* mobile or its answer.
TurnSound(r) ==
  Live(r) =>
    /\ r.waiting <= 1
    /\ AtMostOne(r.appq, Replies)
    /\ r.waiting > 0 => ~Queued(r.appq, Replies)
    /\ r.waiting > 0 \/ Queued(r.appq, Replies) =>
         ~Queued(r.mapq, Turns) /\ r.invoke # "request"

\* A dialog that waits is guarded by the timer or by its event; a timer that runs
\* has something to wait for, or an event that will cancel it.
AwaitSound(r) ==
  Live(r) =>
    /\ r.waiting > 0 => r.timers # {} \/ Queued(r.mapq, {"Timer"})
    /\ r.timers # {} => r.waiting > 0 \/ Queued(r.appq, AppEvents \ Silent)
    /\ r.conn \notin {"bye", "lateInvite", "lateBye"} /\ ~r.final

\* The type of the last TC message: after a TC-END the queue holds Close, then
\* Release, behind whatever the TC-END carried.
TcapSound(r) ==
  /\ Live(r) => r.tcap \in {"Begin", "Continue"}
  /\ Queued(r.mapq, {"UnstructuredSSResponse"}) => r.tcap # "Begin"
  /\ r.tcap = "End" =>
       LET n == Len(r.mapq)
       IN  \/ n = 0
           \/ n = 1 /\ r.mapq[1] = "Release"
           \/ n >= 2 /\ r.mapq[n - 1] = "Close" /\ r.mapq[n] = "Release"

\* A failed dialog was counted, or the Close that counts it is still to come.
FailureSound(r) ==
  r.cdr \notin {"none", "SUCCESS"} =>
    \/ r.count["DialogsAllFailed"] > 0
    \/ r.owner = "sip" /\ r.cdr = "FAILED_CORRUPTED_MESSAGE"
    \/ Queued(r.mapq, {"Close"})

\* A billed dialog has let go of its connection, or waits for its last response.
LeakSound(r) ==
  r.cdr # "none" =>
    /\ r.conn = "open" /\ r.urlOk => r.waiting > 0 \/ r.appq # << >>
    /\ r.count["DialogsPushFailed"] = 0 => r.conn \notin {"early", "confirmed"}

\* The invariant of one dialog.
Sound(r) ==
  /\ SideSound(r) /\ RequestSound(r) /\ TimerSound(r) /\ TurnSound(r)
  /\ AwaitSound(r) /\ TcapSound(r) /\ FailureSound(r) /\ LeakSound(r)

-----------------------------------------------------------------------------
(***************************************************************************)
(* What handlers do, seen from the session.                                *)
(***************************************************************************)
\* s is what services of the SBB leave of r: the owner, the queue of the application
\* and the stored timer id stay, no timer is armed and no counter goes down.
Quiet(r, s) ==
  /\ s \in PullRecord
  /\ s.owner = r.owner /\ s.tcap = r.tcap /\ s.urlOk = r.urlOk /\ s.appq = r.appq
  /\ s.timerID = r.timerID /\ s.timers \subseteq r.timers
  /\ s.invoke \in {r.invoke, "none"}
  /\ \A c \in Counters : r.count[c] <= s.count[c]
  /\ r.owner = "http" /\ r.conn \in HttpStates => s.conn \in HttpStates
  /\ r.owner = "sip" /\ r.conn \in SipStates => s.conn \in SipStates

\* Nothing was sent to the application and no connection ended.
SameSide(r, s) == s.conn = r.conn /\ s.waiting = r.waiting

\* The connection is of the transport of the dialog.
Sided(r) ==
  /\ r.owner \in Transports
  /\ r.owner = "http" => r.conn \in HttpStates
  /\ r.owner = "sip" => r.conn \in SipStates

\* LeakSound of a dialog that is about to be billed.
Tidy(s) ==
  /\ s.conn = "open" /\ s.urlOk => s.waiting > 0
  /\ s.count["DialogsPushFailed"] = 0 => s.conn \notin {"early", "confirmed"}

\* The dialog was counted as failed.
Counted(s) == s.count["DialogsAllFailed"] > 0

\* A handler that ends the session leaves the connection tidy.
Ends(r, s) == Quiet(r, s) /\ Tidy(s)

-----------------------------------------------------------------------------
(***************************************************************************)
(* Quiet steps.                                                            *)
(***************************************************************************)
\* To do nothing is quiet.
LEMMA QuietRefl ==
  ASSUME NEW r \in PullRecord
  PROVE  Quiet(r, r) /\ SameSide(r, r)
<1>1. \A c \in Counters : r.count[c] \in Nat
  BY DEF PullRecord
<1> QED  BY <1>1 DEF Quiet, SameSide

\* Quiet steps add up.
LEMMA QuietTrans ==
  ASSUME NEW r \in PullRecord, NEW s, NEW t, Quiet(r, s), Quiet(s, t)
  PROVE  Quiet(r, t)
<1>1. s \in PullRecord /\ t \in PullRecord
  BY DEF Quiet
<1>2. \A c \in Counters : r.count[c] \in Nat /\ s.count[c] \in Nat /\ t.count[c] \in Nat
  BY <1>1 DEF PullRecord
<1>3. \A c \in Counters : r.count[c] <= s.count[c] /\ s.count[c] <= t.count[c]
  BY DEF Quiet
<1>4. \A c \in Counters : r.count[c] <= t.count[c]
  BY <1>2, <1>3
<1> QED  BY <1>1, <1>4 DEF Quiet

\* A tidy connection stays tidy.
LEMMA TidyKept ==
  ASSUME NEW r \in PullRecord, NEW s, Tidy(r), Quiet(r, s), SameSide(r, s)
  PROVE  Tidy(s)
<1>1. s \in PullRecord /\ "DialogsPushFailed" \in Counters
  BY DEF Quiet, Counters
<1>2. /\ r.count["DialogsPushFailed"] \in Nat /\ s.count["DialogsPushFailed"] \in Nat
      /\ r.count["DialogsPushFailed"] <= s.count["DialogsPushFailed"]
  BY <1>1 DEF PullRecord, Quiet
<1> QED  BY <1>2 DEF Tidy, Quiet, SameSide

\* A failure that was counted stays counted.
LEMMA CountedKept ==
  ASSUME NEW r \in PullRecord, NEW s, Counted(r), Quiet(r, s)
  PROVE  Counted(s)
<1>1. s \in PullRecord /\ "DialogsAllFailed" \in Counters
  BY DEF Quiet, Counters
<1>2. /\ r.count["DialogsAllFailed"] \in Nat /\ s.count["DialogsAllFailed"] \in Nat
      /\ r.count["DialogsAllFailed"] <= s.count["DialogsAllFailed"]
  BY <1>1 DEF PullRecord, Quiet
<1> QED  BY <1>2 DEF Counted

\* The transport of a dialog stays the same.
LEMMA SidedKept ==
  ASSUME NEW r, NEW s, Sided(r), Quiet(r, s)
  PROVE  Sided(s)
  BY DEF Sided, Quiet

-----------------------------------------------------------------------------
(***************************************************************************)
(* Services.                                                               *)
(***************************************************************************)
\* The end of the MAP dialog does not touch the application.
LEMMA ExpungeQuiet ==
  ASSUME NEW r \in PullRecord, NEW how \in Endings
  PROVE  Quiet(r, Expunge(r, how)) /\ SameSide(r, Expunge(r, how))
<1>1. Expunge(r, how) \in PullRecord
  BY ExpungeType
<1>2. \A c \in Counters : r.count[c] \in Nat
  BY DEF PullRecord
<1> QED  BY <1>1, <1>2 DEF Quiet, SameSide, Expunge, Fire, PullRecord

\* Neither do abort() and sendErrorMessage.
LEMMA StopQuiet ==
  ASSUME NEW r \in PullRecord
  PROVE  /\ Quiet(r, MapAbort(r)) /\ SameSide(r, MapAbort(r))
         /\ Quiet(r, SendErrorMessage(r)) /\ SameSide(r, SendErrorMessage(r))
  BY ExpungeQuiet, QuietRefl DEF MapAbort, SendErrorMessage, Endings

\* Statistics raise the counters they name and leave the rest.
LEMMA CountQuiet ==
  ASSUME NEW r \in PullRecord, NEW S
  PROVE  /\ Quiet(r, Count(r, S)) /\ SameSide(r, Count(r, S))
         /\ \A c \in S \cap Counters : Count(r, S).count[c] > 0
<1> DEFINE s == Count(r, S)
<1>1. s \in PullRecord
  BY CountKeeps DEF Keeps
<1>2. \A c \in Counters : r.count[c] \in Nat
  BY DEF PullRecord
<1>3. /\ s.owner = r.owner /\ s.tcap = r.tcap /\ s.urlOk = r.urlOk /\ s.appq = r.appq
      /\ s.timerID = r.timerID /\ s.timers = r.timers /\ s.invoke = r.invoke
      /\ s.conn = r.conn /\ s.waiting = r.waiting
  BY DEF Count, PullRecord
<1>4. s.count = [c \in Counters |-> IF c \in S THEN r.count[c] + 1 ELSE r.count[c]]
  BY DEF Count, PullRecord
<1>5. \A c \in Counters : s.count[c] = IF c \in S THEN r.count[c] + 1 ELSE r.count[c]
  BY <1>4
<1>6. /\ \A c \in Counters : r.count[c] <= s.count[c]
      /\ \A c \in S \cap Counters : s.count[c] > 0
  BY <1>2, <1>5
<1> HIDE DEF s
<1>7. Quiet(r, s) /\ SameSide(r, s)
  BY <1>1, <1>3, <1>6 DEF Quiet, SameSide
<1> QED  BY <1>6, <1>7 DEF s

\* The CDR is all that createRecord changes.
LEMMA CdrQuiet ==
  ASSUME NEW r \in PullRecord, NEW status \in CdrStatuses
  PROVE  Quiet(r, CreateCdr(r, status)) /\ SameSide(r, CreateCdr(r, status))
<1> DEFINE s == CreateCdr(r, status)
<1>1. s \in PullRecord
  BY DEF CreateCdr, PullRecord
<1>2. /\ s.owner = r.owner /\ s.tcap = r.tcap /\ s.urlOk = r.urlOk /\ s.appq = r.appq
      /\ s.timerID = r.timerID /\ s.timers = r.timers /\ s.invoke = r.invoke
      /\ s.conn = r.conn /\ s.waiting = r.waiting /\ s.count = r.count
  BY DEF CreateCdr, PullRecord
<1>3. \A c \in Counters : r.count[c] <= r.count[c]
  BY DEF PullRecord
<1> HIDE DEF s
<1>4. Quiet(r, s) /\ SameSide(r, s)
  BY <1>1, <1>2, <1>3 DEF Quiet, SameSide
<1> QED  BY <1>4 DEF s

\* cancelTimer disarms at most one timer.
LEMMA CancelQuiet ==
  ASSUME NEW r \in PullRecord
  PROVE  Quiet(r, CancelTimer(r)) /\ SameSide(r, CancelTimer(r))
<1> DEFINE s == CancelTimer(r)
<1>1. s \in PullRecord
  BY CancelTimerKeeps DEF Keeps
<1>2. /\ s.owner = r.owner /\ s.tcap = r.tcap /\ s.urlOk = r.urlOk /\ s.appq = r.appq
      /\ s.timerID = r.timerID /\ s.timers = r.timers \ {r.timerID}
      /\ s.invoke = r.invoke
      /\ s.conn = r.conn /\ s.waiting = r.waiting /\ s.count = r.count
  BY DEF CancelTimer, PullRecord
<1>3. \A c \in Counters : r.count[c] <= r.count[c]
  BY DEF PullRecord
<1> HIDE DEF s
<1>4. Quiet(r, s) /\ SameSide(r, s)
  BY <1>1, <1>2, <1>3 DEF Quiet, SameSide
<1> QED  BY <1>4 DEF s

\* What is sent to the application, and the end of its connection.
LEMMA ConnQuiet ==
  ASSUME NEW r \in PullRecord
  PROVE  /\ Quiet(r, HttpTerminate(r)) /\ Quiet(r, SipTerminate(r))
         /\ Quiet(r, AbortSipDialog(r))
         /\ r.owner # "sip" => Quiet(r, HttpSendUssdData(r))
<1>1. /\ HttpTerminate(r) \in PullRecord /\ SipTerminate(r) \in PullRecord
      /\ AbortSipDialog(r) \in PullRecord /\ HttpSendUssdData(r) \in PullRecord
  BY HttpTerminateKeeps, SipTerminateKeeps, AbortSipDialogKeeps, HttpSendKeeps DEF Keeps
<1>2. \A c \in Counters : r.count[c] <= r.count[c]
  BY DEF PullRecord
<1>3. Quiet(r, HttpTerminate(r))
  BY <1>1, <1>2 DEF Quiet, HttpTerminate, PullRecord, HttpStates, SipStates
<1>4. Quiet(r, SipTerminate(r))
  BY <1>1, <1>2 DEF Quiet, SipTerminate, PullRecord, HttpStates, SipStates
<1>5. Quiet(r, AbortSipDialog(r))
  BY <1>1, <1>2 DEF Quiet, AbortSipDialog, PullRecord, HttpStates, SipStates
<1>6. ASSUME r.owner # "sip" PROVE Quiet(r, HttpSendUssdData(r))
  <2> DEFINE s == HttpSendUssdData(r)
  <2>1. /\ s.owner = r.owner /\ s.tcap = r.tcap /\ s.urlOk = r.urlOk /\ s.appq = r.appq
        /\ s.timerID = r.timerID /\ s.timers = r.timers /\ s.invoke = r.invoke
        /\ s.conn \in {r.conn, "open"} /\ s.count = r.count
    BY DEF HttpSendUssdData, PullRecord
  <2>2. s \in PullRecord
    BY <1>1
  <2> HIDE DEF s
  <2>3. Quiet(r, s)
    BY <1>2, <1>6, <2>1, <2>2 DEF Quiet, HttpStates
  <2> QED  BY <2>3 DEF s
<1> QED  BY <1>3, <1>4, <1>5, <1>6

\* A notice to the application; the one over HTTP waits for its response.
LEMMA NotifyQuiet ==
  ASSUME NEW r \in PullRecord, NEW type
  PROVE  /\ Quiet(r, NotifyApp(r, type))
         /\ r.owner = "http" /\ r.conn \in HttpStates => Tidy(NotifyApp(r, type))
<1>1. CASE IsSip(r)
  <2>1. NotifyApp(r, type) \in {r, AbortSipDialog(r)}
    BY <1>1 DEF NotifyApp, SendOk, SipSendOk, FailedSend, SendUssdData, SipSendUssdData
  <2> QED  BY <1>1, <2>1, QuietRefl, ConnQuiet DEF IsSip
<1>2. CASE ~IsSip(r)
  <2>1. NotifyApp(r, type) = HttpSendUssdData(r)
    BY <1>2 DEF NotifyApp, FailedSend, SendUssdData
  <2>2. r.owner = "http" /\ r.conn \in HttpStates => Tidy(HttpSendUssdData(r))
    BY DEF Tidy, HttpSendUssdData, HttpSendOk, PullRecord, HttpStates
  <2> QED  BY <1>2, <2>1, <2>2, ConnQuiet DEF IsSip
<1> QED  BY <1>1, <1>2

\* terminateProtocolConnection tidies up behind quiet services.
LEMMA TerminateEnds ==
  ASSUME NEW t \in PullRecord, Sided(t), NEW x, Quiet(t, x)
  PROVE  Ends(t, TerminateProtocolConnection(x))
<1> DEFINE s == TerminateProtocolConnection(x)
<1>1. x \in PullRecord /\ Sided(x)
  BY SidedKept DEF Quiet
<1>2. Quiet(x, s)
  BY <1>1, ConnQuiet DEF TerminateProtocolConnection
<1>3. Tidy(s)
  BY <1>1 DEF Tidy, TerminateProtocolConnection, Sided, Transports, IsSip, HttpTerminate,
              SipTerminate, PullRecord, HttpStates, SipStates
<1> QED  BY <1>2, <1>3, QuietTrans DEF Ends

\* The CDR and the failure statistics behind a tidy connection.
LEMMA FailEnds ==
  ASSUME NEW t \in PullRecord, NEW x, Ends(t, x), NEW status \in CdrStatuses, NEW S
  PROVE  /\ Ends(t, CreateCdr(x, status)) /\ Ends(t, Count(x, S))
         /\ Ends(t, Fail(x, status)) /\ Counted(Fail(x, status))
         /\ Ends(t, SipFail(x, status)) /\ Counted(SipFail(x, status))
         /\ LET h == CreateCdr(HttpUpdateDialogFailureStat(x), status)
            IN  Ends(t, h) /\ Counted(h)
         /\ Counted(x) => Counted(CreateCdr(x, status)) /\ Counted(Count(x, S))
<1>0. ASSUME NEW y, NEW z, Ends(t, y), Quiet(y, z), SameSide(y, z)
      PROVE  Ends(t, z)
  BY <1>0, QuietTrans, TidyKept DEF Ends, Quiet
<1>1. ASSUME NEW y, Ends(t, y), NEW Z
      PROVE  Ends(t, Count(y, Z)) /\ (Counted(y) => Counted(Count(y, Z)))
  BY <1>0, <1>1, CountQuiet, CountedKept DEF Ends, Quiet
<1>2. ASSUME NEW y, Ends(t, y)
      PROVE  Ends(t, CreateCdr(y, status)) /\ (Counted(y) => Counted(CreateCdr(y, status)))
  BY <1>0, <1>2, CdrQuiet, CountedKept DEF Ends, Quiet
<1>3. ASSUME NEW Z, "DialogsAllFailed" \in Z
      PROVE  /\ Ends(t, CreateCdr(Count(x, Z), status))
             /\ Counted(CreateCdr(Count(x, Z), status))
  <2>1. Ends(t, Count(x, Z))
    BY <1>1
  <2>2. Counted(Count(x, Z))
    BY <1>3, CountQuiet DEF Ends, Quiet, Counted, Counters
  <2> QED  BY <1>2, <2>1, <2>2
<1>4. /\ Ends(t, Fail(x, status)) /\ Counted(Fail(x, status))
      /\ Ends(t, SipFail(x, status)) /\ Counted(SipFail(x, status))
      /\ LET h == CreateCdr(HttpUpdateDialogFailureStat(x), status)
         IN  Ends(t, h) /\ Counted(h)
  BY <1>3 DEF Fail, SipFail, UpdateDialogFailureStat, SipUpdateDialogFailureStat,
              HttpUpdateDialogFailureStat
<1> QED  BY <1>1, <1>2, <1>4

\* The application is told, then its connection is ended.
LEMMA TellEnds ==
  ASSUME NEW t \in PullRecord, Sided(t), NEW x, Quiet(t, x), NEW type
  PROVE  /\ Quiet(t, NotifyApp(x, type))
         /\ Ends(t, TerminateProtocolConnection(NotifyApp(x, type)))
         /\ Ends(t, TerminateProtocolConnection(x))
<1>1. Quiet(t, NotifyApp(x, type))
  BY NotifyQuiet, QuietTrans DEF Quiet
<1> QED  BY <1>1, TerminateEnds

\* The SIP dialog is ended by abortSipDialog or by a BYE.
LEMMA HangUpEnds ==
  ASSUME NEW t \in PullRecord, t.owner = "sip", t.conn \in SipStates, NEW x, Quiet(t, x)
  PROVE  Ends(t, AbortSipDialog(x)) /\ Ends(t, SipTerminate(x))
<1>1. x \in PullRecord /\ x.owner = "sip" /\ x.conn \in SipStates
  BY DEF Quiet
<1>2. Quiet(x, AbortSipDialog(x)) /\ Quiet(x, SipTerminate(x))
  BY <1>1, ConnQuiet
<1>3. Tidy(AbortSipDialog(x)) /\ Tidy(SipTerminate(x))
  BY <1>1 DEF Tidy, AbortSipDialog, SipTerminate, PullRecord, SipStates
<1> QED  BY <1>2, <1>3, QuietTrans DEF Ends

\* The HTTP activity is ended.
LEMMA HttpEnds ==
  ASSUME NEW t \in PullRecord, t.owner = "http", t.conn \in HttpStates, NEW x, Quiet(t, x)
  PROVE  Ends(t, HttpTerminate(x))
<1>1. x \in PullRecord /\ x.owner = "http" /\ x.conn \in HttpStates
  BY DEF Quiet
<1>2. Quiet(x, HttpTerminate(x))
  BY <1>1, ConnQuiet
<1>3. Tidy(HttpTerminate(x))
  BY <1>1 DEF Tidy, HttpTerminate, PullRecord, HttpStates
<1> QED  BY <1>2, <1>3, QuietTrans DEF Ends

-----------------------------------------------------------------------------
(***************************************************************************)
(* Handlers that end the session.                                          *)
(***************************************************************************)
\* Handlers of the child for the end that the peer or the network announced.
LEMMA EndIndicationEnds ==
  ASSUME NEW t \in PullRecord, Sided(t)
  PROVE  /\ Ends(t, OnDialogReject(t)) /\ Counted(OnDialogReject(t))
         /\ Ends(t, OnDialogUserAbort(t)) /\ Counted(OnDialogUserAbort(t))
         /\ Ends(t, OnDialogProviderAbort(t)) /\ Counted(OnDialogProviderAbort(t))
         /\ Ends(t, OnDialogClose(t)) /\ Counted(OnDialogClose(t))
<1>1. ASSUME NEW x, Ends(t, x), NEW status \in CdrStatuses
      PROVE  Ends(t, Fail(x, status)) /\ Counted(Fail(x, status))
  BY <1>1, FailEnds
<1>2. /\ Ends(t, TerminateProtocolConnection(t))
      /\ Ends(t, TerminateProtocolConnection(NotifyApp(t, t.tcap)))
  BY QuietRefl, TellEnds
<1> QED  BY <1>1, <1>2 DEF OnDialogReject, OnDialogUserAbort, OnDialogProviderAbort,
                           OnAbortIndication, OnDialogClose, CdrStatuses

\* onDialogTimeout: over HTTP the connection waits for the response that is dropped.
LEMMA DialogTimeoutEnds ==
  ASSUME NEW t \in PullRecord, Sided(t)
  PROVE  Ends(t, OnDialogTimeout(t)) /\ Counted(OnDialogTimeout(t))
<1> DEFINE x == MapAbort(t)
           told == NotifyApp(x, "Abort")
           left == [told EXCEPT !.final = TRUE]
           closed == IF IsSip(told) THEN TerminateProtocolConnection(told) ELSE left
<1>1. Quiet(t, x) /\ Quiet(t, told)
  BY StopQuiet, TellEnds
<1>2. x \in PullRecord /\ told \in PullRecord
  BY <1>1 DEF Quiet
<1>3. ASSUME ~IsSip(told)
      PROVE  Tidy(told)
  <2>1. t.owner = "http"
    BY <1>1, <1>3 DEF Quiet, IsSip, Sided, Transports
  <2>2. x.owner = "http" /\ x.conn \in HttpStates
    BY <1>1, <2>1 DEF Quiet, Sided
  <2> QED  BY <1>2, <2>2, NotifyQuiet
<1> HIDE DEF told
<1>4. Quiet(told, left) /\ SameSide(told, left)
  <2>1. \A c \in Counters : told.count[c] <= told.count[c]
    BY <1>2 DEF PullRecord
  <2>2. left \in PullRecord
    BY <1>2 DEF PullRecord
  <2>3. /\ left.owner = told.owner /\ left.tcap = told.tcap /\ left.urlOk = told.urlOk
        /\ left.appq = told.appq /\ left.timerID = told.timerID
        /\ left.timers = told.timers /\ left.invoke = told.invoke
        /\ left.conn = told.conn /\ left.waiting = told.waiting /\ left.count = told.count
    BY <1>2 DEF PullRecord
  <2> HIDE DEF left
  <2> QED  BY <2>1, <2>2, <2>3 DEF Quiet, SameSide
<1>5. ~IsSip(told) => Ends(t, left)
  BY <1>1, <1>2, <1>3, <1>4, QuietTrans, TidyKept DEF Ends
<1>6. Ends(t, closed)
  BY <1>1, <1>5, TerminateEnds
<1> HIDE DEF closed
<1>7. Ends(t, Count(closed, {"MapDialogTimeouts"}))
  BY <1>6, FailEnds DEF CdrStatuses
<1>8. /\ Ends(t, Fail(Count(closed, {"MapDialogTimeouts"}), "FAILED_DIALOG_TIMEOUT"))
      /\ Counted(Fail(Count(closed, {"MapDialogTimeouts"}), "FAILED_DIALOG_TIMEOUT"))
  BY <1>7, FailEnds DEF CdrStatuses
<1> QED  BY <1>8 DEF OnDialogTimeout, DialogTimedOut, closed, told

\* onInvokeTimeout.
LEMMA InvokeTimeoutEnds ==
  ASSUME NEW t \in PullRecord, Sided(t)
  PROVE  Ends(t, OnInvokeTimeout(t)) /\ Counted(OnInvokeTimeout(t))
<1> DEFINE x == TerminateProtocolConnection(NotifyApp(MapAbort(t), "Abort"))
           c == Count(x, {"MapInvokeTimeouts"})
<1>1. Ends(t, x)
  BY StopQuiet, TellEnds
<1>2. Ends(t, c)
  BY <1>1, FailEnds DEF CdrStatuses
<1>3. Ends(t, Fail(c, "FAILED_INVOKE_TIMEOUT")) /\ Counted(Fail(c, "FAILED_INVOKE_TIMEOUT"))
  BY <1>2, FailEnds DEF CdrStatuses
<1> QED  BY <1>3 DEF OnInvokeTimeout

\* onErrorComponent: in a TC-END the Close behind it counts the failure.
LEMMA ErrorComponentEnds ==
  ASSUME NEW t \in PullRecord, Sided(t)
  PROVE  /\ Ends(t, OnErrorComponent(t))
         /\ t.tcap # "End" => Counted(OnErrorComponent(t))
<1> DEFINE x == TerminateProtocolConnection(NotifyApp(MapAbort(t), t.tcap))
           f == IF t.tcap # "End" THEN UpdateDialogFailureStat(x) ELSE x
           c == Count(f, {"MapErrorComponentOther"})
           s == CreateCdr(c, "FAILED_MAP_ERROR_COMPONENT")
<1>1. Ends(t, x)
  BY StopQuiet, TellEnds
<1> HIDE DEF x
<1>2. Ends(t, UpdateDialogFailureStat(x)) /\ Counted(UpdateDialogFailureStat(x))
  <2>1. \E S : UpdateDialogFailureStat(x) = Count(x, S) /\ "DialogsAllFailed" \in S
    BY DEF UpdateDialogFailureStat, SipUpdateDialogFailureStat, HttpUpdateDialogFailureStat
  <2>2. PICK S : UpdateDialogFailureStat(x) = Count(x, S) /\ "DialogsAllFailed" \in S
    BY <2>1
  <2>3. Ends(t, Count(x, S))
    BY <1>1, FailEnds DEF CdrStatuses
  <2>4. Counted(Count(x, S))
    BY <1>1, <2>2, CountQuiet DEF Ends, Quiet, Counted, Counters
  <2> QED  BY <2>2, <2>3, <2>4
<1>3. Ends(t, f) /\ (t.tcap # "End" => Counted(f))
  BY <1>1, <1>2
<1> HIDE DEF f
<1>4. Ends(t, c) /\ (t.tcap # "End" => Counted(c))
  BY <1>3, FailEnds DEF CdrStatuses
<1> HIDE DEF c
<1>5. Ends(t, s) /\ (t.tcap # "End" => Counted(s))
  BY <1>4, FailEnds DEF CdrStatuses
<1> QED  BY <1>5 DEF OnErrorComponent, x, f, c

\* onRejectComponent leaves a SIP dialog, and says so by DialogsPushFailed.
LEMMA RejectComponentEnds ==
  ASSUME NEW t \in PullRecord, Sided(t)
  PROVE  Ends(t, OnRejectComponent(t)) /\ Counted(OnRejectComponent(t))
<1> DEFINE x == MapAbort(t)
           told == NotifyApp(x, t.tcap)
           b == CreateCdr(told, "FAILED_MAP_REJECT_COMPONENT")
           S == {"DialogsAllFailed", "DialogsPushFailed", "DialogsHttpFailed"}
           s == Count(b, S)
<1>1. Quiet(t, x) /\ Quiet(t, told)
  BY StopQuiet, TellEnds
<1>2. x \in PullRecord /\ told \in PullRecord
  BY <1>1 DEF Quiet
<1>3. t.owner = "http" => Tidy(told)
  BY <1>1, <1>2, NotifyQuiet DEF Quiet, Sided
<1> HIDE DEF told
<1>4. Quiet(told, b) /\ SameSide(told, b) /\ b \in PullRecord
  BY <1>2, CdrQuiet DEF CdrStatuses, Quiet
<1> HIDE DEF b
<1>5. /\ Quiet(b, s) /\ SameSide(b, s)
      /\ s.count["DialogsAllFailed"] > 0 /\ s.count["DialogsPushFailed"] > 0
  BY <1>4, CountQuiet DEF Counters
<1> HIDE DEF s
<1>6. Quiet(t, s)
  BY <1>1, <1>2, <1>4, <1>5, QuietTrans
<1>7. Tidy(s)
  <2>1. CASE t.owner = "http"
    BY <1>2, <1>3, <1>4, <1>5, <2>1, TidyKept
  <2>2. CASE t.owner = "sip"
    BY <1>5, <1>6, <2>2 DEF Quiet, Sided, Tidy, SipStates
  <2> QED  BY <2>1, <2>2 DEF Sided, Transports
<1> QED  BY <1>5, <1>6, <1>7 DEF OnRejectComponent, Ends, Counted, s, b, told

\* onTimerEvent.
LEMMA TimerEventEnds ==
  ASSUME NEW t \in PullRecord, Sided(t)
  PROVE  Ends(t, OnTimerEvent(t)) /\ Counted(OnTimerEvent(t))
<1> DEFINE e == SendErrorMessage(t)
           told == IF IsSip(e) THEN NotifyApp(e, "Abort") ELSE e
           x == TerminateProtocolConnection(told)
           c == Count(x, {"AppTimeouts"})
<1>1. Ends(t, x)
  BY StopQuiet, TellEnds
<1>2. Ends(t, c)
  BY <1>1, FailEnds DEF CdrStatuses
<1>3. Ends(t, Fail(c, "FAILED_APP_TIMEOUT")) /\ Counted(Fail(c, "FAILED_APP_TIMEOUT"))
  BY <1>2, FailEnds DEF CdrStatuses
<1> QED  BY <1>3 DEF OnTimerEvent

-----------------------------------------------------------------------------
\* Responses of the HTTP application that end the dialog.
LEMMA ResponseEnds ==
  ASSUME NEW t \in PullRecord, t.owner = "http", t.conn \in HttpStates
  PROVE  /\ Ends(t, OnCorruptedResponse(t)) /\ Counted(OnCorruptedResponse(t))
         /\ Ends(t, OnErrorStatus(t)) /\ Counted(OnErrorStatus(t))
         /\ Ends(t, OnAbortResponse(t)) /\ Counted(OnAbortResponse(t))
         /\ Ends(t, HttpTerminate(t))
<1>1. ASSUME NEW x, Quiet(t, x), NEW status \in CdrStatuses
      PROVE  Ends(t, HttpFail(x, status)) /\ Counted(HttpFail(x, status))
  BY <1>1, HttpEnds, FailEnds DEF HttpFail
<1>2. Quiet(t, MapAbort(t)) /\ Quiet(t, SendErrorMessage(t)) /\ Quiet(t, t)
  BY StopQuiet, QuietRefl
<1>3. Ends(t, HttpTerminate(t))
  BY <1>2, HttpEnds
<1> QED  BY <1>1, <1>2, <1>3
         DEF OnCorruptedResponse, OnErrorStatus, OnAbortResponse, CdrStatuses

\* The final answer over HTTP.
LEMMA FinalResponseEnds ==
  ASSUME NEW t \in PullRecord, t.owner = "http", t.conn \in HttpStates, NEW k
  PROVE  /\ Ends(t, OnFinalResponse(t, k))
         /\ ~Live(t) => Counted(OnFinalResponse(t, k))
<1> DEFINE c == CountAnswer(t, k)
           how == IF k = "end" THEN "answer" ELSE "drop"
           x == Expunge(c, how)
<1>1. Quiet(t, c) /\ SameSide(t, c) /\ (Live(c) <=> Live(t))
  BY CountQuiet, CountKeeps DEF CountAnswer, Keeps, Core, Live
<1>2. /\ OnFinalResponse(t, k) = IF Live(c) THEN CreateCdr(HttpTerminate(x), "SUCCESS")
                                             ELSE OnCorruptedResponse(c)
      /\ how \in Endings
  BY Zenon DEF OnFinalResponse, Endings
<1>3. c \in PullRecord /\ c.owner = "http" /\ c.conn \in HttpStates
  BY <1>1 DEF Quiet
<1> HIDE DEF c, how
<1>4. CASE Live(c)
  <2>1. Quiet(t, x)
    BY <1>1, <1>2, <1>3, ExpungeQuiet, QuietTrans
  <2>2. Ends(t, CreateCdr(HttpTerminate(x), "SUCCESS"))
    BY <2>1, HttpEnds, FailEnds DEF CdrStatuses
  <2> QED  BY <1>1, <1>2, <1>4, <2>2
<1>5. CASE ~Live(c)
  <2>1. Ends(c, OnCorruptedResponse(c)) /\ Counted(OnCorruptedResponse(c))
    BY <1>3, ResponseEnds
  <2>2. Ends(t, OnCorruptedResponse(c))
    BY <1>1, <2>1, QuietTrans DEF Ends
  <2> QED  BY <1>2, <1>5, <2>1, <2>2
<1> QED  BY <1>4, <1>5

\* Events of the SIP application that end the dialog.
LEMMA InfoEnds ==
  ASSUME NEW t \in PullRecord, t.owner = "sip", t.conn \in SipStates
  PROVE  /\ Ends(t, OnSuccessNoAck(t)) /\ Counted(OnSuccessNoAck(t))
         /\ Ends(t, OnFailureResponse(t)) /\ Counted(OnFailureResponse(t))
         /\ Ends(t, OnEmptyInfo(t))
         /\ Ends(t, OnGarbledInfo(t)) /\ Counted(OnGarbledInfo(t))
         /\ Ends(t, OnOrphanInfo(t)) /\ Counted(OnOrphanInfo(t))
         /\ Ends(t, OnErrorInfo(t)) /\ Counted(OnErrorInfo(t))
<1>1. Ends(t, AbortSipDialog(SendErrorMessage(t))) /\ Ends(t, AbortSipDialog(t))
  BY StopQuiet, QuietRefl, HangUpEnds
<1>2. ASSUME NEW x, Ends(t, x), NEW status \in CdrStatuses
      PROVE  /\ Ends(t, SipFail(x, status)) /\ Counted(SipFail(x, status))
             /\ Ends(t, CreateCdr(x, status))
  BY <1>2, FailEnds
<1> QED  BY <1>1, <1>2 DEF OnSuccessNoAck, OnFailureResponse, OnEmptyInfo, OnGarbledInfo,
                           OnOrphanInfo, OnErrorInfo, CdrStatuses

\* The BYE of the application, whose connection is already tidy.
LEMMA ByeEnds ==
  ASSUME NEW t \in PullRecord, t.owner = "sip", t.conn \in SipStates, Tidy(t)
  PROVE  /\ Ends(t, OnGarbledBye(t)) /\ Counted(OnGarbledBye(t))
         /\ Ends(t, OnErrorBye(t)) /\ Counted(OnErrorBye(t))
         /\ Ends(t, OnAnswerBye(t)) /\ (~Live(t) => Counted(OnAnswerBye(t)))
<1>1. /\ Ends(t, MapAbort(t)) /\ Ends(t, SendErrorMessage(t))
      /\ Ends(t, Expunge(t, "answer"))
  BY StopQuiet, ExpungeQuiet, TidyKept DEF Ends, Endings
<1>2. ASSUME NEW x, Ends(t, x), NEW status \in CdrStatuses
      PROVE  /\ Ends(t, SipFail(x, status)) /\ Counted(SipFail(x, status))
             /\ Ends(t, CreateCdr(x, status))
  BY <1>2, FailEnds
<1> QED  BY <1>1, <1>2 DEF OnGarbledBye, OnErrorBye, OnAnswerBye, CdrStatuses

-----------------------------------------------------------------------------
(***************************************************************************)
(* Queues, and what is left of a sound record behind the head of one.      *)
(***************************************************************************)
\* What an event that joins a queue changes.
LEMMA QueuedAppend ==
  ASSUME NEW S, NEW q \in Seq(S), NEW e \in S, NEW E
  PROVE  /\ Queued(Append(q, e), E) <=> Queued(q, E) \/ e \in E
         /\ AtMostOne(q, E) /\ (e \in E => ~Queued(q, E)) => AtMostOne(Append(q, e), E)
<1> DEFINE p == Append(q, e)
<1>1. /\ Len(q) \in Nat /\ Len(p) = Len(q) + 1 /\ p[Len(q) + 1] = e
      /\ \A i \in 1 .. Len(q) : p[i] = q[i]
  OBVIOUS
<1> HIDE DEF p
<1>2. Queued(p, E) <=> Queued(q, E) \/ e \in E
  <2>1. ASSUME Queued(p, E) PROVE Queued(q, E) \/ e \in E
    BY <1>1, <2>1 DEF Queued
  <2>2. ASSUME Queued(q, E) PROVE Queued(p, E)
    BY <1>1, <2>2 DEF Queued
  <2>3. ASSUME e \in E PROVE Queued(p, E)
    BY <1>1, <2>3 DEF Queued
  <2> QED  BY <2>1, <2>2, <2>3
<1>3. ASSUME AtMostOne(q, E), e \in E => ~Queued(q, E)
      PROVE  AtMostOne(p, E)
  <2> SUFFICES ASSUME NEW i \in 1 .. Len(p), NEW j \in 1 .. Len(p), p[i] \in E, p[j] \in E
               PROVE  i = j
    BY DEF AtMostOne
  <2>1. CASE i \in 1 .. Len(q) /\ j \in 1 .. Len(q)
    BY <1>1, <1>3, <2>1 DEF AtMostOne
  <2>2. CASE i = Len(q) + 1 \/ j = Len(q) + 1
    BY <1>1, <1>3, <2>2 DEF Queued
  <2> QED  BY <1>1, <2>1, <2>2
<1> QED  BY <1>2, <1>3 DEF p

\* What the delivery of the head changes.
LEMMA QueuedTail ==
  ASSUME NEW S, NEW q \in Seq(S), q # << >>, NEW E
  PROVE  /\ Queued(q, E) <=> Head(q) \in E \/ Queued(Tail(q), E)
         /\ AtMostOne(q, E) => /\ AtMostOne(Tail(q), E)
                               /\ Head(q) \in E => ~Queued(Tail(q), E)
<1> DEFINE p == Tail(q)
<1>1. /\ Len(q) \in Nat /\ Len(q) > 0 /\ Len(p) = Len(q) - 1 /\ Head(q) = q[1]
      /\ \A i \in 1 .. Len(p) : p[i] = q[i + 1]
  OBVIOUS
<1> HIDE DEF p
<1>2. \A i \in 1 .. Len(p) : i + 1 \in 1 .. Len(q) /\ i + 1 # 1
  BY <1>1
<1>3. \A i \in 1 .. Len(q) : i # 1 => i - 1 \in 1 .. Len(p) /\ q[i] = p[i - 1]
  BY <1>1
<1>4. Queued(q, E) <=> Head(q) \in E \/ Queued(p, E)
  <2>1. ASSUME Queued(q, E) PROVE Head(q) \in E \/ Queued(p, E)
    BY <1>1, <1>3, <2>1 DEF Queued
  <2>2. ASSUME Queued(p, E) PROVE Queued(q, E)
    BY <1>1, <1>2, <2>2 DEF Queued
  <2>3. ASSUME Head(q) \in E PROVE Queued(q, E)
    <3>1. 1 \in 1 .. Len(q)
      BY <1>1
    <3> QED  BY <1>1, <2>3, <3>1 DEF Queued
  <2> QED  BY <2>1, <2>2, <2>3
<1>5. ASSUME AtMostOne(q, E)
      PROVE  AtMostOne(p, E) /\ (Head(q) \in E => ~Queued(p, E))
  <2>1. AtMostOne(p, E)
    <3> SUFFICES ASSUME NEW i \in 1 .. Len(p), NEW j \in 1 .. Len(p), p[i] \in E, p[j] \in E
                 PROVE  i = j
      BY DEF AtMostOne
    <3>1. i + 1 = j + 1
      BY <1>1, <1>2, <1>5 DEF AtMostOne
    <3> QED  BY <3>1
  <2>2. ASSUME Head(q) \in E, NEW i \in 1 .. Len(p), p[i] \in E
        PROVE  FALSE
    <3>1. 1 \in 1 .. Len(q) /\ i + 1 \in 1 .. Len(q) /\ q[i + 1] \in E /\ q[1] \in E
      BY <1>1, <1>2, <2>2
    <3>2. 1 = i + 1
      BY <1>5, <3>1 DEF AtMostOne
    <3> QED  BY <1>2, <3>2
  <2> QED  BY <2>1, <2>2 DEF Queued
<1> QED  BY <1>4, <1>5 DEF p

\* What is left of r when the head of one of its queues is taken.
Base(t) ==
  /\ t \in PullRecord /\ Established(t)
  /\ SideSound(t) /\ TimerSound(t) /\ TcapSound(t)
  /\ ~Queued(t.mapq, {"ProcessUnstructuredSSRequest"})

\* A handler that ends the session leaves a sound record.
LEMMA EndedSound ==
  ASSUME NEW t, Base(t), NEW s, Ends(t, s), Over(t, s, {"answer", "drop", "error", "abort"}),
         FailureSound(s)
  PROVE  Sound(s)
<1> DEFINE E1 == {"ProcessUnstructuredSSRequest"}
           E2 == {"UnstructuredSSResponse"}
<1>1. t \in PullRecord /\ s \in PullRecord /\ t.mapq \in Seq(MapEvents)
  BY DEF Base, Ends, Quiet, PullRecord
<1>2. ~Live(s)
  BY DEF Over, Live
<1>3. s.mapq = IF Live(t) THEN Append(t.mapq, "Release") ELSE t.mapq
  BY DEF Over
<1>4. /\ Queued(s.mapq, E1) <=> Queued(t.mapq, E1)
      /\ Queued(s.mapq, E2) <=> Queued(t.mapq, E2)
      /\ Queued(s.mapq, Turns) <=> Queued(t.mapq, Turns)
      /\ AtMostOne(t.mapq, Turns) => AtMostOne(s.mapq, Turns)
  BY <1>1, <1>3, QueuedAppend DEF MapEvents, Turns
<1>5. SideSound(s)
  BY DEF SideSound, Base, Established, Ends, Quiet, Transports
<1>6. RequestSound(s)
  BY <1>4 DEF RequestSound, Base
<1>7. TimerSound(s)
  BY <1>4 DEF TimerSound, Base, Ends, Quiet
<1>8. TurnSound(s) /\ AwaitSound(s)
  BY <1>2 DEF TurnSound, AwaitSound
<1>9. TcapSound(s)
  BY <1>2, <1>3, <1>4 DEF TcapSound, Base, Ends, Quiet
<1>10. LeakSound(s)
  BY DEF LeakSound, Ends, Tidy
<1> QED  BY <1>5, <1>6, <1>7, <1>8, <1>9, <1>10 DEF Sound

\* Delivery of the head leaves all but the queue.
LEMMA RestFields ==
  ASSUME NEW r \in PullRecord, r.mapq # << >>
  PROVE  LET t == Rest(r)
         IN  /\ t \in PullRecord /\ t.mapq = Tail(r.mapq) /\ (Live(t) <=> Live(r))
             /\ t.tcap = r.tcap /\ t.invoke = r.invoke /\ t.owner = r.owner
             /\ t.urlOk = r.urlOk /\ t.conn = r.conn /\ t.waiting = r.waiting
             /\ t.appq = r.appq /\ t.final = r.final /\ t.timerID = r.timerID
             /\ t.timers = r.timers /\ t.cdr = r.cdr /\ t.count = r.count
  BY RestType DEF Rest, PullRecord, Live

\* What holds without the head, and what the head tells its handler.
LEMMA RestSound ==
  ASSUME NEW r \in PullRecord, Consistent(r), Sound(r), r.mapq # << >>
  PROVE  LET t == Rest(r)
             e == Head(r.mapq)
         IN  /\ SideSound(t) /\ RequestSound(t) /\ TimerSound(t) /\ TurnSound(t)
             /\ TcapSound(t) /\ LeakSound(t)
             /\ ~Queued(t.mapq, {"ProcessUnstructuredSSRequest"})
             /\ e # "Close" => FailureSound(t)
             /\ e # "Timer" => AwaitSound(t)
             /\ e \in Turns =>
                  t.timers = {} /\ t.invoke # "request" /\ ~Queued(t.mapq, Turns)
             /\ e = "ProcessUnstructuredSSRequest" =>
                  t.conn = "none" /\ t.appq = << >> /\ t.waiting = 0 /\ t.cdr = "none"
             /\ e = "UnstructuredSSResponse" =>
                  /\ t.tcap # "Begin"
                  /\ Live(t) => t.waiting = 0 /\ ~Queued(t.appq, Replies)
             /\ e = "ErrorComponent" /\ t.tcap = "End" =>
                  ~Live(t) /\ Queued(t.mapq, {"Close"})
<1> DEFINE t == Rest(r)
           q == r.mapq
           p == t.mapq
           e == Head(r.mapq)
           PUSR == {"ProcessUnstructuredSSRequest"}
<1>1. /\ t \in PullRecord /\ p = Tail(q) /\ (Live(t) <=> Live(r))
      /\ t.tcap = r.tcap /\ t.invoke = r.invoke /\ t.owner = r.owner
      /\ t.urlOk = r.urlOk /\ t.conn = r.conn /\ t.waiting = r.waiting
      /\ t.appq = r.appq /\ t.final = r.final /\ t.timerID = r.timerID
      /\ t.timers = r.timers /\ t.cdr = r.cdr /\ t.count = r.count
  BY RestFields
<1> HIDE DEF t
<1>2. q \in Seq(MapEvents)
  BY DEF PullRecord
<1>3. \A E : Queued(q, E) <=> e \in E \/ Queued(p, E)
  BY <1>1, <1>2, QueuedTail
<1>4. AtMostOne(q, Turns) => AtMostOne(p, Turns) /\ (e \in Turns => ~Queued(p, Turns))
  BY <1>1, <1>2, QueuedTail
<1>5. ~Queued(p, PUSR)
  <2>1. QueueConsistent(r)
    BY DEF Consistent
  <2>2. \A i \in 1 .. Len(p) : i + 1 \in 1 .. Len(q) /\ i + 1 # 1 /\ p[i] = q[i + 1]
    BY <1>1, <1>2, RestQueue
  <2> QED  BY <2>1, <2>2 DEF QueueConsistent, Queued
<1>6. SideSound(t)
  BY <1>1 DEF Sound, SideSound, Established
<1>7. RequestSound(t)
  BY <1>5 DEF RequestSound
<1>8. TimerSound(t) /\ (e \in Turns => t.timers = {} /\ t.invoke # "request" /\ ~Queued(p, Turns))
  BY <1>1, <1>3, <1>4 DEF Sound, TimerSound
<1>9. /\ TurnSound(t)
      /\ e \in Turns /\ Live(t) => t.waiting = 0 /\ ~Queued(t.appq, Replies)
  BY <1>1, <1>3 DEF Sound, TurnSound, PullRecord
<1>10. e # "Timer" => AwaitSound(t)
  BY <1>1, <1>3 DEF Sound, AwaitSound
<1>11. /\ Len(q) \in Nat /\ Len(q) > 0 /\ Len(p) = Len(q) - 1
       /\ \A i \in 1 .. Len(p) : p[i] = q[i + 1]
       /\ e = q[1]
  BY <1>1, <1>2, RestQueue
<1>12. TcapSound(t) /\ (e = "UnstructuredSSResponse" => t.tcap # "Begin")
  <2>1. /\ Live(t) => t.tcap \in {"Begin", "Continue"}
        /\ Queued(p, {"UnstructuredSSResponse"}) => t.tcap # "Begin"
        /\ e = "UnstructuredSSResponse" => t.tcap # "Begin"
    BY <1>1, <1>3 DEF Sound, TcapSound
  <2>2. Len(q) \in Nat /\ Len(q) > 0 /\ Len(p) = Len(q) - 1
    BY <1>11
  <2>3. ASSUME t.tcap = "End"
        PROVE  \/ Len(p) = 0
               \/ Len(p) = 1 /\ p[1] = "Release"
               \/ Len(p) >= 2 /\ p[Len(p) - 1] = "Close" /\ p[Len(p)] = "Release"
    <3>1. \/ Len(q) = 1
          \/ Len(q) >= 2 /\ q[Len(q) - 1] = "Close" /\ q[Len(q)] = "Release"
      BY <1>1, <1>11, <2>3 DEF Sound, TcapSound
    <3>2. CASE Len(q) = 1
      BY <1>11, <3>2
    <3>3. CASE Len(q) = 2
      BY <1>11, <3>1, <3>3
    <3>4. CASE Len(q) >= 3
      <4>1. /\ Len(p) - 1 \in 1 .. Len(p) /\ (Len(p) - 1) + 1 = Len(q) - 1
            /\ Len(p) \in 1 .. Len(p) /\ Len(p) + 1 = Len(q)
        BY <2>2, <3>4
      <4>2. p[Len(p) - 1] = q[(Len(p) - 1) + 1] /\ p[Len(p)] = q[Len(p) + 1]
        BY <1>11, <4>1
      <4>3. \A n \in Nat : n >= 3 => n - 1 >= 2 /\ n # 1
        OBVIOUS
      <4>4. Len(p) >= 2 /\ Len(q) # 1
        BY <2>2, <3>4, <4>3
      <4> QED  BY <3>1, <4>1, <4>2, <4>4
    <3>5. \A n \in Nat : n > 0 => n = 1 \/ n = 2 \/ n >= 3
      OBVIOUS
    <3>6. Len(q) = 1 \/ Len(q) = 2 \/ Len(q) >= 3
      BY <2>2, <3>5
    <3> QED  BY <3>2, <3>3, <3>4, <3>6
  <2> QED  BY <2>1, <2>3 DEF TcapSound
<1>13. ASSUME e = "ErrorComponent", t.tcap = "End"
       PROVE  ~Live(t) /\ Queued(p, {"Close"})
  <2>1. Len(q) >= 2 /\ q[Len(q) - 1] = "Close"
    BY <1>1, <1>11, <1>13 DEF Sound, TcapSound
  <2>2. Len(q) - 2 \in 1 .. Len(p) /\ (Len(q) - 2) + 1 = Len(q) - 1
    BY <1>11, <1>13, <2>1
  <2>3. p[Len(q) - 2] = q[(Len(q) - 2) + 1]
    BY <1>11, <2>2
  <2>4. p[Len(q) - 2] = "Close"
    BY <2>1, <2>2, <2>3
  <2> QED  BY <1>12, <1>13, <2>2, <2>4 DEF Queued, TcapSound
<1>14. e # "Close" => FailureSound(t)
  BY <1>1, <1>3 DEF Sound, FailureSound
<1>15. LeakSound(t)
  BY <1>1 DEF Sound, LeakSound
<1>16. e = "ProcessUnstructuredSSRequest" =>
         t.conn = "none" /\ t.appq = << >> /\ t.waiting = 0 /\ t.cdr = "none"
  BY <1>1, <1>3 DEF Sound, RequestSound
<1> QED  BY <1>5, <1>6, <1>7, <1>8, <1>9, <1>10, <1>12, <1>13, <1>14, <1>15, <1>16
         DEF t, Turns

\* The same for the queue of the application.
LEMMA AnsweredFields ==
  ASSUME NEW r \in PullRecord, r.appq # << >>
  PROVE  LET t == Answered(r)
         IN  /\ t \in PullRecord /\ t.appq = Tail(r.appq) /\ (Live(t) <=> Live(r))
             /\ t.tcap = r.tcap /\ t.invoke = r.invoke /\ t.owner = r.owner
             /\ t.urlOk = r.urlOk /\ t.conn = r.conn /\ t.waiting = r.waiting
             /\ t.mapq = r.mapq /\ t.final = r.final /\ t.timerID = r.timerID
             /\ t.timers = r.timers /\ t.cdr = r.cdr /\ t.count = r.count
             /\ t.aci = r.aci
  BY AnsweredType DEF Answered, PullRecord, Live

\* What holds without the event of the application, and what it tells its handler.
LEMMA AnsweredSound ==
  ASSUME NEW r \in PullRecord, Consistent(r), Sound(r), r.appq # << >>
  PROVE  LET t == Answered(r)
             k == Head(r.appq)
         IN  /\ Base(t) /\ FailureSound(t) /\ TurnSound(t)
             /\ k \in HttpAnswers => t.owner = "http" /\ t.conn \in HttpStates
             /\ k \in SipEvents => t.owner = "sip" /\ t.conn \in SipStates
             /\ k \in Silent => AwaitSound(t) /\ LeakSound(t)
             /\ Live(t) => /\ ~t.final
                           /\ t.conn \notin {"bye", "lateInvite", "lateBye"}
                           /\ k \in Replies => /\ t.waiting = 0
                                               /\ ~Queued(t.appq, Replies)
                                               /\ ~Queued(t.mapq, Turns)
<1> DEFINE t == Answered(r)
           q == r.appq
           p == t.appq
           k == Head(r.appq)
<1>1. /\ t \in PullRecord /\ p = Tail(q) /\ (Live(t) <=> Live(r))
      /\ t.tcap = r.tcap /\ t.invoke = r.invoke /\ t.owner = r.owner
      /\ t.urlOk = r.urlOk /\ t.conn = r.conn /\ t.waiting = r.waiting
      /\ t.mapq = r.mapq /\ t.final = r.final /\ t.timerID = r.timerID
      /\ t.timers = r.timers /\ t.cdr = r.cdr /\ t.count = r.count
  BY AnsweredFields
<1> HIDE DEF t
<1>2. q \in Seq(AppEvents)
  BY DEF PullRecord
<1>3. \A E : Queued(q, E) <=> k \in E \/ Queued(p, E)
  BY <1>1, <1>2, QueuedTail
<1>4. AtMostOne(q, Replies) => AtMostOne(p, Replies) /\ (k \in Replies => ~Queued(p, Replies))
  BY <1>1, <1>2, QueuedTail
<1>5. /\ Len(q) \in Nat /\ Len(q) > 0 /\ Len(p) = Len(q) - 1 /\ k = q[1]
      /\ \A i \in 1 .. Len(p) : p[i] = q[i + 1]
  BY <1>1, <1>2
<1>6. 1 \in 1 .. Len(q) /\ \A i \in 1 .. Len(p) : i + 1 \in 1 .. Len(q)
  BY <1>5
<1>7. Established(r) /\ Established(t)
  BY <1>1 DEF Consistent, OwnerConsistent, Established
<1>8. SideSound(t)
  BY <1>1, <1>5, <1>6, <1>7 DEF Sound, SideSound
<1>9. /\ k \in HttpAnswers => t.owner = "http" /\ t.conn \in HttpStates
      /\ k \in SipEvents => t.owner = "sip" /\ t.conn \in SipStates
  BY <1>1, <1>5, <1>6, <1>7 DEF Sound, SideSound, Established, Transports, HttpAnswers,
     SipEvents
<1>10. ~Queued(t.mapq, {"ProcessUnstructuredSSRequest"})
  BY <1>1 DEF Sound, RequestSound
<1>11. TimerSound(t) /\ TcapSound(t) /\ FailureSound(t)
  BY <1>1 DEF Sound, TimerSound, TcapSound, FailureSound
<1>12. Base(t)
  BY <1>1, <1>7, <1>8, <1>10, <1>11 DEF Base
<1>13. /\ TurnSound(t)
       /\ Live(t) /\ k \in Replies =>
            t.waiting = 0 /\ ~Queued(p, Replies) /\ ~Queued(t.mapq, Turns)
  BY <1>1, <1>3, <1>4 DEF Sound, TurnSound, PullRecord
<1>14. k \in Silent => AwaitSound(t)
  BY <1>1, <1>3 DEF Sound, AwaitSound
<1>15. k \in Silent => LeakSound(t)
  BY <1>1, <1>9 DEF Sound, LeakSound, Silent, SipEvents, SipStates
<1>16. Live(t) => ~t.final /\ t.conn \notin {"bye", "lateInvite", "lateBye"}
  BY <1>1 DEF Sound, AwaitSound
<1> QED  BY <1>9, <1>11, <1>12, <1>13, <1>14, <1>15, <1>16 DEF t

-----------------------------------------------------------------------------
(***************************************************************************)
(* Handlers of the MAP activity.                                           *)
(***************************************************************************)
\* What Base says of the transport.
LEMMA BaseSided ==
  ASSUME NEW t, Base(t)
  PROVE  /\ t \in PullRecord /\ Sided(t) /\ t.owner \in Transports
         /\ t.owner = "http" => t.conn \in HttpStates
         /\ t.owner = "sip" => t.conn \in SipStates
  BY DEF Base, Sided, SideSound, Established

\* A handler that bills a failure.
LEMMA BillsSound ==
  ASSUME NEW t, Base(t), NEW s, Ends(t, s), Bills(t, s), Counted(s) \/ FailureSound(s)
  PROVE  Sound(s)
<1>1. Over(t, s, {"answer", "drop", "error", "abort"})
  BY DEF Bills, Over
<1>2. FailureSound(s)
  BY DEF Counted, FailureSound
<1> QED  BY <1>1, <1>2, EndedSound

\* A handler that delivers the final answer.
LEMMA DeliversSound ==
  ASSUME NEW t, Base(t), NEW s, Ends(t, s), Delivers(t, s), t.cdr = "none"
  PROVE  Sound(s)
<1>1. Over(t, s, {"answer", "drop", "error", "abort"})
  BY DEF Delivers, Over
<1>2. FailureSound(s)
  BY DEF Delivers, FailureSound
<1> QED  BY <1>1, <1>2, EndedSound

\* An established dialog without the head of its MAP queue.
LEMMA RestBase ==
  ASSUME NEW r \in PullRecord, Consistent(r), Sound(r), Established(r), r.mapq # << >>
  PROVE  Base(Rest(r)) /\ Sided(Rest(r))
<1>1. /\ SideSound(Rest(r)) /\ TimerSound(Rest(r)) /\ TcapSound(Rest(r))
      /\ ~Queued(Rest(r).mapq, {"ProcessUnstructuredSSRequest"})
  BY RestSound
<1>2. Rest(r) \in PullRecord /\ Established(Rest(r))
  BY RestFields DEF Established
<1> QED  BY <1>1, <1>2, BaseSided DEF Base

\* Every handler of the child for an event of the MAP activity that bills.
LEMMA BillingSound ==
  ASSUME NEW r \in PullRecord, Consistent(r), Sound(r), Established(r), r.mapq # << >>
  PROVE  LET e == Head(r.mapq)
             t == Rest(r)
         IN  /\ e = "Reject" => Sound(OnDialogReject(t))
             /\ e = "UserAbort" => Sound(OnDialogUserAbort(t))
             /\ e = "ProviderAbort" => Sound(OnDialogProviderAbort(t))
             /\ e = "Close" => Sound(OnDialogClose(t))
             /\ e = "DialogTimeout" => Sound(OnDialogTimeout(t))
             /\ e = "InvokeTimeout" => Sound(OnInvokeTimeout(t))
             /\ e = "ErrorComponent" => Sound(OnErrorComponent(t))
             /\ e = "RejectComponent" => Sound(OnRejectComponent(t))
             /\ e = "Timer" => Sound(OnTimerEvent(t))
<1> DEFINE e == Head(r.mapq)
           t == Rest(r)
<1>1. Base(t) /\ Sided(t) /\ t \in PullRecord
  BY RestBase DEF Base
<1>2. e \in EndEvents => ~Live(t)
  BY HeadEnded
<1>3. ASSUME e \in EndEvents
      PROVE  /\ Sound(OnDialogReject(t)) /\ Sound(OnDialogUserAbort(t))
             /\ Sound(OnDialogProviderAbort(t)) /\ Sound(OnDialogClose(t))
  BY <1>1, <1>2, <1>3, EndIndicationBills, EndIndicationEnds, BillsSound
<1>4. Sound(OnDialogTimeout(t))
  BY <1>1, DialogTimeoutBills, DialogTimeoutEnds, BillsSound
<1>5. Sound(OnInvokeTimeout(t))
  BY <1>1, InvokeTimeoutBills, InvokeTimeoutEnds, BillsSound
<1>6. ASSUME e = "ErrorComponent" PROVE Sound(OnErrorComponent(t))
  <2> DEFINE s == OnErrorComponent(t)
  <2>1. /\ Ends(t, s) /\ Bills(t, s)
        /\ t.tcap # "End" => Counted(s)
    BY <1>1, ErrorComponentBills, ErrorComponentEnds
  <2>2. t.tcap = "End" => ~Live(t) /\ Queued(t.mapq, {"Close"})
    BY <1>6, RestSound
  <2> HIDE DEF s, t
  <2>3. t.tcap = "End" => FailureSound(s)
    BY <2>1, <2>2 DEF Bills, Over, FailureSound
  <2>4. Sound(s)
    BY <1>1, <2>1, <2>3, BillsSound
  <2> QED  BY <2>4 DEF s, t
<1>7. Sound(OnRejectComponent(t))
  BY <1>1, RejectComponentBills, RejectComponentEnds, BillsSound
<1>8. Sound(OnTimerEvent(t))
  BY <1>1, TimerEventBills, TimerEventEnds, BillsSound
<1> QED  BY <1>3, <1>4, <1>5, <1>6, <1>7, <1>8 DEF EndEvents

-----------------------------------------------------------------------------
\* The request or answer of the mobile that could not be sent to the application.
LEMMA UnsentSound ==
  ASSUME NEW t, Base(t), NEW type, ~SendOk(t, type, TRUE)
  PROVE  Sound(ForwardToApp(t, type))
<1> DEFINE a == FailedSend(t)
           b == SendErrorMessage(a)
           c == TerminateProtocolConnection(b)
           s == Fail(c, "FAILED_SYSTEM_FAILURE")
<1>1. t \in PullRecord /\ Sided(t)
  BY BaseSided
<1>2. Keeps(t, a) /\ Quiet(t, a)
  BY <1>1, FailedSendKeeps, QuietRefl, ConnQuiet DEF FailedSend, IsSip
<1>3. Stops(a, b) /\ Quiet(t, b)
  BY <1>1, <1>2, SendErrorMessageStops, StopQuiet, QuietTrans DEF Keeps
<1>4. Stops(t, c)
  BY <1>2, <1>3, TerminateKeeps, StopsThenKeeps, KeepsThen DEF Stops
<1>5. Ends(t, c)
  BY <1>1, <1>3, TerminateEnds
<1>6. Bills(t, s) /\ Ends(t, s) /\ Counted(s)
  BY <1>1, <1>4, <1>5, FailBills, FailEnds DEF Failures, CdrStatuses
<1>7. Sound(s)
  BY <1>6, BillsSound
<1> QED  BY <1>7 DEF ForwardToApp

\* The one that was sent: the application has the turn and the timer is armed.
LEMMA SentSound ==
  ASSUME NEW t, Base(t), NEW type, SendOk(t, type, TRUE),
         AwaitSound(t), FailureSound(t), LeakSound(t),
         t.timers = {}, t.invoke # "request", ~Queued(t.mapq, Turns),
         Live(t) => /\ t.waiting = 0 /\ ~Queued(t.appq, Replies)
                    /\ type \in {"Begin", "Continue"},
         TurnSound(t),
         type = "Begin" => t.cdr = "none"
  PROVE  Sound(ForwardToApp(t, type))
<1> DEFINE x == SendUssdData(t, type)
           s == SetTimer(x)
<1>1. t \in PullRecord /\ t.owner \in Transports
  BY BaseSided
<1>2. /\ x.owner = t.owner /\ x.tcap = t.tcap /\ x.urlOk = t.urlOk /\ x.appq = t.appq
      /\ x.timerID = t.timerID /\ x.timers = t.timers /\ x.invoke = t.invoke
      /\ x.map = t.map /\ x.mapq = t.mapq /\ x.final = t.final
      /\ x.cdr = t.cdr /\ x.count = t.count
  BY <1>1 DEF SendUssdData, SipSendUssdData, HttpSendUssdData, AbortSipDialog, PullRecord
<1>3. \/ /\ x.owner = "http" /\ x.conn = "open" /\ x.waiting = t.waiting + 1
      \/ /\ x.owner = "sip" /\ x.waiting = t.waiting + 1
         /\ \/ type = "Begin" /\ x.conn = "early"
            \/ type = "Continue" /\ x.conn = t.conn
      \/ /\ x.owner = "sip" /\ type \notin {"Begin", "Continue"}
         /\ x.conn \in {t.conn, "bye", "lateInvite"}
  <2>1. CASE t.owner = "http"
    BY <1>1, <1>2, <2>1 DEF SendUssdData, SendOk, IsSip, HttpSendUssdData, PullRecord
  <2>2. CASE t.owner = "sip" /\ type \in {"Begin", "Continue"}
    BY <1>1, <1>2, <2>2 DEF SendUssdData, IsSip, SipSendUssdData, PullRecord
  <2>3. CASE t.owner = "sip" /\ type \notin {"Begin", "Continue"}
    BY <1>1, <1>2, <2>3 DEF SendUssdData, IsSip, SipSendUssdData, AbortSipDialog, PullRecord
  <2> QED  BY <1>1, <2>1, <2>2, <2>3 DEF Transports
<1>4. x \in PullRecord
  BY <1>1, SendUssdDataKeeps DEF Keeps
<1> HIDE DEF x
<1>5. /\ s.owner = x.owner /\ s.tcap = x.tcap /\ s.urlOk = x.urlOk /\ s.appq = x.appq
      /\ s.timerID = x.timerID + 1 /\ s.timers = x.timers \cup {x.timerID + 1}
      /\ s.invoke = x.invoke /\ s.map = x.map /\ s.mapq = x.mapq /\ s.final = x.final
      /\ s.cdr = x.cdr /\ s.count = x.count /\ s.conn = x.conn /\ s.waiting = x.waiting
  BY <1>4 DEF SetTimer, PullRecord
<1>6. t.waiting \in Nat /\ (Live(s) <=> Live(t))
  BY <1>1, <1>2, <1>5 DEF PullRecord, Live
<1> HIDE DEF s
<1>7. SideSound(s)
  BY <1>2, <1>3, <1>5, BaseSided DEF Base, SideSound, Established, Transports,
     HttpStates, SipStates
<1>8. RequestSound(s) /\ TimerSound(s) /\ TcapSound(s) /\ FailureSound(s)
  <2>1. RequestSound(s)
    BY <1>2, <1>5 DEF Base, RequestSound
  <2>2. TimerSound(s)
    BY <1>2, <1>5 DEF Base, TimerSound
  <2>3. TcapSound(s)
    BY <1>2, <1>5, <1>6 DEF Base, TcapSound
  <2>4. FailureSound(s)
    BY <1>2, <1>5 DEF FailureSound
  <2> QED  BY <2>1, <2>2, <2>3, <2>4
<1>9. Live(s) => s.waiting = 1
  BY <1>3, <1>5, <1>6
<1>10. TurnSound(s)
  BY <1>2, <1>5, <1>6, <1>9 DEF TurnSound
<1>11. AwaitSound(s)
  BY <1>2, <1>3, <1>5, <1>6, <1>9 DEF AwaitSound
<1>12. LeakSound(s)
  BY <1>2, <1>3, <1>5, <1>6, BaseSided DEF LeakSound, SipStates
<1>13. Sound(s)
  BY <1>7, <1>8, <1>10, <1>11, <1>12 DEF Sound
<1> QED  BY <1>13 DEF ForwardToApp, s, x

\* Statistics change nothing but the counters.
LEMMA CountFields ==
  ASSUME NEW t \in PullRecord, NEW S
  PROVE  LET c == Count(t, S)
         IN  /\ c \in PullRecord /\ (Live(c) <=> Live(t)) /\ c.map = t.map
             /\ c.mapq = t.mapq /\ c.owner = t.owner /\ c.aci = t.aci /\ c.tcap = t.tcap
             /\ c.urlOk = t.urlOk /\ c.appq = t.appq /\ c.timerID = t.timerID
             /\ c.timers = t.timers /\ c.invoke = t.invoke /\ c.final = t.final
             /\ c.cdr = t.cdr /\ c.conn = t.conn /\ c.waiting = t.waiting
             /\ \A n \in Counters : c.count[n] \in Nat /\ t.count[n] \in Nat
                                   /\ t.count[n] <= c.count[n]
<1> DEFINE c == Count(t, S)
<1>1. c \in PullRecord
  BY CountKeeps DEF Keeps
<1>2. Quiet(t, c)
  BY CountQuiet
<1>3. \A n \in Counters : c.count[n] \in Nat /\ t.count[n] \in Nat /\ t.count[n] <= c.count[n]
  BY <1>1, <1>2 DEF PullRecord, Quiet
<1>4. /\ c.map = t.map
      /\ c.mapq = t.mapq /\ c.owner = t.owner /\ c.aci = t.aci /\ c.tcap = t.tcap
      /\ c.urlOk = t.urlOk /\ c.appq = t.appq /\ c.timerID = t.timerID
      /\ c.timers = t.timers /\ c.invoke = t.invoke /\ c.final = t.final
      /\ c.cdr = t.cdr /\ c.conn = t.conn /\ c.waiting = t.waiting
  BY DEF Count, PullRecord
<1> HIDE DEF c
<1>5. Live(c) <=> Live(t)
  BY <1>4 DEF Live
<1> QED  BY <1>1, <1>3, <1>4, <1>5 DEF c

\* Statistics keep every part of the invariant.
LEMMA CountSound ==
  ASSUME NEW t \in PullRecord, NEW S
  PROVE  LET c == Count(t, S)
         IN  /\ SideSound(t) => SideSound(c)
             /\ RequestSound(t) => RequestSound(c)
             /\ TimerSound(t) => TimerSound(c)
             /\ TurnSound(t) => TurnSound(c)
             /\ AwaitSound(t) => AwaitSound(c)
             /\ TcapSound(t) => TcapSound(c)
             /\ FailureSound(t) => FailureSound(c)
             /\ LeakSound(t) => LeakSound(c)
             /\ Base(t) => Base(c)
<1> DEFINE c == Count(t, S)
<1>1. /\ c \in PullRecord /\ (Live(c) <=> Live(t))
      /\ c.mapq = t.mapq /\ c.owner = t.owner /\ c.tcap = t.tcap
      /\ c.urlOk = t.urlOk /\ c.appq = t.appq /\ c.timerID = t.timerID
      /\ c.timers = t.timers /\ c.invoke = t.invoke /\ c.final = t.final
      /\ c.cdr = t.cdr /\ c.conn = t.conn /\ c.waiting = t.waiting
  BY CountFields
<1>2. \A n \in {"DialogsAllFailed", "DialogsPushFailed"} :
        c.count[n] \in Nat /\ t.count[n] \in Nat /\ t.count[n] <= c.count[n]
  BY CountFields DEF Counters
<1> HIDE DEF c
<1>3. SideSound(t) => SideSound(c)
  BY <1>1 DEF SideSound, Established
<1>4. /\ TurnSound(t) => TurnSound(c)
      /\ AwaitSound(t) => AwaitSound(c)
  BY <1>1 DEF TurnSound, AwaitSound
<1>5. TcapSound(t) => TcapSound(c)
  BY <1>1 DEF TcapSound
<1>6. FailureSound(t) => FailureSound(c)
  BY <1>1, <1>2 DEF FailureSound
<1>7. LeakSound(t) => LeakSound(c)
  BY <1>1, <1>2 DEF LeakSound
<1>8. RequestSound(t) => RequestSound(c)
  BY <1>1 DEF RequestSound
<1>9. TimerSound(t) => TimerSound(c)
  BY <1>1 DEF TimerSound
<1>10. Base(t) => Base(c)
  BY <1>1, <1>3, <1>5, <1>9 DEF Base, Established
<1> QED  BY <1>3, <1>4, <1>5, <1>6, <1>7, <1>8, <1>9, <1>10 DEF c

\* Handlers of the child for the request and the answers of the mobile.
LEMMA ForwardSound ==
  ASSUME NEW r \in PullRecord, Consistent(r), Sound(r), Established(r), r.mapq # << >>
  PROVE  LET e == Head(r.mapq)
             t == Rest(r)
         IN  /\ e = "ProcessUnstructuredSSRequest" =>
                  Sound(OnProcessUnstructuredSSRequest(t))
             /\ e = "UnstructuredSSResponse" => Sound(OnUnstructuredSSResponse(t))
<1> DEFINE e == Head(r.mapq)
           t == Rest(r)
<1>1. Base(t) /\ t \in PullRecord
  BY RestBase DEF Base
<1>2. ASSUME e \in Turns
      PROVE  /\ t.timers = {} /\ t.invoke # "request" /\ ~Queued(t.mapq, Turns)
             /\ AwaitSound(t) /\ FailureSound(t) /\ LeakSound(t) /\ TurnSound(t)
             /\ TcapSound(t)
  BY <1>2, RestSound DEF Turns
<1>3. ASSUME e = "ProcessUnstructuredSSRequest"
      PROVE  Sound(OnProcessUnstructuredSSRequest(t))
  <2>1. t.appq = << >> /\ t.waiting = 0 /\ t.cdr = "none"
    BY <1>3, RestSound
  <2>2. ~Queued(t.appq, Replies)
    BY <2>1 DEF Queued
  <2>3. e \in Turns
    BY <1>3 DEF Turns
  <2> HIDE DEF t
  <2>4. Sound(ForwardToApp(t, "Begin"))
    BY <1>1, <1>2, <2>1, <2>2, <2>3, UnsentSound, SentSound
  <2> QED  BY <2>4 DEF OnProcessUnstructuredSSRequest
<1>4. ASSUME e = "UnstructuredSSResponse"
      PROVE  Sound(OnUnstructuredSSResponse(t))
  <2> DEFINE c == Count(t, {"MessagesRecieved", "MessagesAll"})
  <2>1. /\ t.tcap # "Begin"
        /\ Live(t) => t.waiting = 0 /\ ~Queued(t.appq, Replies)
    BY <1>4, RestSound
  <2>2. e \in Turns
    BY <1>4 DEF Turns
  <2> HIDE DEF t
  <2>3. /\ Base(c) /\ AwaitSound(c) /\ FailureSound(c) /\ LeakSound(c) /\ TurnSound(c)
    BY <1>1, <1>2, <2>2, CountSound
  <2>4. /\ c.timers = {} /\ c.invoke # "request" /\ ~Queued(c.mapq, Turns)
        /\ Live(c) => /\ c.waiting = 0 /\ ~Queued(c.appq, Replies)
                       /\ t.tcap \in {"Begin", "Continue"}
    BY <1>1, <1>2, <2>1, <2>2, CountFields DEF TcapSound
  <2> HIDE DEF c
  <2>5. Sound(ForwardToApp(c, t.tcap))
    BY <2>1, <2>3, <2>4, UnsentSound, SentSound
  <2> QED  BY <2>5 DEF OnUnstructuredSSResponse, c
<1> QED  BY <1>3, <1>4

\* onDialogRelease, of the child or of no SBB at all.
LEMMA ReleaseSound ==
  ASSUME NEW r \in PullRecord, Consistent(r), Sound(r), r.mapq # << >>,
         Head(r.mapq) = "Release"
  PROVE  Sound(OnDialogRelease(r))
<1> DEFINE s == OnDialogRelease(r)
<1>1. /\ s.map = r.map /\ s.mapq = << >> /\ s.timers = {} /\ s.owner = r.owner
      /\ s.conn = r.conn /\ s.appq = r.appq /\ s.waiting = r.waiting /\ s.cdr = r.cdr
      /\ s.urlOk = r.urlOk /\ s.count = r.count
  BY DEF OnDialogRelease, PullRecord
<1> HIDE DEF s
<1>2. ~Live(s)
  BY <1>1, HeadEnded DEF EndEvents, Live
<1>3. Len(s.mapq) = 0 /\ \A E : ~Queued(s.mapq, E) /\ AtMostOne(s.mapq, E)
  BY <1>1 DEF Queued, AtMostOne
<1>4. ~Queued(r.mapq, {"Close"})
  <2>1. /\ Len(r.mapq) \in Nat /\ Len(r.mapq) > 0 /\ r.mapq[1] = "Release"
    BY RestQueue DEF PullRecord
  <2>2. 1 \in 1 .. Len(r.mapq) /\ QueueConsistent(r)
    BY <2>1 DEF Consistent
  <2>3. 1 = Len(r.mapq)
    BY <2>1, <2>2 DEF QueueConsistent
  <2> QED  BY <2>1, <2>3 DEF Queued
<1>5. SideSound(s)
  BY <1>1 DEF Sound, SideSound, Established
<1>6. FailureSound(s)
  BY <1>1, <1>4 DEF Sound, FailureSound
<1>7. LeakSound(s)
  BY <1>1 DEF Sound, LeakSound
<1>8. RequestSound(s) /\ TimerSound(s) /\ TcapSound(s)
  BY <1>1, <1>2, <1>3 DEF RequestSound, TimerSound, TcapSound
<1>9. TurnSound(s) /\ AwaitSound(s)
  BY <1>2 DEF TurnSound, AwaitSound
<1> QED  BY <1>5, <1>6, <1>7, <1>8, <1>9 DEF Sound, s

-----------------------------------------------------------------------------
(***************************************************************************)
(* Handlers of the application.                                            *)
(***************************************************************************)
\* cancelTimer leaves no timer armed.
LEMMA CancelSound ==
  ASSUME NEW t, Base(t)
  PROVE  LET c == CancelTimer(t)
         IN  /\ c.timers = {} /\ (Live(c) <=> Live(t)) /\ c.map = t.map /\ c.mapq = t.mapq
             /\ c.owner = t.owner /\ c.aci = t.aci /\ c.appq = t.appq
             /\ c.timerID = t.timerID /\ c.invoke = t.invoke /\ c.final = t.final
             /\ c.cdr = t.cdr /\ c.conn = t.conn /\ c.waiting = t.waiting
             /\ c.count = t.count /\ c.tcap = t.tcap
             /\ Base(c) /\ (FailureSound(t) => FailureSound(c))
<1> DEFINE c == CancelTimer(t)
<1>1. t \in PullRecord /\ c \in PullRecord
  BY CancelTimerKeeps DEF Base, Keeps
<1>2. /\ c.timers = t.timers \ {t.timerID} /\ c.map = t.map /\ c.mapq = t.mapq
      /\ c.owner = t.owner /\ c.aci = t.aci /\ c.appq = t.appq
      /\ c.timerID = t.timerID /\ c.invoke = t.invoke /\ c.final = t.final
      /\ c.cdr = t.cdr /\ c.conn = t.conn /\ c.waiting = t.waiting
      /\ c.count = t.count /\ c.tcap = t.tcap
  BY <1>1 DEF CancelTimer, PullRecord
<1> HIDE DEF c
<1>3. c.timers = {}
  BY <1>2 DEF Base, TimerSound
<1>4. Live(c) <=> Live(t)
  BY <1>2 DEF Live
<1>5. SideSound(c)
  BY <1>2, <1>3 DEF Base, SideSound, Established
<1>6. TimerSound(c)
  BY <1>2, <1>3 DEF Base, TimerSound
<1>7. TcapSound(c)
  BY <1>2, <1>4 DEF Base, TcapSound
<1>8. Base(c)
  BY <1>1, <1>2, <1>5, <1>6, <1>7 DEF Base, Established
<1>9. FailureSound(t) => FailureSound(c)
  BY <1>2 DEF FailureSound
<1> QED  BY <1>2, <1>3, <1>4, <1>8, <1>9 DEF c

\* A request or a notification to the mobile: it has the turn.
LEMMA MapSendSound ==
  ASSUME NEW t, Base(t), NEW op \in Invokes,
         t.timers = {}, t.cdr = "none", t.waiting = 0,
         ~Queued(t.appq, Replies), ~Queued(t.mapq, Turns), ~t.final,
         t.conn \notin {"bye", "lateInvite", "lateBye"}, Live(t)
  PROVE  Sound(MapSend(t, op))
<1> DEFINE s == MapSend(t, op)
<1>0. t \in PullRecord /\ t.appq \in Seq(AppEvents)
  BY DEF Base, PullRecord
<1>1. /\ s.map = "active" /\ s.invoke = op /\ s.mapq = t.mapq /\ s.timers = {}
      /\ s.owner = t.owner /\ s.appq = t.appq /\ s.timerID = t.timerID
      /\ s.final = t.final /\ s.cdr = "none" /\ s.conn = t.conn /\ s.waiting = 0
      /\ s.tcap = t.tcap
  BY <1>0 DEF MapSend, PullRecord
<1> HIDE DEF s
<1>2. SideSound(s)
  BY <1>1 DEF Base, SideSound, Established
<1>3. RequestSound(s)
  BY <1>1 DEF Base, RequestSound
<1>4. TimerSound(s)
  BY <1>1 DEF Base, TimerSound
<1>5. TurnSound(s)
  BY <1>1 DEF TurnSound, AtMostOne, Queued
<1>6. AwaitSound(s)
  BY <1>1 DEF AwaitSound
<1>7. TcapSound(s)
  BY <1>1 DEF Base, TcapSound, Live
<1>8. FailureSound(s) /\ LeakSound(s)
  BY <1>1 DEF FailureSound, LeakSound
<1> QED  BY <1>2, <1>3, <1>4, <1>5, <1>6, <1>7, <1>8 DEF Sound, s

\* A handler of the application's event that has cancelled the timer.
LEMMA ResponseSound ==
  ASSUME NEW r \in PullRecord, Consistent(r), Sound(r), r.appq # << >>,
         NEW k, k = Head(r.appq), k \in HttpAnswers
  PROVE  Sound(OnResponseEvent(Answered(r), k))
<1> DEFINE t == Answered(r)
           c == CancelTimer(t)
<1>1. /\ Base(t) /\ FailureSound(t)
      /\ t.owner = "http" /\ t.conn \in HttpStates
      /\ Live(t) => /\ ~t.final
                    /\ t.conn \notin {"bye", "lateInvite", "lateBye"}
                    /\ k \in Replies => /\ t.waiting = 0
                                        /\ ~Queued(t.appq, Replies)
                                        /\ ~Queued(t.mapq, Turns)
  BY AnsweredSound
<1>2. Live(t) => t.cdr = "none"
  BY AnsweredFields DEF Consistent, OutcomeConsistent
<1> HIDE DEF t
<1>3. /\ c.timers = {} /\ (Live(c) <=> Live(t)) /\ c.mapq = t.mapq
      /\ c.owner = t.owner /\ c.appq = t.appq /\ c.final = t.final
      /\ c.cdr = t.cdr /\ c.conn = t.conn /\ c.waiting = t.waiting
      /\ Base(c) /\ FailureSound(c)
  BY <1>1, CancelSound
<1>4. c \in PullRecord
  BY <1>3 DEF Base
<1> HIDE DEF c
<1>5. ASSUME c.final PROVE Sound(HttpTerminate(c))
  <2> DEFINE s == HttpTerminate(c)
  <2>1. ~Live(c)
    BY <1>1, <1>3, <1>5
  <2>2. Ends(c, s) /\ Keeps(c, s)
    BY <1>1, <1>3, <1>4, ResponseEnds, HttpTerminateKeeps
  <2>3. Over(c, s, {"answer", "drop", "error", "abort"})
    BY <2>1, <2>2 DEF Keeps, Core, Over
  <2>4. s.count = c.count
    BY <1>4 DEF HttpTerminate, PullRecord
  <2> HIDE DEF s
  <2>5. FailureSound(s)
    BY <1>3, <2>2, <2>4 DEF FailureSound, Keeps, Core
  <2>6. Sound(s)
    BY <1>3, <2>2, <2>3, <2>5, EndedSound
  <2> QED  BY <2>6 DEF s
<1>6. Sound(OnErrorStatus(c)) /\ Sound(OnAbortResponse(c)) /\ Sound(OnCorruptedResponse(c))
  BY <1>1, <1>3, <1>4, ResponseEnds, HttpErrorBills, AbortResponseBills, BillsSound
<1>7. Sound(OnFinalResponse(c, k))
  <2> DEFINE s == OnFinalResponse(c, k)
  <2>1. Ends(c, s) /\ (~Live(c) => Counted(s)) /\ (Delivers(c, s) \/ Bills(c, s))
    BY <1>1, <1>3, <1>4, FinalResponseEnds, FinalResponseStep
  <2>2. CASE Delivers(c, s)
    BY <1>2, <1>3, <2>1, <2>2, DeliversSound DEF Delivers
  <2>3. CASE Bills(c, s) /\ ~Live(c)
    BY <1>3, <2>1, <2>3, BillsSound
  <2>4. CASE Live(c)
    <3> DEFINE a == CountAnswer(c, k)
               x == Expunge(a, IF k = "end" THEN "answer" ELSE "drop")
    <3>1. Live(a) /\ a \in PullRecord /\ a.cdr = "none"
      BY <1>2, <1>3, <1>4, <2>4, CountFields DEF CountAnswer
    <3>2. s = CreateCdr(HttpTerminate(x), "SUCCESS")
      BY <3>1 DEF OnFinalResponse
    <3>3. x \in PullRecord
      BY <3>1, ExpungeType DEF Endings
    <3>4. x.cdr = "none"
      BY <3>1 DEF Expunge, Fire, PullRecord
    <3> HIDE DEF x
    <3>5. HttpTerminate(x).cdr = "none" /\ HttpTerminate(x) \in PullRecord
      BY <3>3, <3>4, HttpTerminateKeeps DEF Keeps, Core
    <3>6. s.cdr = "SUCCESS"
      BY <3>2, <3>5 DEF CreateCdr, PullRecord
    <3>7. ~Bills(c, s)
      BY <1>2, <1>3, <2>4, <3>6 DEF Bills, Failures
    <3> QED  BY <2>1, <2>2, <3>7
  <2> QED  BY <2>1, <2>2, <2>3, <2>4
<1>8. ASSUME k \in Replies, ~c.final
      PROVE  Sound(OnContinueResponse(c, k))
  <2> DEFINE a == CountAnswer(c, k)
  <2>1. /\ a \in PullRecord /\ (Live(a) <=> Live(c)) /\ a.mapq = c.mapq /\ a.owner = c.owner
        /\ a.appq = c.appq /\ a.timers = c.timers /\ a.final = c.final
        /\ a.cdr = c.cdr /\ a.conn = c.conn /\ a.waiting = c.waiting
    BY <1>4, CountFields DEF CountAnswer
  <2>2. Base(a)
    BY <1>3, <1>4, CountSound DEF CountAnswer
  <2>3. Operation(k) \in Invokes
    BY DEF Operation, Invokes
  <2>4. OnContinueResponse(c, k) = IF Live(a) THEN MapSend(a, Operation(k))
                                             ELSE OnCorruptedResponse(a)
    BY Zenon DEF OnContinueResponse
  <2> HIDE DEF a
  <2>5. CASE Live(a)
    BY <1>1, <1>2, <1>3, <1>8, <2>1, <2>2, <2>3, <2>4, <2>5, MapSendSound
  <2>6. CASE ~Live(a)
    BY <1>1, <1>3, <2>1, <2>2, <2>4, <2>6, ResponseEnds, HttpErrorBills, BillsSound
  <2> QED  BY <2>5, <2>6
<1>9. Sound(OnResponseEvent(t, k))
  BY <1>5, <1>6, <1>7, <1>8 DEF OnResponseEvent, Replies, c
<1> QED  BY <1>9 DEF t

\* Responses of the SIP application.
LEMMA SipResponseSound ==
  ASSUME NEW r \in PullRecord, Consistent(r), Sound(r), r.appq # << >>
  PROVE  LET t == Answered(r)
             k == Head(r.appq)
         IN  /\ k \in {"success", "redirect"} => Sound(t)
             /\ k = "successNoAck" => Sound(OnSuccessNoAck(t))
             /\ k = "failure" => Sound(OnFailureResponse(t))
<1> DEFINE t == Answered(r)
           k == Head(r.appq)
<1>1. /\ Base(t) /\ FailureSound(t) /\ TurnSound(t)
      /\ k \in SipEvents => t.owner = "sip" /\ t.conn \in SipStates
      /\ k \in Silent => AwaitSound(t) /\ LeakSound(t)
  BY AnsweredSound
<1>2. t \in PullRecord
  BY <1>1 DEF Base
<1> HIDE DEF t
<1>3. k \in Silent => Sound(t)
  BY <1>1 DEF Sound, Base, RequestSound
<1>4. ASSUME k \in SipEvents
      PROVE  Sound(OnSuccessNoAck(t)) /\ Sound(OnFailureResponse(t))
  BY <1>1, <1>2, <1>4, InfoEnds, SipResponseBills, BillsSound
<1> QED  BY <1>3, <1>4 DEF Silent, SipEvents, t

\* An INFO of the SIP application.
LEMMA InfoSound ==
  ASSUME NEW r \in PullRecord, Consistent(r), Sound(r), r.appq # << >>,
         NEW k, k = Head(r.appq),
         k \in {"infoRequest", "infoError", "infoEmpty", "infoGarbled"}
  PROVE  Sound(OnInfoReqEvent(Answered(r), k))
<1> DEFINE t == Answered(r)
           c == CancelTimer(t)
<1>0. k \in SipEvents
  BY DEF SipEvents
<1>1. /\ Base(t) /\ FailureSound(t)
      /\ t.owner = "sip" /\ t.conn \in SipStates
      /\ Live(t) => /\ ~t.final
                    /\ t.conn \notin {"bye", "lateInvite", "lateBye"}
                    /\ k \in Replies => /\ t.waiting = 0
                                        /\ ~Queued(t.appq, Replies)
                                        /\ ~Queued(t.mapq, Turns)
  BY <1>0, AnsweredSound
<1>2. Live(t) => t.cdr = "none" /\ t.aci
  BY AnsweredFields DEF Consistent, OutcomeConsistent, OwnerConsistent
<1> HIDE DEF t
<1>3. /\ c.timers = {} /\ (Live(c) <=> Live(t)) /\ c.mapq = t.mapq
      /\ c.owner = t.owner /\ c.appq = t.appq /\ c.final = t.final
      /\ c.cdr = t.cdr /\ c.conn = t.conn /\ c.waiting = t.waiting /\ c.aci = t.aci
      /\ c.count = t.count /\ Base(c) /\ FailureSound(c)
  BY <1>1, CancelSound
<1>4. c \in PullRecord
  BY <1>3 DEF Base
<1> HIDE DEF c
<1>5. /\ Sound(OnGarbledInfo(c)) /\ Sound(OnErrorInfo(c))
      /\ ~c.aci => Sound(OnOrphanInfo(c))
  BY <1>1, <1>2, <1>3, <1>4, InfoEnds, SipErrorBills, OrphanInfoBills, BillsSound
<1>6. Sound(OnEmptyInfo(c))
  <2> DEFINE s == OnEmptyInfo(c)
  <2>1. Ends(c, s) /\ Bills(c, s)
    BY <1>1, <1>3, <1>4, InfoEnds, SipErrorBills
  <2>2. s.cdr = IF c.cdr = "none" THEN "FAILED_CORRUPTED_MESSAGE" ELSE c.cdr
    <3> DEFINE a == AbortSipDialog(SendErrorMessage(c))
    <3>1. a \in PullRecord /\ a.cdr = c.cdr
      BY <1>4, SendErrorMessageStops, HangUpStops DEF Stops
    <3> HIDE DEF a
    <3>2. CreateCdr(a, "FAILED_CORRUPTED_MESSAGE").cdr =
            IF c.cdr = "none" THEN "FAILED_CORRUPTED_MESSAGE" ELSE c.cdr
      BY <3>1 DEF CreateCdr, PullRecord
    <3> QED  BY <3>2 DEF OnEmptyInfo, a
  <2> HIDE DEF s
  <2>3. s.owner = "sip" /\ (s.mapq = c.mapq \/ c.cdr = "none")
    BY <1>1, <1>2, <1>3, <2>1 DEF Ends, Quiet, Bills, Over
  <2>4. "DialogsAllFailed" \in Counters /\ s \in PullRecord
    BY <2>1 DEF Counters, Bills
  <2>5. /\ c.count["DialogsAllFailed"] \in Nat /\ s.count["DialogsAllFailed"] \in Nat
        /\ c.count["DialogsAllFailed"] <= s.count["DialogsAllFailed"]
    BY <1>4, <2>1, <2>4 DEF Ends, Quiet, PullRecord
  <2>6. FailureSound(s)
    BY <1>1, <1>3, <2>2, <2>3, <2>5 DEF FailureSound
  <2>7. Sound(s)
    BY <1>3, <2>1, <2>6, BillsSound
  <2> QED  BY <2>7 DEF s
<1>7. ASSUME k = "infoRequest"
      PROVE  Sound(OnRequestInfo(c))
  <2> DEFINE a == Count(c, {"UssdRequestOperations", "MessagesSent", "MessagesAll"})
  <2>1. /\ a \in PullRecord /\ (Live(a) <=> Live(c)) /\ a.mapq = c.mapq /\ a.owner = c.owner
        /\ a.appq = c.appq /\ a.timers = c.timers /\ a.final = c.final
        /\ a.cdr = c.cdr /\ a.conn = c.conn /\ a.waiting = c.waiting
    BY <1>4, CountFields
  <2>2. Base(a)
    BY <1>3, <1>4, CountSound
  <2>3. OnRequestInfo(c) = IF Live(a) THEN MapSend(a, "request") ELSE OnGarbledInfo(a)
    BY Zenon DEF OnRequestInfo
  <2>4. k \in Replies
    BY <1>7 DEF Replies
  <2> HIDE DEF a
  <2>5. CASE Live(a)
    BY <1>1, <1>2, <1>3, <2>1, <2>2, <2>3, <2>4, <2>5, MapSendSound DEF Invokes
  <2>6. CASE ~Live(a)
    BY <1>1, <1>3, <2>1, <2>2, <2>3, <2>6, InfoEnds, SipErrorBills, BillsSound
  <2> QED  BY <2>5, <2>6
<1>8. Sound(OnInfoReqEvent(t, k))
  BY <1>5, <1>6, <1>7 DEF OnInfoReqEvent, c
<1> QED  BY <1>8 DEF t

\* A BYE of the SIP application.
LEMMA ByeSound ==
  ASSUME NEW r \in PullRecord, Consistent(r), Sound(r), r.appq # << >>,
         NEW k, k = Head(r.appq),
         k \in {"byeAnswer", "byeError", "byeEmpty", "byeGarbled"}
  PROVE  Sound(OnCallTerminated(Answered(r), k))
<1> DEFINE t == Answered(r)
           a == CancelTimer(t)
           c == SipTerminate(a)
<1>0. k \in SipEvents
  BY DEF SipEvents
<1>1. Base(t) /\ FailureSound(t) /\ t.owner = "sip" /\ t.conn \in SipStates
  BY <1>0, AnsweredSound
<1>2. Live(t) => t.cdr = "none"
  BY AnsweredFields DEF Consistent, OutcomeConsistent
<1> HIDE DEF t
<1>3. /\ a.timers = {} /\ (Live(a) <=> Live(t)) /\ a.owner = t.owner /\ a.cdr = t.cdr
      /\ a.conn = t.conn /\ Base(a) /\ a \in PullRecord
  BY <1>1, CancelSound DEF Base
<1> HIDE DEF a
<1>4. c \in PullRecord /\ Keeps(a, c)
  BY <1>3, SipTerminateKeeps DEF Keeps
<1>5. Ends(a, c)
  BY <1>1, <1>3, QuietRefl, HangUpEnds
<1>6. c.owner = "sip" /\ c.conn \in SipStates /\ Tidy(c)
  BY <1>1, <1>3, <1>5 DEF Ends, Quiet
<1>7. ASSUME NEW s, Ends(c, s)
      PROVE  Ends(a, s)
  BY <1>3, <1>5, <1>7, QuietTrans DEF Ends
<1>8. c.cdr = a.cdr /\ (Live(c) <=> Live(a))
  BY <1>4 DEF Keeps, Core, Live
<1> HIDE DEF c
<1>9. ASSUME NEW s, Ends(c, s), Bills(c, s), Counted(s)
      PROVE  Sound(s)
  BY <1>3, <1>4, <1>7, <1>9, KeepsThen, BillsSound
<1>10. Sound(OnGarbledBye(c))
  BY <1>4, <1>6, <1>9, ByeEnds, SipErrorBills
<1>11. Sound(OnErrorBye(c))
  <2>1. Bills(c, OnErrorBye(c))
    BY <1>4, MapAbortStops, FailBills, SipErrorBills DEF OnErrorBye, Failures, CdrStatuses
  <2> QED  BY <1>4, <1>6, <1>9, <2>1, ByeEnds
<1>12. Sound(OnAnswerBye(c))
  <2>1. CASE ~Live(c)
    BY <1>10, <2>1 DEF OnAnswerBye
  <2>2. CASE Live(c)
    <3> DEFINE x == Expunge(c, "answer")
               s == CreateCdr(x, "SUCCESS")
    <3>1. x \in PullRecord
      BY <1>4, ExpungeType DEF Endings
    <3>2. x.map = "expunged" /\ x.ending = "answer" /\ x.mapq = Append(c.mapq, "Release")
          /\ SameOwner(c, x) /\ x.cdr = "none"
      BY <1>2, <1>3, <1>4, <1>8, <2>2 DEF Expunge, Fire, SameOwner, PullRecord
    <3> HIDE DEF x
    <3>3. s.map = x.map /\ s.ending = x.ending /\ s.mapq = x.mapq /\ SameOwner(x, s)
          /\ s.cdr = "SUCCESS" /\ s \in PullRecord
      BY <3>1, <3>2 DEF CreateCdr, SameOwner, PullRecord, CdrStatuses
    <3> HIDE DEF s
    <3>4. Delivers(c, s) /\ c.cdr = "none"
      BY <1>2, <1>3, <1>8, <2>2, <3>2, <3>3 DEF Delivers, Over, SameOwner
    <3>5. OnAnswerBye(c) = s
      BY <2>2 DEF OnAnswerBye, s, x
    <3>6. Ends(a, s)
      BY <1>4, <1>6, <1>7, <3>5, ByeEnds
    <3>7. Delivers(a, s) /\ a.cdr = "none"
      BY <1>4, <1>8, <3>4, KeepsThen
    <3> QED  BY <1>3, <3>5, <3>6, <3>7, DeliversSound
  <2> QED  BY <2>1, <2>2
<1>13. Sound(OnCallTerminated(t, k))
  BY <1>10, <1>11, <1>12 DEF OnCallTerminated, c, a
<1> QED  BY <1>13 DEF t

-----------------------------------------------------------------------------
(***************************************************************************)
(* The applications.                                                       *)
(***************************************************************************)
\* The two records differ in the connection, the requests owed and what arrived.
SameSession(r, s) ==
  /\ s.map = r.map /\ s.mapq = r.mapq /\ s.owner = r.owner /\ s.tcap = r.tcap
  /\ s.timers = r.timers /\ s.timerID = r.timerID /\ s.invoke = r.invoke
  /\ s.final = r.final /\ s.cdr = r.cdr /\ s.urlOk = r.urlOk /\ s.count = r.count

\* What does not depend on the application's side.
LEMMA SessionSound ==
  ASSUME NEW r \in PullRecord, Consistent(r), Sound(r), r.conn # "none",
         NEW s, SameSession(r, s)
  PROVE  /\ Established(s) /\ RequestSound(s) /\ TimerSound(s) /\ TcapSound(s)
         /\ FailureSound(s) /\ (Live(s) <=> Live(r))
<1>1. Established(r) /\ Established(s) /\ (Live(s) <=> Live(r))
  BY DEF SameSession, Consistent, OwnerConsistent, Established, Live
<1>2. RequestSound(s)
  BY DEF SameSession, Sound, RequestSound
<1>3. TimerSound(s)
  BY DEF SameSession, Sound, TimerSound
<1>4. TcapSound(s)
  BY <1>1 DEF SameSession, Sound, TcapSound
<1>5. FailureSound(s)
  BY DEF SameSession, Sound, FailureSound
<1> QED  BY <1>1, <1>2, <1>3, <1>4, <1>5

\* An event of the application joins its queue.
LEMMA ArrivalSound ==
  ASSUME NEW r \in PullRecord, Consistent(r), Sound(r), r.conn # "none",
         NEW s, SameSession(r, s), NEW k \in AppEvents, s.appq = Append(r.appq, k),
         r.owner = "http" => s.conn \in HttpStates /\ k \in HttpAnswers,
         r.owner = "sip" => s.conn \in SipStates /\ k \in SipEvents,
         Live(r) => s.conn \notin {"bye", "lateInvite", "lateBye"},
         s.conn \in {"early", "confirmed"} => r.conn \in {"early", "confirmed"},
         \/ r.waiting > 0 /\ s.waiting = r.waiting - 1 /\ k \notin Silent
         \/ s.waiting = r.waiting /\ k \notin Replies
         \/ s.waiting = 0 /\ k \notin Replies \cup Silent
  PROVE  Sound(s)
<1>1. /\ Established(s) /\ RequestSound(s) /\ TimerSound(s) /\ TcapSound(s)
      /\ FailureSound(s) /\ (Live(s) <=> Live(r))
  BY SessionSound
<1>2. r.appq \in Seq(AppEvents) /\ r.waiting \in Nat
  BY DEF PullRecord
<1>3. /\ Len(r.appq) \in Nat /\ Len(s.appq) = Len(r.appq) + 1
      /\ s.appq[Len(r.appq) + 1] = k
      /\ \A i \in 1 .. Len(r.appq) : s.appq[i] = r.appq[i]
      /\ s.appq # << >>
  BY <1>2
<1>4. \A E : Queued(s.appq, E) <=> Queued(r.appq, E) \/ k \in E
  BY <1>2, QueuedAppend
<1>5. AtMostOne(r.appq, Replies) /\ (k \in Replies => ~Queued(r.appq, Replies)) =>
        AtMostOne(s.appq, Replies)
  BY <1>2, QueuedAppend
<1>6. SideSound(s)
  <2>1. /\ r.owner = "http" => \A i \in 1 .. Len(r.appq) : r.appq[i] \in HttpAnswers
        /\ r.owner = "sip" => \A i \in 1 .. Len(r.appq) : r.appq[i] \in SipEvents
    BY DEF Sound, SideSound
  <2> QED  BY <1>1, <1>3, <2>1 DEF SideSound, SameSession
<1>7. TurnSound(s)
  <2> SUFFICES ASSUME Live(s) PROVE TurnSound(s)
    BY DEF TurnSound
  <2>1. /\ r.waiting <= 1 /\ AtMostOne(r.appq, Replies)
        /\ r.waiting > 0 => ~Queued(r.appq, Replies)
        /\ r.waiting > 0 \/ Queued(r.appq, Replies) =>
             ~Queued(r.mapq, Turns) /\ r.invoke # "request"
    BY <1>1 DEF Sound, TurnSound
  <2>2. k \in Replies => r.waiting > 0 /\ s.waiting = r.waiting - 1
    OBVIOUS
  <2>3. s.waiting <= 1 /\ (s.waiting > 0 => r.waiting > 0 /\ k \notin Replies)
    BY <1>2, <2>1, <2>2
  <2> QED  BY <1>4, <1>5, <2>1, <2>2, <2>3 DEF TurnSound, SameSession
<1>8. AwaitSound(s)
  <2> SUFFICES ASSUME Live(s) PROVE AwaitSound(s)
    BY DEF AwaitSound
  <2>1. /\ r.waiting > 0 => r.timers # {} \/ Queued(r.mapq, {"Timer"})
        /\ r.timers # {} => r.waiting > 0 \/ Queued(r.appq, AppEvents \ Silent)
        /\ ~r.final
    BY <1>1 DEF Sound, AwaitSound
  <2>2. s.waiting > 0 => r.waiting > 0
    BY <1>2
  <2>3. k \notin Silent => Queued(s.appq, AppEvents \ Silent)
    BY <1>4
  <2>4. Queued(r.appq, AppEvents \ Silent) => Queued(s.appq, AppEvents \ Silent)
    BY <1>4
  <2> QED  BY <1>1, <2>1, <2>2, <2>3, <2>4 DEF AwaitSound, SameSession
<1>9. LeakSound(s)
  BY <1>3 DEF Sound, LeakSound, SameSession
<1> QED  BY <1>1, <1>6, <1>7, <1>8, <1>9 DEF Sound

\* The connection of a dialog ends, with nothing that says so.
LEMMA DisconnectSound ==
  ASSUME NEW r \in PullRecord, Consistent(r), Sound(r), r.conn # "none",
         NEW s, SameSession(r, s), s.appq = r.appq,
         \/ s.conn = "none" /\ s.waiting = r.waiting /\ r.owner = "http"
         \/ s.conn = "over" /\ s.waiting = 0 /\ r.owner = "sip" /\ ~Live(r)
  PROVE  Sound(s)
<1>1. /\ Established(s) /\ RequestSound(s) /\ TimerSound(s) /\ TcapSound(s)
      /\ FailureSound(s) /\ (Live(s) <=> Live(r))
  BY SessionSound
<1>2. SideSound(s)
  BY <1>1 DEF Sound, SideSound, SameSession, HttpStates, SipStates
<1>3. TurnSound(s)
  BY <1>1 DEF Sound, TurnSound, SameSession
<1>4. AwaitSound(s)
  BY <1>1 DEF Sound, AwaitSound, SameSession
<1>5. LeakSound(s)
  BY DEF LeakSound
<1> QED  BY <1>1, <1>2, <1>3, <1>4, <1>5 DEF Sound

\* The step of d leaves its record sound.
SoundOf(d) == \E s : Sound(s) /\ Becomes(d, s)

\* The actions of the applications.
LEMMA AppSound ==
  ASSUME TypeOK, SessionConsistent, NEW d \in Dialogs, Sound(dlg[d]),
         App(d) \/ HttpActivityEnds(d)
  PROVE  SoundOf(d)
<1> DEFINE r == dlg[d]
<1>1. r \in PullRecord /\ Consistent(r)
  BY DEF TypeOK, SessionConsistent
<1>2. /\ r.waiting \in Nat /\ SideSound(r)
      /\ Live(r) => r.conn \notin {"bye", "lateInvite", "lateBye"}
  BY <1>1 DEF PullRecord, Sound, AwaitSound
<1>3. r.conn # "none" => r.owner \in Transports
  BY <1>1 DEF Consistent, OwnerConsistent, Established
<1>4. /\ r.conn = "open" => r.owner = "http"
      /\ r.conn \in {"early", "confirmed", "bye", "lateBye", "lateInvite"} => r.owner = "sip"
  BY <1>2, <1>3 DEF SideSound, Transports, HttpStates, SipStates
<1>5. ASSUME NEW k \in AppEvents
      PROVE  LET a == Arrives(d, k)
                 u == [a EXCEPT !.waiting = @ - 1]
                 o == [a EXCEPT !.conn = "over", !.waiting = 0]
                 b == [r EXCEPT !.conn = "over", !.waiting = 0]
                 e == [b EXCEPT !.appq = Append(@, k)]
             IN  /\ SameSession(r, a) /\ a.conn = r.conn /\ a.waiting = r.waiting
                 /\ a.appq = Append(r.appq, k)
                 /\ SameSession(r, u) /\ u.conn = r.conn /\ u.waiting = r.waiting - 1
                 /\ u.appq = Append(r.appq, k)
                 /\ SameSession(r, o) /\ o.conn = "over" /\ o.waiting = 0
                 /\ o.appq = Append(r.appq, k)
                 /\ SameSession(r, b) /\ b.conn = "over" /\ b.waiting = 0
                 /\ b.appq = r.appq
                 /\ SameSession(r, e) /\ e.conn = "over" /\ e.waiting = 0
                 /\ e.appq = Append(r.appq, k)
  BY <1>1 DEF Arrives, SameSession, PullRecord
<1>13. ASSUME NEW k \in AppEvents, NEW n
       PROVE  LET c == [Arrives(d, k) EXCEPT !.conn = n]
              IN  /\ SameSession(r, c) /\ c.conn = n
                  /\ c.waiting = r.waiting /\ c.appq = Append(r.appq, k)
  BY <1>1 DEF Arrives, SameSession, PullRecord
<1>6. CASE HttpAppAnswers(d)
  <2>1. PICK k \in Answers \cap HttpAnswers :
          Becomes(d, [Arrives(d, k) EXCEPT !.waiting = @ - 1])
    BY <1>6 DEF HttpAppAnswers, Update
  <2>2. k \in AppEvents /\ k \in HttpAnswers /\ k \notin Silent
    BY DEF AppEvents, HttpAnswers, Silent
  <2>3. r.conn = "open" /\ r.waiting > 0
    BY <1>6 DEF HttpAppAnswers
  <2> DEFINE u == [Arrives(d, k) EXCEPT !.waiting = @ - 1]
  <2>4. SameSession(r, u) /\ u.conn = r.conn /\ u.waiting = r.waiting - 1
        /\ u.appq = Append(r.appq, k)
    BY <1>5, <2>2
  <2> HIDE DEF u
  <2>5. Sound(u)
    BY <1>1, <1>4, <2>2, <2>3, <2>4, ArrivalSound DEF HttpStates
  <2> QED  BY <2>1, <2>5 DEF SoundOf, u
<1>7. CASE SipAppAnswersInvite(d)
  <2>1. r.conn = "early"
    BY <1>7 DEF SipAppAnswersInvite
  <2>2. \/ \E k \in {"success", "successNoAck"} :
             Becomes(d, [Arrives(d, k) EXCEPT !.conn = "confirmed"])
        \/ Becomes(d, [Arrives(d, "redirect") EXCEPT !.conn = "over"])
        \/ Becomes(d, [Arrives(d, "failure") EXCEPT !.conn = "over", !.waiting = 0])
    BY <1>7 DEF SipAppAnswersInvite, Update
  <2>3. /\ {"success", "successNoAck", "redirect", "failure"} \subseteq SipEvents \cap AppEvents
        /\ {"success", "successNoAck", "redirect", "failure"} \cap Replies = {}
        /\ "failure" \notin Silent
        /\ {"confirmed", "over"} \subseteq SipStates
    BY DEF SipEvents, AppEvents, Replies, Silent, SipStates
  <2>4. ASSUME NEW k \in {"success", "successNoAck", "redirect", "failure"},
               NEW n \in {"confirmed", "over"}
        PROVE  Sound([Arrives(d, k) EXCEPT !.conn = n])
    <3> DEFINE c == [Arrives(d, k) EXCEPT !.conn = n]
    <3>1. /\ SameSession(r, c) /\ c.conn = n
          /\ c.waiting = r.waiting /\ c.appq = Append(r.appq, k)
      BY <1>13, <2>3
    <3> HIDE DEF c
    <3>2. Sound(c)
      BY <1>1, <1>4, <2>1, <2>3, <3>1, ArrivalSound
    <3> QED  BY <3>2 DEF c
  <2>5. Sound([Arrives(d, "failure") EXCEPT !.conn = "over", !.waiting = 0])
    <3> DEFINE o == [Arrives(d, "failure") EXCEPT !.conn = "over", !.waiting = 0]
    <3>1. SameSession(r, o) /\ o.conn = "over" /\ o.waiting = 0
          /\ o.appq = Append(r.appq, "failure")
      BY <1>5, <2>3
    <3> HIDE DEF o
    <3>2. Sound(o)
      BY <1>1, <1>4, <2>1, <2>3, <3>1, ArrivalSound
    <3> QED  BY <3>2 DEF o
  <2> QED  BY <2>2, <2>4, <2>5 DEF SoundOf
<1>8. CASE SipAppSendsInfo(d)
  <2>1. PICK k \in {"infoRequest", "infoError", "infoEmpty", "infoGarbled", "failure"} :
          Becomes(d, [Arrives(d, k) EXCEPT !.waiting = @ - 1])
    BY <1>8 DEF SipAppSendsInfo, Update
  <2>2. k \in AppEvents /\ k \in SipEvents /\ k \notin Silent
    BY DEF AppEvents, SipEvents, Silent
  <2>3. r.conn \in {"confirmed", "bye"} /\ r.waiting > 0
    BY <1>8 DEF SipAppSendsInfo, InSipDialog
  <2> DEFINE u == [Arrives(d, k) EXCEPT !.waiting = @ - 1]
  <2>4. SameSession(r, u) /\ u.conn = r.conn /\ u.waiting = r.waiting - 1
        /\ u.appq = Append(r.appq, k)
    BY <1>5, <2>2
  <2> HIDE DEF u
  <2>5. Sound(u)
    BY <1>1, <1>2, <1>4, <2>2, <2>3, <2>4, ArrivalSound DEF SipStates
  <2> QED  BY <2>1, <2>5 DEF SoundOf, u
<1>9. CASE SipAppHangsUp(d)
  <2>1. PICK k \in {"byeAnswer", "byeError", "byeEmpty", "byeGarbled"} :
          Becomes(d, Arrives(d, k))
    BY <1>9 DEF SipAppHangsUp, Update
  <2>2. k \in AppEvents /\ k \in SipEvents /\ k \notin Replies
    BY DEF AppEvents, SipEvents, Replies
  <2>3. r.conn \in {"confirmed", "bye"}
    BY <1>9 DEF SipAppHangsUp, InSipDialog
  <2> DEFINE a == Arrives(d, k)
  <2>4. SameSession(r, a) /\ a.conn = r.conn /\ a.waiting = r.waiting
        /\ a.appq = Append(r.appq, k)
    BY <1>5, <2>2
  <2> HIDE DEF a
  <2>5. Sound(a)
    BY <1>1, <1>2, <1>4, <2>2, <2>3, <2>4, ArrivalSound DEF SipStates
  <2> QED  BY <2>1, <2>5 DEF SoundOf, a
<1>10. CASE SipAppAnswersBye(d)
  <2> DEFINE b == [r EXCEPT !.conn = "over", !.waiting = 0]
             e == [b EXCEPT !.appq = Append(@, "failure")]
  <2>1. "failure" \in AppEvents \cap SipEvents /\ "failure" \notin Replies \cup Silent
        /\ "over" \in SipStates
    BY DEF AppEvents, SipEvents, Replies, Silent, SipStates
  <2>2. r.conn \in {"bye", "lateBye"} /\ (Becomes(d, b) \/ Becomes(d, e))
    BY <1>10 DEF SipAppAnswersBye, Update
  <2>3. /\ SameSession(r, b) /\ b.conn = "over" /\ b.waiting = 0 /\ b.appq = r.appq
        /\ SameSession(r, e) /\ e.conn = "over" /\ e.waiting = 0
        /\ e.appq = Append(r.appq, "failure")
    BY <1>5, <2>1
  <2> HIDE DEF b, e
  <2>4. Sound(b)
    BY <1>1, <1>2, <1>4, <2>2, <2>3, DisconnectSound
  <2>5. Sound(e)
    BY <1>1, <1>2, <1>4, <2>1, <2>2, <2>3, ArrivalSound
  <2> QED  BY <2>2, <2>4, <2>5 DEF SoundOf
<1>11. CASE SipAppAnswersLate(d)
  <2>1. PICK k \in {"success", "successNoAck", "failure", "redirect"} :
          Becomes(d, [Arrives(d, k) EXCEPT !.conn = "over"])
    BY <1>11 DEF SipAppAnswersLate, Update
  <2>2. k \in AppEvents /\ k \in SipEvents /\ k \notin Replies /\ "over" \in SipStates
    BY DEF AppEvents, SipEvents, Replies, SipStates
  <2>3. r.conn = "lateInvite"
    BY <1>11 DEF SipAppAnswersLate
  <2> DEFINE c == [Arrives(d, k) EXCEPT !.conn = "over"]
  <2>4. SameSession(r, c) /\ c.conn = "over" /\ c.waiting = r.waiting
        /\ c.appq = Append(r.appq, k)
    BY <1>13, <2>2
  <2> HIDE DEF c
  <2>5. Sound(c)
    BY <1>1, <1>2, <1>4, <2>2, <2>3, <2>4, ArrivalSound
  <2> QED  BY <2>1, <2>5 DEF SoundOf, c
<1>12. CASE HttpActivityEnds(d)
  <2> DEFINE s == [r EXCEPT !.conn = "none"]
  <2>1. r.conn = "ending" /\ Becomes(d, s)
    BY <1>12 DEF HttpActivityEnds, Update
  <2>2. SameSession(r, s) /\ s.appq = r.appq /\ s.conn = "none" /\ s.waiting = r.waiting
    BY <1>1 DEF SameSession, PullRecord
  <2>3. r.owner = "http"
    BY <1>2, <1>3, <2>1 DEF SideSound, Transports, SipStates
  <2> HIDE DEF s
  <2>4. Sound(s)
    BY <1>1, <2>1, <2>2, <2>3, DisconnectSound
  <2> QED  BY <2>1, <2>4 DEF SoundOf
<1> QED  BY <1>6, <1>7, <1>8, <1>9, <1>10, <1>11, <1>12 DEF App

-----------------------------------------------------------------------------
(***************************************************************************)
(* The mobiles and the stack.                                              *)
(***************************************************************************)
\* x is r with events of the stack behind its queue.
Fired(r, x) ==
  /\ x \in PullRecord
  /\ x.owner = r.owner /\ x.conn = r.conn /\ x.waiting = r.waiting /\ x.appq = r.appq
  /\ x.urlOk = r.urlOk /\ x.final = r.final /\ x.timerID = r.timerID
  /\ x.cdr = r.cdr /\ x.count = r.count
  /\ x.timers \subseteq r.timers /\ x.invoke \in {r.invoke, "none"}
  /\ Queued(x.mapq, {"ProcessUnstructuredSSRequest"}) =>
       Queued(r.mapq, {"ProcessUnstructuredSSRequest"})
  /\ AtMostOne(x.mapq, Turns)
  /\ Queued(x.mapq, Turns) =>
       \/ Queued(r.mapq, Turns)
       \/ (r.invoke = "request" /\ x.invoke = "none")
  /\ Queued(r.mapq, {"Timer"}) => Queued(x.mapq, {"Timer"})

\* What the stack changes of r without an event.
LEMMA FiredSelf ==
  ASSUME NEW r, AtMostOne(r.mapq, Turns),
         NEW x \in PullRecord,
         x.owner = r.owner, x.conn = r.conn, x.waiting = r.waiting, x.appq = r.appq,
         x.urlOk = r.urlOk, x.final = r.final, x.timerID = r.timerID,
         x.cdr = r.cdr, x.count = r.count, x.mapq = r.mapq,
         x.timers \subseteq r.timers, x.invoke \in {r.invoke, "none"}
  PROVE  Fired(r, x)
  BY DEF Fired

\* Events of the stack on a live dialog.
LEMMA FiredSound ==
  ASSUME NEW r \in PullRecord, Consistent(r), Sound(r), Live(r), NEW s, Fired(r, s),
         TcapSound(s), s.timers = r.timers \/ Queued(s.mapq, {"Timer"})
  PROVE  Sound(s)
<1>1. SideSound(s)
  BY DEF Sound, SideSound, Fired, Established
<1>2. RequestSound(s)
  BY DEF Sound, RequestSound, Fired
<1>3. TimerSound(s)
  BY DEF Sound, TimerSound, Fired
<1>4. TurnSound(s)
  BY DEF Sound, TurnSound, Fired
<1>5. AwaitSound(s)
  BY DEF Sound, AwaitSound, Fired
<1>6. s.cdr = "none"
  BY DEF Fired, Consistent, OutcomeConsistent
<1>7. FailureSound(s) /\ LeakSound(s)
  BY <1>6 DEF FailureSound, LeakSound
<1> QED  BY <1>1, <1>2, <1>3, <1>4, <1>5, <1>7 DEF Sound

\* One more event behind the queue.
LEMMA FireFired ==
  ASSUME NEW r, NEW x, Fired(r, x), NEW e \in MapEvents, e # "ProcessUnstructuredSSRequest",
         e = "UnstructuredSSResponse" =>
           r.invoke = "request" /\ x.invoke = "none" /\ ~Queued(x.mapq, Turns)
  PROVE  LET s == Fire(x, e)
         IN  /\ Fired(r, s) /\ s.mapq = Append(x.mapq, e) /\ s.tcap = x.tcap
             /\ s.timers = x.timers /\ s.map = x.map /\ s.invoke = x.invoke
             /\ \A E : Queued(s.mapq, E) <=> Queued(x.mapq, E) \/ e \in E
<1> DEFINE s == Fire(x, e)
<1>1. x \in PullRecord /\ s \in PullRecord /\ x.mapq \in Seq(MapEvents)
  BY FireType DEF Fired, PullRecord
<1>2. /\ s.owner = x.owner /\ s.conn = x.conn /\ s.waiting = x.waiting /\ s.appq = x.appq
      /\ s.urlOk = x.urlOk /\ s.final = x.final /\ s.timerID = x.timerID
      /\ s.cdr = x.cdr /\ s.count = x.count /\ s.timers = x.timers /\ s.invoke = x.invoke
      /\ s.mapq = Append(x.mapq, e) /\ s.tcap = x.tcap /\ s.map = x.map
  BY <1>1 DEF Fire, PullRecord
<1> HIDE DEF s
<1>3. /\ \A E : Queued(s.mapq, E) <=> Queued(x.mapq, E) \/ e \in E
      /\ AtMostOne(x.mapq, Turns) /\ (e \in Turns => ~Queued(x.mapq, Turns)) =>
           AtMostOne(s.mapq, Turns)
  BY <1>1, <1>2, QueuedAppend
<1>4. e \in Turns => e = "UnstructuredSSResponse"
  BY DEF Turns
<1>5. Fired(r, s)
  BY <1>1, <1>2, <1>3, <1>4 DEF Fired
<1> QED  BY <1>2, <1>3, <1>5 DEF s

\* The end of the dialog behind it.
LEMMA ExpungeFired ==
  ASSUME NEW r, NEW x, Fired(r, x), NEW how \in Endings
  PROVE  LET s == Expunge(x, how)
         IN  /\ Fired(r, s) /\ s.mapq = Append(x.mapq, "Release") /\ s.tcap = x.tcap
             /\ s.timers = x.timers /\ ~Live(s)
             /\ \A E : Queued(s.mapq, E) <=> Queued(x.mapq, E) \/ "Release" \in E
<1> DEFINE f == Fire(x, "Release")
           s == Expunge(x, how)
<1>1. /\ Fired(r, f) /\ f.mapq = Append(x.mapq, "Release") /\ f.tcap = x.tcap
      /\ f.timers = x.timers
      /\ \A E : Queued(f.mapq, E) <=> Queued(x.mapq, E) \/ "Release" \in E
  BY FireFired DEF MapEvents
<1>2. x \in PullRecord /\ f \in PullRecord /\ s \in PullRecord
  BY <1>1, ExpungeType DEF Fired
<1> HIDE DEF f
<1>3. /\ s.owner = f.owner /\ s.conn = f.conn /\ s.waiting = f.waiting /\ s.appq = f.appq
      /\ s.urlOk = f.urlOk /\ s.final = f.final /\ s.timerID = f.timerID
      /\ s.cdr = f.cdr /\ s.count = f.count /\ s.timers = f.timers /\ s.invoke = "none"
      /\ s.mapq = f.mapq /\ s.tcap = f.tcap /\ s.map = "expunged"
  BY <1>2 DEF Expunge, PullRecord, f
<1> HIDE DEF s
<1>4. Fired(r, s)
  BY <1>1, <1>2, <1>3 DEF Fired
<1>5. ~Live(s)
  BY <1>3 DEF Live
<1> QED  BY <1>1, <1>3, <1>4, <1>5 DEF s

\* A TC-END leaves Close and Release at the end of the queue.
LEMMA EndTcap ==
  ASSUME NEW q \in Seq(MapEvents), NEW s, ~Live(s), s.tcap = "End",
         s.mapq = Append(Append(q, "Close"), "Release")
  PROVE  TcapSound(s)
<1> DEFINE p == Append(q, "Close")
<1>1. /\ p \in Seq(MapEvents) /\ Len(q) \in Nat /\ Len(p) = Len(q) + 1
      /\ p[Len(q) + 1] = "Close"
  BY DEF MapEvents
<1> HIDE DEF p
<1>2. /\ Len(s.mapq) = Len(p) + 1 /\ s.mapq[Len(p) + 1] = "Release"
      /\ \A i \in 1 .. Len(p) : s.mapq[i] = p[i]
  BY <1>1 DEF p, MapEvents
<1>3. Len(q) + 1 \in 1 .. Len(p)
  BY <1>1
<1>4. s.mapq[Len(q) + 1] = "Close"
  BY <1>1, <1>2, <1>3
<1>5. Len(s.mapq) >= 2 /\ Len(s.mapq) - 1 = Len(q) + 1 /\ Len(s.mapq) = Len(p) + 1
  BY <1>1, <1>2
<1> QED  BY <1>2, <1>4, <1>5 DEF TcapSound

\* The actions of the mobiles and of the stack, but for a new dialog.
LEMMA StackSound ==
  ASSUME TypeOK, SessionConsistent, NEW d \in Dialogs, Sound(dlg[d]),
         Stack(d), ~MobileDials(d)
  PROVE  SoundOf(d)
<1> DEFINE r == dlg[d]
           Same(x) == /\ x.owner = r.owner /\ x.conn = r.conn /\ x.waiting = r.waiting
                      /\ x.appq = r.appq /\ x.urlOk = r.urlOk /\ x.final = r.final
                      /\ x.timerID = r.timerID /\ x.cdr = r.cdr /\ x.count = r.count
<1>1. r \in PullRecord /\ Consistent(r)
  BY DEF TypeOK, SessionConsistent
<1>2. /\ "Continue" \in TcapTypes /\ "End" \in TcapTypes /\ "Abort" \in TcapTypes
      /\ "none" \in Invokes /\ "peer" \in Endings /\ "idle" \in Endings
  BY DEF TcapTypes, Invokes, Endings
<1>3. /\ AtMostOne(r.mapq, Turns)
      /\ r.invoke = "request" => r.timers = {}
      /\ Live(r) => r.tcap \in {"Begin", "Continue"}
      /\ Queued(r.mapq, {"UnstructuredSSResponse"}) => r.tcap # "Begin"
      /\ Queued(r.mapq, Turns) => r.invoke # "request"
  BY DEF Sound, TimerSound, TcapSound
<1>4. ASSUME NEW s, Live(r), Fired(r, s), TcapSound(s), Becomes(d, s),
             s.timers = r.timers \/ Queued(s.mapq, {"Timer"})
      PROVE  SoundOf(d)
  BY <1>1, <1>4, FiredSound DEF SoundOf
<1>5. /\ {"ErrorComponent", "RejectComponent", "UnstructuredSSResponse", "Close", "Reject",
          "UserAbort", "ProviderAbort", "InvokeTimeout", "DialogTimeout", "Timer"}
            \subseteq MapEvents \ {"ProcessUnstructuredSSRequest"}
  BY DEF MapEvents
<1>6. CASE MobileAnswers(d)
  <2> DEFINE x == [r EXCEPT !.tcap = "Continue", !.invoke = "none"]
  <2>0. /\ x \in PullRecord /\ x.mapq = r.mapq /\ x.tcap = "Continue" /\ x.invoke = "none"
        /\ x.timers = r.timers /\ Same(x)
    BY <1>1, <1>2 DEF PullRecord
  <2>1. Fired(r, x)
    <3> HIDE DEF x
    <3> QED  BY <1>3, <2>0, FiredSelf
  <2>2. Live(r)
    BY <1>6 DEF MobileAnswers, Live
  <2>3. \/ Becomes(d, x)
        \/ r.invoke = "request" /\ Becomes(d, Fire(x, "UnstructuredSSResponse"))
        \/ \E e \in {"ErrorComponent", "RejectComponent"} : Becomes(d, Fire(x, e))
    BY <1>6 DEF MobileAnswers, Update
  <2> HIDE DEF x
  <2>4. ASSUME NEW s, s.tcap = "Continue"
        PROVE  TcapSound(s)
    BY <2>4 DEF TcapSound
  <2>5. ASSUME NEW e \in {"ErrorComponent", "RejectComponent", "UnstructuredSSResponse"},
               e = "UnstructuredSSResponse" => r.invoke = "request", Becomes(d, Fire(x, e))
        PROVE  SoundOf(d)
    <3>1. e = "UnstructuredSSResponse" =>
            r.invoke = "request" /\ x.invoke = "none" /\ ~Queued(x.mapq, Turns)
      BY <1>3, <2>0, <2>5
    <3>2. /\ Fired(r, Fire(x, e)) /\ Fire(x, e).tcap = "Continue"
          /\ Fire(x, e).timers = r.timers
      BY <1>5, <2>0, <2>1, <3>1, FireFired
    <3> QED  BY <1>4, <2>2, <2>4, <2>5, <3>2
  <2>6. ASSUME Becomes(d, x) PROVE SoundOf(d)
    BY <1>4, <2>0, <2>1, <2>2, <2>4, <2>6
  <2> QED  BY <2>3, <2>5, <2>6
<1>7. CASE MobileEnds(d)
  <2> DEFINE x == [r EXCEPT !.tcap = "End"]
  <2>0. /\ x \in PullRecord /\ x.mapq = r.mapq /\ x.tcap = "End" /\ x.invoke = r.invoke
        /\ x.timers = r.timers /\ Same(x)
    BY <1>1, <1>2 DEF PullRecord
  <2>1. Fired(r, x)
    <3> HIDE DEF x
    <3> QED  BY <1>3, <2>0, FiredSelf
  <2>2. Live(r)
    BY <1>7 DEF MobileEnds, Live
  <2>3. \/ Becomes(d, Expunge(Fire(x, "Close"), "peer"))
        \/ /\ r.invoke = "request"
           /\ Becomes(d, Expunge(Fire(Fire(x, "UnstructuredSSResponse"), "Close"), "peer"))
        \/ \E e \in {"ErrorComponent", "RejectComponent"} :
             Becomes(d, Expunge(Fire(Fire(x, e), "Close"), "peer"))
    BY <1>7 DEF MobileEnds, Update
  <2> HIDE DEF x
  <2>4. ASSUME NEW y, Fired(r, y), y.tcap = "End", y.timers = r.timers,
               Becomes(d, Expunge(Fire(y, "Close"), "peer"))
        PROVE  SoundOf(d)
    <3> DEFINE z == Fire(y, "Close")
               s == Expunge(z, "peer")
    <3>0. /\ Fired(r, Fire(y, "Close"))
          /\ Fire(y, "Close").mapq = Append(y.mapq, "Close")
          /\ Fire(y, "Close").tcap = y.tcap /\ Fire(y, "Close").timers = y.timers
      <4>1. "Close" \in MapEvents
        BY <1>5
      <4> HIDE DEF r
      <4> QED  BY <2>4, <4>1, FireFired
    <3>1. /\ Fired(r, z) /\ z.mapq = Append(y.mapq, "Close") /\ z.tcap = "End"
          /\ z.timers = r.timers
      BY <2>4, <3>0
    <3> HIDE DEF z
    <3>2. /\ Fired(r, s) /\ s.mapq = Append(z.mapq, "Release") /\ s.tcap = "End"
          /\ s.timers = r.timers /\ ~Live(s)
      BY <1>2, <3>1, ExpungeFired
    <3> HIDE DEF s
    <3>3. y.mapq \in Seq(MapEvents)
      BY <2>4 DEF Fired, PullRecord
    <3>4. TcapSound(s)
      BY <3>1, <3>2, <3>3, EndTcap
    <3> QED  BY <1>4, <2>2, <2>4, <3>2, <3>4 DEF s, z
  <2>5. ASSUME r.invoke = "request",
               Becomes(d, Expunge(Fire(Fire(x, "UnstructuredSSResponse"), "Close"), "peer"))
        PROVE  SoundOf(d)
    <3> DEFINE n == [x EXCEPT !.invoke = "none"]
               u == Fire(n, "UnstructuredSSResponse")
               z == Expunge(Fire(u, "Close"), "peer")
    <3>0. /\ n \in PullRecord /\ n.mapq = r.mapq /\ n.tcap = "End" /\ n.invoke = "none"
          /\ n.timers = r.timers /\ Same(n)
      BY <1>2, <2>0 DEF PullRecord
    <3>1. Fired(r, n)
      <4> HIDE DEF n
      <4> QED  BY <1>3, <3>0, FiredSelf
    <3>2. z = Expunge(Fire(Fire(x, "UnstructuredSSResponse"), "Close"), "peer")
      BY <2>0 DEF Expunge, Fire, PullRecord
    <3> HIDE DEF n
    <3>3. Fired(r, u) /\ u.tcap = "End" /\ u.timers = r.timers
      BY <1>3, <1>5, <2>5, <3>0, <3>1, FireFired
    <3> QED  BY <2>4, <2>5, <3>2, <3>3
  <2>6. ASSUME NEW e \in {"ErrorComponent", "RejectComponent"},
               Becomes(d, Expunge(Fire(Fire(x, e), "Close"), "peer"))
        PROVE  SoundOf(d)
    <3>1. Fired(r, Fire(x, e)) /\ Fire(x, e).tcap = "End" /\ Fire(x, e).timers = r.timers
      BY <1>5, <2>0, <2>1, FireFired
    <3> QED  BY <2>4, <2>6, <3>1
  <2> QED  BY <2>0, <2>1, <2>3, <2>4, <2>5, <2>6
<1>8. CASE MobileAborts(d)
  <2> DEFINE x == [r EXCEPT !.tcap = "Abort"]
  <2>0. /\ x \in PullRecord /\ x.mapq = r.mapq /\ x.tcap = "Abort" /\ x.invoke = r.invoke
        /\ x.timers = r.timers /\ Same(x)
    BY <1>1, <1>2 DEF PullRecord
  <2>1. Fired(r, x)
    <3> HIDE DEF x
    <3> QED  BY <1>3, <2>0, FiredSelf
  <2>2. Live(r)
    BY <1>8 DEF MobileAborts, Live
  <2>3. PICK e \in {"Reject", "UserAbort", "ProviderAbort"} :
          Becomes(d, Expunge(Fire(x, e), "peer"))
    BY <1>8 DEF MobileAborts, Update
  <2> HIDE DEF x
  <2> DEFINE z == Fire(x, e)
             s == Expunge(z, "peer")
  <2>4. Fired(r, z) /\ z.tcap = "Abort" /\ z.timers = r.timers
    <3>1. e \in MapEvents /\ e \notin {"ProcessUnstructuredSSRequest", "UnstructuredSSResponse"}
      BY DEF MapEvents
    <3> QED  BY <2>0, <2>1, <3>1, FireFired
  <2> HIDE DEF z
  <2>5. Fired(r, s) /\ s.tcap = "Abort" /\ s.timers = r.timers /\ ~Live(s)
    BY <1>2, <2>4, ExpungeFired
  <2> HIDE DEF s
  <2>6. TcapSound(s)
    BY <2>5 DEF TcapSound
  <2> QED  BY <1>4, <2>2, <2>3, <2>5, <2>6 DEF s, z
<1>9. ASSUME NEW x, Fired(r, x), x.tcap = r.tcap, x.mapq = r.mapq, Live(r),
             NEW e \in {"InvokeTimeout", "DialogTimeout", "Timer"},
             x.timers = r.timers \/ e = "Timer"
      PROVE  /\ Becomes(d, Fire(x, e)) => SoundOf(d)
             /\ Becomes(d, Expunge(Fire(x, e), "idle")) => SoundOf(d)
  <2> DEFINE z == Fire(x, e)
             s == Expunge(z, "idle")
  <2>1. /\ Fired(r, z) /\ z.tcap = r.tcap /\ z.timers = x.timers
        /\ \A E : Queued(z.mapq, E) <=> Queued(r.mapq, E) \/ e \in E
    BY <1>5, <1>9, FireFired
  <2>2. z.timers = r.timers \/ Queued(z.mapq, {"Timer"})
    BY <1>9, <2>1
  <2>3. ~Queued(z.mapq, {"UnstructuredSSResponse"}) \/ z.tcap # "Begin"
    BY <1>3, <2>1
  <2> HIDE DEF z
  <2>4. TcapSound(z)
    BY <1>3, <1>9, <2>1, <2>3 DEF TcapSound
  <2>5. /\ Fired(r, s) /\ s.tcap = r.tcap /\ s.timers = z.timers /\ ~Live(s)
        /\ \A E : Queued(s.mapq, E) <=> Queued(z.mapq, E) \/ "Release" \in E
    BY <1>2, <2>1, ExpungeFired
  <2>6. /\ Queued(z.mapq, {"Timer"}) => Queued(s.mapq, {"Timer"})
        /\ Queued(s.mapq, {"UnstructuredSSResponse"}) =>
             Queued(z.mapq, {"UnstructuredSSResponse"})
    BY <2>5
  <2> HIDE DEF s
  <2>7. TcapSound(s)
    BY <1>3, <1>9, <2>1, <2>3, <2>5, <2>6 DEF TcapSound
  <2> QED  BY <1>4, <1>9, <2>1, <2>2, <2>4, <2>5, <2>6, <2>7 DEF z, s
<1>10. CASE InvokeExpires(d)
  <2> DEFINE x == [r EXCEPT !.invoke = "none"]
  <2>0. /\ x \in PullRecord /\ x.mapq = r.mapq /\ x.tcap = r.tcap /\ x.invoke = "none"
        /\ x.timers = r.timers /\ Same(x)
    BY <1>1, <1>2 DEF PullRecord
  <2>1. Fired(r, x)
    <3> HIDE DEF x
    <3> QED  BY <1>3, <2>0, FiredSelf
  <2>2. Live(r) /\ Becomes(d, Fire(x, "InvokeTimeout"))
    BY <1>10 DEF InvokeExpires, Live, Update
  <2> HIDE DEF x
  <2> QED  BY <1>9, <2>0, <2>1, <2>2
<1>11. CASE DialogExpires(d)
  <2>1. Fired(r, r)
    BY <1>1, <1>3 DEF Fired
  <2>2. /\ Live(r)
        /\ \/ Becomes(d, Fire(r, "DialogTimeout"))
           \/ Becomes(d, Expunge(Fire(r, "DialogTimeout"), "idle"))
    BY <1>11 DEF DialogExpires, Update
  <2> QED  BY <1>9, <2>1, <2>2
<1>12. CASE TimerExpires(d)
  <2>1. PICK t \in r.timers :
          Becomes(d, Fire([r EXCEPT !.timers = r.timers \ {t}], "Timer"))
    BY <1>12 DEF TimerExpires, Update
  <2> DEFINE x == [r EXCEPT !.timers = r.timers \ {t}]
  <2>0. /\ x \in PullRecord /\ x.mapq = r.mapq /\ x.tcap = r.tcap /\ x.invoke = r.invoke
        /\ x.timers \subseteq r.timers /\ Same(x)
    BY <1>1 DEF PullRecord
  <2>2. Fired(r, x)
    <3> HIDE DEF x
    <3> QED  BY <1>3, <2>0, FiredSelf
  <2>3. Live(r)
    BY <1>12 DEF TimerExpires
  <2> HIDE DEF x
  <2>4. Becomes(d, Fire(x, "Timer"))
    BY <2>1 DEF x
  <2> QED  BY <1>9, <2>0, <2>2, <2>3, <2>4
<1> QED  BY <1>6, <1>7, <1>8, <1>10, <1>11, <1>12 DEF Stack

-----------------------------------------------------------------------------
(***************************************************************************)
(* The actions of the SBBs.                                                *)
(***************************************************************************)
\* A dialog that nobody has, or a request that no SBB has seen.
LEMMA FreshSound ==
  ASSUME NEW s, s.owner \in {"none", "parent"}, s.conn = "none", s.appq = << >>,
         s.waiting = 0, s.timers = {}, s.invoke = "none", s.cdr = "none",
         ~s.final, s.tcap = "Begin",
         s.mapq = << >> \/ s.mapq = << "ProcessUnstructuredSSRequest" >>
  PROVE  Sound(s)
<1>1. ~Established(s)
  BY DEF Established, Transports
<1>2. /\ AtMostOne(s.mapq, Turns) /\ AtMostOne(s.appq, Replies)
      /\ ~Queued(s.appq, Replies) /\ ~Queued(s.mapq, {"UnstructuredSSResponse"})
  BY DEF AtMostOne, Queued
<1> QED  BY <1>1, <1>2 DEF Sound, SideSound, RequestSound, TimerSound, TurnSound,
                           AwaitSound, TcapSound, FailureSound, LeakSound

\* A new dialog.
LEMMA DialSound ==
  ASSUME NEW rule \in Rules, NEW urlOk \in BOOLEAN
  PROVE  Sound(NoDialog) /\ Sound(Received(rule, urlOk))
<1>1. NoDialog \in PullRecord
  BY NoDialogType
<1>2. /\ NoDialog.owner = "none" /\ NoDialog.conn = "none" /\ NoDialog.appq = << >>
      /\ NoDialog.waiting = 0 /\ NoDialog.timers = {} /\ NoDialog.invoke = "none"
      /\ NoDialog.cdr = "none" /\ ~NoDialog.final /\ NoDialog.tcap = "Begin"
      /\ NoDialog.mapq = << >>
  BY DEF NoDialog
<1> DEFINE s == Received(rule, urlOk)
<1>3. Append(<< >>, "ProcessUnstructuredSSRequest") = << "ProcessUnstructuredSSRequest" >>
  OBVIOUS
<1>4. /\ s.owner = "parent" /\ s.conn = "none" /\ s.appq = << >> /\ s.waiting = 0
      /\ s.timers = {} /\ s.invoke = "none" /\ s.cdr = "none" /\ ~s.final
      /\ s.tcap = "Begin" /\ s.mapq = << "ProcessUnstructuredSSRequest" >>
  BY <1>1, <1>2, <1>3 DEF Received, Fire, PullRecord
<1> HIDE DEF s
<1>5. Sound(s)
  BY <1>4, FreshSound
<1>6. Sound(NoDialog)
  BY <1>2, FreshSound
<1> QED  BY <1>5, <1>6 DEF s

\* What the parent does with a dialog that it does not route.
LEMMA UnroutedSound ==
  ASSUME NEW r \in PullRecord, Consistent(r), Sound(r), r.owner = "parent", r.mapq # << >>,
         NEW S
  PROVE  Sound(Rest(r)) /\ Sound(Refuse(Rest(r), S))
<1> DEFINE t == Rest(r)
<1>1. /\ t \in PullRecord /\ (Live(t) <=> Live(r)) /\ t.tcap = r.tcap /\ t.owner = "parent"
      /\ t.conn = "none" /\ t.appq = << >> /\ t.waiting = 0 /\ t.timers = {}
      /\ t.final = r.final /\ t.cdr = "none" /\ t.timerID = r.timerID
  <2>1. ~Established(r)
    BY DEF Established, Transports
  <2>2. /\ r.conn = "none" /\ r.appq = << >> /\ r.cdr = "none" /\ r.waiting = 0
        /\ r.timers = {}
    BY <2>1 DEF Consistent, OwnerConsistent, Sound, SideSound
  <2> QED  BY <2>2, RestFields
<1>2. /\ SideSound(t) /\ RequestSound(t) /\ TimerSound(t) /\ TurnSound(t) /\ TcapSound(t)
      /\ ~Queued(t.mapq, {"ProcessUnstructuredSSRequest"})
  BY RestSound
<1>3. Live(t) => ~t.final
  BY <1>1 DEF Sound, AwaitSound
<1> HIDE DEF t
<1>4. AwaitSound(t) /\ FailureSound(t) /\ LeakSound(t)
  BY <1>1, <1>3 DEF AwaitSound, FailureSound, LeakSound
<1>5. Sound(t)
  BY <1>2, <1>4 DEF Sound
<1>6. ASSUME Live(t)
      PROVE  Sound(Refuse(t, S))
  <2> DEFINE x == Expunge(t, "error")
  <2>1. /\ AtMostOne(t.mapq, Turns)
        /\ Queued(t.mapq, Turns) => t.timers = {} /\ t.invoke # "request"
    BY <1>2 DEF TimerSound
  <2>2. Fired(t, t)
    BY <1>1, <2>1 DEF Fired
  <2>3. /\ Fired(t, x) /\ x.tcap = t.tcap /\ x.timers = t.timers /\ ~Live(x)
        /\ \A E : Queued(x.mapq, E) <=> Queued(t.mapq, E) \/ "Release" \in E
    BY <2>2, ExpungeFired DEF Endings
  <2> HIDE DEF x
  <2>4. SideSound(x) /\ RequestSound(x)
    BY <1>1, <1>2, <2>3 DEF Fired, SideSound, RequestSound, Established, Transports
  <2>5. TimerSound(x)
    BY <1>1, <1>2, <2>3 DEF Fired, TimerSound
  <2>6. TurnSound(x) /\ AwaitSound(x)
    BY <2>3 DEF TurnSound, AwaitSound
  <2>7. TcapSound(x)
    BY <1>2, <1>6, <2>3 DEF TcapSound
  <2>8. FailureSound(x) /\ LeakSound(x) /\ x \in PullRecord
    BY <1>1, <2>3 DEF Fired, FailureSound, LeakSound
  <2>9. Sound(Count(x, S))
    BY <2>4, <2>5, <2>6, <2>7, <2>8, CountSound DEF Sound
  <2> QED  BY <1>6, <2>9 DEF Refuse, SendErrorMessage, x
<1>7. Sound(Refuse(t, S))
  BY <1>5, <1>6 DEF Refuse
<1> QED  BY <1>5, <1>7 DEF t

\* The request is handed to a child.
LEMMA HandOverSound ==
  ASSUME NEW r \in PullRecord, Consistent(r), Sound(r), r.owner = "parent",
         r.rule \in Transports
  PROVE  Sound(Forward(r))
<1> DEFINE x == [r EXCEPT !.owner = r.rule]
<1>1. ~Established(r)
  BY DEF Established, Transports
<1>2. /\ r.conn = "none" /\ r.appq = << >> /\ r.cdr = "none" /\ r.waiting = 0
      /\ r.timers = {}
  BY <1>1 DEF Consistent, OwnerConsistent, Sound, SideSound
<1>3. /\ x \in PullRecord /\ x.owner \in Transports /\ (Live(x) <=> Live(r))
      /\ x.conn = r.conn /\ x.appq = r.appq /\ x.cdr = r.cdr /\ x.waiting = r.waiting
      /\ x.timers = r.timers /\ x.timerID = r.timerID /\ x.mapq = r.mapq
      /\ x.tcap = r.tcap /\ x.invoke = r.invoke /\ x.final = r.final
  BY DEF PullRecord, Owners, Transports, Live
<1> HIDE DEF x
<1>4. SideSound(x)
  BY <1>2, <1>3 DEF SideSound, Established, Transports, HttpStates, SipStates
<1>5. RequestSound(x) /\ TimerSound(x) /\ TurnSound(x)
  BY <1>3 DEF Sound, RequestSound, TimerSound, TurnSound
<1>6. AwaitSound(x) /\ TcapSound(x)
  BY <1>3 DEF Sound, AwaitSound, TcapSound
<1>7. FailureSound(x) /\ LeakSound(x)
  BY <1>2, <1>3 DEF FailureSound, LeakSound
<1>8. \A S : Sound(Count(x, S))
  BY <1>3, <1>4, <1>5, <1>6, <1>7, CountSound DEF Sound
<1> QED  BY <1>8 DEF Forward, x

\* A new dialog and the events of the parent.
LEMMA ParentSound ==
  ASSUME TypeOK, SessionConsistent, NEW d \in Dialogs, Sound(dlg[d]),
         MobileDials(d) \/ ParentEvent(d)
  PROVE  SoundOf(d)
<1> DEFINE r == dlg[d]
<1>1. r \in PullRecord /\ Consistent(r)
  BY DEF TypeOK, SessionConsistent
<1>2. ASSUME NEW s, Sound(s), Becomes(d, s)
      PROVE  SoundOf(d)
  BY <1>2 DEF SoundOf
<1>3. CASE MobileDials(d)
  <2>1. PICK rule \in Routes, urlOk \in Urls : Becomes(d, Received(rule, urlOk))
    BY <1>3 DEF MobileDials, Update
  <2>2. rule \in Rules /\ urlOk \in BOOLEAN
    BY InputsAssumption
  <2> QED  BY <1>2, <2>1, <2>2, DialSound
<1>4. ASSUME NEW e, ToParent(d, e)
      PROVE  r.owner = "parent" /\ r.mapq # << >> /\ Head(r.mapq) = e
  BY <1>4 DEF ToParent, Delivered
<1>5. CASE ParentOverload(d)
  <2>1. r.owner = "parent" /\ r.mapq # << >> /\ Becomes(d, OnOverload(Rest(r)))
    BY <1>4, <1>5 DEF ParentOverload, Update
  <2> QED  BY <1>1, <1>2, <2>1, UnroutedSound DEF OnOverload
<1>6. CASE ParentUndecodable(d)
  <2>1. r.owner = "parent" /\ r.mapq # << >> /\ Becomes(d, Rest(r))
    BY <1>4, <1>6 DEF ParentUndecodable, Update
  <2> QED  BY <1>1, <1>2, <2>1, UnroutedSound
<1>7. CASE ParentNoRoutingRule(d)
  <2>1. r.owner = "parent" /\ r.mapq # << >> /\ Becomes(d, OnNoRoutingRule(Rest(r)))
    BY <1>4, <1>7 DEF ParentNoRoutingRule, Update
  <2> QED  BY <1>1, <1>2, <2>1, UnroutedSound DEF OnNoRoutingRule
<1>8. CASE ParentForwards(d)
  <2>1. r.owner = "parent" /\ r.rule \in Transports /\ Becomes(d, Forward(r))
    BY <1>4, <1>8 DEF ParentForwards
  <2> QED  BY <1>1, <1>2, <2>1, HandOverSound
<1>9. CASE ParentDialogTimeout(d)
  <2>1. r.owner = "parent" /\ r.mapq # << >> /\ Becomes(d, Rest(r))
    BY <1>4, <1>9 DEF ParentDialogTimeout, Update
  <2> QED  BY <1>1, <1>2, <2>1, UnroutedSound
<1>10. CASE ParentRelease(d)
  <2>1. r.mapq # << >> /\ Head(r.mapq) = "Release" /\ Becomes(d, OnDialogRelease(r))
    BY <1>4, <1>10 DEF ParentRelease, Update
  <2> QED  BY <1>1, <1>2, <2>1, ReleaseSound
<1> QED  BY <1>3, <1>5, <1>6, <1>7, <1>8, <1>9, <1>10 DEF ParentEvent

\* The events of the MAP activity for the child.
LEMMA ChildSound ==
  ASSUME TypeOK, SessionConsistent, NEW d \in Dialogs, Sound(dlg[d]), ChildEvent(d)
  PROVE  SoundOf(d)
<1> DEFINE r == dlg[d]
<1>1. r \in PullRecord /\ Consistent(r) /\ Sound(r)
  BY DEF TypeOK, SessionConsistent
<1>2. ASSUME NEW s, Sound(s), Becomes(d, s)
      PROVE  SoundOf(d)
  BY <1>2 DEF SoundOf
<1>3. ASSUME NEW e, ToChild(d, e)
      PROVE  Established(r) /\ r.mapq # << >> /\ Head(r.mapq) = e
  BY <1>3 DEF ToChild, Delivered, Established
<1>4. CASE ChildProcessUnstructuredSSRequest(d) \/ ChildUnstructuredSSResponse(d)
  BY <1>1, <1>2, <1>3, <1>4, ForwardSound
  DEF ChildProcessUnstructuredSSRequest, ChildUnstructuredSSResponse, Update
<1>5. CASE ChildDialogReject(d) \/ ChildDialogUserAbort(d) \/ ChildDialogProviderAbort(d)
  BY <1>1, <1>2, <1>3, <1>5, BillingSound
  DEF ChildDialogReject, ChildDialogUserAbort, ChildDialogProviderAbort, Update
<1>6. CASE ChildDialogClose(d) \/ ChildDialogTimeout(d) \/ ChildInvokeTimeout(d)
  BY <1>1, <1>2, <1>3, <1>6, BillingSound
  DEF ChildDialogClose, ChildDialogTimeout, ChildInvokeTimeout, Update
<1>7. CASE ChildErrorComponent(d) \/ ChildRejectComponent(d) \/ ChildTimerEvent(d)
  BY <1>1, <1>2, <1>3, <1>7, BillingSound
  DEF ChildErrorComponent, ChildRejectComponent, ChildTimerEvent, Update
<1>8. CASE ChildRelease(d)
  BY <1>1, <1>2, <1>3, <1>8, ReleaseSound DEF ChildRelease
<1> QED  BY <1>4, <1>5, <1>6, <1>7, <1>8 DEF ChildEvent

\* The events of the application for the child.
LEMMA AppEventSound ==
  ASSUME TypeOK, SessionConsistent, NEW d \in Dialogs, Sound(dlg[d]), AppEvent(d)
  PROVE  SoundOf(d)
<1> DEFINE r == dlg[d]
           k == Head(r.appq)
<1>1. r \in PullRecord /\ Consistent(r) /\ Sound(r)
  BY DEF TypeOK, SessionConsistent
<1>2. ASSUME NEW s, Sound(s), Becomes(d, s)
      PROVE  SoundOf(d)
  BY <1>2 DEF SoundOf
<1>3. ASSUME NEW K, FromApp(d, K)
      PROVE  r.appq # << >> /\ k \in K
  BY <1>3 DEF FromApp
<1>4. CASE HttpResponseEvent(d)
  <2>1. Becomes(d, OnResponseEvent(Answered(r), k))
    BY <1>4 DEF HttpResponseEvent, Update
  <2>2. r.appq # << >> /\ k \in HttpAnswers
    BY <1>3, <1>4 DEF HttpResponseEvent
  <2> QED  BY <1>1, <1>2, <2>1, <2>2, ResponseSound
<1>5. CASE HttpActivityEnds(d)
  BY <1>5, AppSound
<1>6. CASE SipSuccessRespEvent(d) \/ SipSuccessNoAck(d) \/ SipFailureRespEvent(d)
  <2>1. /\ r.appq # << >>
        /\ \/ k \in {"success", "redirect"} /\ Becomes(d, Answered(r))
           \/ k = "successNoAck" /\ Becomes(d, OnSuccessNoAck(Answered(r)))
           \/ k = "failure" /\ Becomes(d, OnFailureResponse(Answered(r)))
    BY <1>3, <1>6 DEF SipSuccessRespEvent, SipSuccessNoAck, SipFailureRespEvent, Update
  <2> QED  BY <1>1, <1>2, <2>1, SipResponseSound
<1>7. CASE SipInfoReqEvent(d)
  <2>1. Becomes(d, OnInfoReqEvent(Answered(r), k))
    BY <1>7 DEF SipInfoReqEvent, Update
  <2>2. r.appq # << >> /\ k \in {"infoRequest", "infoError", "infoEmpty", "infoGarbled"}
    BY <1>3, <1>7 DEF SipInfoReqEvent
  <2> QED  BY <1>1, <1>2, <2>1, <2>2, InfoSound
<1>8. CASE SipCallTerminated(d)
  <2>1. Becomes(d, OnCallTerminated(Answered(r), k))
    BY <1>8 DEF SipCallTerminated, Update
  <2>2. r.appq # << >> /\ k \in {"byeAnswer", "byeError", "byeEmpty", "byeGarbled"}
    BY <1>3, <1>8 DEF SipCallTerminated
  <2> QED  BY <1>1, <1>2, <2>1, <2>2, ByeSound
<1> QED  BY <1>4, <1>5, <1>6, <1>7, <1>8 DEF AppEvent

-----------------------------------------------------------------------------
(***************************************************************************)
(* The invariant and its consequences.                                     *)
(***************************************************************************)
\* The inductive invariant, together with SessionConsistent.
AllSound == \A d \in Dialogs : Sound(dlg[d])

\* Every dialog is sound at any time.
THEOREM Soundness == Spec => [](TypeOK /\ SessionConsistent /\ AllSound)
<1>1. Init => AllSound
  BY DialSound DEF Init, AllSound, Rules
<1>2. TypeOK /\ SessionConsistent /\ AllSound /\ [Next]_vars => AllSound'
  <2> SUFFICES ASSUME TypeOK, SessionConsistent, AllSound, [Next]_vars
               PROVE  AllSound'
    OBVIOUS
  <2>1. CASE UNCHANGED vars
    BY <2>1 DEF vars, AllSound
  <2>2. ASSUME NEW d \in Dialogs,
               Stack(d) \/ App(d) \/ ParentEvent(d) \/ ChildEvent(d) \/ AppEvent(d)
        PROVE  AllSound'
    <3>1. SoundOf(d)
      BY <2>2, StackSound, AppSound, ParentSound, ChildSound, AppEventSound DEF AllSound
    <3>2. PICK s : Sound(s) /\ Becomes(d, s)
      BY <3>1 DEF SoundOf
    <3> QED  BY <3>2, Frame DEF AllSound
  <2> QED  BY <2>1, <2>2 DEF Next
<1> QED  BY <1>1, <1>2, Consistency, PTL DEF Spec

\* The armed timer of every dialog is the one that cancelTimer reaches.
THEOREM NoOrphan == Spec => []NoOrphanTimer
<1>1. AllSound => NoOrphanTimer
  BY DEF AllSound, Sound, TimerSound, NoOrphanTimer
<1> QED  BY <1>1, Soundness, PTL

\* Whoever waits for the application on a live dialog has a timer to end the wait.
THEOREM Guarded == Spec => []AwaitGuarded
<1>1. AllSound => AwaitGuarded
  BY DEF AllSound, Sound, AwaitSound, AwaitGuarded
<1> QED  BY <1>1, Soundness, PTL

\* The timer of a live dialog runs for the application, never for the mobile.
THEOREM TimerForApp == Spec => []TimerOnlyWhileAwaiting
<1>1. TypeOK /\ AllSound => TimerOnlyWhileAwaiting
  <2> SUFFICES ASSUME TypeOK, AllSound, NEW d \in Dialogs, Live(dlg[d]),
                      dlg[d].timers # {}, dlg[d].appq = << >>
               PROVE  dlg[d].waiting > 0
    BY DEF TimerOnlyWhileAwaiting
  <2>1. ~Queued(dlg[d].appq, AppEvents \ Silent)
    BY DEF Queued
  <2> QED  BY <2>1 DEF AllSound, Sound, AwaitSound
<1> QED  BY <1>1, Soundness, PTL

\* A failed dialog that was released was counted as failed.
THEOREM FailuresCounted == Spec => []FailureCounted
<1>1. SessionConsistent /\ AllSound => FailureCounted
  <2> SUFFICES ASSUME SessionConsistent, AllSound, NEW d \in Dialogs, ~dlg[d].aci
               PROVE  ~Queued(dlg[d].mapq, {"Close"})
    BY DEF AllSound, Sound, FailureSound, FailureCounted
  <2>1. dlg[d].mapq = << >>
    BY DEF SessionConsistent, Consistent, OwnerConsistent
  <2> QED  BY <2>1 DEF Queued
<1> QED  BY <1>1, Soundness, PTL

\* An HTTP activity that outlives the MAP activity waits for a response.
THEOREM HttpLeaks == Spec => []NoHttpLeak
<1>1. TypeOK /\ SessionConsistent /\ AllSound => NoHttpLeak
  BY ClosedBilled
  DEF TypeOK, SessionConsistent, AllSound, Sound, LeakSound, NoHttpLeak
<1> QED  BY <1>1, Soundness, PTL

\* A SIP dialog does not outlive the MAP activity, but for a RejectComponent.
THEOREM SipLeaks == Spec => []NoSipLeak
<1>1. TypeOK /\ SessionConsistent /\ AllSound => NoSipLeak
  BY ClosedBilled
  DEF TypeOK, SessionConsistent, AllSound, Sound, LeakSound, NoSipLeak
<1> QED  BY <1>1, Soundness, PTL
=============================================================================
