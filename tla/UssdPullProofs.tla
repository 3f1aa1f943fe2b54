--------------------------- MODULE UssdPullProofs ---------------------------
(***************************************************************************)
(* Theorems about the PULL service, for any number of dialogs and any      *)
(* limit.  Every action replaces the record of one dialog; DialogStep says *)
(* what all of them have in common, each action is shown to be a           *)
(* DialogStep, and the theorems follow from that alone.                    *)
(***************************************************************************)
EXTENDS UssdPull, FiniteSetTheorems, TLAPS

-----------------------------------------------------------------------------
(***************************************************************************)
(* Lemmas about the handlers of a PULL dialog.  What the invariants of the *)
(* service depend on is the core of its record: the state of the MAP       *)
(* dialog, how it ended, its queue, its owner and its CDR.  However many   *)
(* calls a handler makes, its effect on the core is one of four: it keeps  *)
(* it, it bills a failure, it delivers the final answer, or it sends.      *)
(***************************************************************************)

Core(r) == << r.map, r.ending, r.aci, r.mapq, r.owner, r.cdr >>

Keeps(r, s) == s \in PullRecord /\ Core(s) = Core(r)

\* The dialog is over in s: the gateway ended it if nothing had before.
Over(r, s, endings) ==
  IF Live(r)
  THEN s.map = "expunged" /\ s.ending \in endings /\ s.mapq = Append(r.mapq, "Release")
  ELSE s.map = r.map /\ s.ending = r.ending /\ s.mapq = r.mapq

SameOwner(r, s) == s.aci = r.aci /\ s.owner = r.owner

Stops(r, s) ==
  s \in PullRecord /\ SameOwner(r, s) /\ s.cdr = r.cdr /\ Over(r, s, {"error", "abort"})

\* A failure: a CDR that was written before stays.
Failures == CdrStatuses \ {"SUCCESS"}

Bills(r, s) ==
  /\ s \in PullRecord /\ SameOwner(r, s) /\ Over(r, s, {"error", "abort"})
  /\ s.cdr \in IF r.cdr = "none" THEN Failures ELSE {r.cdr}

Delivers(r, s) ==
  /\ s \in PullRecord /\ SameOwner(r, s) /\ Live(r) /\ Over(r, s, {"answer", "drop"})
  /\ s.cdr = IF r.cdr = "none" THEN "SUCCESS" ELSE r.cdr

Sends(r, s) ==
  /\ s \in PullRecord /\ SameOwner(r, s) /\ Live(r)
  /\ s.map = "active" /\ s.ending = r.ending /\ s.mapq = r.mapq /\ s.cdr = r.cdr

HandlerStep(r, s) == Keeps(r, s) \/ Bills(r, s) \/ Delivers(r, s) \/ Sends(r, s)

-----------------------------------------------------------------------------
(***************************************************************************)
(* The MAP stack.                                                          *)
(***************************************************************************)

\* Appending an event keeps the type.
LEMMA FireType ==
  ASSUME NEW r \in PullRecord, NEW e \in MapEvents
  PROVE  Fire(r, e) \in PullRecord
<1>1. r.mapq \in Seq(MapEvents)
  BY DEF PullRecord
<1>2. Append(r.mapq, e) \in Seq(MapEvents)
  BY <1>1
<1> QED  BY <1>2 DEF Fire, PullRecord

\* The end of a dialog keeps the type.
LEMMA ExpungeType ==
  ASSUME NEW r \in PullRecord, NEW how \in Endings
  PROVE  Expunge(r, how) \in PullRecord
<1>1. Fire(r, "Release") \in PullRecord
  BY FireType DEF MapEvents
<1> QED  BY <1>1 DEF Expunge, PullRecord, MapStates, Invokes

\* abort() stops the dialog.
LEMMA MapAbortStops ==
  ASSUME NEW r \in PullRecord
  PROVE  Stops(r, MapAbort(r))
<1>1. MapAbort(r) \in PullRecord
  BY ExpungeType DEF MapAbort, Endings
<1> QED  BY <1>1 DEF MapAbort, Stops, SameOwner, Over, Expunge, Fire, PullRecord

\* sendErrorMessage stops the dialog.
LEMMA SendErrorMessageStops ==
  ASSUME NEW r \in PullRecord
  PROVE  Stops(r, SendErrorMessage(r))
<1>1. SendErrorMessage(r) \in PullRecord
  BY ExpungeType DEF SendErrorMessage, Endings
<1> QED  BY <1>1 DEF SendErrorMessage, Stops, SameOwner, Over, Expunge, Fire, PullRecord

\* send() on a live dialog.
LEMMA MapSendSends ==
  ASSUME NEW r \in PullRecord, NEW op \in Invokes, Live(r)
  PROVE  Sends(r, MapSend(r, op))
  BY DEF MapSend, Sends, SameOwner, PullRecord, MapStates

-----------------------------------------------------------------------------
(***************************************************************************)
(* Services that keep the core.                                            *)
(***************************************************************************)
\* Counting.
LEMMA CountKeeps ==
  ASSUME NEW r \in PullRecord, NEW S
  PROVE  Keeps(r, Count(r, S))
<1>1. [c \in Counters |-> IF c \in S THEN r.count[c] + 1 ELSE r.count[c]]
        \in [Counters -> Nat]
  BY DEF PullRecord
<1> QED  BY <1>1 DEF Count, PullRecord, Keeps, Core

\* Arming the timer.
LEMMA SetTimerKeeps ==
  ASSUME NEW r \in PullRecord
  PROVE  Keeps(r, SetTimer(r))
<1>1. r.timerID + 1 \in Nat /\ r.timers \in SUBSET Nat
  BY DEF PullRecord
<1>2. r.timers \cup {r.timerID + 1} \in SUBSET Nat
  BY <1>1
<1> QED  BY <1>1, <1>2 DEF SetTimer, PullRecord, Keeps, Core

\* Cancelling the timer.
LEMMA CancelTimerKeeps ==
  ASSUME NEW r \in PullRecord
  PROVE  Keeps(r, CancelTimer(r))
  BY DEF CancelTimer, PullRecord, Keeps, Core

\* A POST, or the attempt.
LEMMA HttpSendKeeps ==
  ASSUME NEW r \in PullRecord
  PROVE  Keeps(r, HttpSendUssdData(r))
<1>1. r.waiting + 1 \in Nat
  BY DEF PullRecord
<1>2. [r EXCEPT !.conn = "open", !.waiting = r.waiting + 1] \in PullRecord
  BY <1>1 DEF PullRecord, HttpStates
<1>3. [r EXCEPT !.conn = "open"] \in PullRecord
  BY DEF PullRecord, HttpStates
<1> QED  BY <1>2, <1>3 DEF HttpSendUssdData, PullRecord, Keeps, Core

\* The end of the HTTP activity.
LEMMA HttpTerminateKeeps ==
  ASSUME NEW r \in PullRecord
  PROVE  Keeps(r, HttpTerminate(r))
  BY DEF HttpTerminate, PullRecord, Keeps, Core, HttpStates

\* A BYE, or the end of a SIP dialog that is not confirmed.
LEMMA AbortSipDialogKeeps ==
  ASSUME NEW r \in PullRecord
  PROVE  Keeps(r, AbortSipDialog(r))
  BY DEF AbortSipDialog, PullRecord, Keeps, Core, SipStates

\* An INVITE, an INFO or what ends the SIP dialog.
LEMMA SipSendKeeps ==
  ASSUME NEW r \in PullRecord, NEW type
  PROVE  Keeps(r, SipSendUssdData(r, type))
<1>0. r.waiting + 1 \in Nat
  BY DEF PullRecord
<1>1. CASE type = "Begin"
  BY <1>0, <1>1 DEF SipSendUssdData, PullRecord, Keeps, Core, SipStates
<1>2. CASE type = "Continue"
  BY <1>0, <1>2 DEF SipSendUssdData, PullRecord, Keeps, Core
<1>3. CASE type \notin {"Begin", "Continue"}
  BY <1>3, AbortSipDialogKeeps DEF SipSendUssdData
<1> QED  BY <1>1, <1>2, <1>3

\* The end of the SIP dialog.
LEMMA SipTerminateKeeps ==
  ASSUME NEW r \in PullRecord
  PROVE  Keeps(r, SipTerminate(r))
  BY DEF SipTerminate, PullRecord, Keeps, Core, SipStates

-----------------------------------------------------------------------------
(***************************************************************************)
(* What the transport of the owner decides keeps the core.                 *)
(***************************************************************************)
\* sendUssdData.
LEMMA SendUssdDataKeeps ==
  ASSUME NEW r \in PullRecord, NEW type
  PROVE  Keeps(r, SendUssdData(r, type))
  BY SipSendKeeps, HttpSendKeeps DEF SendUssdData

\* terminateProtocolConnection.
LEMMA TerminateKeeps ==
  ASSUME NEW r \in PullRecord
  PROVE  Keeps(r, TerminateProtocolConnection(r))
  BY SipTerminateKeeps, HttpTerminateKeeps DEF TerminateProtocolConnection

\* updateDialogFailureStat.
LEMMA FailureStatKeeps ==
  ASSUME NEW r \in PullRecord
  PROVE  Keeps(r, UpdateDialogFailureStat(r))
  BY CountKeeps
  DEF UpdateDialogFailureStat, SipUpdateDialogFailureStat, HttpUpdateDialogFailureStat

\* A sendUssdData that throws.
LEMMA FailedSendKeeps ==
  ASSUME NEW r \in PullRecord
  PROVE  Keeps(r, FailedSend(r))
  BY HttpSendKeeps DEF FailedSend, Keeps

\* sendUssdData under a catch.
LEMMA NotifyAppKeeps ==
  ASSUME NEW r \in PullRecord, NEW type
  PROVE  Keeps(r, NotifyApp(r, type))
  BY SendUssdDataKeeps, FailedSendKeeps DEF NotifyApp

-----------------------------------------------------------------------------
(***************************************************************************)
(* Effects in sequence.                                                    *)
(***************************************************************************)
\* Steps that keep the core compose.
LEMMA KeepsTrans ==
  ASSUME NEW r, NEW s, NEW t, Keeps(r, s), Keeps(s, t)
  PROVE  Keeps(r, t)
  BY DEF Keeps

\* Keeping the core is no part of another effect.
LEMMA KeepsThen ==
  ASSUME NEW r, NEW s, NEW t, Keeps(r, s)
  PROVE  /\ Stops(s, t) => Stops(r, t)
         /\ Bills(s, t) => Bills(r, t)
         /\ Delivers(s, t) => Delivers(r, t)
         /\ Sends(s, t) => Sends(r, t)
         /\ HandlerStep(s, t) => HandlerStep(r, t)
<1>1. /\ r.map = s.map /\ r.ending = s.ending /\ r.aci = s.aci
      /\ r.mapq = s.mapq /\ r.owner = s.owner /\ r.cdr = s.cdr
  BY DEF Keeps, Core
<1>2. Live(r) <=> Live(s)
  BY <1>1 DEF Live
<1>3. \A E : Over(s, t, E) => Over(r, t, E)
  BY <1>1, <1>2 DEF Over
<1>4. Stops(s, t) => Stops(r, t)
  BY <1>1, <1>3 DEF Stops, SameOwner
<1>5. Bills(s, t) => Bills(r, t)
  BY <1>1, <1>3 DEF Bills, SameOwner
<1>6. Delivers(s, t) => Delivers(r, t)
  BY <1>1, <1>2, <1>3 DEF Delivers, SameOwner
<1>7. Sends(s, t) => Sends(r, t)
  BY <1>1, <1>2 DEF Sends, SameOwner
<1>8. Keeps(s, t) => Keeps(r, t)
  BY KeepsTrans
<1> QED  BY <1>4, <1>5, <1>6, <1>7, <1>8 DEF HandlerStep

\* What follows the end of the dialog without touching the core.
LEMMA StopsThenKeeps ==
  ASSUME NEW r, NEW s, NEW t, Stops(r, s), Keeps(s, t)
  PROVE  Stops(r, t)
<1>1. /\ t.map = s.map /\ t.ending = s.ending /\ t.aci = s.aci
      /\ t.mapq = s.mapq /\ t.owner = s.owner /\ t.cdr = s.cdr /\ t \in PullRecord
  BY DEF Keeps, Core
<1> QED  BY <1>1 DEF Stops, SameOwner, Over

\* What follows the CDR without touching the core.
LEMMA BillsThenKeeps ==
  ASSUME NEW r, NEW s, NEW t, Bills(r, s), Keeps(s, t)
  PROVE  Bills(r, t)
<1>1. /\ t.map = s.map /\ t.ending = s.ending /\ t.aci = s.aci
      /\ t.mapq = s.mapq /\ t.owner = s.owner /\ t.cdr = s.cdr /\ t \in PullRecord
  BY DEF Keeps, Core
<1> QED  BY <1>1 DEF Bills, SameOwner, Over

\* A dialog that is over need not be stopped.
LEMMA DeadStops ==
  ASSUME NEW r \in PullRecord, ~Live(r)
  PROVE  Stops(r, r)
  BY DEF Stops, SameOwner, Over

\* createRecord with a failure bills a stopped dialog.
LEMMA CreateCdrBills ==
  ASSUME NEW r, NEW s, NEW status \in Failures, Stops(r, s)
  PROVE  Bills(r, CreateCdr(s, status))
<1>1. CreateCdr(s, status) \in PullRecord
  BY DEF CreateCdr, PullRecord, Stops, Failures
<1>3. LET c == CreateCdr(s, status)
      IN  /\ c.map = s.map /\ c.ending = s.ending /\ c.aci = s.aci
          /\ c.mapq = s.mapq /\ c.owner = s.owner
          /\ c.cdr = IF s.cdr = "none" THEN status ELSE s.cdr
  BY DEF CreateCdr, Stops, PullRecord
<1> QED  BY <1>1, <1>3 DEF Bills, Stops, SameOwner, Over

\* The failure statistic and the CDR bill a stopped dialog.
LEMMA FailBills ==
  ASSUME NEW r, NEW s, NEW status \in Failures, Stops(r, s)
  PROVE  /\ Bills(r, Fail(s, status))
         /\ Bills(r, SipFail(s, status))
         /\ Bills(r, HttpFail(s, status))
<1>1. s \in PullRecord
  BY DEF Stops
<1>2. Stops(r, UpdateDialogFailureStat(s))
  BY <1>1, FailureStatKeeps, StopsThenKeeps
<1>3. Stops(r, SipUpdateDialogFailureStat(s))
  BY <1>1, CountKeeps, StopsThenKeeps DEF SipUpdateDialogFailureStat
<1>4. Stops(r, HttpTerminate(s))
  BY <1>1, HttpTerminateKeeps, StopsThenKeeps
<1>5. Stops(r, HttpUpdateDialogFailureStat(HttpTerminate(s)))
  BY <1>4, CountKeeps, StopsThenKeeps DEF HttpUpdateDialogFailureStat, Stops
<1> QED  BY <1>2, <1>3, <1>5, CreateCdrBills DEF Fail, SipFail, HttpFail

-----------------------------------------------------------------------------
(***************************************************************************)
(* Handlers of the MAP activity.                                           *)
(***************************************************************************)
\* A failed send towards the application ends the dialog of the mobile.
LEMMA ForwardToAppStep ==
  ASSUME NEW r \in PullRecord, NEW type
  PROVE  Keeps(r, ForwardToApp(r, type)) \/ Bills(r, ForwardToApp(r, type))
<1>1. CASE SendOk(r, type, TRUE)
  <2>1. Keeps(r, SendUssdData(r, type))
    BY SendUssdDataKeeps
  <2>2. Keeps(r, SetTimer(SendUssdData(r, type)))
    BY <2>1, SetTimerKeeps, KeepsTrans DEF Keeps
  <2> QED  BY <1>1, <2>2 DEF ForwardToApp
<1>2. CASE ~SendOk(r, type, TRUE)
  <2> DEFINE a == FailedSend(r)
             b == SendErrorMessage(a)
             c == TerminateProtocolConnection(b)
  <2>1. Keeps(r, a)
    BY FailedSendKeeps
  <2>2. Stops(a, b)
    BY <2>1, SendErrorMessageStops DEF Keeps
  <2>3. Stops(a, c)
    BY <2>2, TerminateKeeps, StopsThenKeeps DEF Stops
  <2>4. Stops(r, c)
    BY <2>1, <2>3, KeepsThen
  <2>5. Bills(r, Fail(c, "FAILED_SYSTEM_FAILURE"))
    BY <2>4, FailBills DEF Failures, CdrStatuses
  <2> QED  BY <1>2, <2>5 DEF ForwardToApp
<1> QED  BY <1>1, <1>2

\* A second message of the mobile.
LEMMA UnstructuredSSResponseStep ==
  ASSUME NEW r \in PullRecord
  PROVE  \/ Keeps(r, OnUnstructuredSSResponse(r))
         \/ Bills(r, OnUnstructuredSSResponse(r))
<1> DEFINE c == Count(r, {"MessagesRecieved", "MessagesAll"})
<1>1. Keeps(r, c)
  BY CountKeeps
<1>2. c \in PullRecord
  BY <1>1 DEF Keeps
<1> HIDE DEF c
<1>3. Keeps(c, ForwardToApp(c, r.tcap)) \/ Bills(c, ForwardToApp(c, r.tcap))
  BY <1>2, ForwardToAppStep
<1>4. Keeps(r, ForwardToApp(c, r.tcap)) \/ Bills(r, ForwardToApp(c, r.tcap))
  BY <1>1, <1>3, KeepsTrans, KeepsThen
<1> QED  BY <1>4 DEF OnUnstructuredSSResponse, c

\* The tail that the error handlers share: tell the application, end the
\* connection.
LEMMA TellAndTerminate ==
  ASSUME NEW r, NEW s, NEW type, Stops(r, s)
  PROVE  /\ Stops(r, NotifyApp(s, type))
         /\ Stops(r, TerminateProtocolConnection(s))
         /\ Stops(r, TerminateProtocolConnection(NotifyApp(s, type)))
<1>1. Stops(r, NotifyApp(s, type))
  BY NotifyAppKeeps, StopsThenKeeps DEF Stops
<1>2. Stops(r, TerminateProtocolConnection(s))
  BY TerminateKeeps, StopsThenKeeps DEF Stops
<1>3. Stops(r, TerminateProtocolConnection(NotifyApp(s, type)))
  BY <1>1, TerminateKeeps, StopsThenKeeps DEF Stops
<1> QED  BY <1>1, <1>2, <1>3

\* The peer or the network ended the dialog.
LEMMA EndIndicationBills ==
  ASSUME NEW r \in PullRecord, ~Live(r)
  PROVE  /\ Bills(r, OnDialogReject(r))
         /\ Bills(r, OnDialogUserAbort(r))
         /\ Bills(r, OnDialogProviderAbort(r))
         /\ Bills(r, OnDialogClose(r))
<1>1. Stops(r, r)
  BY DeadStops
<1>2. \A status \in Failures : Bills(r, OnAbortIndication(r, status))
  BY <1>1, TellAndTerminate, FailBills DEF OnAbortIndication
<1>3. Bills(r, OnDialogClose(r))
  BY <1>1, TellAndTerminate, FailBills DEF OnDialogClose, Failures, CdrStatuses
<1> QED  BY <1>2, <1>3
  DEF OnDialogReject, OnDialogUserAbort, OnDialogProviderAbort, Failures, CdrStatuses

\* onDialogTimeout.
LEMMA DialogTimeoutBills ==
  ASSUME NEW r \in PullRecord
  PROVE  Bills(r, OnDialogTimeout(r))
<1> DEFINE told == NotifyApp(MapAbort(r), "Abort")
           closed == IF IsSip(told) THEN TerminateProtocolConnection(told)
                                    ELSE [told EXCEPT !.final = TRUE]
<1>1. Stops(r, told)
  BY MapAbortStops, TellAndTerminate
<1>2. told \in PullRecord
  BY <1>1 DEF Stops
<1> HIDE DEF told
<1>3. Keeps(told, [told EXCEPT !.final = TRUE])
  BY <1>2 DEF Keeps, Core, PullRecord
<1>4. Keeps(told, closed)
  BY <1>2, <1>3, TerminateKeeps
<1>5. Stops(r, closed)
  BY <1>1, <1>4, StopsThenKeeps
<1> HIDE DEF closed
<1>6. Stops(r, Count(closed, {"MapDialogTimeouts"}))
  BY <1>5, CountKeeps, StopsThenKeeps DEF Stops
<1>7. Bills(r, Fail(Count(closed, {"MapDialogTimeouts"}), "FAILED_DIALOG_TIMEOUT"))
  BY <1>6, FailBills DEF Failures, CdrStatuses
<1> QED  BY <1>7 DEF OnDialogTimeout, DialogTimedOut, closed, told

\* onInvokeTimeout.
LEMMA InvokeTimeoutBills ==
  ASSUME NEW r \in PullRecord
  PROVE  Bills(r, OnInvokeTimeout(r))
<1> DEFINE t == TerminateProtocolConnection(NotifyApp(MapAbort(r), "Abort"))
<1>1. Stops(r, t)
  BY MapAbortStops, TellAndTerminate
<1>2. Stops(r, Count(t, {"MapInvokeTimeouts"}))
  BY <1>1, CountKeeps, StopsThenKeeps DEF Stops
<1>3. Bills(r, Fail(Count(t, {"MapInvokeTimeouts"}), "FAILED_INVOKE_TIMEOUT"))
  BY <1>2, FailBills DEF Failures, CdrStatuses
<1> QED  BY <1>3 DEF OnInvokeTimeout

\* onErrorComponent.
LEMMA ErrorComponentBills ==
  ASSUME NEW r \in PullRecord
  PROVE  Bills(r, OnErrorComponent(r))
<1> DEFINE t == TerminateProtocolConnection(NotifyApp(MapAbort(r), r.tcap))
           f == IF r.tcap # "End" THEN UpdateDialogFailureStat(t) ELSE t
           c == Count(f, {"MapErrorComponentOther"})
<1>1. Stops(r, t)
  BY MapAbortStops, TellAndTerminate
<1>2. Stops(r, f)
  BY <1>1, FailureStatKeeps, StopsThenKeeps DEF Stops
<1>3. Stops(r, c)
  BY <1>2, CountKeeps, StopsThenKeeps DEF Stops
<1>4. Bills(r, CreateCdr(c, "FAILED_MAP_ERROR_COMPONENT"))
  BY <1>3, CreateCdrBills DEF Failures, CdrStatuses
<1> QED  BY <1>4 DEF OnErrorComponent

\* onRejectComponent.
LEMMA RejectComponentBills ==
  ASSUME NEW r \in PullRecord
  PROVE  Bills(r, OnRejectComponent(r))
<1> DEFINE b == CreateCdr(NotifyApp(MapAbort(r), r.tcap), "FAILED_MAP_REJECT_COMPONENT")
<1>1. Stops(r, NotifyApp(MapAbort(r), r.tcap))
  BY MapAbortStops, TellAndTerminate
<1>2. Bills(r, b)
  BY <1>1, CreateCdrBills DEF Failures, CdrStatuses
<1> QED  BY <1>2, CountKeeps, BillsThenKeeps DEF OnRejectComponent, Bills

\* onTimerEvent.
LEMMA TimerEventBills ==
  ASSUME NEW r \in PullRecord
  PROVE  Bills(r, OnTimerEvent(r))
<1> DEFINE e == SendErrorMessage(r)
           told == IF IsSip(e) THEN NotifyApp(e, "Abort") ELSE e
           t == TerminateProtocolConnection(told)
<1>1. Stops(r, e)
  BY SendErrorMessageStops
<1>2. Stops(r, told)
  BY <1>1, TellAndTerminate
<1>3. Stops(r, t)
  BY <1>2, TellAndTerminate
<1>4. Stops(r, Count(t, {"AppTimeouts"}))
  BY <1>3, CountKeeps, StopsThenKeeps DEF Stops
<1>5. Bills(r, Fail(Count(t, {"AppTimeouts"}), "FAILED_APP_TIMEOUT"))
  BY <1>4, FailBills DEF Failures, CdrStatuses
<1> QED  BY <1>5 DEF OnTimerEvent

-----------------------------------------------------------------------------
(***************************************************************************)
(* Handlers of the HTTP activity.                                          *)
(***************************************************************************)
\* The error paths of onResponseEvent.
LEMMA HttpErrorBills ==
  ASSUME NEW r \in PullRecord
  PROVE  Bills(r, OnCorruptedResponse(r)) /\ Bills(r, OnErrorStatus(r))
  BY SendErrorMessageStops, FailBills
  DEF OnCorruptedResponse, OnErrorStatus, Failures, CdrStatuses

\* A user abort of the application.
LEMMA AbortResponseBills ==
  ASSUME NEW r \in PullRecord
  PROVE  Bills(r, OnAbortResponse(r))
  BY MapAbortStops, FailBills, HttpErrorBills
  DEF OnAbortResponse, Failures, CdrStatuses

\* The final answer is delivered, or the response is taken for a corrupted one.
LEMMA FinalResponseStep ==
  ASSUME NEW r \in PullRecord, NEW k
  PROVE  Delivers(r, OnFinalResponse(r, k)) \/ Bills(r, OnFinalResponse(r, k))
<1> DEFINE c == CountAnswer(r, k)
           x == Expunge(c, IF k = "end" THEN "answer" ELSE "drop")
           t == HttpTerminate(x)
           b == CreateCdr(t, "SUCCESS")
<1>1. Keeps(r, c)
  BY CountKeeps DEF CountAnswer
<1>2. c \in PullRecord
  BY <1>1 DEF Keeps
<1> HIDE DEF c
<1>3. CASE Live(c)
  <2>1. x \in PullRecord
    BY <1>2, ExpungeType DEF Endings
  <2>2. /\ x.map = "expunged" /\ x.ending \in {"answer", "drop"}
        /\ x.mapq = Append(c.mapq, "Release")
        /\ x.cdr = c.cdr /\ SameOwner(c, x)
    BY <1>2 DEF Expunge, Fire, SameOwner, PullRecord
  <2> HIDE DEF x
  <2>3. Keeps(x, t)
    BY <2>1, HttpTerminateKeeps
  <2>4. /\ t.map = "expunged" /\ t.ending \in {"answer", "drop"}
        /\ t.mapq = Append(c.mapq, "Release")
        /\ t.cdr = c.cdr /\ SameOwner(c, t) /\ t \in PullRecord
    BY <2>2, <2>3 DEF Keeps, Core, SameOwner
  <2> HIDE DEF t
  <2>5. /\ b.map = t.map /\ b.ending = t.ending /\ b.mapq = t.mapq
        /\ SameOwner(t, b) /\ b \in PullRecord
        /\ b.cdr = IF t.cdr = "none" THEN "SUCCESS" ELSE t.cdr
    BY <2>4 DEF CreateCdr, SameOwner, PullRecord, CdrStatuses
  <2>6. Delivers(c, b)
    BY <1>3, <2>4, <2>5 DEF Delivers, Over, SameOwner
  <2>7. Delivers(r, b)
    BY <1>1, <2>6, KeepsThen
  <2> QED  BY <1>3, <2>7 DEF OnFinalResponse, c, x, t
<1>4. CASE ~Live(c)
  BY <1>1, <1>2, <1>4, HttpErrorBills, KeepsThen DEF OnFinalResponse, c
<1> QED  BY <1>3, <1>4

\* A request, a notification or an answer that leaves the dialog open.
LEMMA ContinueResponseStep ==
  ASSUME NEW r \in PullRecord, NEW k
  PROVE  Sends(r, OnContinueResponse(r, k)) \/ Bills(r, OnContinueResponse(r, k))
<1> DEFINE c == CountAnswer(r, k)
<1>1. Keeps(r, c)
  BY CountKeeps DEF CountAnswer
<1>2. c \in PullRecord
  BY <1>1 DEF Keeps
<1> HIDE DEF c
<1>3. Operation(k) \in Invokes
  BY DEF Operation, Invokes
<1>4. CASE Live(c)
  BY <1>1, <1>2, <1>3, <1>4, MapSendSends, KeepsThen DEF OnContinueResponse, c
<1>5. CASE ~Live(c)
  BY <1>1, <1>2, <1>5, HttpErrorBills, KeepsThen DEF OnContinueResponse, c
<1> QED  BY <1>4, <1>5

\* onResponseEvent.
LEMMA ResponseEventStep ==
  ASSUME NEW r \in PullRecord, NEW k
  PROVE  HandlerStep(r, OnResponseEvent(r, k))
<1> DEFINE c == CancelTimer(r)
<1>1. Keeps(r, c)
  BY CancelTimerKeeps
<1>2. c \in PullRecord
  BY <1>1 DEF Keeps
<1> HIDE DEF c
<1>3. /\ HandlerStep(c, HttpTerminate(c))
      /\ HandlerStep(c, OnErrorStatus(c))
      /\ HandlerStep(c, OnAbortResponse(c))
      /\ HandlerStep(c, OnFinalResponse(c, k))
      /\ HandlerStep(c, OnContinueResponse(c, k))
      /\ HandlerStep(c, OnCorruptedResponse(c))
  BY <1>2, HttpTerminateKeeps, HttpErrorBills, AbortResponseBills, FinalResponseStep,
     ContinueResponseStep
  DEF HandlerStep
<1>4. HandlerStep(c, OnResponseEvent(r, k))
  BY <1>3 DEF OnResponseEvent, c
<1> QED  BY <1>1, <1>4, KeepsThen

-----------------------------------------------------------------------------
(***************************************************************************)
(* Handlers of the SIP dialog.                                             *)
(***************************************************************************)
\* What stops the dialog and then hangs up.
LEMMA HangUpStops ==
  ASSUME NEW r, NEW s, Stops(r, s)
  PROVE  Stops(r, AbortSipDialog(s))
  BY AbortSipDialogKeeps, StopsThenKeeps DEF Stops

\* Responses that are no success, and a success that is not acknowledged.
LEMMA SipResponseBills ==
  ASSUME NEW r \in PullRecord
  PROVE  Bills(r, OnSuccessNoAck(r)) /\ Bills(r, OnFailureResponse(r))
  BY SendErrorMessageStops, HangUpStops, FailBills
  DEF OnSuccessNoAck, OnFailureResponse, Failures, CdrStatuses

\* The error paths of onInfoReqEvent and onCallTerminated.
LEMMA SipErrorBills ==
  ASSUME NEW r \in PullRecord
  PROVE  /\ Bills(r, OnEmptyInfo(r)) /\ Bills(r, OnGarbledInfo(r))
         /\ Bills(r, OnErrorInfo(r)) /\ Bills(r, OnGarbledBye(r))
<1>1. Stops(r, SendErrorMessage(r)) /\ Stops(r, AbortSipDialog(SendErrorMessage(r)))
  BY SendErrorMessageStops, HangUpStops
<1>2. {"FAILED_CORRUPTED_MESSAGE", "ABORT_APP"} \subseteq Failures
  BY DEF Failures, CdrStatuses
<1> QED  BY <1>1, <1>2, CreateCdrBills, FailBills
  DEF OnEmptyInfo, OnGarbledInfo, OnErrorInfo, OnGarbledBye

\* An INFO that finds no MAP activity.
LEMMA OrphanInfoBills ==
  ASSUME NEW r \in PullRecord, ~Live(r)
  PROVE  Bills(r, OnOrphanInfo(r))
  BY DeadStops, HangUpStops, FailBills DEF OnOrphanInfo, Failures, CdrStatuses

\* An INFO with the next menu.
LEMMA RequestInfoStep ==
  ASSUME NEW r \in PullRecord
  PROVE  Sends(r, OnRequestInfo(r)) \/ Bills(r, OnRequestInfo(r))
<1> DEFINE c == Count(r, {"UssdRequestOperations", "MessagesSent", "MessagesAll"})
<1>1. Keeps(r, c)
  BY CountKeeps
<1>2. c \in PullRecord
  BY <1>1 DEF Keeps
<1>3. OnRequestInfo(r) = IF Live(c) THEN MapSend(c, "request") ELSE OnGarbledInfo(c)
  BY Zenon DEF OnRequestInfo
<1> HIDE DEF c
<1>4. CASE Live(c)
  BY <1>1, <1>2, <1>3, <1>4, MapSendSends, KeepsThen DEF Invokes
<1>5. CASE ~Live(c)
  BY <1>1, <1>2, <1>3, <1>5, SipErrorBills, KeepsThen
<1> QED  BY <1>4, <1>5

\* onInfoReqEvent: a live dialog has its MAP activity.
LEMMA InfoReqEventStep ==
  ASSUME NEW r \in PullRecord, NEW k, Live(r) => r.aci
  PROVE  HandlerStep(r, OnInfoReqEvent(r, k))
<1> DEFINE c == CancelTimer(r)
<1>1. Keeps(r, c)
  BY CancelTimerKeeps
<1>2. c \in PullRecord
  BY <1>1 DEF Keeps
<1>3. Live(c) => c.aci
  BY <1>1 DEF Keeps, Core, Live
<1> HIDE DEF c
<1>4. /\ HandlerStep(c, OnEmptyInfo(c))
      /\ HandlerStep(c, OnGarbledInfo(c))
      /\ ~c.aci => HandlerStep(c, OnOrphanInfo(c))
      /\ HandlerStep(c, OnRequestInfo(c))
      /\ HandlerStep(c, OnErrorInfo(c))
  BY <1>2, <1>3, SipErrorBills, OrphanInfoBills, RequestInfoStep DEF HandlerStep
<1>5. HandlerStep(c, OnInfoReqEvent(r, k))
  BY <1>4 DEF OnInfoReqEvent, c
<1> QED  BY <1>1, <1>5, KeepsThen

\* A BYE with the final answer.
LEMMA AnswerByeStep ==
  ASSUME NEW r \in PullRecord
  PROVE  Delivers(r, OnAnswerBye(r)) \/ Bills(r, OnAnswerBye(r))
<1> DEFINE x == Expunge(r, "answer")
           b == CreateCdr(x, "SUCCESS")
<1>1. CASE Live(r)
  <2>1. x \in PullRecord
    BY ExpungeType DEF Endings
  <2>2. /\ x.map = "expunged" /\ x.ending = "answer"
        /\ x.mapq = Append(r.mapq, "Release")
        /\ x.cdr = r.cdr /\ SameOwner(r, x)
    BY DEF Expunge, Fire, SameOwner, PullRecord
  <2> HIDE DEF x
  <2>3. /\ b.map = x.map /\ b.ending = x.ending /\ b.mapq = x.mapq
        /\ SameOwner(x, b) /\ b \in PullRecord
        /\ b.cdr = IF x.cdr = "none" THEN "SUCCESS" ELSE x.cdr
    BY <2>1 DEF CreateCdr, SameOwner, PullRecord, CdrStatuses
  <2>4. Delivers(r, b)
    BY <1>1, <2>2, <2>3 DEF Delivers, Over, SameOwner
  <2> QED  BY <1>1, <2>4 DEF OnAnswerBye, x
<1>2. CASE ~Live(r)
  BY <1>2, SipErrorBills DEF OnAnswerBye
<1> QED  BY <1>1, <1>2

\* onCallTerminated.
LEMMA CallTerminatedStep ==
  ASSUME NEW r \in PullRecord, NEW k
  PROVE  HandlerStep(r, OnCallTerminated(r, k))
<1> DEFINE c == SipTerminate(CancelTimer(r))
<1>1. Keeps(r, c)
  BY CancelTimerKeeps, SipTerminateKeeps, KeepsTrans DEF Keeps
<1>2. c \in PullRecord
  BY <1>1 DEF Keeps
<1> HIDE DEF c
<1>3. Bills(c, OnErrorBye(c))
  BY <1>2, MapAbortStops, FailBills, SipErrorBills DEF OnErrorBye, Failures, CdrStatuses
<1>4. /\ HandlerStep(c, OnAnswerBye(c))
      /\ HandlerStep(c, OnErrorBye(c))
      /\ HandlerStep(c, OnGarbledBye(c))
  BY <1>2, <1>3, AnswerByeStep, SipErrorBills DEF HandlerStep
<1>5. HandlerStep(c, OnCallTerminated(r, k))
  BY <1>4 DEF OnCallTerminated, c
<1> QED  BY <1>1, <1>5, KeepsThen
-----------------------------------------------------------------------------
(***************************************************************************)
(* Steps of the service.                                                   *)
(***************************************************************************)
\* What is final in r is final in s.
Final(r, s) ==
  /\ r.cdr # "none" => s.cdr = r.cdr
  /\ r.ending # "open" => ~Live(s) /\ s.ending = r.ending

\* The lifecycle of the dialog moves by at most one step, which counts delta more
\* dialogs in process.
Moves(r, s, delta) ==
  \/ Phase(s) = Phase(r) /\ s.cdr = r.cdr /\ delta = 0
  \/ Phase(r) = "idle" /\ Phase(s) = "offered" /\ s.cdr = r.cdr /\ delta = 0
  \/ Phase(r) = "offered" /\ Phase(s) = "refused" /\ s.cdr = r.cdr /\ delta = 0
  \/ Phase(r) = "offered" /\ Phase(s) = "open" /\ s.cdr = r.cdr /\ delta = 1
  \/ Phase(r) = "open" /\ Phase(s) = "billed" /\ s.cdr \in CdrStatuses /\ delta = 0
  \/ Phase(r) = "billed" /\ Phase(s) = "closed" /\ s.cdr = r.cdr /\ delta = -1

DialogStep(r, s, delta) ==
  s \in PullRecord /\ Consistent(s) /\ Final(r, s) /\ Moves(r, s, delta)

-----------------------------------------------------------------------------
(***************************************************************************)
(* Queues.                                                                 *)
(***************************************************************************)
\* An event joins the queue of a live dialog.
LEMMA FireQueue ==
  ASSUME NEW q \in Seq(MapEvents), NEW e \in MapEvents
  PROVE  /\ Append(q, e) \in Seq(MapEvents)
         /\ Len(Append(q, e)) = Len(q) + 1
         /\ Append(q, e)[Len(q) + 1] = e
         /\ \A i \in 1 .. Len(q) : Append(q, e)[i] = q[i]
  OBVIOUS

\* The head is delivered.
LEMMA RestQueue ==
  ASSUME NEW q \in Seq(MapEvents), q # << >>
  PROVE  /\ Tail(q) \in Seq(MapEvents)
         /\ Len(q) \in Nat /\ Len(q) > 0 /\ Len(Tail(q)) = Len(q) - 1
         /\ \A i \in 1 .. Len(Tail(q)) : Tail(q)[i] = q[i + 1]
         /\ Head(q) = q[1]
  OBVIOUS

\* Rest removes the head and nothing else.
LEMMA RestType ==
  ASSUME NEW r \in PullRecord, r.mapq # << >>
  PROVE  /\ Rest(r) \in PullRecord
         /\ Rest(r).mapq = Tail(r.mapq)
         /\ Rest(r).map = r.map /\ Rest(r).ending = r.ending /\ Rest(r).cdr = r.cdr
         /\ SameOwner(r, Rest(r)) /\ Rest(r).appq = r.appq /\ Rest(r).conn = r.conn
<1>1. r.mapq \in Seq(MapEvents)
  BY DEF PullRecord
<1>2. Tail(r.mapq) \in Seq(MapEvents)
  BY <1>1, RestQueue
<1> QED  BY <1>2 DEF Rest, PullRecord, SameOwner

\* The queue stays consistent without its head.
LEMMA RestQueueConsistent ==
  ASSUME NEW r \in PullRecord, r.mapq # << >>, QueueConsistent(r)
  PROVE  /\ QueueConsistent(Rest(r)) /\ ~Routable(Rest(r))
         /\ ToBeBilled(r) /\ Head(r.mapq) \notin BillingEvents => ToBeBilled(Rest(r))
<1> DEFINE q == r.mapq
           n == Len(q)
<1>1. q \in Seq(MapEvents)
  BY DEF PullRecord
<1>2. /\ n \in Nat /\ n > 0 /\ Len(Tail(q)) = n - 1 /\ Head(q) = q[1]
      /\ \A i \in 1 .. n - 1 : Tail(q)[i] = q[i + 1]
  BY <1>1, RestQueue
<1>3. Rest(r).mapq = Tail(q) /\ (Live(Rest(r)) <=> Live(r))
  BY RestType DEF Live
<1>4. QueueConsistent(Rest(r))
  <2> SUFFICES ASSUME NEW i \in 1 .. n - 1
               PROVE  /\ Tail(q)[i] \in EndEvents => ~Live(r)
                      /\ Tail(q)[i] = "Release" => i = n - 1
                      /\ Tail(q)[i] = "ProcessUnstructuredSSRequest" => i = 1
    BY <1>2, <1>3 DEF QueueConsistent
  <2>1. i + 1 \in 1 .. n /\ i + 1 # 1 /\ Tail(q)[i] = q[i + 1]
    BY <1>2
  <2>2. /\ q[i + 1] \in EndEvents => ~Live(r)
        /\ q[i + 1] = "Release" => i + 1 = n
        /\ q[i + 1] = "ProcessUnstructuredSSRequest" => i + 1 = 1
    BY <2>1 DEF QueueConsistent
  <2> QED  BY <1>2, <2>1, <2>2
<1>5. ~Routable(Rest(r))
  <2> SUFFICES ASSUME Tail(q) # << >>, Head(Tail(q)) = "ProcessUnstructuredSSRequest"
               PROVE  FALSE
    BY <1>3 DEF Routable
  <2>1. Tail(q) \in Seq(MapEvents)
    BY <1>1, RestQueue
  <2>2. Len(Tail(q)) > 0 /\ Head(Tail(q)) = Tail(q)[1]
    BY <2>1, RestQueue
  <2>3. 1 \in 1 .. n - 1 /\ 2 \in 1 .. n
    BY <1>2, <2>2
  <2>4. q[2] = "ProcessUnstructuredSSRequest"
    BY <1>2, <2>2, <2>3
  <2> QED  BY <2>3, <2>4 DEF QueueConsistent
<1>6. ASSUME ToBeBilled(r), Head(q) \notin BillingEvents
      PROVE  ToBeBilled(Rest(r))
  <2>1. n >= 2 /\ q[n] = "Release" /\ q[n - 1] \in BillingEvents
    BY <1>6 DEF ToBeBilled
  <2>2. n >= 3
    BY <1>2, <1>6, <2>1
  <2>3. Tail(q)[n - 1] = q[n] /\ Tail(q)[n - 2] = q[n - 1]
    BY <1>2, <2>2
  <2> QED  BY <1>2, <1>3, <2>1, <2>2, <2>3 DEF ToBeBilled
<1> QED  BY <1>4, <1>5, <1>6

\* The queue of a live dialog: nothing in it says that the dialog ended.
Clean(q) ==
  \A i \in 1 .. Len(q) :
    q[i] \notin EndEvents /\ (q[i] = "ProcessUnstructuredSSRequest" => i = 1)

\* The consistent queue of a live dialog is clean, and a clean one is consistent.
LEMMA LiveClean ==
  ASSUME NEW r
  PROVE  /\ Live(r) /\ QueueConsistent(r) => Clean(r.mapq)
         /\ Clean(r.mapq) => QueueConsistent(r)
  BY DEF Clean, QueueConsistent, EndEvents

\* An event of a live dialog leaves its queue clean.
LEMMA FireClean ==
  ASSUME NEW q \in Seq(MapEvents), Clean(q),
         NEW e \in MapEvents \ (EndEvents \cup {"ProcessUnstructuredSSRequest"})
  PROVE  Append(q, e) \in Seq(MapEvents) /\ Clean(Append(q, e))
  BY FireQueue DEF Clean

\* Release behind a clean queue.
LEMMA ReleaseQueue ==
  ASSUME NEW s, NEW q \in Seq(MapEvents), Clean(q), ~Live(s),
         s.mapq = Append(q, "Release")
  PROVE  QueueConsistent(s)
<1>1. /\ Len(q) \in Nat /\ Len(s.mapq) = Len(q) + 1
      /\ s.mapq[Len(q) + 1] = "Release"
      /\ \A i \in 1 .. Len(q) : s.mapq[i] = q[i]
  BY FireQueue DEF MapEvents
<1> SUFFICES ASSUME NEW i \in 1 .. Len(q) + 1
             PROVE  /\ s.mapq[i] = "Release" => i = Len(q) + 1
                    /\ s.mapq[i] = "ProcessUnstructuredSSRequest" => i = 1
  BY <1>1 DEF QueueConsistent
<1>2. CASE i = Len(q) + 1
  BY <1>1, <1>2
<1>3. CASE i \in 1 .. Len(q)
  BY <1>1, <1>3 DEF Clean, EndEvents
<1> QED  BY <1>1, <1>2, <1>3

\* What ended the dialog, with Release behind it.
LEMMA EndQueue ==
  ASSUME NEW s, NEW q \in Seq(MapEvents), Clean(q), ~Live(s),
         NEW e \in BillingEvents,
         s.mapq = Append(Append(q, e), "Release")
  PROVE  QueueConsistent(s) /\ ToBeBilled(s)
<1> DEFINE p == Append(q, e)
           n == Len(q)
<1>1. e \in MapEvents /\ e \notin {"Release", "ProcessUnstructuredSSRequest"}
  BY DEF BillingEvents
<1>2. /\ p \in Seq(MapEvents) /\ Len(p) = n + 1 /\ n \in Nat /\ p[n + 1] = e
      /\ \A i \in 1 .. n : p[i] = q[i]
  BY <1>1, FireQueue
<1> HIDE DEF p
<1>3. /\ Len(s.mapq) = n + 2 /\ s.mapq[n + 2] = "Release"
      /\ \A i \in 1 .. n + 1 : s.mapq[i] = p[i]
  BY <1>2, FireQueue DEF MapEvents, p
<1>4. s.mapq[n + 1] = e /\ \A i \in 1 .. n : s.mapq[i] = q[i]
  BY <1>2, <1>3
<1>5. ToBeBilled(s)
  BY <1>2, <1>3, <1>4 DEF ToBeBilled
<1>6. QueueConsistent(s)
  <2> SUFFICES ASSUME NEW i \in 1 .. n + 2
               PROVE  /\ s.mapq[i] = "Release" => i = n + 2
                      /\ s.mapq[i] = "ProcessUnstructuredSSRequest" => i = 1
    BY <1>3 DEF QueueConsistent
  <2>1. CASE i = n + 2
    BY <1>3, <2>1
  <2>2. CASE i = n + 1
    BY <1>1, <1>4, <2>2
  <2>3. CASE i \in 1 .. n
    BY <1>4, <2>3 DEF Clean, EndEvents
  <2> QED  BY <1>2, <2>1, <2>2, <2>3
<1> QED  BY <1>5, <1>6

-----------------------------------------------------------------------------
(***************************************************************************)
(* Handlers of the child.                                                  *)
(***************************************************************************)
\* An established dialog without its activity has been billed.
LEMMA ClosedBilled ==
  ASSUME NEW r \in PullRecord, Consistent(r), Established(r), ~r.aci
  PROVE  r.cdr # "none"
<1>1. ~Live(r) /\ r.mapq = << >>
  BY DEF Consistent, OwnerConsistent
<1>2. ~ToBeBilled(r)
  BY <1>1 DEF ToBeBilled
<1> QED  BY <1>1, <1>2 DEF Consistent, BillConsistent

\* A handler of the child, on the record t without the event that it handles.
LEMMA HandlerIsStep ==
  ASSUME NEW r \in PullRecord, NEW t \in PullRecord, NEW s,
         Consistent(r), Established(r), SameOwner(r, t),
         t.map = r.map, t.ending = r.ending, t.cdr = r.cdr,
         QueueConsistent(t), t.mapq # << >> => r.aci,
         ToBeBilled(r) /\ s.cdr = "none" => ToBeBilled(t),
         HandlerStep(t, s)
  PROVE  DialogStep(r, s, 0)
<1>1. Live(t) <=> Live(r)
  BY DEF Live
<1>2. s \in PullRecord /\ SameOwner(r, s) /\ Established(s)
  BY DEF HandlerStep, Keeps, Core, Bills, Delivers, Sends, SameOwner, Established
<1>3. s.map # "none" /\ s.owner # "none" /\ r.map # "none"
  BY <1>2 DEF HandlerStep, Keeps, Core, Bills, Delivers, Sends, Over, SameOwner,
              Established, Consistent, OwnerConsistent, Transports
<1>4. QueueConsistent(s)
  <2>1. CASE s.mapq = t.mapq /\ (Live(s) <=> Live(t))
    BY <2>1 DEF QueueConsistent
  <2>2. CASE Live(t) /\ ~Live(s) /\ s.mapq = Append(t.mapq, "Release")
    BY <2>2, LiveClean, ReleaseQueue DEF PullRecord
  <2> QED  BY <2>1, <2>2
           DEF HandlerStep, Keeps, Core, Bills, Delivers, Sends, Over, Live
<1>5. Live(s) => Live(r)
  BY <1>1 DEF HandlerStep, Keeps, Core, Bills, Delivers, Sends, Over, Live
<1>6. s.mapq # << >> => s.aci
  BY <1>1, <1>2 DEF HandlerStep, Keeps, Core, Bills, Delivers, Sends, Over, SameOwner,
                    Consistent, OwnerConsistent
<1>7. OwnerConsistent(s)
  BY <1>2, <1>3, <1>5, <1>6 DEF OwnerConsistent, Consistent, SameOwner
<1>8. OutcomeConsistent(s) /\ Final(r, s)
  <2>1. OutcomeConsistent(r)
    BY DEF Consistent
  <2>2. CASE Keeps(t, s)
    BY <1>1, <1>3, <2>1, <2>2 DEF Keeps, Core, OutcomeConsistent, Final, Live, PullRecord,
                                  MapStates
  <2>3. CASE Bills(t, s)
    BY <1>1, <1>3, <2>1, <2>3 DEF Bills, Over, Failures, OutcomeConsistent, Final, Live,
                                  PullRecord, MapStates, CdrStatuses
  <2>4. CASE Delivers(t, s)
    BY <1>1, <1>3, <2>1, <2>4 DEF Delivers, Over, OutcomeConsistent, Final, Live
  <2>5. CASE Sends(t, s)
    BY <1>1, <1>3, <2>1, <2>5 DEF Sends, OutcomeConsistent, Final, Live
  <2> QED  BY <2>2, <2>3, <2>4, <2>5 DEF HandlerStep
<1>9. BillConsistent(s)
  <2> SUFFICES ASSUME ~Live(s), s.cdr = "none"
               PROVE  ToBeBilled(s)
    BY DEF BillConsistent
  <2>1. Keeps(t, s)
    BY DEF HandlerStep, Bills, Delivers, Sends, Failures, CdrStatuses, Live
  <2>2. ~Live(r) /\ r.cdr = "none" /\ s.mapq = t.mapq
    BY <1>1, <2>1 DEF Keeps, Core, Live
  <2>3. ToBeBilled(t)
    BY <2>2 DEF Consistent, BillConsistent
  <2> QED  BY <2>2, <2>3 DEF ToBeBilled
<1>10. Moves(r, s, 0)
  <2>1. Phase(r) = IF ~r.aci THEN "closed" ELSE IF r.cdr = "none" THEN "open" ELSE "billed"
    BY DEF Phase, Established, Transports
  <2>2. Phase(s) = IF ~r.aci THEN "closed" ELSE IF s.cdr = "none" THEN "open" ELSE "billed"
    BY <1>2 DEF Phase, Established, Transports, SameOwner
  <2>3. s.cdr \in CdrStatuses \cup {"none"}
    BY <1>2 DEF PullRecord
  <2> QED  BY <1>8, <2>1, <2>2, <2>3, ClosedBilled DEF Moves, Final
<1> QED  BY <1>2, <1>4, <1>7, <1>8, <1>9, <1>10 DEF DialogStep, Consistent

\* A handler of the child for the head of the MAP queue.
LEMMA DeliveryIsStep ==
  ASSUME NEW r \in PullRecord, Consistent(r), Established(r),
         r.mapq # << >>, Head(r.mapq) # "Release",
         NEW s, HandlerStep(Rest(r), s),
         Head(r.mapq) \in BillingEvents => s.cdr # "none"
  PROVE  DialogStep(r, s, 0)
<1>1. QueueConsistent(r) /\ r.aci
  BY DEF Consistent, OwnerConsistent
<1>2. /\ Rest(r) \in PullRecord /\ SameOwner(r, Rest(r))
      /\ Rest(r).map = r.map /\ Rest(r).ending = r.ending /\ Rest(r).cdr = r.cdr
  BY RestType
<1>3. QueueConsistent(Rest(r))
  BY <1>1, RestQueueConsistent
<1>4. ToBeBilled(r) /\ s.cdr = "none" => ToBeBilled(Rest(r))
  BY <1>1, RestQueueConsistent
<1> QED  BY <1>1, <1>2, <1>3, <1>4, HandlerIsStep

\* A handler that bills.
LEMMA BillingIsStep ==
  ASSUME NEW r \in PullRecord, Consistent(r), Established(r),
         r.mapq # << >>, Head(r.mapq) # "Release",
         NEW s, Bills(Rest(r), s)
  PROVE  DialogStep(r, s, 0)
<1>1. s.cdr # "none"
  BY DEF Bills, Failures, CdrStatuses
<1> QED  BY <1>1, DeliveryIsStep DEF HandlerStep

\* What the peer or the network fired finds a dialog that is over.
LEMMA HeadEnded ==
  ASSUME NEW r \in PullRecord, Consistent(r), r.mapq # << >>,
         Head(r.mapq) \in EndEvents
  PROVE  ~Live(r) /\ ~Live(Rest(r))
<1>1. r.mapq \in Seq(MapEvents)
  BY DEF PullRecord
<1>2. 1 \in 1 .. Len(r.mapq) /\ Head(r.mapq) = r.mapq[1]
  BY <1>1, RestQueue
<1>3. ~Live(r)
  BY <1>2 DEF Consistent, QueueConsistent
<1> QED  BY <1>3, RestType DEF Live

\* Every handler of the child for the MAP activity but onDialogRelease is a step
\* that leaves the number of dialogs in process alone.
LEMMA ChildHandlers ==
  ASSUME NEW r \in PullRecord, Consistent(r), Established(r), r.mapq # << >>
  PROVE  LET e == Head(r.mapq)
         IN  /\ e = "ProcessUnstructuredSSRequest" =>
                  DialogStep(r, OnProcessUnstructuredSSRequest(Rest(r)), 0)
             /\ e = "UnstructuredSSResponse" =>
                  DialogStep(r, OnUnstructuredSSResponse(Rest(r)), 0)
             /\ e = "Reject" => DialogStep(r, OnDialogReject(Rest(r)), 0)
             /\ e = "UserAbort" => DialogStep(r, OnDialogUserAbort(Rest(r)), 0)
             /\ e = "ProviderAbort" => DialogStep(r, OnDialogProviderAbort(Rest(r)), 0)
             /\ e = "Close" => DialogStep(r, OnDialogClose(Rest(r)), 0)
             /\ e = "DialogTimeout" => DialogStep(r, OnDialogTimeout(Rest(r)), 0)
             /\ e = "InvokeTimeout" => DialogStep(r, OnInvokeTimeout(Rest(r)), 0)
             /\ e = "ErrorComponent" => DialogStep(r, OnErrorComponent(Rest(r)), 0)
             /\ e = "RejectComponent" => DialogStep(r, OnRejectComponent(Rest(r)), 0)
             /\ e = "Timer" => DialogStep(r, OnTimerEvent(Rest(r)), 0)
<1> DEFINE e == Head(r.mapq)
           t == Rest(r)
<1>1. t \in PullRecord
  BY RestType
<1>2. ASSUME e = "ProcessUnstructuredSSRequest"
      PROVE  DialogStep(r, OnProcessUnstructuredSSRequest(t), 0)
  BY <1>1, <1>2, ForwardToAppStep, DeliveryIsStep
  DEF OnProcessUnstructuredSSRequest, BillingEvents, HandlerStep
<1>3. ASSUME e = "UnstructuredSSResponse"
      PROVE  DialogStep(r, OnUnstructuredSSResponse(t), 0)
  BY <1>1, <1>3, UnstructuredSSResponseStep, DeliveryIsStep DEF BillingEvents, HandlerStep
<1>4. e \in EndEvents => ~Live(t)
  BY HeadEnded
<1>5. ASSUME e \in EndEvents, e # "Release"
      PROVE  /\ DialogStep(r, OnDialogReject(t), 0)
             /\ DialogStep(r, OnDialogUserAbort(t), 0)
             /\ DialogStep(r, OnDialogProviderAbort(t), 0)
             /\ DialogStep(r, OnDialogClose(t), 0)
  BY <1>1, <1>4, <1>5, EndIndicationBills, BillingIsStep
<1>6. ASSUME e # "Release"
      PROVE  /\ DialogStep(r, OnDialogTimeout(t), 0)
             /\ DialogStep(r, OnInvokeTimeout(t), 0)
             /\ DialogStep(r, OnErrorComponent(t), 0)
             /\ DialogStep(r, OnRejectComponent(t), 0)
             /\ DialogStep(r, OnTimerEvent(t), 0)
  BY <1>1, <1>6, DialogTimeoutBills, InvokeTimeoutBills, ErrorComponentBills,
     RejectComponentBills, TimerEventBills, BillingIsStep
<1> QED  BY <1>2, <1>3, <1>5, <1>6 DEF EndEvents

\* onDialogRelease: the dialog has been billed, and is no longer in process.
LEMMA ReleaseIsStep ==
  ASSUME NEW r \in PullRecord, Consistent(r), Established(r),
         r.mapq # << >>, Head(r.mapq) = "Release"
  PROVE  DialogStep(r, OnDialogRelease(r), -1)
<1> DEFINE s == OnDialogRelease(r)
           n == Len(r.mapq)
<1>0. << >> \in Seq(MapEvents) /\ {} \in SUBSET Nat
  OBVIOUS
<1>1. s \in PullRecord
  BY <1>0 DEF OnDialogRelease, PullRecord
<1>2. /\ s.map = r.map /\ s.ending = r.ending /\ s.owner = r.owner /\ s.cdr = r.cdr
      /\ s.mapq = << >> /\ ~s.aci
  BY DEF OnDialogRelease, PullRecord
<1> HIDE DEF s
<1>3. ~Live(r) /\ ~Live(s)
  BY <1>2, HeadEnded DEF EndEvents, Live
<1>4. r.mapq \in Seq(MapEvents)
  BY DEF PullRecord
<1>5. n \in Nat /\ n > 0 /\ Head(r.mapq) = r.mapq[1]
  BY <1>4, RestQueue
<1>6. n = 1
  <2>1. 1 \in 1 .. n /\ r.mapq[1] = "Release"
    BY <1>5
  <2>2. QueueConsistent(r)
    BY DEF Consistent
  <2> QED  BY <2>1, <2>2 DEF QueueConsistent
<1>7. r.cdr # "none"
  BY <1>3, <1>6 DEF Consistent, BillConsistent, ToBeBilled
<1>8. Consistent(s)
  <2>1. OwnerConsistent(s)
    BY <1>2, <1>3 DEF OwnerConsistent, Consistent, Established
  <2>2. OutcomeConsistent(s)
    BY <1>2, <1>3 DEF OutcomeConsistent, Consistent
  <2>3. QueueConsistent(s) /\ BillConsistent(s)
    BY <1>2, <1>7 DEF QueueConsistent, BillConsistent
  <2> QED  BY <2>1, <2>2, <2>3 DEF Consistent
<1>9. Final(r, s)
  BY <1>2, <1>3 DEF Final
<1>10. Moves(r, s, -1)
  <2>1. r.aci
    BY DEF Consistent, OwnerConsistent
  <2> QED  BY <1>2, <1>7, <2>1 DEF Moves, Phase, Established, Transports
<1> QED  BY <1>1, <1>8, <1>9, <1>10 DEF DialogStep, s

-----------------------------------------------------------------------------
(***************************************************************************)
(* Handlers of the application's activity.                                 *)
(***************************************************************************)
\* Answered removes the event and nothing else.
LEMMA AnsweredType ==
  ASSUME NEW r \in PullRecord, r.appq # << >>
  PROVE  /\ Answered(r) \in PullRecord
         /\ Answered(r).mapq = r.mapq /\ Answered(r).map = r.map
         /\ Answered(r).ending = r.ending /\ Answered(r).cdr = r.cdr
         /\ SameOwner(r, Answered(r))
<1>1. r.appq \in Seq(AppEvents)
  BY DEF PullRecord
<1>2. Tail(r.appq) \in Seq(AppEvents)
  BY <1>1
<1> QED  BY <1>2 DEF Answered, PullRecord, SameOwner

\* A handler of the child for an event of the application.
LEMMA AppHandlerIsStep ==
  ASSUME NEW r \in PullRecord, Consistent(r), r.appq # << >>,
         NEW s, HandlerStep(Answered(r), s)
  PROVE  DialogStep(r, s, 0)
<1> DEFINE t == Answered(r)
<1>1. /\ t \in PullRecord /\ SameOwner(r, t) /\ t.mapq = r.mapq
      /\ t.map = r.map /\ t.ending = r.ending /\ t.cdr = r.cdr
  BY AnsweredType
<1>2. Established(r) /\ (r.mapq # << >> => r.aci)
  BY DEF Consistent, OwnerConsistent
<1>3. QueueConsistent(t) /\ (ToBeBilled(r) => ToBeBilled(t))
  BY <1>1 DEF Consistent, QueueConsistent, ToBeBilled, Live
<1> HIDE DEF t
<1> QED  BY <1>1, <1>2, <1>3, HandlerIsStep DEF t

\* Every handler of the child for the application's activity is such a step.
LEMMA AppHandlers ==
  ASSUME NEW r \in PullRecord, Consistent(r), r.appq # << >>, NEW k
  PROVE  /\ DialogStep(r, OnResponseEvent(Answered(r), k), 0)
         /\ DialogStep(r, Answered(r), 0)
         /\ DialogStep(r, OnSuccessNoAck(Answered(r)), 0)
         /\ DialogStep(r, OnFailureResponse(Answered(r)), 0)
         /\ DialogStep(r, OnInfoReqEvent(Answered(r), k), 0)
         /\ DialogStep(r, OnCallTerminated(Answered(r), k), 0)
<1> DEFINE t == Answered(r)
<1>1. t \in PullRecord /\ (Live(t) => t.aci)
  BY AnsweredType DEF Consistent, OwnerConsistent, SameOwner, Live
<1> HIDE DEF t
<1>2. /\ HandlerStep(t, OnResponseEvent(t, k))
      /\ HandlerStep(t, OnInfoReqEvent(t, k))
      /\ HandlerStep(t, OnCallTerminated(t, k))
  BY <1>1, ResponseEventStep, InfoReqEventStep, CallTerminatedStep
<1>3. /\ HandlerStep(t, t)
      /\ HandlerStep(t, OnSuccessNoAck(t))
      /\ HandlerStep(t, OnFailureResponse(t))
  BY <1>1, SipResponseBills DEF HandlerStep, Keeps
<1> QED  BY <1>2, <1>3, AppHandlerIsStep DEF t

-----------------------------------------------------------------------------
(***************************************************************************)
(* The parent.                                                             *)
(***************************************************************************)
\* A request that is refused: the application's side of the record is untouched.
LEMMA RefuseStops ==
  ASSUME NEW t \in PullRecord, NEW S
  PROVE  /\ Refuse(t, S) = t \/ Stops(t, Refuse(t, S))
         /\ Refuse(t, S).appq = t.appq /\ Refuse(t, S).conn = t.conn
<1>1. CASE ~Live(t)
  BY <1>1 DEF Refuse
<1>2. CASE Live(t)
  <2> DEFINE e == SendErrorMessage(t)
  <2>1. Stops(t, e)
    BY SendErrorMessageStops
  <2>2. e.appq = t.appq /\ e.conn = t.conn
    BY DEF SendErrorMessage, Expunge, Fire, PullRecord
  <2>3. e \in PullRecord
    BY <2>1 DEF Stops
  <2> HIDE DEF e
  <2>4. Stops(t, Count(e, S))
    BY <2>1, <2>3, CountKeeps, StopsThenKeeps
  <2>5. Count(e, S).appq = e.appq /\ Count(e, S).conn = e.conn
    BY <2>3 DEF Count, PullRecord
  <2> QED  BY <1>2, <2>2, <2>4, <2>5 DEF Refuse, e
<1> QED  BY <1>1, <1>2

\* What the parent does with a request that it does not forward, or with a timeout.
LEMMA ParentHandlerIsStep ==
  ASSUME NEW r \in PullRecord, Consistent(r), r.owner = "parent", r.mapq # << >>,
         NEW s \in PullRecord, s = Rest(r) \/ Stops(Rest(r), s),
         s.appq = r.appq, s.conn = r.conn
  PROVE  DialogStep(r, s, 0)
<1> DEFINE t == Rest(r)
<1>1. /\ t \in PullRecord /\ SameOwner(r, t) /\ t.mapq = Tail(r.mapq)
      /\ t.map = r.map /\ t.ending = r.ending /\ t.cdr = r.cdr
  BY RestType
<1>2. QueueConsistent(t) /\ ~Routable(t) /\ (Live(t) <=> Live(r))
  BY <1>1, RestQueueConsistent DEF Consistent, Live
<1> HIDE DEF t
<1>3. /\ SameOwner(r, s) /\ s.cdr = r.cdr
      /\ \/ s.map = t.map /\ s.ending = t.ending /\ s.mapq = t.mapq
         \/ /\ Live(t) /\ s.map = "expunged" /\ s.ending \in {"error", "abort"}
            /\ s.mapq = Append(t.mapq, "Release")
  BY <1>1 DEF Stops, SameOwner, Over, t
<1>4. ~Established(r) /\ ~Established(s) /\ r.aci /\ r.cdr = "none"
  BY <1>3 DEF Consistent, OwnerConsistent, Established, Transports, SameOwner
<1>5. t.mapq \in Seq(MapEvents)
  BY <1>1 DEF PullRecord
<1>6. QueueConsistent(s) /\ ~Routable(s)
  <2>1. CASE s.map = t.map /\ s.ending = t.ending /\ s.mapq = t.mapq
    BY <1>1, <1>2, <1>3, <2>1 DEF QueueConsistent, Routable, Live, SameOwner
  <2>2. CASE Live(t) /\ s.map = "expunged" /\ s.mapq = Append(t.mapq, "Release")
    <3>1. QueueConsistent(s)
      BY <1>2, <1>5, <2>2, LiveClean, ReleaseQueue DEF Live
    <3>2. Head(s.mapq) = IF t.mapq = << >> THEN "Release" ELSE Head(t.mapq)
      BY <1>5, <2>2
    <3>3. ~Routable(s)
      BY <1>1, <1>2, <1>3, <3>2 DEF Routable, SameOwner
    <3> QED  BY <3>1, <3>3
  <2> QED  BY <1>3, <2>1, <2>2
<1>7. OwnerConsistent(s)
  BY <1>1, <1>3, <1>4 DEF Consistent, OwnerConsistent, SameOwner, Live
<1>8. OutcomeConsistent(s) /\ Final(r, s)
  BY <1>1, <1>2, <1>3, <1>4 DEF Consistent, OutcomeConsistent, Final, Live
<1>9. BillConsistent(s)
  BY <1>4, <1>6 DEF BillConsistent
<1>10. Moves(r, s, 0)
  BY <1>3 DEF Moves, Phase, Established, SameOwner
<1> QED  BY <1>6, <1>7, <1>8, <1>9, <1>10 DEF DialogStep, Consistent

\* forwardEvent: one more dialog is in process.
LEMMA ForwardIsStep ==
  ASSUME NEW r \in PullRecord, Consistent(r), Routable(r), r.rule \in Transports
  PROVE  DialogStep(r, Forward(r), 1)
<1> DEFINE o == [r EXCEPT !.owner = r.rule]
           s == Forward(r)
<1>1. o \in PullRecord
  BY DEF PullRecord, Owners, Transports
<1>2. /\ o.map = r.map /\ o.ending = r.ending /\ o.aci = r.aci /\ o.mapq = r.mapq
      /\ o.owner = r.rule /\ o.cdr = r.cdr
  BY DEF PullRecord
<1> HIDE DEF o
<1>3. Keeps(o, s)
  BY <1>1, CountKeeps DEF Forward, o
<1>4. /\ s.map = r.map /\ s.ending = r.ending /\ s.aci = r.aci /\ s.mapq = r.mapq
      /\ s.owner = r.rule /\ s.cdr = r.cdr /\ s \in PullRecord
  BY <1>2, <1>3 DEF Keeps, Core
<1> HIDE DEF s
<1>5. r.aci /\ r.cdr = "none" /\ r.owner = "parent" /\ Established(s)
  BY <1>4 DEF Consistent, OwnerConsistent, Routable, Established, Transports
<1>6. (Live(s) <=> Live(r)) /\ (ToBeBilled(r) => ToBeBilled(s))
  BY <1>4 DEF Live, ToBeBilled
<1>7. OwnerConsistent(s)
  BY <1>4, <1>5 DEF Consistent, OwnerConsistent, Live, Transports
<1>8. OutcomeConsistent(s) /\ Final(r, s)
  BY <1>4, <1>5, <1>6 DEF Consistent, OutcomeConsistent, Final, Live
<1>9. QueueConsistent(s) /\ BillConsistent(s)
  BY <1>4, <1>6 DEF Consistent, QueueConsistent, BillConsistent
<1>10. Moves(r, s, 1)
  BY <1>4, <1>5 DEF Moves, Phase, Established, Transports
<1> QED  BY <1>4, <1>7, <1>8, <1>9, <1>10 DEF DialogStep, Consistent, s

\* The activity of a refused dialog ends.
LEMMA ParentReleaseIsStep ==
  ASSUME NEW r \in PullRecord, Consistent(r), r.owner = "parent",
         r.mapq # << >>, Head(r.mapq) = "Release"
  PROVE  DialogStep(r, OnDialogRelease(r), 0)
<1> DEFINE s == OnDialogRelease(r)
<1>0. << >> \in Seq(MapEvents) /\ {} \in SUBSET Nat
  OBVIOUS
<1>1. s \in PullRecord
  BY <1>0 DEF OnDialogRelease, PullRecord
<1>2. /\ s.map = r.map /\ s.ending = r.ending /\ s.owner = r.owner /\ s.cdr = r.cdr
      /\ s.mapq = << >> /\ ~s.aci /\ s.appq = r.appq /\ s.conn = r.conn
  BY DEF OnDialogRelease, PullRecord
<1> HIDE DEF s
<1>3. ~Live(r) /\ ~Live(s)
  BY <1>2, HeadEnded DEF EndEvents, Live
<1>4. ~Established(r) /\ ~Established(s) /\ r.aci
  BY <1>2 DEF Consistent, OwnerConsistent, Established, Transports
<1>5. Consistent(s)
  BY <1>2, <1>3, <1>4 DEF Consistent, OwnerConsistent, OutcomeConsistent, QueueConsistent,
                         BillConsistent, Routable
<1>6. Final(r, s) /\ Moves(r, s, 0)
  BY <1>2, <1>3, <1>4 DEF Final, Moves, Phase, Established
<1> QED  BY <1>1, <1>5, <1>6 DEF DialogStep, s

-----------------------------------------------------------------------------
(***************************************************************************)
(* The stack.                                                              *)
(***************************************************************************)
\* The record of a dialog that nobody opened yet.
LEMMA NoDialogType ==
  /\ NoDialog \in PullRecord
  /\ NoDialog.map = "none" /\ NoDialog.ending = "open" /\ ~NoDialog.aci
  /\ NoDialog.mapq = << >> /\ NoDialog.owner = "none" /\ NoDialog.cdr = "none"
  /\ NoDialog.appq = << >> /\ NoDialog.conn = "none"
<1> DEFINE z == [c \in Counters |-> 0]
<1>1. /\ << >> \in Seq(MapEvents) /\ << >> \in Seq(AppEvents) /\ {} \in SUBSET Nat
      /\ z \in [Counters -> Nat]
  OBVIOUS
<1> HIDE DEF z
<1>2. NoDialog =
        [ map |-> "none", tcap |-> "Begin", invoke |-> "none", ending |-> "open",
          aci |-> FALSE, mapq |-> << >>, owner |-> "none", rule |-> "none",
          urlOk |-> TRUE, conn |-> "none", waiting |-> 0, appq |-> << >>,
          final |-> FALSE, timerID |-> 0, timers |-> {}, cdr |-> "none",
          count |-> z ]
  BY Zenon DEF NoDialog, z
<1>3. /\ "none" \in MapStates /\ "Begin" \in TcapTypes /\ "none" \in Invokes
      /\ "open" \in Endings /\ "none" \in Owners /\ "none" \in Rules
      /\ "none" \in HttpStates
  BY DEF MapStates, TcapTypes, Invokes, Endings, Owners, Rules, HttpStates
<1>4. NoDialog \in PullRecord
  BY <1>1, <1>2, <1>3 DEF PullRecord
<1> QED  BY <1>2, <1>4

\* A new dialog.
LEMMA DialIsStep ==
  ASSUME NEW r \in PullRecord, Consistent(r), r.map = "none",
         NEW rule \in Rules, NEW urlOk \in BOOLEAN
  PROVE  DialogStep(r, Received(rule, urlOk), 0)
<1> DEFINE n == [NoDialog EXCEPT !.map = "initialReceived", !.aci = TRUE,
                                 !.owner = "parent", !.rule = rule, !.urlOk = urlOk]
           s == Received(rule, urlOk)
<1>1. << >> \in Seq(MapEvents)
  OBVIOUS
<1>2. n \in PullRecord
  BY NoDialogType DEF PullRecord, MapStates, Owners
<1>3. /\ n.map = "initialReceived" /\ n.aci /\ n.owner = "parent" /\ n.mapq = << >>
      /\ n.appq = << >> /\ n.conn = "none" /\ n.cdr = "none" /\ n.ending = "open"
  BY NoDialogType DEF PullRecord
<1> HIDE DEF n
<1>5. s \in PullRecord
  BY <1>2, FireType DEF Received, MapEvents, n
<1>6. /\ s.map = "initialReceived" /\ s.aci /\ s.owner = "parent"
      /\ s.mapq = Append(<< >>, "ProcessUnstructuredSSRequest")
      /\ s.appq = << >> /\ s.conn = "none" /\ s.cdr = "none" /\ s.ending = "open"
  BY <1>2, <1>3 DEF Received, Fire, PullRecord, n
<1> HIDE DEF s
<1>7. Live(s) /\ ~Live(r)
  BY <1>6 DEF Live
<1>8. r.owner = "none" /\ r.cdr = "none" /\ r.ending = "open" /\ ~Established(s)
  BY <1>6 DEF Consistent, OwnerConsistent, OutcomeConsistent, Established, Transports
<1>9. QueueConsistent(s)
  <2>1. Len(s.mapq) = 1 /\ s.mapq[1] = "ProcessUnstructuredSSRequest"
    BY <1>1, <1>6
  <2> QED  BY <2>1 DEF QueueConsistent, EndEvents
<1>10. OwnerConsistent(s) /\ OutcomeConsistent(s) /\ BillConsistent(s)
  BY <1>6, <1>7, <1>8 DEF OwnerConsistent, OutcomeConsistent, BillConsistent
<1>11. Final(r, s) /\ Moves(r, s, 0)
  BY <1>6, <1>8 DEF Final, Moves, Phase
<1> QED  BY <1>5, <1>9, <1>10, <1>11 DEF DialogStep, Consistent, s

\* What the stack fires on a dialog that goes on.
LEMMA FireIsStep ==
  ASSUME NEW r \in PullRecord, Consistent(r), Live(r),
         NEW s \in PullRecord, SameOwner(r, s),
         s.map = r.map, s.ending = r.ending, s.cdr = r.cdr,
         s.appq = r.appq, s.conn = r.conn,
         \/ s.mapq = r.mapq
         \/ \E e \in MapEvents \ (EndEvents \cup {"ProcessUnstructuredSSRequest"}) :
              s.mapq = Append(r.mapq, e)
  PROVE  DialogStep(r, s, 0)
<1>1. Live(s) /\ r.mapq \in Seq(MapEvents) /\ s.aci /\ r.cdr = "none"
  BY DEF Live, PullRecord, SameOwner, Consistent, OwnerConsistent, OutcomeConsistent
<1>2. Clean(r.mapq)
  BY LiveClean DEF Consistent
<1>3. QueueConsistent(s)
  BY <1>1, <1>2, FireClean, LiveClean
<1>4. OwnerConsistent(s) /\ OutcomeConsistent(s) /\ BillConsistent(s)
  BY <1>1 DEF Consistent, OwnerConsistent, OutcomeConsistent, BillConsistent, SameOwner,
              Established
<1>5. Final(r, s) /\ Moves(r, s, 0)
  BY <1>1 DEF Final, Moves, Phase, SameOwner, Established, Consistent, OutcomeConsistent,
              Live
<1> QED  BY <1>3, <1>4, <1>5 DEF DialogStep, Consistent

\* What the stack fires when a dialog ends: e, that bills, and Release behind it.
LEMMA EndIsStep ==
  ASSUME NEW r \in PullRecord, Consistent(r), Live(r),
         NEW s \in PullRecord, SameOwner(r, s),
         s.map = "expunged", s.ending \in {"peer", "idle"}, s.cdr = r.cdr,
         s.appq = r.appq, s.conn = r.conn,
         NEW q \in Seq(MapEvents), Clean(q),
         NEW e \in BillingEvents, s.mapq = Append(Append(q, e), "Release")
  PROVE  DialogStep(r, s, 0)
<1>1. /\ ~Live(s) /\ s.aci /\ r.cdr = "none" /\ r.map # "none" /\ r.map # "expunged"
      /\ r.ending = "open"
  BY DEF Live, SameOwner, Consistent, OwnerConsistent, OutcomeConsistent
<1>2. QueueConsistent(s) /\ ToBeBilled(s)
  BY <1>1, EndQueue
<1>3. OwnerConsistent(s) /\ OutcomeConsistent(s) /\ BillConsistent(s)
  BY <1>1, <1>2 DEF Consistent, OwnerConsistent, OutcomeConsistent, BillConsistent,
                    SameOwner, Established
<1>4. Final(r, s) /\ Moves(r, s, 0)
  BY <1>1 DEF Final, Moves, Phase, SameOwner, Established
<1> QED  BY <1>2, <1>3, <1>4 DEF DialogStep, Consistent

-----------------------------------------------------------------------------
(***************************************************************************)
(* The applications.                                                       *)
(***************************************************************************)
\* The application's side of an established dialog may change at any time.
LEMMA AppIsStep ==
  ASSUME NEW r \in PullRecord, Consistent(r), r.conn # "none", NEW s, Keeps(r, s)
  PROVE  DialogStep(r, s, 0)
<1>1. /\ Established(r) /\ QueueConsistent(r) /\ (r.mapq # << >> => r.aci)
      /\ SameOwner(r, r)
  BY DEF Consistent, OwnerConsistent, SameOwner
<1> QED  BY <1>1, HandlerIsStep DEF HandlerStep

\* An event of the application that changes its connection too.
LEMMA ArrivalKeeps ==
  ASSUME NEW r \in PullRecord, NEW k \in AppEvents,
         NEW c \in HttpStates \cup SipStates, NEW w \in Nat
  PROVE  LET a == [r EXCEPT !.appq = Append(@, k)]
         IN  /\ Keeps(r, a)
             /\ Keeps(r, [a EXCEPT !.waiting = w])
             /\ Keeps(r, [a EXCEPT !.conn = c])
             /\ Keeps(r, [a EXCEPT !.conn = c, !.waiting = w])
             /\ Keeps(r, [r EXCEPT !.conn = c])
             /\ Keeps(r, [r EXCEPT !.conn = c, !.waiting = w])
<1> DEFINE a == [r EXCEPT !.appq = Append(@, k)]
<1>1. r.appq \in Seq(AppEvents)
  BY DEF PullRecord
<1>2. Append(r.appq, k) \in Seq(AppEvents)
  BY <1>1
<1>3. Keeps(r, a)
  BY <1>2 DEF Keeps, Core, PullRecord
<1>4. a \in PullRecord
  BY <1>3 DEF Keeps
<1> HIDE DEF a
<1>5. ASSUME NEW x \in PullRecord
      PROVE  /\ Keeps(x, [x EXCEPT !.waiting = w])
             /\ Keeps(x, [x EXCEPT !.conn = c])
             /\ Keeps(x, [x EXCEPT !.conn = c, !.waiting = w])
  BY DEF Keeps, Core, PullRecord
<1>6. /\ Keeps(r, [a EXCEPT !.waiting = w])
      /\ Keeps(r, [a EXCEPT !.conn = c])
      /\ Keeps(r, [a EXCEPT !.conn = c, !.waiting = w])
  BY <1>3, <1>4, <1>5, KeepsTrans
<1>7. /\ Keeps(r, [r EXCEPT !.conn = c])
      /\ Keeps(r, [r EXCEPT !.conn = c, !.waiting = w])
  BY <1>5
<1> QED  BY <1>3, <1>6, <1>7 DEF a

-----------------------------------------------------------------------------
(***************************************************************************)
(* Every action is a DialogStep.                                           *)
(***************************************************************************)
StepOf(d) ==
  \E s, delta :
    /\ DialogStep(dlg[d], s, delta)
    /\ Becomes(d, s)
    /\ inProcess' = inProcess + delta
    /\ delta = 1 => Accepted

\* Most actions leave the number of dialogs in process alone.
LEMMA UpdateIsStep ==
  ASSUME TypeOK, NEW d \in Dialogs, NEW s, Update(d, s), DialogStep(dlg[d], s, 0)
  PROVE  StepOf(d)
<1>1. inProcess' = inProcess + 0
  BY DEF Update, TypeOK
<1> QED  BY <1>1 DEF StepOf, Update

\* The stack.
LEMMA StackStep ==
  ASSUME TypeOK, SessionConsistent, NEW d \in Dialogs, Stack(d)
  PROVE  StepOf(d)
<1> DEFINE r == dlg[d]
<1>1. r \in PullRecord /\ Consistent(r)
  BY DEF TypeOK, SessionConsistent
<1>2. /\ "Continue" \in TcapTypes /\ "End" \in TcapTypes /\ "Abort" \in TcapTypes
      /\ "none" \in Invokes /\ "peer" \in Endings /\ "idle" \in Endings
  BY DEF TcapTypes, Invokes, Endings
<1>3. r.mapq \in Seq(MapEvents) /\ (Live(r) => Clean(r.mapq))
  BY <1>1, LiveClean DEF PullRecord, Consistent
<1>4. ASSUME NEW x \in PullRecord, NEW e \in MapEvents \ (EndEvents \cup {"ProcessUnstructuredSSRequest"}),
             Live(r), SameOwner(r, x), x.map = r.map, x.ending = r.ending, x.cdr = r.cdr,
             x.appq = r.appq, x.conn = r.conn, x.mapq = r.mapq
      PROVE  DialogStep(r, x, 0) /\ DialogStep(r, Fire(x, e), 0)
  <2> DEFINE s == Fire(x, e)
  <2>1. s \in PullRecord
    BY <1>4, FireType
  <2>2. /\ SameOwner(r, s) /\ s.map = r.map /\ s.ending = r.ending /\ s.cdr = r.cdr
        /\ s.appq = r.appq /\ s.conn = r.conn /\ s.mapq = Append(r.mapq, e)
    BY <1>4 DEF Fire, SameOwner, PullRecord
  <2> HIDE DEF s
  <2>3. DialogStep(r, s, 0)
    BY <1>1, <1>4, <2>1, <2>2, FireIsStep
  <2>4. DialogStep(r, x, 0)
    BY <1>1, <1>4, FireIsStep
  <2> QED  BY <2>3, <2>4 DEF s
<1>5. ASSUME NEW x \in PullRecord, NEW e \in BillingEvents, NEW how \in {"peer", "idle"},
             Live(r), SameOwner(r, x), x.cdr = r.cdr,
             x.appq = r.appq, x.conn = r.conn, Clean(x.mapq)
      PROVE  DialogStep(r, Expunge(Fire(x, e), how), 0)
  <2> DEFINE y == Fire(x, e)
             s == Expunge(y, how)
  <2>1. y \in PullRecord
    BY <1>5, FireType DEF BillingEvents
  <2>2. /\ SameOwner(r, y) /\ y.cdr = r.cdr /\ y.appq = r.appq /\ y.conn = r.conn
        /\ y.mapq = Append(x.mapq, e)
    BY <1>5 DEF Fire, SameOwner, PullRecord
  <2> HIDE DEF y
  <2>3. s \in PullRecord
    BY <1>2, <2>1, ExpungeType
  <2>4. /\ SameOwner(r, s) /\ s.map = "expunged" /\ s.ending = how /\ s.cdr = r.cdr
        /\ s.appq = r.appq /\ s.conn = r.conn
        /\ s.mapq = Append(Append(x.mapq, e), "Release")
    BY <2>1, <2>2 DEF Expunge, Fire, SameOwner, PullRecord
  <2> HIDE DEF s
  <2>5. x.mapq \in Seq(MapEvents)
    BY DEF PullRecord
  <2>6. DialogStep(r, s, 0)
    BY <1>1, <1>5, <2>3, <2>4, <2>5, EndIsStep
  <2> QED  BY <2>6 DEF s, y
<1>6. CASE MobileDials(d)
  <2>1. PICK rule \in Routes, urlOk \in Urls : Update(d, Received(rule, urlOk))
    BY <1>6 DEF MobileDials
  <2>2. r.map = "none" /\ rule \in Rules /\ urlOk \in BOOLEAN
    BY <1>6, InputsAssumption DEF MobileDials
  <2> QED  BY <1>1, <2>1, <2>2, DialIsStep, UpdateIsStep
<1>7. CASE MobileAnswers(d)
  <2> DEFINE x == [r EXCEPT !.tcap = "Continue", !.invoke = "none"]
  <2>1. /\ x \in PullRecord /\ SameOwner(r, x) /\ x.map = r.map /\ x.ending = r.ending
        /\ x.cdr = r.cdr /\ x.appq = r.appq /\ x.conn = r.conn /\ x.mapq = r.mapq
    BY <1>1, <1>2 DEF PullRecord, SameOwner
  <2>2. Live(r)
    BY <1>7 DEF MobileAnswers, Live
  <2>3. \/ Update(d, x)
        \/ \E e \in {"UnstructuredSSResponse", "ErrorComponent", "RejectComponent"} :
             Update(d, Fire(x, e))
    BY <1>7 DEF MobileAnswers
  <2> HIDE DEF x
  <2>4. {"UnstructuredSSResponse", "ErrorComponent", "RejectComponent"}
          \subseteq MapEvents \ (EndEvents \cup {"ProcessUnstructuredSSRequest"})
    BY DEF MapEvents, EndEvents
  <2> QED  BY <1>4, <2>1, <2>2, <2>3, <2>4, UpdateIsStep
<1>8. CASE MobileEnds(d)
  <2> DEFINE x == [r EXCEPT !.tcap = "End"]
  <2>1. /\ x \in PullRecord /\ SameOwner(r, x)
        /\ x.cdr = r.cdr /\ x.appq = r.appq /\ x.conn = r.conn /\ x.mapq = r.mapq
    BY <1>1, <1>2 DEF PullRecord, SameOwner
  <2>2. Live(r)
    BY <1>8 DEF MobileEnds, Live
  <2>3. \/ Update(d, Expunge(Fire(x, "Close"), "peer"))
        \/ \E e \in {"UnstructuredSSResponse", "ErrorComponent", "RejectComponent"} :
             Update(d, Expunge(Fire(Fire(x, e), "Close"), "peer"))
    BY <1>8 DEF MobileEnds
  <2> HIDE DEF x
  <2>4. "Close" \in BillingEvents
    BY DEF BillingEvents, MapEvents
  <2>5. ASSUME NEW e \in {"UnstructuredSSResponse", "ErrorComponent", "RejectComponent"}
        PROVE  /\ Fire(x, e) \in PullRecord /\ SameOwner(r, Fire(x, e))
               /\ Fire(x, e).cdr = r.cdr /\ Fire(x, e).appq = r.appq
               /\ Fire(x, e).conn = r.conn /\ Clean(Fire(x, e).mapq)
    <3>1. e \in MapEvents \ (EndEvents \cup {"ProcessUnstructuredSSRequest"})
      BY <2>5 DEF MapEvents, EndEvents
    <3>2. Fire(x, e).mapq = Append(r.mapq, e)
      BY <2>1 DEF Fire, PullRecord
    <3>3. Clean(Fire(x, e).mapq)
      BY <1>3, <2>2, <3>1, <3>2, FireClean
    <3>4. Fire(x, e) \in PullRecord
      BY <2>1, <3>1, FireType
    <3> QED  BY <2>1, <3>3, <3>4 DEF Fire, SameOwner, PullRecord
  <2> QED  BY <1>3, <1>5, <2>1, <2>2, <2>3, <2>4, <2>5, UpdateIsStep
<1>9. CASE MobileAborts(d)
  <2> DEFINE x == [r EXCEPT !.tcap = "Abort"]
  <2>1. /\ x \in PullRecord /\ SameOwner(r, x)
        /\ x.cdr = r.cdr /\ x.appq = r.appq /\ x.conn = r.conn /\ x.mapq = r.mapq
    BY <1>1, <1>2 DEF PullRecord, SameOwner
  <2>2. Live(r)
    BY <1>9 DEF MobileAborts, Live
  <2>3. PICK e \in {"Reject", "UserAbort", "ProviderAbort"} :
          Update(d, Expunge(Fire(x, e), "peer"))
    BY <1>9 DEF MobileAborts
  <2> HIDE DEF x
  <2>4. e \in BillingEvents
    BY DEF BillingEvents, MapEvents
  <2> QED  BY <1>3, <1>5, <2>1, <2>2, <2>3, <2>4, UpdateIsStep
<1>10. CASE InvokeExpires(d)
  <2> DEFINE x == [r EXCEPT !.invoke = "none"]
  <2>1. /\ x \in PullRecord /\ SameOwner(r, x) /\ x.map = r.map /\ x.ending = r.ending
        /\ x.cdr = r.cdr /\ x.appq = r.appq /\ x.conn = r.conn /\ x.mapq = r.mapq
    BY <1>1, <1>2 DEF PullRecord, SameOwner
  <2>2. Live(r) /\ Update(d, Fire(x, "InvokeTimeout"))
    BY <1>10 DEF InvokeExpires, Live
  <2> HIDE DEF x
  <2>3. "InvokeTimeout" \in MapEvents \ (EndEvents \cup {"ProcessUnstructuredSSRequest"})
    BY DEF MapEvents, EndEvents
  <2> QED  BY <1>4, <2>1, <2>2, <2>3, UpdateIsStep
<1>11. CASE DialogExpires(d)
  <2>1. /\ Live(r)
        /\ \/ Update(d, Fire(r, "DialogTimeout"))
           \/ Update(d, Expunge(Fire(r, "DialogTimeout"), "idle"))
    BY <1>11 DEF DialogExpires
  <2>2. /\ "DialogTimeout" \in MapEvents \ (EndEvents \cup {"ProcessUnstructuredSSRequest"})
        /\ "DialogTimeout" \in BillingEvents /\ SameOwner(r, r)
    BY DEF MapEvents, EndEvents, BillingEvents, SameOwner
  <2> QED  BY <1>1, <1>3, <1>4, <1>5, <2>1, <2>2, UpdateIsStep
<1>12. CASE TimerExpires(d)
  <2>1. PICK t \in r.timers :
          Update(d, Fire([r EXCEPT !.timers = r.timers \ {t}], "Timer"))
    BY <1>12 DEF TimerExpires
  <2> DEFINE x == [r EXCEPT !.timers = r.timers \ {t}]
  <2>2. /\ x \in PullRecord /\ SameOwner(r, x) /\ x.map = r.map /\ x.ending = r.ending
        /\ x.cdr = r.cdr /\ x.appq = r.appq /\ x.conn = r.conn /\ x.mapq = r.mapq
    BY <1>1 DEF PullRecord, SameOwner
  <2>3. Live(r) /\ Update(d, Fire(x, "Timer"))
    BY <1>12, <2>1 DEF TimerExpires
  <2> HIDE DEF x
  <2>4. "Timer" \in MapEvents \ (EndEvents \cup {"ProcessUnstructuredSSRequest"})
    BY DEF MapEvents, EndEvents
  <2> QED  BY <1>4, <2>2, <2>3, <2>4, UpdateIsStep
<1> QED  BY <1>6, <1>7, <1>8, <1>9, <1>10, <1>11, <1>12 DEF Stack

\* The applications.
LEMMA AppStep ==
  ASSUME TypeOK, SessionConsistent, NEW d \in Dialogs, App(d)
  PROVE  StepOf(d)
<1> DEFINE r == dlg[d]
<1>1. r \in PullRecord /\ Consistent(r)
  BY DEF TypeOK, SessionConsistent
<1>2. Answers \subseteq AppEvents /\ {"redirect", "failure"} \subseteq AppEvents
  BY InputsAssumption DEF AppEvents, SipEvents
<1>3. {"confirmed", "over", "none"} \subseteq HttpStates \cup SipStates
  BY DEF HttpStates, SipStates
<1>4. r.waiting > 0 => r.waiting - 1 \in Nat
  BY <1>1 DEF PullRecord
<1>5. ASSUME NEW s, r.conn # "none", Keeps(r, s), Update(d, s)
      PROVE  StepOf(d)
  BY <1>1, <1>5, AppIsStep, UpdateIsStep
<1>0. ASSUME NEW k \in AppEvents, r.conn # "none", r.waiting > 0,
             Update(d, [Arrives(d, k) EXCEPT !.waiting = @ - 1])
      PROVE  StepOf(d)
  <2>1. Arrives(d, k).waiting = r.waiting
    BY <1>1 DEF Arrives, PullRecord
  <2>2. Keeps(r, [Arrives(d, k) EXCEPT !.waiting = r.waiting - 1])
    BY <1>0, <1>1, <1>3, <1>4, ArrivalKeeps DEF Arrives
  <2>3. Update(d, [Arrives(d, k) EXCEPT !.waiting = r.waiting - 1])
    BY <1>0, <2>1
  <2> QED  BY <1>0, <1>5, <2>2, <2>3
<1>6. CASE HttpAppAnswers(d)
  BY <1>0, <1>2, <1>6 DEF HttpAppAnswers
<1>7. CASE SipAppAnswersInvite(d)
  <2>1. \E k \in AppEvents, c \in {"confirmed", "over"} :
          LET a == [r EXCEPT !.appq = Append(@, k)]
          IN  \/ Update(d, [a EXCEPT !.conn = c])
              \/ Update(d, [a EXCEPT !.conn = c, !.waiting = 0])
    BY <1>2, <1>7 DEF SipAppAnswersInvite, Arrives
  <2>2. r.conn # "none"
    BY <1>7 DEF SipAppAnswersInvite
  <2> QED  BY <1>1, <1>3, <1>5, <2>1, <2>2, ArrivalKeeps
<1>8. CASE SipAppSendsInfo(d)
  BY <1>0, <1>2, <1>8 DEF SipAppSendsInfo, InSipDialog
<1>9. CASE SipAppHangsUp(d)
  BY <1>1, <1>2, <1>3, <1>5, <1>9, ArrivalKeeps DEF SipAppHangsUp, InSipDialog, Arrives
<1>10. CASE SipAppAnswersBye(d)
  <2> DEFINE x == [r EXCEPT !.conn = "over", !.waiting = 0]
  <2>1. Keeps(r, x)
    BY <1>1, <1>3 DEF Keeps, Core, PullRecord
  <2>2. x \in PullRecord
    BY <2>1 DEF Keeps
  <2>3. /\ r.conn # "none"
        /\ Update(d, x) \/ Update(d, [x EXCEPT !.appq = Append(x.appq, "failure")])
    BY <1>10 DEF SipAppAnswersBye
  <2> HIDE DEF x
  <2>4. Keeps(x, [x EXCEPT !.appq = Append(x.appq, "failure")])
    BY <1>2, <1>3, <2>2, ArrivalKeeps
  <2> QED  BY <1>5, <2>1, <2>3, <2>4, KeepsTrans
<1>11. CASE SipAppAnswersLate(d)
  BY <1>1, <1>2, <1>3, <1>5, <1>11, ArrivalKeeps DEF SipAppAnswersLate, Arrives
<1> QED  BY <1>6, <1>7, <1>8, <1>9, <1>10, <1>11 DEF App

\* The parent.
LEMMA ParentStep ==
  ASSUME TypeOK, SessionConsistent, NEW d \in Dialogs, ParentEvent(d)
  PROVE  StepOf(d)
<1> DEFINE r == dlg[d]
           t == Rest(r)
<1>1. /\ r \in PullRecord /\ Consistent(r)
      /\ r.owner = "parent" /\ r.mapq # << >>
  BY DEF TypeOK, SessionConsistent, ParentEvent, ParentOverload, ParentUndecodable,
         ParentNoRoutingRule, ParentForwards, ParentDialogTimeout, ParentRelease,
         ToParent, Delivered
<1>2. t \in PullRecord /\ t.appq = r.appq /\ t.conn = r.conn
  BY <1>1, RestType
<1>3. DialogStep(r, t, 0)
  BY <1>1, <1>2, ParentHandlerIsStep
<1>4. ASSUME NEW S
      PROVE  DialogStep(r, Refuse(t, S), 0)
  BY <1>1, <1>2, RefuseStops, ParentHandlerIsStep DEF Stops
<1>5. CASE ParentOverload(d) \/ ParentNoRoutingRule(d)
  BY <1>4, <1>5, UpdateIsStep DEF ParentOverload, ParentNoRoutingRule, OnOverload,
                                  OnNoRoutingRule
<1>6. CASE ParentUndecodable(d) \/ ParentDialogTimeout(d)
  BY <1>3, <1>6, UpdateIsStep DEF ParentUndecodable, ParentDialogTimeout
<1>7. CASE ParentForwards(d)
  <2>1. Routable(r) /\ r.rule \in Transports
    BY <1>1, <1>7 DEF ParentForwards, ToParent, Delivered, Routable
  <2>2. DialogStep(r, Forward(r), 1)
    BY <1>1, <2>1, ForwardIsStep
  <2> QED  BY <1>7, <2>2 DEF ParentForwards, StepOf
<1>8. CASE ParentRelease(d)
  BY <1>1, <1>8, ParentReleaseIsStep, UpdateIsStep DEF ParentRelease, ToParent, Delivered
<1> QED  BY <1>5, <1>6, <1>7, <1>8 DEF ParentEvent

\* The child, on the MAP activity.
LEMMA ChildStep ==
  ASSUME TypeOK, SessionConsistent, NEW d \in Dialogs, ChildEvent(d)
  PROVE  StepOf(d)
<1> DEFINE r == dlg[d]
<1>1. ASSUME NEW e, ToChild(d, e)
      PROVE  /\ r \in PullRecord /\ Consistent(r) /\ Established(r)
             /\ r.mapq # << >> /\ Head(r.mapq) = e
  BY <1>1 DEF TypeOK, SessionConsistent, ToChild, Delivered, Established
<1>2. CASE ChildRelease(d)
  <2>1. DialogStep(r, OnDialogRelease(r), -1)
    BY <1>1, <1>2, ReleaseIsStep DEF ChildRelease
  <2>2. inProcess' = inProcess + (-1)
    BY <1>2 DEF ChildRelease, TypeOK
  <2> QED  BY <1>2, <2>1, <2>2 DEF ChildRelease, StepOf
<1>3. CASE ChildProcessUnstructuredSSRequest(d)
  BY <1>1, <1>3, ChildHandlers, UpdateIsStep DEF ChildProcessUnstructuredSSRequest
<1>4. CASE ChildUnstructuredSSResponse(d)
  BY <1>1, <1>4, ChildHandlers, UpdateIsStep DEF ChildUnstructuredSSResponse
<1>5. CASE ChildDialogReject(d)
  BY <1>1, <1>5, ChildHandlers, UpdateIsStep DEF ChildDialogReject
<1>6. CASE ChildDialogUserAbort(d)
  BY <1>1, <1>6, ChildHandlers, UpdateIsStep DEF ChildDialogUserAbort
<1>7. CASE ChildDialogProviderAbort(d)
  BY <1>1, <1>7, ChildHandlers, UpdateIsStep DEF ChildDialogProviderAbort
<1>8. CASE ChildDialogClose(d)
  BY <1>1, <1>8, ChildHandlers, UpdateIsStep DEF ChildDialogClose
<1>9. CASE ChildDialogTimeout(d)
  BY <1>1, <1>9, ChildHandlers, UpdateIsStep DEF ChildDialogTimeout
<1>10. CASE ChildInvokeTimeout(d)
  BY <1>1, <1>10, ChildHandlers, UpdateIsStep DEF ChildInvokeTimeout
<1>11. CASE ChildErrorComponent(d)
  BY <1>1, <1>11, ChildHandlers, UpdateIsStep DEF ChildErrorComponent
<1>12. CASE ChildRejectComponent(d)
  BY <1>1, <1>12, ChildHandlers, UpdateIsStep DEF ChildRejectComponent
<1>13. CASE ChildTimerEvent(d)
  BY <1>1, <1>13, ChildHandlers, UpdateIsStep DEF ChildTimerEvent
<1> QED  BY <1>2, <1>3, <1>4, <1>5, <1>6, <1>7, <1>8, <1>9,
         <1>10, <1>11, <1>12, <1>13 DEF ChildEvent

\* The child, on the application's activity.
LEMMA AppEventStep ==
  ASSUME TypeOK, SessionConsistent, NEW d \in Dialogs, AppEvent(d)
  PROVE  StepOf(d)
<1> DEFINE r == dlg[d]
<1>1. r \in PullRecord /\ Consistent(r)
  BY DEF TypeOK, SessionConsistent
<1>2. CASE HttpActivityEnds(d)
  <2>1. Keeps(r, [r EXCEPT !.conn = "none"])
    BY <1>1 DEF Keeps, Core, PullRecord, HttpStates
  <2> QED  BY <1>1, <1>2, <2>1, AppIsStep, UpdateIsStep DEF HttpActivityEnds
<1>3. CASE HttpResponseEvent(d)
  BY <1>1, <1>3, AppHandlers, UpdateIsStep DEF HttpResponseEvent, FromApp
<1>4. CASE SipSuccessRespEvent(d)
  BY <1>1, <1>4, AppHandlers, UpdateIsStep DEF SipSuccessRespEvent, FromApp
<1>5. CASE SipSuccessNoAck(d)
  BY <1>1, <1>5, AppHandlers, UpdateIsStep DEF SipSuccessNoAck, FromApp
<1>6. CASE SipFailureRespEvent(d)
  BY <1>1, <1>6, AppHandlers, UpdateIsStep DEF SipFailureRespEvent, FromApp
<1>7. CASE SipInfoReqEvent(d)
  BY <1>1, <1>7, AppHandlers, UpdateIsStep DEF SipInfoReqEvent, FromApp
<1>8. CASE SipCallTerminated(d)
  BY <1>1, <1>8, AppHandlers, UpdateIsStep DEF SipCallTerminated, FromApp
<1> QED  BY <1>2, <1>3, <1>4, <1>5, <1>6, <1>7, <1>8 DEF AppEvent

-----------------------------------------------------------------------------
(***************************************************************************)
(* Theorems.                                                               *)
(***************************************************************************)
\* Every step of the service is the step of one dialog, or a stutter.
LEMMA NextIsStep ==
  ASSUME TypeOK, SessionConsistent, [Next]_vars
  PROVE  UNCHANGED vars \/ \E d \in Dialogs : StepOf(d)
  BY StackStep, AppStep, ParentStep, ChildStep, AppEventStep DEF Next

\* What a step of d leaves of the other records.
LEMMA Frame ==
  ASSUME TypeOK, NEW d \in Dialogs, NEW s, Becomes(d, s)
  PROVE  dlg'[d] = s /\ \A x \in Dialogs \ {d} : dlg'[x] = dlg[x]
  BY DEF TypeOK, Becomes

\* The invariant from which the others follow.
THEOREM Consistency == Spec => [](TypeOK /\ SessionConsistent)
<1>1. Init => TypeOK /\ SessionConsistent
  <2> SUFFICES ASSUME Init PROVE TypeOK /\ SessionConsistent
    OBVIOUS
  <2>1. ~Live(NoDialog) /\ ~Established(NoDialog) /\ ~Routable(NoDialog)
    BY NoDialogType DEF Live, Established, Routable, Transports
  <2>2. Consistent(NoDialog)
    BY <2>1, NoDialogType
    DEF Consistent, OwnerConsistent, OutcomeConsistent, QueueConsistent, BillConsistent
  <2> QED  BY <2>2, NoDialogType DEF Init, TypeOK, SessionConsistent
<1>2. TypeOK /\ SessionConsistent /\ [Next]_vars => TypeOK' /\ SessionConsistent'
  <2> SUFFICES ASSUME TypeOK, SessionConsistent, [Next]_vars
               PROVE  TypeOK' /\ SessionConsistent'
    OBVIOUS
  <2>1. CASE UNCHANGED vars
    BY <2>1 DEF vars, TypeOK, SessionConsistent
  <2>2. CASE \E d \in Dialogs : StepOf(d)
    <3>0. PICK d \in Dialogs : StepOf(d)
      BY <2>2
    <3>1. PICK s, delta :
            /\ DialogStep(dlg[d], s, delta) /\ Becomes(d, s)
            /\ inProcess' = inProcess + delta
      BY <3>0 DEF StepOf
    <3>2. delta \in Int
      BY <3>1 DEF DialogStep, Moves
    <3>3. TypeOK'
      BY <3>1, <3>2 DEF TypeOK, Becomes, DialogStep
    <3>4. SessionConsistent'
      BY <3>1, Frame DEF SessionConsistent, DialogStep
    <3> QED  BY <3>3, <3>4
  <2> QED  BY <2>1, <2>2, NextIsStep
<1> QED  BY <1>1, <1>2, PTL DEF Spec

\* Type correctness.
THEOREM TypeCorrect == Spec => []TypeOK
  BY Consistency, PTL

\* The records of all dialogs stay consistent: the queue of each holds the reason
\* of its end until a handler has billed it.
THEOREM SessionsConsistent == Spec => []SessionConsistent
  BY Consistency, PTL

\* SUCCESS is recorded if and only if the mobile was given the final answer.
THEOREM CdrAgrees == Spec => []CdrAgreesWithOutcome
<1>1. SessionConsistent => CdrAgreesWithOutcome
  BY DEF SessionConsistent, CdrAgreesWithOutcome, Consistent, OutcomeConsistent
<1> QED  BY <1>1, Consistency, PTL

\* A dialog that the mobile still sees has no CDR.
THEOREM CdrOfEnded == Spec => []CdrOnlyOfEnded
<1>1. SessionConsistent => CdrOnlyOfEnded
  BY DEF SessionConsistent, CdrOnlyOfEnded, Consistent, OutcomeConsistent
<1> QED  BY <1>1, Consistency, PTL

\* A CDR never changes and a dialog that is over stays over, whichever handlers run.
THEOREM Finality == Spec => CdrWriteOnce /\ EndingIsFinal
<1>1. ASSUME TypeOK, SessionConsistent, [Next]_vars
      PROVE  \A d \in Dialogs : Final(dlg[d], dlg'[d])
  <2>1. CASE UNCHANGED vars
    BY <1>1, <2>1 DEF vars, Final, SessionConsistent, Consistent, OutcomeConsistent, Live
  <2>2. ASSUME NEW d \in Dialogs, StepOf(d), NEW x \in Dialogs
        PROVE  Final(dlg[x], dlg'[x])
    <3>1. PICK s, delta : DialogStep(dlg[d], s, delta) /\ Becomes(d, s)
      BY <2>2 DEF StepOf
    <3>2. CASE x = d
      BY <1>1, <3>1, <3>2, Frame DEF DialogStep
    <3>3. CASE x # d
      <4>1. dlg'[x] = dlg[x]
        BY <1>1, <3>1, <3>3, Frame
      <4>2. OutcomeConsistent(dlg[x])
        BY <1>1 DEF SessionConsistent, Consistent
      <4> QED  BY <4>1, <4>2 DEF Final, OutcomeConsistent, Live
    <3> QED  BY <3>2, <3>3
  <2> QED  BY <1>1, <2>1, <2>2, NextIsStep
<1>2. TypeOK /\ SessionConsistent /\ [Next]_vars =>
        [\A d \in Dialogs : dlg[d].cdr # "none" => dlg'[d].cdr = dlg[d].cdr]_vars
  BY <1>1 DEF Final
<1>3. TypeOK /\ SessionConsistent /\ [Next]_vars =>
        [\A d \in Dialogs : dlg[d].ending # "open" =>
           ~Live(dlg'[d]) /\ dlg'[d].ending = dlg[d].ending]_vars
  BY <1>1 DEF Final
<1> QED  BY <1>2, <1>3, Consistency, PTL DEF Spec, CdrWriteOnce, EndingIsFinal

\* What the lifecycle says of the owner and of the activity.
LEMMA PhaseCounts ==
  ASSUME NEW r \in PullRecord
  PROVE  /\ Established(r) /\ r.aci <=> Phase(r) \in {"open", "billed"}
         /\ Established(r) <=> Phase(r) \in {"open", "billed", "closed"}
  BY DEF Phase, Established, PullRecord, Owners, Transports

\* The counter of dialogs in process is exact.
THEOREM InProcess == Spec => []InProcessExact
<1> DEFINE Counted == {x \in Dialogs : Established(dlg[x]) /\ dlg[x].aci}
<1>1. Init => InProcessExact
  <2> SUFFICES ASSUME Init PROVE InProcessExact
    OBVIOUS
  <2>1. Counted = {}
    BY NoDialogType DEF Init
  <2> QED  BY <2>1, FS_EmptySet DEF Init, InProcessExact
<1>2. TypeOK /\ SessionConsistent /\ InProcessExact /\ [Next]_vars => InProcessExact'
  <2> SUFFICES ASSUME TypeOK, SessionConsistent, InProcessExact, [Next]_vars
               PROVE  InProcessExact'
    OBVIOUS
  <2>1. CASE UNCHANGED vars
    BY <2>1 DEF vars, InProcessExact
  <2>2. CASE \E d \in Dialogs : StepOf(d)
    <3>0. PICK d \in Dialogs : StepOf(d)
      BY <2>2
    <3>1. PICK s, delta :
            /\ DialogStep(dlg[d], s, delta) /\ Becomes(d, s)
            /\ inProcess' = inProcess + delta
      BY <3>0 DEF StepOf
    <3>2. dlg'[d] = s /\ \A x \in Dialogs \ {d} : dlg'[x] = dlg[x]
      BY <3>1, Frame
    <3>3. dlg[d] \in PullRecord /\ s \in PullRecord
      BY <3>1 DEF TypeOK, DialogStep
    <3>4. IsFiniteSet(Counted) /\ Cardinality(Counted) \in Nat
      BY DialogsAssumption, FS_Subset, FS_CardinalityType
    <3>5. inProcess = Cardinality(Counted) /\ inProcess \in Int
      BY DEF InProcessExact, TypeOK
    <3>6. CASE delta = 0
      <4>1. (Phase(s) \in {"open", "billed"}) <=> (Phase(dlg[d]) \in {"open", "billed"})
        BY <3>1, <3>6 DEF DialogStep, Moves
      <4>2. Counted' = Counted
        BY <3>2, <3>3, <4>1, PhaseCounts
      <4>3. Cardinality(Counted') = Cardinality(Counted)
        BY <4>2
      <4> QED  BY <3>1, <3>5, <3>6, <4>3 DEF InProcessExact
    <3>7. CASE delta = 1
      <4>1. Phase(s) = "open" /\ Phase(dlg[d]) = "offered"
        BY <3>1, <3>7 DEF DialogStep, Moves
      <4>2. d \notin Counted /\ Counted' = Counted \cup {d}
        BY <3>2, <3>3, <4>1, PhaseCounts
      <4>3. Cardinality(Counted') = Cardinality(Counted) + 1
        BY <3>4, <4>2, FS_AddElement
      <4> QED  BY <3>1, <3>5, <3>7, <4>3 DEF InProcessExact
    <3>8. CASE delta = -1
      <4>1. Phase(s) = "closed" /\ Phase(dlg[d]) = "billed"
        BY <3>1, <3>8 DEF DialogStep, Moves
      <4>2. d \in Counted /\ Counted' = Counted \ {d}
        BY <3>2, <3>3, <4>1, PhaseCounts
      <4>3. Cardinality(Counted') = Cardinality(Counted) - 1
        BY <3>4, <4>2, FS_RemoveElement
      <4> QED  BY <3>1, <3>4, <3>5, <3>8, <4>3 DEF InProcessExact
    <3> QED  BY <3>1, <3>6, <3>7, <3>8 DEF DialogStep, Moves
  <2> QED  BY <2>1, <2>2, NextIsStep
<1> QED  BY <1>1, <1>2, Consistency, PTL DEF Spec

\* The limit of activities bounds the dialogs that were established and live.
THEOREM StackLimit == Spec => []StackBounded
<1> DEFINE Busy == {x \in Dialogs : Established(dlg[x]) /\ Live(dlg[x])}
<1>1. Init => StackBounded
  <2> SUFFICES ASSUME Init, MaxActivityCount > 0 PROVE Cardinality(Busy) < MaxActivityCount
    BY DEF StackBounded
  <2>1. Busy = {}
    BY NoDialogType DEF Init, Established, Transports
  <2> QED  BY <2>1, FS_EmptySet
<1>2. TypeOK /\ SessionConsistent /\ StackBounded /\ [Next]_vars => StackBounded'
  <2> SUFFICES ASSUME TypeOK, SessionConsistent, StackBounded, [Next]_vars,
                      MaxActivityCount > 0
               PROVE  Cardinality(Busy') < MaxActivityCount
    BY DEF StackBounded
  <2>1. IsFiniteSet(Busy) /\ IsFiniteSet(LiveDialogs)
    BY DialogsAssumption, FS_Subset DEF LiveDialogs
  <2>2. Cardinality(Busy) < MaxActivityCount /\ MaxActivityCount \in Nat
    BY LimitAssumption DEF StackBounded
  <2>3. CASE UNCHANGED vars
    <3>1. Busy' = Busy
      BY <2>3 DEF vars
    <3> QED  BY <2>2, <3>1
  <2>4. CASE \E d \in Dialogs : StepOf(d)
    <3>0. PICK d \in Dialogs : StepOf(d)
      BY <2>4
    <3>1. PICK s, delta :
            DialogStep(dlg[d], s, delta) /\ Becomes(d, s) /\ (delta = 1 => Accepted)
      BY <3>0 DEF StepOf
    <3>2. dlg'[d] = s /\ \A x \in Dialogs \ {d} : dlg'[x] = dlg[x]
      BY <3>1, Frame
    <3>3. /\ dlg[d] \in PullRecord /\ Consistent(dlg[d])
          /\ s \in PullRecord /\ Consistent(s) /\ Final(dlg[d], s)
      BY <3>1 DEF TypeOK, SessionConsistent, DialogStep
    <3>4. Established(s) => Phase(dlg[d]) # "idle"
      BY <3>1, <3>3, PhaseCounts DEF DialogStep, Moves
    <3>5. Established(s) /\ Live(s) => Live(dlg[d])
      <4>1. Phase(dlg[d]) # "idle" => dlg[d].map # "none"
        BY <3>3 DEF Phase, Consistent, OwnerConsistent
      <4>2. Live(s) => dlg[d].map # "expunged"
        BY <3>3 DEF Final, Consistent, OutcomeConsistent
      <4> QED  BY <3>3, <3>4, <4>1, <4>2 DEF Live, PullRecord, MapStates
    <3>6. CASE delta = 1
      <4>1. Cardinality(LiveDialogs) < MaxActivityCount
        BY <2>2, <3>1, <3>6 DEF Accepted, CheckMaxActivityCount
      <4>2. Busy' \subseteq LiveDialogs
        BY <3>2, <3>5 DEF LiveDialogs
      <4>3. Cardinality(Busy') <= Cardinality(LiveDialogs)
        BY <2>1, <4>2, FS_Subset
      <4>4. Cardinality(Busy') \in Nat /\ Cardinality(LiveDialogs) \in Nat
        BY <2>1, <4>2, FS_Subset, FS_CardinalityType
      <4> QED  BY <2>2, <4>1, <4>3, <4>4
    <3>7. CASE delta # 1
      <4>1. Established(s) => Established(dlg[d])
        BY <3>1, <3>3, <3>7, PhaseCounts DEF DialogStep, Moves
      <4>2. Busy' \subseteq Busy
        BY <3>2, <3>5, <4>1
      <4>3. Cardinality(Busy') <= Cardinality(Busy)
        BY <2>1, <4>2, FS_Subset
      <4>4. Cardinality(Busy') \in Nat /\ Cardinality(Busy) \in Nat
        BY <2>1, <4>2, FS_Subset, FS_CardinalityType
      <4> QED  BY <2>2, <4>3, <4>4
    <3> QED  BY <3>6, <3>7
  <2> QED  BY <2>3, <2>4, NextIsStep
<1> QED  BY <1>1, <1>2, Consistency, PTL DEF Spec

\* The service implements the abstract lifecycle.
THEOREM Refinement == Spec => LifecycleSafe
<1>1. Init => Lifecycle!Init
  <2> SUFFICES ASSUME Init PROVE Lifecycle!Init
    OBVIOUS
  <2>1. Phase(NoDialog) = "idle" /\ NoDialog.cdr = "none"
    BY NoDialogType DEF Phase
  <2> QED  BY <2>1 DEF Init, Lifecycle!Init
<1>2. TypeOK /\ SessionConsistent /\ [Next]_vars => [Lifecycle!Next]_(Lifecycle!vars)
  <2> SUFFICES ASSUME TypeOK, SessionConsistent, [Next]_vars
               PROVE  [Lifecycle!Next]_(Lifecycle!vars)
    OBVIOUS
  <2> DEFINE phase == [d \in Dialogs |-> Phase(dlg[d])]
             record == [d \in Dialogs |-> dlg[d].cdr]
  <2>1. CASE UNCHANGED vars
    BY <2>1 DEF vars, Lifecycle!vars
  <2>2. CASE \E d \in Dialogs : StepOf(d)
    <3>0. PICK d \in Dialogs : StepOf(d)
      BY <2>2
    <3>1. PICK s, delta :
            /\ DialogStep(dlg[d], s, delta) /\ Becomes(d, s)
            /\ inProcess' = inProcess + delta
      BY <3>0 DEF StepOf
    <3>2. dlg'[d] = s /\ \A x \in Dialogs \ {d} : dlg'[x] = dlg[x]
      BY <3>1, Frame
    <3>3. phase' = [phase EXCEPT ![d] = Phase(s)] /\ phase[d] = Phase(dlg[d])
      BY <3>2
    <3>4. record' = [record EXCEPT ![d] = s.cdr] /\ record[d] = dlg[d].cdr
      BY <3>2
    <3>5. inProcess \in Int /\ Moves(dlg[d], s, delta)
      BY <3>1 DEF TypeOK, DialogStep
    <3>6. phase = [phase EXCEPT ![d] = phase[d]] /\ record = [record EXCEPT ![d] = record[d]]
      OBVIOUS
    <3>7. s.cdr = dlg[d].cdr => UNCHANGED record
      BY <3>4, <3>6
    <3>8. Phase(s) = Phase(dlg[d]) => UNCHANGED phase
      BY <3>3, <3>6
    <3>9. CASE Phase(s) = Phase(dlg[d]) /\ s.cdr = dlg[d].cdr /\ delta = 0
      <4>1. UNCHANGED << phase, record, inProcess >>
        BY <3>1, <3>5, <3>7, <3>8, <3>9
      <4> QED  BY <4>1 DEF Lifecycle!vars
    <3>10. CASE /\ Phase(dlg[d]) = "idle" /\ Phase(s) = "offered"
                /\ s.cdr = dlg[d].cdr /\ delta = 0
      <4>1. Lifecycle!Offer(d)
        BY <3>1, <3>3, <3>5, <3>7, <3>10 DEF Lifecycle!Offer, Lifecycle!Move
      <4> QED  BY <4>1 DEF Lifecycle!Next
    <3>11. CASE /\ Phase(dlg[d]) = "offered" /\ Phase(s) = "refused"
                /\ s.cdr = dlg[d].cdr /\ delta = 0
      <4>1. Lifecycle!Refuse(d)
        BY <3>1, <3>3, <3>5, <3>7, <3>11 DEF Lifecycle!Refuse, Lifecycle!Move
      <4> QED  BY <4>1 DEF Lifecycle!Next
    <3>12. CASE /\ Phase(dlg[d]) = "offered" /\ Phase(s) = "open"
                /\ s.cdr = dlg[d].cdr /\ delta = 1
      <4>1. Lifecycle!Establish(d)
        BY <3>1, <3>3, <3>7, <3>12 DEF Lifecycle!Establish, Lifecycle!Move
      <4> QED  BY <4>1 DEF Lifecycle!Next
    <3>13. CASE /\ Phase(dlg[d]) = "open" /\ Phase(s) = "billed"
                /\ s.cdr \in CdrStatuses /\ delta = 0
      <4>1. Lifecycle!Move(d, "open", "billed")
        BY <3>3, <3>13 DEF Lifecycle!Move
      <4>2. \E status \in CdrStatuses : record' = [record EXCEPT ![d] = status]
        BY <3>4, <3>13
      <4>3. inProcess' = inProcess
        BY <3>1, <3>5, <3>13
      <4>4. Lifecycle!Bill(d)
        BY <4>1, <4>2, <4>3 DEF Lifecycle!Bill
      <4> QED  BY <4>4 DEF Lifecycle!Next
    <3>14. CASE /\ Phase(dlg[d]) = "billed" /\ Phase(s) = "closed"
                /\ s.cdr = dlg[d].cdr /\ delta = -1
      <4>1. inProcess' = inProcess - 1
        BY <3>1, <3>5, <3>14
      <4>2. Lifecycle!Close(d)
        BY <3>3, <3>7, <3>14, <4>1 DEF Lifecycle!Close, Lifecycle!Move
      <4> QED  BY <4>2 DEF Lifecycle!Next
    <3> QED  BY <3>5, <3>9, <3>10, <3>11, <3>12, <3>13, <3>14 DEF Moves
  <2> QED  BY <2>1, <2>2, NextIsStep
<1> QED  BY <1>1, <1>2, Consistency, PTL DEF Spec, LifecycleSafe, Lifecycle!Spec
=============================================================================
