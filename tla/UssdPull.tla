------------------------------ MODULE UssdPull ------------------------------
(***************************************************************************)
(* The PULL service of the USSD gateway: the MAP stack and the mobiles     *)
(* behind it, the parent SBB, the child SBBs and the applications behind   *)
(* HTTP and SIP, for a set of dialogs that share the stack, its limit of   *)
(* activities and the counter of dialogs in process.                       *)
(*                                                                         *)
(* SLEE delivers the events of one activity in order and runs one handler  *)
(* of an SBB entity at a time, so a handler is an atomic step; the events  *)
(* of the MAP activity and those of the application's activity interleave. *)
(***************************************************************************)
EXTENDS ParentSbb, ChildSbb, Integers, FiniteSets

CONSTANTS
  Dialogs,            \* the MAP dialogs that mobiles may open
  MaxActivityCount,   \* the property maxactivitycount, 0: no limit
  Routes,             \* what the routing table may say of a dialled code
  Urls,               \* whether the address of a rule is usable
  Answers,            \* what applications may answer
  MaxRounds           \* bound: menus that one dialog shows

ASSUME DialogsAssumption == IsFiniteSet(Dialogs)
ASSUME LimitAssumption == MaxActivityCount \in Nat /\ MaxRounds \in Nat
ASSUME InputsAssumption ==
  Routes \subseteq Rules /\ Urls \subseteq BOOLEAN /\ Answers \subseteq AppEvents

VARIABLES
  dlg,        \* the record of each dialog
  inProcess   \* UssdStatAggregator: dialogsInProcess

vars == << dlg, inProcess >>

LiveDialogs == {d \in Dialogs : Live(dlg[d])}

Init == /\ dlg = [d \in Dialogs |-> NoDialog]
        /\ inProcess = 0

Becomes(d, r) == dlg' = [dlg EXCEPT ![d] = r]

\* A step of d that leaves the shared counter alone.
Update(d, r) == Becomes(d, r) /\ UNCHANGED inProcess

-----------------------------------------------------------------------------
(***************************************************************************)
(* The mobiles and the MAP stack: what fires events on the MAP activity.   *)
(***************************************************************************)
MobileDials(d) ==
  /\ dlg[d].map = "none"
  /\ \E rule \in Routes, urlOk \in Urls : Update(d, Received(rule, urlOk))

\* A TC-CONTINUE with the result, error or reject of the outstanding request.
\* The result of a notification has no handler.
MobileAnswers(d) ==
  LET r == [dlg[d] EXCEPT !.tcap = "Continue", !.invoke = "none"]
  IN  /\ dlg[d].map = "active"
      /\ \/ /\ dlg[d].invoke = "request"
            /\ Update(d, Fire(r, "UnstructuredSSResponse"))
         \/ /\ dlg[d].invoke # "none"
            /\ \E e \in {"ErrorComponent", "RejectComponent"} : Update(d, Fire(r, e))
         \/ /\ dlg[d].invoke = "notify"
            /\ Update(d, r)

\* A TC-END, which may carry the component that answers the outstanding request.
MobileEnds(d) ==
  LET r == [dlg[d] EXCEPT !.tcap = "End"]
  IN  /\ dlg[d].map = "active"
      /\ \/ Update(d, Expunge(Fire(r, "Close"), "peer"))
         \/ /\ dlg[d].invoke # "none"
            /\ \E e \in {"ErrorComponent", "RejectComponent"} :
                 Update(d, Expunge(Fire(Fire(r, e), "Close"), "peer"))
         \/ /\ dlg[d].invoke = "request"
            /\ Update(d, Expunge(Fire(Fire(r, "UnstructuredSSResponse"), "Close"), "peer"))

\* A TC-ABORT of the mobile or of the network.
MobileAborts(d) ==
  /\ dlg[d].map = "active"
  /\ \E e \in {"Reject", "UserAbort", "ProviderAbort"} :
       Update(d, Expunge(Fire([dlg[d] EXCEPT !.tcap = "Abort"], e), "peer"))

InvokeExpires(d) ==
  /\ dlg[d].map = "active" /\ dlg[d].invoke # "none"
  /\ Update(d, Fire([dlg[d] EXCEPT !.invoke = "none"], "InvokeTimeout"))

\* The idle timer of the dialog: the stack keeps the dialog for the handler to
\* abort, or has released it by the time the handler runs.
DialogExpires(d) ==
  LET r == Fire(dlg[d], "DialogTimeout")
  IN  /\ Live(dlg[d])
      /\ \A i \in 1 .. Len(dlg[d].mapq) : dlg[d].mapq[i] # "DialogTimeout"
      /\ Update(d, r) \/ Update(d, Expunge(r, "idle"))

\* The SLEE timer, armed with dialogtimeout when the application was asked.
TimerExpires(d) ==
  /\ Live(dlg[d])
  /\ \E t \in dlg[d].timers :
       Update(d, Fire([dlg[d] EXCEPT !.timers = @ \ {t}], "Timer"))

-----------------------------------------------------------------------------
(***************************************************************************)
(* The applications.                                                       *)
(***************************************************************************)
MayAsk(r) == r.count["UssdRequestOperations"] + Len(r.appq) < MaxRounds

Arrives(d, k) == [dlg[d] EXCEPT !.appq = Append(@, k)]

\* The response to a POST; "bad" stands for a failed exchange too.
HttpAppAnswers(d) ==
  /\ dlg[d].conn = "open" /\ dlg[d].waiting > 0
  /\ \E k \in Answers \cap HttpAnswers :
       /\ k = "continue" => MayAsk(dlg[d])
       /\ Update(d, [Arrives(d, k) EXCEPT !.waiting = @ - 1])

\* Behind the last event of an ended activity SLEE detaches the SBB from it.
HttpActivityEnds(d) ==
  /\ dlg[d].conn = "ending" /\ dlg[d].appq = << >>
  /\ Update(d, [dlg[d] EXCEPT !.conn = "none"])

\* The answer to the INVITE opens the SIP dialog or ends it.  A redirection does
\* not answer the request that the INVITE carried.
SipAppAnswersInvite(d) ==
  /\ dlg[d].conn = "early"
  /\ \/ \E k \in Answers \cap {"success", "successNoAck"} :
          Update(d, [Arrives(d, k) EXCEPT !.conn = "confirmed"])
     \/ /\ "redirect" \in Answers
        /\ Update(d, [Arrives(d, "redirect") EXCEPT !.conn = "over"])
     \/ /\ "failure" \in Answers
        /\ Update(d, [Arrives(d, "failure") EXCEPT !.conn = "over", !.waiting = 0])

ByePending(r) ==
  \E i \in 1 .. Len(r.appq) :
    r.appq[i] \in {"byeAnswer", "byeError", "byeEmpty", "byeGarbled"}

InSipDialog(d) == dlg[d].conn \in {"confirmed", "bye"} /\ ~ByePending(dlg[d])

\* An INFO of the application, or its refusal of an INFO of the gateway (which
\* the gateway sends on a second message of the mobile only).
SipAppSendsInfo(d) ==
  /\ InSipDialog(d) /\ dlg[d].waiting > 0
  /\ \E k \in Answers \cap {"infoRequest", "infoError", "infoEmpty",
                            "infoGarbled", "failure"} :
       /\ k = "infoRequest" => MayAsk(dlg[d])
       /\ k = "failure" => dlg[d].count["MessagesRecieved"] > 1
       /\ Update(d, [Arrives(d, k) EXCEPT !.waiting = @ - 1])

\* The application may hang up whether it was asked or not.
SipAppHangsUp(d) ==
  /\ InSipDialog(d)
  /\ \E k \in Answers \cap {"byeAnswer", "byeError", "byeEmpty", "byeGarbled"} :
       Update(d, Arrives(d, k))

\* The BYE of the gateway is answered (the 2xx has no effect), refused or lost.
SipAppAnswersBye(d) ==
  LET r == [dlg[d] EXCEPT !.conn = "over", !.waiting = 0]
  IN  \/ /\ dlg[d].conn = "bye"
         /\ Update(d, r)
      \/ /\ dlg[d].conn \in {"bye", "lateBye"} /\ "failure" \in Answers
         /\ Update(d, [r EXCEPT !.appq = Append(@, "failure")])

\* The INVITE of a deleted SIP dialog is answered.
SipAppAnswersLate(d) ==
  /\ dlg[d].conn = "lateInvite"
  /\ \E k \in Answers \cap {"success", "successNoAck", "failure", "redirect"} :
       Update(d, [Arrives(d, k) EXCEPT !.conn = "over"])

-----------------------------------------------------------------------------
(***************************************************************************)
(* Delivery of the events of the MAP activity to the parent.               *)
(***************************************************************************)
Delivered(d, e) == dlg[d].mapq # << >> /\ Head(dlg[d].mapq) = e

ToParent(d, e) == Delivered(d, e) /\ dlg[d].owner = "parent"

Accepted == CheckMaxActivityCount(MaxActivityCount, Cardinality(LiveDialogs))

ParentOverload(d) ==
  /\ ToParent(d, "ProcessUnstructuredSSRequest") /\ ~Accepted
  /\ Update(d, OnOverload(Rest(dlg[d])))

\* getString() throws: the catch of onProcessUnstructuredSSRequest only logs.
ParentUndecodable(d) ==
  /\ ToParent(d, "ProcessUnstructuredSSRequest") /\ Accepted
  /\ dlg[d].rule = "undecodable"
  /\ Update(d, Rest(dlg[d]))

ParentNoRoutingRule(d) ==
  /\ ToParent(d, "ProcessUnstructuredSSRequest") /\ Accepted
  /\ dlg[d].rule = "none"
  /\ Update(d, OnNoRoutingRule(Rest(dlg[d])))

\* The event stays at the head for the child.
ParentForwards(d) ==
  /\ ToParent(d, "ProcessUnstructuredSSRequest") /\ Accepted
  /\ dlg[d].rule \in Transports
  /\ Becomes(d, Forward(dlg[d]))
  /\ inProcess' = inProcess + 1

ParentDialogTimeout(d) ==
  /\ ToParent(d, "DialogTimeout")
  /\ Update(d, Rest(dlg[d]))

\* Faulty variant: the parent too counts the dialog down.
ParentReleaseCounted(d) ==
  /\ ToParent(d, "Release")
  /\ Becomes(d, OnDialogRelease(dlg[d]))
  /\ inProcess' = inProcess - 1

\* The parent has no handler for Release: the activity just ends.
ParentRelease(d) ==
  /\ ToParent(d, "Release")
  /\ Update(d, OnDialogRelease(dlg[d]))

-----------------------------------------------------------------------------
(***************************************************************************)
(* Delivery of the events of the MAP activity to the child.                *)
(***************************************************************************)
ToChild(d, e) == Delivered(d, e) /\ dlg[d].owner \in Transports

ChildProcessUnstructuredSSRequest(d) ==
  /\ ToChild(d, "ProcessUnstructuredSSRequest")
  /\ Update(d, OnProcessUnstructuredSSRequest(Rest(dlg[d])))

ChildUnstructuredSSResponse(d) ==
  /\ ToChild(d, "UnstructuredSSResponse")
  /\ Update(d, OnUnstructuredSSResponse(Rest(dlg[d])))

ChildDialogReject(d) ==
  /\ ToChild(d, "Reject")
  /\ Update(d, OnDialogReject(Rest(dlg[d])))

ChildDialogUserAbort(d) ==
  /\ ToChild(d, "UserAbort")
  /\ Update(d, OnDialogUserAbort(Rest(dlg[d])))

ChildDialogProviderAbort(d) ==
  /\ ToChild(d, "ProviderAbort")
  /\ Update(d, OnDialogProviderAbort(Rest(dlg[d])))

ChildDialogClose(d) ==
  /\ ToChild(d, "Close")
  /\ Update(d, OnDialogClose(Rest(dlg[d])))

ChildDialogTimeout(d) ==
  /\ ToChild(d, "DialogTimeout")
  /\ Update(d, OnDialogTimeout(Rest(dlg[d])))

ChildInvokeTimeout(d) ==
  /\ ToChild(d, "InvokeTimeout")
  /\ Update(d, OnInvokeTimeout(Rest(dlg[d])))

ChildErrorComponent(d) ==
  /\ ToChild(d, "ErrorComponent")
  /\ Update(d, OnErrorComponent(Rest(dlg[d])))

ChildRejectComponent(d) ==
  /\ ToChild(d, "RejectComponent")
  /\ Update(d, OnRejectComponent(Rest(dlg[d])))

ChildTimerEvent(d) ==
  /\ ToChild(d, "Timer")
  /\ Update(d, OnTimerEvent(Rest(dlg[d])))

\* onDialogRelease: removeDialogsInProcess.
ChildRelease(d) ==
  /\ ToChild(d, "Release")
  /\ Becomes(d, OnDialogRelease(dlg[d]))
  /\ inProcess' = inProcess - 1

-----------------------------------------------------------------------------
(***************************************************************************)
(* Delivery of the events of the application's activity to the child.      *)
(***************************************************************************)
Answered(r) == [r EXCEPT !.appq = Tail(@)]

FromApp(d, ks) == dlg[d].appq # << >> /\ Head(dlg[d].appq) \in ks

HttpResponseEvent(d) ==
  /\ FromApp(d, HttpAnswers)
  /\ Update(d, OnResponseEvent(Answered(dlg[d]), Head(dlg[d].appq)))

\* A 2xx that is acknowledged, and a redirection, change nothing.
SipSuccessRespEvent(d) ==
  /\ FromApp(d, {"success", "redirect"})
  /\ Update(d, Answered(dlg[d]))

SipSuccessNoAck(d) ==
  /\ FromApp(d, {"successNoAck"})
  /\ Update(d, OnSuccessNoAck(Answered(dlg[d])))

SipFailureRespEvent(d) ==
  /\ FromApp(d, {"failure"})
  /\ Update(d, OnFailureResponse(Answered(dlg[d])))

SipInfoReqEvent(d) ==
  /\ FromApp(d, {"infoRequest", "infoError", "infoEmpty", "infoGarbled"})
  /\ Update(d, OnInfoReqEvent(Answered(dlg[d]), Head(dlg[d].appq)))

SipCallTerminated(d) ==
  /\ FromApp(d, {"byeAnswer", "byeError", "byeEmpty", "byeGarbled"})
  /\ Update(d, OnCallTerminated(Answered(dlg[d]), Head(dlg[d].appq)))

-----------------------------------------------------------------------------
Stack(d) ==
  \/ MobileDials(d) \/ MobileAnswers(d) \/ MobileEnds(d) \/ MobileAborts(d)
  \/ InvokeExpires(d) \/ DialogExpires(d) \/ TimerExpires(d)

App(d) ==
  \/ HttpAppAnswers(d) \/ SipAppAnswersInvite(d) \/ SipAppSendsInfo(d)
  \/ SipAppHangsUp(d) \/ SipAppAnswersBye(d) \/ SipAppAnswersLate(d)

ParentEvent(d) ==
  \/ ParentOverload(d) \/ ParentUndecodable(d) \/ ParentNoRoutingRule(d)
  \/ ParentForwards(d) \/ ParentDialogTimeout(d) \/ ParentRelease(d)

ChildEvent(d) ==
  \/ ChildProcessUnstructuredSSRequest(d) \/ ChildUnstructuredSSResponse(d)
  \/ ChildDialogReject(d) \/ ChildDialogUserAbort(d) \/ ChildDialogProviderAbort(d)
  \/ ChildDialogClose(d) \/ ChildDialogTimeout(d) \/ ChildInvokeTimeout(d)
  \/ ChildErrorComponent(d) \/ ChildRejectComponent(d) \/ ChildTimerEvent(d)
  \/ ChildRelease(d)

AppEvent(d) ==
  \/ HttpResponseEvent(d) \/ HttpActivityEnds(d)
  \/ SipSuccessRespEvent(d) \/ SipSuccessNoAck(d) \/ SipFailureRespEvent(d)
  \/ SipInfoReqEvent(d) \/ SipCallTerminated(d)

Next == \E d \in Dialogs :
          Stack(d) \/ App(d) \/ ParentEvent(d) \/ ChildEvent(d) \/ AppEvent(d)

(***************************************************************************)
(* SLEE delivers what was fired, and the timers of the stack and of the    *)
(* SLEE timer facility expire.  Nothing is assumed of mobiles and          *)
(* applications.                                                           *)
(***************************************************************************)
Fairness ==
  \A d \in Dialogs :
    /\ WF_vars(ParentEvent(d)) /\ WF_vars(ChildEvent(d)) /\ WF_vars(AppEvent(d))
    /\ WF_vars(DialogExpires(d)) /\ WF_vars(TimerExpires(d))

Spec == Init /\ [][Next]_vars

FairSpec == Spec /\ Fairness

-----------------------------------------------------------------------------
(***************************************************************************)
(* Properties.                                                             *)
(***************************************************************************)
TypeOK == /\ dlg \in [Dialogs -> PullRecord]
          /\ inProcess \in Int

Established(r) == r.owner \in Transports

Queued(q, es) == \E i \in 1 .. Len(q) : q[i] \in es

\* dialogsInProcess is the number of established dialogs whose Release was not
\* delivered, whatever handlers ran in between: it neither drifts nor leaks.
InProcessExact ==
  inProcess = Cardinality({d \in Dialogs : Established(dlg[d]) /\ dlg[d].aci})

\* Fired only on a dialog that is over, or that ends in the same step.
EndEvents == {"Reject", "UserAbort", "ProviderAbort", "Close", "Release"}

\* Events whose handler in the child writes a CDR.
BillingEvents ==
  MapEvents \ {"ProcessUnstructuredSSRequest", "UnstructuredSSResponse", "Release"}

OwnerConsistent(r) ==
  /\ r.map = "none" <=> r.owner = "none"
  /\ Live(r) \/ r.mapq # << >> => r.aci
  /\ r.aci => r.owner # "none"
  /\ ~Established(r) => r.appq = << >> /\ r.conn = "none" /\ r.cdr = "none"

OutcomeConsistent(r) ==
  /\ r.ending = "open" <=> r.map # "expunged"
  /\ r.cdr = "SUCCESS" <=> r.ending \in {"answer", "drop"}
  /\ Live(r) => r.cdr = "none"

QueueConsistent(r) ==
  \A i \in 1 .. Len(r.mapq) :
    /\ r.mapq[i] \in EndEvents => ~Live(r)
    /\ r.mapq[i] = "Release" => i = Len(r.mapq)
    /\ r.mapq[i] = "ProcessUnstructuredSSRequest" => i = 1

\* The child has billed the dialog, or will: Release is fired last and the event
\* right before it has a handler that writes the CDR.
ToBeBilled(r) ==
  LET n == Len(r.mapq)
  IN  n >= 2 /\ r.mapq[n] = "Release" /\ r.mapq[n - 1] \in BillingEvents

Routable(r) ==
  r.owner = "parent" /\ r.mapq # << >> /\ Head(r.mapq) = "ProcessUnstructuredSSRequest"

BillConsistent(r) ==
  ~Live(r) /\ r.cdr = "none" /\ (Established(r) \/ Routable(r)) => ToBeBilled(r)

Consistent(r) ==
  OwnerConsistent(r) /\ OutcomeConsistent(r) /\ QueueConsistent(r) /\ BillConsistent(r)

\* The state of the MAP dialog, its owner, its queue and its CDR agree at any time:
\* what ended the dialog stands in the queue until its handler has written the CDR,
\* and Release, which lets the SBB go, is behind it.
SessionConsistent == \A d \in Dialogs : Consistent(dlg[d])

\* The CDR says SUCCESS exactly when the mobile was given the final answer of the
\* application (or the drop it asked for): no race of a timeout, an abort or a
\* late answer bills a failed dialog as a success or the other way round.
CdrAgreesWithOutcome ==
  \A d \in Dialogs : dlg[d].cdr = "SUCCESS" <=> dlg[d].ending \in {"answer", "drop"}

\* No dialog that the mobile can still see has been billed: each handler that
\* writes the CDR ended the MAP dialog first, or learnt of its end.
CdrOnlyOfEnded ==
  \A d \in Dialogs : dlg[d].cdr # "none" => ~Live(dlg[d])

\* A CDR is never changed, however many handlers run after the first createRecord.
CdrWriteOnce ==
  [][\A d \in Dialogs : dlg[d].cdr # "none" => dlg'[d].cdr = dlg[d].cdr]_vars

\* No event handled after the end of a MAP dialog sends on it or ends it again.
EndingIsFinal ==
  [][\A d \in Dialogs : dlg[d].ending # "open" =>
       ~Live(dlg'[d]) /\ dlg'[d].ending = dlg[d].ending]_vars

\* The armed timer is the one whose id is stored, so that cancelTimer reaches it.
NoOrphanTimer ==
  \A d \in Dialogs : dlg[d].timers \subseteq {dlg[d].timerID}

\* As long as the application owes an answer on a live dialog, the dialogtimeout
\* timer is armed or its event is on the way.
AwaitGuarded ==
  \A d \in Dialogs :
    Live(dlg[d]) /\ dlg[d].waiting > 0 =>
      dlg[d].timers # {} \/ Queued(dlg[d].mapq, {"Timer"})

\* The timer of the application never runs while the gateway waits for the mobile.
TimerOnlyWhileAwaiting ==
  \A d \in Dialogs :
    Live(dlg[d]) /\ dlg[d].timers # {} =>
      dlg[d].waiting > 0 \/ dlg[d].appq # << >>

\* A dialog that was released with a failure in its CDR was counted in
\* DialogsAllFailed, except for the SIP application's empty INFO.
FailureCounted ==
  \A d \in Dialogs :
    ~dlg[d].aci /\ dlg[d].cdr \notin {"none", "SUCCESS"} =>
      \/ dlg[d].count["DialogsAllFailed"] > 0
      \/ dlg[d].owner = "sip" /\ dlg[d].cdr = "FAILED_CORRUPTED_MESSAGE"

\* When the MAP activity is gone, an HTTP activity is still open only if a POST is
\* unanswered: nothing but onResponseEvent would end it.  (An address that is no
\* URL does leak one, through a DialogTimeout behind the request.)
NoHttpLeak ==
  \A d \in Dialogs :
    Established(dlg[d]) /\ ~dlg[d].aci /\ dlg[d].conn = "open" /\ dlg[d].urlOk =>
      dlg[d].waiting > 0 \/ dlg[d].appq # << >>

\* When the MAP activity is gone, the SIP dialog is not left to the application,
\* except after a RejectComponent (which alone counts DialogsPushFailed).
NoSipLeak ==
  \A d \in Dialogs :
    Established(dlg[d]) /\ ~dlg[d].aci /\ dlg[d].count["DialogsPushFailed"] = 0 =>
      dlg[d].conn \notin {"early", "confirmed"}

\* maxactivitycount bounds the live dialogs that were established.
StackBounded ==
  MaxActivityCount > 0 =>
    Cardinality({d \in Dialogs : Established(dlg[d]) /\ Live(dlg[d])}) < MaxActivityCount

\* The HTTP client ends every exchange with a response or a failure, which
\* onResponseEvent receives alike.
ExchangesEnd == \A d \in Dialogs : WF_vars(HttpAppAnswers(d))

\* Every HTTP activity is ended, by the SBB, as long as exchanges end.
HttpActivityEnded ==
  ExchangesEnd =>
    \A d \in Dialogs :
      dlg[d].conn = "open" /\ dlg[d].urlOk ~> dlg[d].conn = "none"

-----------------------------------------------------------------------------
(***************************************************************************)
(* What the gateway promises: DialogLifecycle.                             *)
(***************************************************************************)
Phase(r) == CASE r.owner = "none" -> "idle"
              [] r.owner = "parent" -> IF r.aci THEN "offered" ELSE "refused"
              [] OTHER -> IF ~r.aci THEN "closed"
                          ELSE IF r.cdr = "none" THEN "open" ELSE "billed"

Lifecycle == INSTANCE DialogLifecycle
  WITH Statuses <- CdrStatuses,
       phase <- [d \in Dialogs |-> Phase(dlg[d])],
       record <- [d \in Dialogs |-> dlg[d].cdr]

\* Every step of the gateway is a step of the lifecycle of one dialog or none.
LifecycleSafe == Lifecycle!Spec

\* Every established dialog is billed, then released, though neither the mobile
\* nor the application may do anything any more.
LifecycleLive == Lifecycle!FairSpec
=============================================================================
