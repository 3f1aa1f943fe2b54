------------------------------ MODULE UssdPush ------------------------------
(***************************************************************************)
(* The PUSH service of the USSD gateway: applications behind HTTP and SIP  *)
(* that start dialogs, the query of the home register, the MAP stack and   *)
(* the mobiles behind it, and the server SBBs in between.                  *)
(*                                                                         *)
(* As in UssdPull a handler is an atomic step, each activity (the query,   *)
(* the MAP dialog, the session or SIP dialog of the application) delivers  *)
(* its events in order, and the activities interleave.  Dialogs share the  *)
(* counter of dialogs in process and nothing else.                         *)
(***************************************************************************)
EXTENDS HttpServerSbb, SipServerSbb, Integers, FiniteSets

CONSTANTS
  Dialogs,
  Transports,        \* what applications use: "http", "sip"
  Firsts,            \* first messages: operation, handshake, prearranged end
  Posts,             \* what follows in the session or SIP dialog
  Faults,            \* what may throw: "query", "create", "send", "reply"
  HlrContinues,      \* answers after which the register leaves the query open
  SuspendTimeouts,   \* whether SLEE may give up a suspended POST
  MaxPosts,          \* bound: messages of the application in one dialog
  MaxQueries         \* bound: queries for one dialog

\* The query has one component for an answer, which a message may leave out.
Components == {<< >>, << "Response" >>, << "ErrorComponent" >>, << "RejectComponent" >>}

ASSUME DialogsAssumption == IsFiniteSet(Dialogs)
ASSUME BoundsAssumption == MaxPosts \in Nat /\ MaxQueries \in Nat
ASSUME InputsAssumption ==
  /\ Transports \subseteq {"http", "sip"}
  /\ Firsts \subseteq [op : Operations, handshake : BOOLEAN, last : BOOLEAN]
  /\ Posts \subseteq AppEvents
  /\ Faults \subseteq {"query", "create", "send", "reply"}
  /\ HlrContinues \subseteq Components
  /\ SuspendTimeouts \in BOOLEAN

VARIABLES
  dlg,        \* the record of each dialog
  inProcess   \* UssdStatAggregator: dialogsInProcess

vars == << dlg, inProcess >>

Init == /\ dlg = [d \in Dialogs |-> NoPush]
        /\ inProcess = 0

Becomes(d, r) == dlg' = [dlg EXCEPT ![d] = r]

\* A step of d that leaves the shared counter alone.
Update(d, r) == Becomes(d, r) /\ UNCHANGED inProcess

-----------------------------------------------------------------------------
(***************************************************************************)
(* A new dialog.  Its first POST or INVITE meets no other event of it.     *)
(***************************************************************************)
New(d, transport) == dlg[d].owner = "none" /\ transport \in Transports

HttpPostUnusable(d) == New(d, "http") /\ Update(d, OnUnusablePost(dlg[d]))

HttpPost(d) ==
  /\ New(d, "http")
  /\ \E first \in Firsts : Becomes(d, OnPost(dlg[d], first))
  /\ inProcess' = inProcess + 1

HttpPostNoQuery(d) ==
  /\ New(d, "http") /\ "query" \in Faults
  /\ \E first \in Firsts : Update(d, OnPostNoQuery(dlg[d], first))

SipOperations == {first.op : first \in Firsts} \ {"process"}

SipInviteUnusable(d) == New(d, "sip") /\ Update(d, OnUnusableInvite(dlg[d]))

SipInvite(d) ==
  /\ New(d, "sip")
  /\ \E op \in SipOperations :
       \/ Becomes(d, OnInvite(dlg[d], op))
       \/ "reply" \in Faults /\ Becomes(d, OnInviteNoReply(dlg[d], op))
  /\ inProcess' = inProcess + 1

\* The dialog was counted before the query failed, and nobody counts it down.
SipInviteNoQuery(d) ==
  /\ New(d, "sip") /\ "query" \in Faults
  /\ \E op \in SipOperations : Becomes(d, OnInviteNoQuery(dlg[d], op))
  /\ inProcess' = inProcess + 1

-----------------------------------------------------------------------------
(***************************************************************************)
(* The home register, on the dialog of the query.                          *)
(***************************************************************************)
FireSri(r, es) == [r EXCEPT !.sriq = @ \o es]

QueryOver(r, es) == [FireSri(r, es) EXCEPT !.sri = "ended"]

Unanswered(d) == dlg[d].sri = "open" /\ dlg[d].sriq = << >>

HlrAnswers(d) ==
  /\ Unanswered(d)
  /\ \E c \in Components : Update(d, QueryOver(dlg[d], Append(c, "Close")))

\* A TC-CONTINUE: the register does not end the dialog.
HlrAnswersOpen(d) ==
  /\ Unanswered(d)
  /\ \E c \in HlrContinues : Update(d, FireSri(dlg[d], Append(c, "Delimiter")))

\* What may still come after an answer: the location, if there was no component.
LateComponents ==
  {<< >>} \cup IF << >> \in HlrContinues THEN {<< "Response" >>} ELSE {}

HlrEnds(d) ==
  /\ dlg[d].sri = "open" /\ dlg[d].sriq # << >>
  /\ \E c \in LateComponents : Update(d, QueryOver(dlg[d], Append(c, "Close")))

HlrAborts(d) ==
  /\ dlg[d].sri = "open"
  /\ \E e \in {"UserAbort", "ProviderAbort"} : Update(d, QueryOver(dlg[d], << e >>))

\* A refusal may name an older application context, for another query.
HlrRejects(d) ==
  /\ Unanswered(d)
  /\ \/ Update(d, QueryOver(dlg[d], << "Reject" >>))
     \/ dlg[d].queries < MaxQueries /\ Update(d, QueryOver(dlg[d], << "RejectAcn" >>))

\* The idle timer of the query dialog.
QueryExpires(d) ==
  /\ dlg[d].sri = "open"
  /\ Update(d, QueryOver(dlg[d], << "DialogTimeout" >>))

-----------------------------------------------------------------------------
(***************************************************************************)
(* The SriSbb and its answer to the parent.                                *)
(***************************************************************************)
SriDelivered(d, es) == dlg[d].sriq # << >> /\ Head(dlg[d].sriq) \in es

SriRest(r) == [r EXCEPT !.sriq = Tail(@)]

OnSriResult(r, fault) ==
  IF r.owner = "sip" THEN SipOnSriResult(r, fault) ELSE HttpOnSriResult(r, fault)

OnSriError(r, status) ==
  IF r.owner = "sip" THEN SipOnSriError(r, status) ELSE HttpOnSriError(r, status)

ParentAnswered(r) == [r EXCEPT !.answers = @ + 1]

\* Without a MAP dialog nothing would fire the Release that counts down.
TellResult(d, r) ==
  \E fault \in {"none"} \cup (Faults \cap {"create", "send"}) :
    /\ Becomes(d, OnSriResult(ParentAnswered(r), fault))
    /\ inProcess' = IF fault = "create" THEN inProcess - 1 ELSE inProcess

\* Faulty variant: the dialog that is given up stays in process.
TellErrorCounted(d, r, status) == Update(d, OnSriError(ParentAnswered(r), status))

\* Faulty variant: the parent is not told.
TellErrorLost(d, r, status) == Update(d, r)

TellError(d, r, status) ==
  /\ Becomes(d, OnSriError(ParentAnswered(r), status))
  /\ inProcess' = inProcess - 1

SriStoresComponent(d) ==
  /\ SriDelivered(d, {"Response", "ErrorComponent", "RejectComponent"})
  /\ Update(d, StoreComponent(SriRest(dlg[d]), Head(dlg[d].sriq)))

\* Faulty variant: the SriSbb still listens to the query it has answered.
SriFullResponseAttached(d, r) ==
  IF r.located THEN TellResult(d, r) ELSE TellError(d, r, NotLocatedStatus(r))

\* onSriFullResponse; after an error the SriSbb stays attached to the query.
SriFullResponse(d, r) ==
  IF r.located
  THEN TellResult(d, DetachFromCurrentDialog(r))
  ELSE TellError(d, r, NotLocatedStatus(r))

SriClose(d) ==
  /\ SriDelivered(d, {"Close"})
  /\ SriFullResponse(d, SriRest(dlg[d]))

SriDelimiter(d) ==
  /\ SriDelivered(d, {"Delimiter"})
  /\ SriFullResponse(d, CloseQuery(SriRest(dlg[d])))

\* onDialogReject with an alternative application context.
SriRetries(d) ==
  LET r == DetachFromCurrentDialog(SriRest(dlg[d]))
  IN  /\ SriDelivered(d, {"RejectAcn"})
      /\ \/ Update(d, PerformSriQuery(r))
         \/ "query" \in Faults /\ TellError(d, r, QueryFailedStatus("RejectAcn"))

SriQueryFails(d) ==
  /\ SriDelivered(d, {"Reject", "UserAbort", "ProviderAbort", "DialogTimeout"})
  /\ TellError(d, SriRest(dlg[d]), QueryFailedStatus(Head(dlg[d].sriq)))

-----------------------------------------------------------------------------
(***************************************************************************)
(* The mobile and the MAP stack.                                           *)
(***************************************************************************)
\* The first TC message of the mobile accepts the dialog.
Reached(r, tcap) ==
  IF r.map = "initialSent"
  THEN Fire([r EXCEPT !.tcap = tcap, !.map = "active"], "Accept")
  ELSE [r EXCEPT !.tcap = tcap]

AnswerOf(op) == CASE op = "request" -> "UnstructuredSSResponse"
                  [] op = "notify" -> "NotifyResponse"
                  [] op = "process" -> "OtherMessage"

Answer(r, op, e) == Fire([r EXCEPT !.invokes = @ \ {op}], e)

\* What the mobile may say of operation op.
Replies(op) == {AnswerOf(op), "ErrorComponent", "RejectComponent"}

MobileAnswers(d) ==
  LET r == Reached(dlg[d], "Continue")
  IN  /\ Live(dlg[d])
      /\ \/ dlg[d].map = "initialSent" /\ Update(d, r)
         \/ \E op \in dlg[d].invokes : \E e \in Replies(op) : Update(d, Answer(r, op, e))

\* A TC-END; the Close that the stack fires for it has no handler.
MobileEnds(d) ==
  LET r == Reached(dlg[d], "End")
  IN  /\ Live(dlg[d])
      /\ \/ Update(d, Expunge(r, "peerEnd"))
         \/ \E op \in dlg[d].invokes : \E e \in Replies(op) :
              Update(d, Expunge(Answer(r, op, e), "peerEnd"))

\* A TC-ABORT; only an unanswered TC-BEGIN can be rejected.
MobileAborts(d) ==
  /\ Live(dlg[d])
  /\ \E e \in {"Reject", "UserAbort", "ProviderAbort"} :
       /\ e = "Reject" => dlg[d].map = "initialSent"
       /\ Update(d, Expunge(Fire([dlg[d] EXCEPT !.tcap = "Abort"], e), "peerAbort"))

InvokeExpires(d) ==
  /\ Live(dlg[d])
  /\ \E op \in dlg[d].invokes :
       Update(d, Fire([dlg[d] EXCEPT !.invokes = @ \ {op}], "InvokeTimeout"))

\* The idle timer of the dialog: the stack keeps the dialog for the handler to
\* abort, or has released it by the time the handler runs.
DialogExpires(d) ==
  LET r == Fire(dlg[d], "DialogTimeout")
  IN  /\ Live(dlg[d])
      /\ \A i \in 1 .. Len(dlg[d].mapq) : dlg[d].mapq[i] # "DialogTimeout"
      /\ Update(d, r) \/ Update(d, Expunge(r, "idle"))

\* The SLEE timer, armed with dialogtimeout when the mobile has answered.
TimerExpires(d) ==
  /\ Live(dlg[d])
  /\ \E t \in dlg[d].timers :
       Update(d, Fire([dlg[d] EXCEPT !.timers = @ \ {t}], "Timer"))

-----------------------------------------------------------------------------
(***************************************************************************)
(* The applications.                                                       *)
(***************************************************************************)
Sends(r, k) == [r EXCEPT !.appq = Append(@, k), !.posts = @ + 1]

HttpAppPosts(d) ==
  /\ dlg[d].conn = "open" /\ dlg[d].posts < MaxPosts
  /\ \E k \in Posts \cap SessionPosts : Update(d, Sends(dlg[d], k))

\* SLEE resumes a POST that was suspended for EVENT_SUSPEND_TIMEOUT; the SBB is
\* not told, and the POST not answered.
SuspendExpires(d) ==
  /\ SuspendTimeouts /\ dlg[d].ctx # "none"
  /\ Update(d, ResumeHttpEventContext(dlg[d]))

HungUp(r) == \E i \in 1 .. Len(r.appq) : r.appq[i] = "bye"

SipAppSends(d) ==
  /\ dlg[d].conn \in {"confirmed", "bye"} /\ ~HungUp(dlg[d])
  /\ dlg[d].posts < MaxPosts
  /\ \E k \in Posts \cap {"infoRequest", "infoNotify", "infoBad", "bye"} :
       Update(d, Sends(dlg[d], k))

\* A failure response to an INFO or a BYE of the gateway; success is silent.
SipAppRefuses(d) ==
  /\ "failure" \in Posts
  /\ \/ /\ dlg[d].info
        /\ Update(d, [dlg[d] EXCEPT !.info = FALSE, !.appq = Append(@, "failure")])
     \/ /\ dlg[d].conn \in {"bye", "lateBye"}
        /\ Update(d, [dlg[d] EXCEPT !.conn = "over", !.appq = Append(@, "failure")])

SipAppAcceptsBye(d) ==
  /\ dlg[d].conn = "bye"
  /\ Update(d, [dlg[d] EXCEPT !.conn = "over"])

\* The SIP stack gives up a dialog that is not acknowledged.
SipDialogExpires(d) ==
  /\ "dialogTimeout" \in Posts /\ dlg[d].conn = "confirmed"
  /\ Update(d, [dlg[d] EXCEPT !.conn = "over", !.appq = Append(@, "dialogTimeout")])

-----------------------------------------------------------------------------
(***************************************************************************)
(* Delivery to the server SBB of the dialog: the MAP activity.             *)
(***************************************************************************)
Delivered(d, e) == dlg[d].mapq # << >> /\ Head(dlg[d].mapq) = e

ByOwner(r, http, sip) == IF r.owner = "sip" THEN sip ELSE http

HandleUnstructuredSSResponse(d) ==
  LET r == Rest(dlg[d])
  IN  /\ Delivered(d, "UnstructuredSSResponse")
      /\ Update(d, ByOwner(r, HttpOnUnstructuredSSResponse(r),
                              SipOnUnstructuredSSResponse(r)))

HandleNotifyResponse(d) ==
  LET r == Rest(dlg[d])
  IN  /\ Delivered(d, "NotifyResponse")
      /\ Update(d, ByOwner(r, HttpOnNotifyResponse(r), SipOnNotifyResponse(r)))

HandleOtherMessage(d) ==
  LET r == Rest(dlg[d])
  IN  /\ Delivered(d, "OtherMessage")
      /\ Update(d, ByOwner(r, ProcessReceivedMapEvent(r), SipProcessReceivedMapEvent(r)))

HandleAccept(d) ==
  LET r == Rest(dlg[d])
  IN  /\ Delivered(d, "Accept")
      /\ Update(d, ByOwner(r, HttpOnDialogAccept(r), SipOnDialogAccept(r)))

OnAbortIndication(d, e, status) ==
  LET r == Rest(dlg[d])
  IN  /\ Delivered(d, e)
      /\ Update(d, ByOwner(r, HttpOnAbortIndication(r, status),
                              SipOnAbortIndication(r, status)))

HandleReject(d) == OnAbortIndication(d, "Reject", "FAILED_DIALOG_REJECTED")

HandleUserAbort(d) == OnAbortIndication(d, "UserAbort", "FAILED_DIALOG_USER_ABORT")

HandleProviderAbort(d) == OnAbortIndication(d, "ProviderAbort", "FAILED_PROVIDER_ABORT")

OnComponentFailure(d, e, status) ==
  LET r == Rest(dlg[d])
  IN  /\ Delivered(d, e)
      /\ Update(d, ByOwner(r, HttpOnComponentFailure(r, status),
                              SipOnComponentFailure(r, status)))

HandleInvokeTimeout(d) == OnComponentFailure(d, "InvokeTimeout", "FAILED_INVOKE_TIMEOUT")

HandleRejectComponent(d) ==
  OnComponentFailure(d, "RejectComponent", "FAILED_MAP_REJECT_COMPONENT")

HandleErrorComponent(d) ==
  LET r == Rest(dlg[d])
  IN  /\ Delivered(d, "ErrorComponent")
      /\ Update(d, ByOwner(r, HttpOnComponentFailure(r, "FAILED_MAP_ERROR_COMPONENT"),
                              SipOnErrorComponent(r)))

HandleDialogTimeout(d) ==
  LET r == Rest(dlg[d])
  IN  /\ Delivered(d, "DialogTimeout")
      /\ Update(d, ByOwner(r, HttpOnDialogTimeout(r), SipOnDialogTimeout(r)))

HandleTimer(d) ==
  LET r == Rest(dlg[d])
  IN  /\ Delivered(d, "Timer")
      /\ Update(d, ByOwner(r, HttpOnTimerEvent(r), SipOnTimerEvent(r)))

HandleRelease(d) ==
  /\ Delivered(d, "Release")
  /\ Becomes(d, OnDialogRelease(dlg[d]))
  /\ inProcess' = inProcess - 1

-----------------------------------------------------------------------------
(***************************************************************************)
(* Delivery to the server SBB: the activity of the application.            *)
(***************************************************************************)
Received(d, ks) == dlg[d].appq # << >> /\ Head(dlg[d].appq) \in ks

AppRest(r) == [r EXCEPT !.appq = Tail(@)]

\* Nothing is delivered on a session whose POST is suspended.
HandleSessionPost(d) ==
  /\ Received(d, SessionPosts) /\ dlg[d].ctx # "session"
  /\ Update(d, OnSessionPost(AppRest(dlg[d]), Head(dlg[d].appq)))

HandleInfo(d) ==
  /\ Received(d, {"infoRequest", "infoNotify", "infoBad"})
  /\ \/ Update(d, OnDialogInfo(AppRest(dlg[d]), Head(dlg[d].appq)))
     \/ "reply" \in Faults /\ Update(d, OnInfoNoReply(AppRest(dlg[d])))

HandleBye(d) ==
  /\ Received(d, {"bye"})
  /\ \/ Update(d, OnDialogBye(AppRest(dlg[d])))
     \/ "reply" \in Faults /\ Update(d, OnByeNoReply(AppRest(dlg[d])))

HandleTransportError(d) ==
  /\ Received(d, {"failure", "dialogTimeout"})
  /\ Update(d, OnTransportError(AppRest(dlg[d])))

-----------------------------------------------------------------------------
Register(d) ==
  \/ HlrAnswers(d) \/ HlrAnswersOpen(d) \/ HlrEnds(d)
  \/ HlrAborts(d) \/ HlrRejects(d) \/ QueryExpires(d)

HandleSri(d) ==
  \/ SriStoresComponent(d) \/ SriClose(d) \/ SriDelimiter(d)
  \/ SriRetries(d) \/ SriQueryFails(d)

Mobile(d) ==
  \/ MobileAnswers(d) \/ MobileEnds(d) \/ MobileAborts(d)
  \/ InvokeExpires(d) \/ DialogExpires(d) \/ TimerExpires(d)

HandleMap(d) ==
  \/ HandleUnstructuredSSResponse(d) \/ HandleNotifyResponse(d)
  \/ HandleOtherMessage(d) \/ HandleAccept(d) \/ HandleReject(d)
  \/ HandleUserAbort(d) \/ HandleProviderAbort(d) \/ HandleInvokeTimeout(d)
  \/ HandleRejectComponent(d) \/ HandleErrorComponent(d)
  \/ HandleDialogTimeout(d) \/ HandleTimer(d) \/ HandleRelease(d)

Application(d) ==
  \/ HttpPostUnusable(d) \/ HttpPost(d) \/ HttpPostNoQuery(d)
  \/ SipInviteUnusable(d) \/ SipInvite(d) \/ SipInviteNoQuery(d)
  \/ HttpAppPosts(d) \/ SuspendExpires(d) \/ SipAppSends(d)
  \/ SipAppRefuses(d) \/ SipAppAcceptsBye(d) \/ SipDialogExpires(d)

HandleApp(d) ==
  \/ HandleSessionPost(d) \/ HandleInfo(d) \/ HandleBye(d) \/ HandleTransportError(d)

Next == \E d \in Dialogs : \/ Register(d) \/ HandleSri(d) \/ Mobile(d)
                           \/ HandleMap(d) \/ Application(d) \/ HandleApp(d)

Spec == Init /\ [][Next]_vars

(***************************************************************************)
(* SLEE delivers what is fired, and the timers of the stack and of SLEE    *)
(* go off.  Register, mobiles and applications may stay silent for ever.   *)
(***************************************************************************)
Fairness == \A d \in Dialogs :
              /\ WF_vars(HandleSri(d))
              /\ WF_vars(HandleMap(d))
              /\ WF_vars(HandleApp(d))
              /\ WF_vars(QueryExpires(d))
              /\ WF_vars(DialogExpires(d))

FairSpec == Spec /\ Fairness

-----------------------------------------------------------------------------
(***************************************************************************)
(* Properties.                                                             *)
(***************************************************************************)
\* Every dialog is a push record, and the counter an integer.
TypeOK == dlg \in [Dialogs -> PushRecord] /\ inProcess \in Int

Locating(r) == r.queries > 0 /\ r.answers = 0

\* onInvite counts the dialog before it asks for the query that then throws.
Forgotten(r) == r.owner = "sip" /\ r.posts > 0 /\ r.queries = 0

\* The counter of dialogs in process is the number of dialogs that are being
\* located or have a MAP dialog, and of those whose onInvite forgot them
\* (addDialogsInProcess and removeDialogsInProcess of both server SBBs are paired
\* on every path, with the Release of the MAP dialog in the general case).
InProcessExact ==
  inProcess = Cardinality({d \in Dialogs : Locating(dlg[d]) \/ dlg[d].aci})
              + Cardinality({d \in Dialogs : Forgotten(dlg[d])})

\* The SriSbb answers its parent once, whatever a register that closes its
\* dialogs sends, in whatever order (it has to detach from the dialog that it
\* has answered, for more events are under way).
SriAnsweredOnce == \A d \in Dialogs : dlg[d].answers <= 1

\* Once the session of an HTTP application is ended, its dialog with the mobile
\* is over too, or the end is under way: nobody is left to continue it.
SessionEndedDialogOver ==
  \A d \in Dialogs :
    dlg[d].owner = "http" /\ dlg[d].conn = "over" => ~ Live(dlg[d])

\* A POST that is suspended has somebody to resume it, the register or the mobile,
\* except when the mobile has ended the dialog without an answer, or the answer
\* to an error message ended it.
SuspendedPostGuarded ==
  \A d \in Dialogs :
    LET r == dlg[d]
    IN  r.ctx # "none" /\ r.answers > 0 /\ ~r.aci => r.ending \in {"peerEnd", "final"}

\* While the gateway is waiting for the mobile no timer is armed for the
\* application of an HTTP dialog.
TimerOnlyWhileAppThinks ==
  \A d \in Dialogs : dlg[d].ctx = "session" => dlg[d].timers = {}

\* A dialog that has its CDR is over, or the mobile is shown an error message
\* first.  Not so over SIP: the CDR of an INFO, a BYE or a failure that comes before
\* the mobile has accepted the dialog does not keep the gateway from pushing it,
\* and onErrorComponent leaves it open.
BilledOver ==
  \A d \in Dialogs :
    LET r == dlg[d]
    IN  r.cdr # "none" /\ Live(r) =>
          \/ r.cdr = "FAILED_APP_TIMEOUT"
          \/ r.owner = "sip" /\ r.cdr \in {"SUCCESS", "FAILED_CORRUPTED_MESSAGE",
                                           "FAILED_TRANSPORT_ERROR",
                                           "FAILED_TRANSPORT_FAILURE",
                                           "FAILED_MAP_ERROR_COMPONENT"}

\* What the CDR of an HTTP dialog says is how the dialog ended.
HttpCdrAgrees ==
  \A d \in Dialogs :
    LET r == dlg[d]
    IN  r.owner = "http" =>
          /\ r.cdr = "SUCCESS" => r.ending = "answer"
          /\ r.cdr = "ABORT_APP" => ~ Live(r)
          /\ r.cdr = "FAILED_DIALOG_REJECTED" => r.ending = "peerAbort"

\* A dialog is not established by the handshake alone: the message of the
\* application has been sent too (the early return from the catch of
\* onDialogAccept).
EstablishedSent ==
  \A d \in Dialogs :
    dlg[d].established =>
      dlg[d].cdr \notin SriStatuses \cup {"FAILED_SYSTEM_FAILURE"}

\* The SIP application is told of the end of a dialog.
SipTold ==
  \A d \in Dialogs :
    LET r == dlg[d]
    IN  r.owner = "sip" /\ r.answers > 0 /\ ~r.aci /\ r.conn = "confirmed" =>
          \/ r.ending \in {"peerEnd", "final"}
          \/ r.cdr \in {"FAILED_TRANSPORT_ERROR", "FAILED_TRANSPORT_FAILURE"}

\* The session of an HTTP dialog that failed is ended, unless warnings are logged
\* (then it needs a suspended POST), or the application was late.
FailedSessionEnded ==
  ~ WarningEnabled =>
    \A d \in Dialogs :
      LET r == dlg[d]
      IN  r.owner = "http" /\ r.cdr \notin {"none", "FAILED_APP_TIMEOUT"} => r.conn = "over"

\* An answer of the mobile finds the POST it belongs to, unless the dialog has
\* failed by the time the answer is handled.
AnswerFindsPost ==
  \A d \in Dialogs :
    LET r == dlg[d]
    IN  r.owner = "http" /\ r.cdr = "none" /\ r.mapq # << >> /\ Head(r.mapq) \in AnswerEvents
          => r.ctx # "none"

\* The CDR of a dialog is written once.
CdrWriteOnce ==
  [][\A d \in Dialogs : dlg[d].cdr # "none" => dlg'[d].cdr = dlg[d].cdr]_vars

-----------------------------------------------------------------------------
Phase(r) ==
  CASE r.owner = "none" -> "idle"
    [] r.owner # "none" /\ r.queries = 0 -> "refused"
    [] Locating(r) -> "locating"
    [] r.answers > 0 /\ r.aci -> "pushing"
    [] OTHER -> "done"

Lifecycle == INSTANCE PushLifecycle WITH
  Statuses <- CdrStatuses,
  phase <- [d \in Dialogs |-> Phase(dlg[d])],
  record <- [d \in Dialogs |-> dlg[d].cdr],
  inProcess <- inProcess - Cardinality({d \in Dialogs : Forgotten(dlg[d])})

\* The PUSH service implements PushLifecycle; the dialogs that onInvite forgot
\* are taken off the counter.
LifecycleSafe == Lifecycle!Spec

\* And it brings every dialog to its end.
LifecycleLive == Lifecycle!FairSpec

\* A POST that the gateway holds is answered, with the exceptions of
\* SuspendedPostGuarded.
PostAnswered ==
  \A d \in Dialogs :
    dlg[d].ctx # "none" ~> dlg[d].ctx = "none" \/ dlg[d].ending \in {"peerEnd", "final"}
=============================================================================
