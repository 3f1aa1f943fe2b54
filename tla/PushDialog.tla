----------------------------- MODULE PushDialog -----------------------------
(***************************************************************************)
(* One PUSH dialog (an application sends a message to a mobile) as the     *)
(* gateway holds it: the query that locates the subscriber, the MAP dialog *)
(* with the mobile, the HTTP request or SIP dialog of the application, the *)
(* application timer and the CDR.  As in PullDialog, everything here is a  *)
(* pure function on the record and a handler is a pipeline of them.        *)
(***************************************************************************)
EXTENDS DialogServices

(***************************************************************************)
(* MAP side.  "idle" is a dialog that was created and not sent yet.        *)
(***************************************************************************)
MapStates == {"none", "idle", "initialSent", "active", "expunged"}

TcapTypes == {"Begin", "Continue", "End", "Abort"}

\* What the gateway asks of the mobile.
Operations == {"request", "notify", "process"}

\* OtherMessage: ProcessUnstructuredSSResponse, UnstructuredSSRequest and
\* UnstructuredSSNotifyRequest, whose handlers are alike.
AnswerEvents == {"UnstructuredSSResponse", "NotifyResponse", "OtherMessage"}

MapEvents == AnswerEvents \cup
             {"Accept", "Reject", "UserAbort", "ProviderAbort", "DialogTimeout",
              "InvokeTimeout", "ErrorComponent", "RejectComponent", "Timer",
              "Release"}

\* How the dialog with the mobile came to its end.
Endings == {"open", "answer", "final", "abort", "release", "peerEnd",
            "peerAbort", "idle"}

(***************************************************************************)
(* The query of the home register, on a MAP dialog of its own.             *)
(***************************************************************************)
SriStates == {"none", "open", "ended"}

SriEvents == {"Response", "ErrorComponent", "RejectComponent", "Delimiter",
              "Close", "RejectAcn", "Reject", "UserAbort", "ProviderAbort",
              "DialogTimeout"}

Refusals == {"none", "error", "reject"}

(***************************************************************************)
(* Application side.  HTTP: POSTs in the session, one of which may be      *)
(* suspended until it can be answered.  SIP: requests of the application   *)
(* and its answers to the gateway.                                         *)
(***************************************************************************)
Contexts == {"none", "first", "session"}

SessionPosts == {"request", "notify", "end", "abort", "bad"}

SipEvents == {"infoRequest", "infoNotify", "infoBad", "bye", "failure",
              "dialogTimeout"}

AppEvents == SessionPosts \cup SipEvents

\* HTTP: the session activity.  SIP: "bye" while the BYE of the gateway is
\* unanswered, "lateBye" after a delete() on top of it.
ConnStates == {"none", "open", "confirmed", "bye", "lateBye", "over"}

Owners == {"none", "http", "sip"}

(***************************************************************************)
(* RecordStatus.  The causes of a MAP error component, of the mobile or of *)
(* the home register, are one status each.                                 *)
(***************************************************************************)
SriStatuses == {"SRI_MAP_ERROR_COMPONENT", "SRI_MAP_REJECT_COMPONENT",
                "SRI_DIALOG_REJECTED", "SRI_DIALOG_USER_ABORT",
                "SRI_PROVIDER_ABORT", "SRI_DIALOG_TIMEOUT"}

CdrStatuses == SriStatuses \cup
               {"SUCCESS", "ABORT_APP", "FAILED_APP_TIMEOUT",
                "FAILED_CORRUPTED_MESSAGE", "FAILED_TRANSPORT_ERROR",
                "FAILED_TRANSPORT_FAILURE",
                "FAILED_SYSTEM_FAILURE", "FAILED_DIALOG_REJECTED",
                "FAILED_DIALOG_USER_ABORT", "FAILED_PROVIDER_ABORT",
                "FAILED_DIALOG_TIMEOUT", "FAILED_INVOKE_TIMEOUT",
                "FAILED_MAP_ERROR_COMPONENT", "FAILED_MAP_REJECT_COMPONENT"}

PushRecord ==
  [ owner     : Owners,
    op        : Operations,        \* the first message of the application
    handshake : BOOLEAN,           \* emptyDialogHandshake
    last      : BOOLEAN,           \* prearrangedEnd in the first message
    sri       : SriStates,         \* the query dialog the SriSbb is attached to
    sriq      : Seq(SriEvents),
    located   : BOOLEAN,           \* CMP sendRoutingInfoForSMResponse is there
    refusal   : Refusals,          \* CMP errorComponent, rejectProblem
    queries   : Nat,
    answers   : Nat,               \* how often the SriSbb answered its parent
    map       : MapStates,
    tcap      : TcapTypes,
    invokes   : SUBSET Operations, \* operations the mobile has to answer
    ending    : Endings,
    aci       : BOOLEAN,           \* the MAP activity is still attached
    mapq      : Seq(MapEvents),
    ctx       : Contexts,          \* CMP eventContext: the suspended POST
    conn      : ConnStates,
    info      : BOOLEAN,           \* an INFO of the gateway is unanswered
    appq      : Seq(AppEvents),
    posts     : Nat,               \* messages of the application so far
    final     : BOOLEAN,           \* CMP finalMessageSent
    timerID   : Nat,
    timers    : SUBSET Nat,
    cdr       : CdrStatuses \cup {"none"},
    established : BOOLEAN,         \* the dialog's share of DialogsPushEstablished
    failed    : BOOLEAN ]          \* and whether it has one of DialogsPushFailed

NoPush ==
  [ owner |-> "none", op |-> "request", handshake |-> FALSE, last |-> FALSE,
    sri |-> "none", sriq |-> << >>, located |-> FALSE, refusal |-> "none",
    queries |-> 0, answers |-> 0, map |-> "none", tcap |-> "Begin",
    invokes |-> {}, ending |-> "open", aci |-> FALSE, mapq |-> << >>,
    ctx |-> "none", conn |-> "none", info |-> FALSE, appq |-> << >>,
    posts |-> 0, final |-> FALSE, timerID |-> 0, timers |-> {},
    cdr |-> "none", established |-> FALSE, failed |-> FALSE ]

-----------------------------------------------------------------------------
(***************************************************************************)
(* The MAP stack: what it accepts depends on the state of the dialog.      *)
(***************************************************************************)
Live(r) == r.map \in {"initialSent", "active"}

Expunge(r, how) ==
  [Fire(r, "Release") EXCEPT !.map = "expunged", !.invokes = {}, !.ending = how]

\* createNewDialog and the attachment to its activity.
CreateNewDialog(r) == [r EXCEPT !.map = "idle", !.aci = TRUE]

\* send() throws while the TC-BEGIN is unanswered and when the dialog is over.
SendOk(r) == r.map \in {"idle", "active"}

MapSend(r, ops) ==
  [r EXCEPT !.map = IF @ = "idle" THEN "initialSent" ELSE @, !.invokes = @ \cup ops]

\* close() needs a dialog that the mobile has accepted.
CloseOk(r) == r.map = "active"

\* abort() and release() do nothing on a dialog that is over.
MapAbort(r) == IF Live(r) THEN Expunge(r, "abort") ELSE r

MapRelease(r) == IF r.map = "idle" \/ Live(r) THEN Expunge(r, "release") ELSE r

-----------------------------------------------------------------------------
(***************************************************************************)
(* Services of both server SBBs.                                           *)
(***************************************************************************)
UpdateDialogFailureStat(r) == [r EXCEPT !.failed = TRUE]

UpdateDialogEstablishedStat(r) == [r EXCEPT !.established = TRUE]

Fail(r, status) == CreateCdr(UpdateDialogFailureStat(r), status)

\* Faulty variant: a dialog in service is left to the stack.
AbortMapDialogLeft(r) == IF r.map = "active" THEN r ELSE MapRelease(r)

AbortMapDialog(r) == IF r.map = "active" THEN MapAbort(r) ELSE MapRelease(r)

\* sendErrorMessage: a notification to the mobile, whose answer will end the
\* dialog; the exception of a dialog that is over is swallowed.
SendErrorMessage(r) ==
  IF SendOk(r) THEN [MapSend(r, {"notify"}) EXCEPT !.final = TRUE] ELSE r

\* onDialogRelease; removeDialogsInProcess is left to the caller.
OnDialogRelease(r) == [r EXCEPT !.aci = FALSE, !.mapq = << >>, !.timers = {}]
=============================================================================
