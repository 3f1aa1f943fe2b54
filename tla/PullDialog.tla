----------------------------- MODULE PullDialog -----------------------------
(***************************************************************************)
(* One PULL dialog (a mobile subscriber dials a short code) as the USSD    *)
(* gateway holds it: the MAP dialog inside the SS7 stack, the SLEE event   *)
(* queues that separate the stack and the application from the SBBs, the   *)
(* application timer, the CDR and the share of the dialog in every         *)
(* statistic counter.  Everything here is a pure function on the record,   *)
(* so a handler of the code is a pipeline of these operators.              *)
(***************************************************************************)
EXTENDS DialogServices

(***************************************************************************)
(* MAP stack: MAPDialogState without the states of an outgoing dialog.     *)
(***************************************************************************)
MapStates == {"none", "initialReceived", "active", "expunged"}

\* getTCAPMessageType(): the last TC primitive that came from the network.
TcapTypes == {"Begin", "Continue", "End", "Abort"}

(***************************************************************************)
(* Events the MAP resource adaptor (and the timer facility) fires on the   *)
(* activity of the dialog.  A routed PULL request is one event that the    *)
(* parent SBB and then its new child receive.                              *)
(***************************************************************************)
MapEvents == {"ProcessUnstructuredSSRequest", "UnstructuredSSResponse",
              "Reject", "UserAbort", "ProviderAbort", "Close",
              "DialogTimeout", "InvokeTimeout", "ErrorComponent",
              "RejectComponent", "Timer", "Release"}

\* How the mobile side of the dialog came to its end.
Endings == {"open", "answer", "drop", "error", "abort", "peer", "idle"}

(***************************************************************************)
(* Application side.  HTTP: the answers to a POST.  SIP: responses and     *)
(* requests of the application on the SIP dialog of the gateway.           *)
(***************************************************************************)
HttpAnswers == {"continue", "notify", "reply", "end", "drop", "abort", "bad",
                "non200"}

SipEvents == {"success", "successNoAck", "failure", "redirect",
              "infoRequest", "infoError", "infoEmpty", "infoGarbled",
              "byeAnswer", "byeError", "byeEmpty", "byeGarbled"}

AppEvents == HttpAnswers \cup SipEvents

\* HTTP: none/open/ending (endActivity called, ActivityEnd not delivered yet).
\* SIP: "bye" while the BYE of the gateway is unanswered; "lateInvite" and
\* "lateBye" after a local delete() that left such a transaction behind.
HttpStates == {"none", "open", "ending"}
SipStates == {"none", "early", "confirmed", "bye", "lateInvite", "lateBye", "over"}

\* The operation of the gateway the mobile has to answer.
Invokes == {"none", "request", "notify"}

Transports == {"http", "sip"}
Owners == {"none", "parent"} \cup Transports

\* What the routing table says about the dialled code.
Rules == {"http", "sip", "none", "undecodable"}

(***************************************************************************)
(* RecordStatus: the values a PULL dialog can get ("none": no CDR yet).    *)
(***************************************************************************)
CdrStatuses == {"SUCCESS", "ABORT_APP", "FAILED_APP_TIMEOUT",
                "FAILED_CORRUPTED_MESSAGE", "FAILED_TRANSPORT_ERROR",
                "FAILED_TRANSPORT_FAILURE", "FAILED_SYSTEM_FAILURE",
                "FAILED_DIALOG_REJECTED", "FAILED_DIALOG_USER_ABORT",
                "FAILED_PROVIDER_ABORT", "FAILED_DIALOG_TIMEOUT",
                "FAILED_INVOKE_TIMEOUT", "FAILED_MAP_ERROR_COMPONENT",
                "FAILED_MAP_REJECT_COMPONENT"}

(***************************************************************************)
(* UssdStatAggregator: every counter a PULL dialog can move.  A dialog     *)
(* keeps its own share of each; the counter of the gateway is their sum.   *)
(***************************************************************************)
Counters == {"DialogsAllEstablished", "DialogsPullEstablished",
             "DialogsHttpEstablished", "DialogsSipEstablished",
             "DialogsAllFailed", "DialogsPullFailed", "DialogsPushFailed",
             "DialogsHttpFailed", "DialogsSipFailed",
             "UssdPullNoRoutingRule", "ProcessUssdRequestOperations",
             "UssdRequestOperations", "UssdNotifyOperations",
             "MessagesRecieved", "MessagesSent", "MessagesAll",
             "AppTimeouts", "MapDialogTimeouts", "MapInvokeTimeouts",
             "MapErrorComponentOther"}

PullRecord ==
  [ map     : MapStates,         \* state of the MAP dialog in the stack
    tcap    : TcapTypes,
    invoke  : Invokes,           \* the operation that awaits its answer
    ending  : Endings,
    aci     : BOOLEAN,           \* the MAP activity is still attached
    mapq    : Seq(MapEvents),    \* events fired on it, not delivered yet
    owner   : Owners,            \* the SBB attached to it
    rule    : Rules,
    urlOk   : BOOLEAN,           \* the address of the rule is usable
    conn    : HttpStates \cup SipStates,
    waiting : Nat,               \* requests the application has to answer
    appq    : Seq(AppEvents),    \* its events, not delivered yet
    final   : BOOLEAN,           \* CMP finalMessageSent
    timerID : Nat,               \* CMP timerID, 0: none was set
    timers  : SUBSET Nat,        \* timers armed on the MAP activity
    cdr     : CdrStatuses \cup {"none"},
    count   : [Counters -> Nat] ]

NoDialog ==
  [ map |-> "none", tcap |-> "Begin", invoke |-> "none", ending |-> "open",
    aci |-> FALSE, mapq |-> << >>, owner |-> "none", rule |-> "none",
    urlOk |-> TRUE, conn |-> "none", waiting |-> 0, appq |-> << >>,
    final |-> FALSE, timerID |-> 0, timers |-> {}, cdr |-> "none",
    count |-> [c \in Counters |-> 0] ]

-----------------------------------------------------------------------------
(***************************************************************************)
(* The MAP stack and its resource adaptor.  However a dialog ends, the     *)
(* stack fires Release right behind what it fired before and ends the      *)
(* activity, so no later event joins the queue.                            *)
(***************************************************************************)
Live(r) == r.map \in {"initialReceived", "active"}

Expunge(r, how) ==
  [Fire(r, "Release") EXCEPT !.map = "expunged", !.invoke = "none", !.ending = how]

\* Faulty variant: it ends a dialog again.
MapAbortAlways(r) == Expunge(r, "abort")

\* abort(): on a dialog that is over it does nothing.
MapAbort(r) == IF Live(r) THEN Expunge(r, "abort") ELSE r

\* send(): a TC-CONTINUE that carries the operation op.
MapSend(r, op) == [r EXCEPT !.map = "active", !.invoke = op]

-----------------------------------------------------------------------------
(***************************************************************************)
(* Services of the SBBs.                                                   *)
(***************************************************************************)
Count(r, S) ==
  [r EXCEPT !.count = [c \in Counters |-> IF c \in S THEN @[c] + 1 ELSE @[c]]]

\* sendErrorMessage: a final ProcessUnstructuredSSResponse and close(false); the
\* exception of a dialog that is over (or gone) is swallowed.
SendErrorMessage(r) == IF Live(r) THEN Expunge(r, "error") ELSE r
=============================================================================
