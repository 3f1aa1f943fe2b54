# A TLA+ model of the RestComm USSD gateway

The USSD gateway connects mobile subscribers, who dial short codes over SS7/MAP,
to applications behind HTTP or SIP. It runs as a set of JAIN SLEE service building
blocks (SBBs) in `core/slee/sbbs`, on top of management beans in `core/domain`.
This directory holds TLA+ modules that model it, TLC configurations that check
them on small instances, and proofs, checked by TLAPS, for every value of the
constants. Paths below are relative to the repository; `SLEE` stands for
`core/slee/sbbs/src/main/java/org/mobicents/ussdgateway/slee` and `DOMAIN` for
`core/domain/src/main/java/org/mobicents/ussdgateway`.

## 1. Inventory

| component | code | state it keeps | operations |
|---|---|---|---|
| PULL parent | `SLEE/ParentSbb.java`, `SLEE/USSDBaseSbb.java` | the XML dialog | a dialled code: overload check, routing, refusal or hand-over to a child |
| PULL child | `SLEE/ChildSbb.java` | CMP fields: XML dialog, `timerID`, `finalMessageSent`, CDR child | requests and answers of the mobile, reject, two aborts, close, dialog and invoke timeout, error and reject components, application timer, release |
| PULL over HTTP | `SLEE/http/HttpClientSbb.java` | the HTTP client activity | POST, response (continue, notify, reply, end, drop, abort, garbled, error status), end of the activity |
| PULL over SIP | `SLEE/sip/SipClientSbb.java` | the SIP dialog | INVITE, INFO and BYE in both directions, responses, ACK |
| PUSH over HTTP | `SLEE/http/HttpServerSbb.java`, `SLEE/ChildServerSbb.java` | suspended HTTP event context, MAP dialog, timer, CDR | first POST, session POSTs, MAP events, SRI result, timeouts |
| PUSH over SIP | `SLEE/sip/SipServerSbb.java` | SIP dialog, MAP dialog, timer, CDR | INVITE, INFO, BYE, MAP events, SRI result, timeouts |
| SRI query | `SLEE/sri/SriSbb.java` | stored MSISDN, IMSI, error | send routing information, answer, retry with an older application context, error |
| CDR generators | `SLEE/cdr/plain`, `SLEE/cdr/jdbc`, `USSDCDRState`, `RecordStatus` | the CDR state with its generated flag | init, create a record |
| CDR database tasks | `SLEE/cdr/jdbc/task` | table, prepared statements | create the table, insert, mark a record corrupted |
| statistics | `DOMAIN/UssdStatAggregator.java` | 45 counters, dialogs in process with its minimum and maximum per interval | update, add, remove, read and restart an interval |
| routing rules | `DOMAIN/ShortCodeRoutingRuleManagement.java`, `DOMAIN/rules/ScRoutingRule.java` | list of rules, rule file | create, modify, delete, look up, store, load |
| properties | `DOMAIN/UssdPropertiesManagement.java` | properties, property file | set (stores at once), load |
| management life cycle | `DOMAIN/UssdManagement.java` | started flag, registered beans | start, stop |
| shell, GUI, bootstrap, XML mapping, simulators | `DOMAIN/UssdShellExecutor.java`, `management`, `core/bootstrap*`, `core/xml`, `tools` | none of their own that the service depends on | parsing, display, deployment, serialisation |

**Interaction.** The MAP resource adaptor fires the events of one MAP dialog, in
order, on one SLEE activity; the HTTP or SIP resource adaptor fires those of the
application on another. SLEE runs one handler of an SBB entity at a time, but the
two activities are independent queues: which of an answer and a timeout a handler
sees first is open, and the MAP dialog inside the stack may end while both queues
hold events. Parent and child share the MAP activity (the parent attaches the
child while it handles the request, so the child gets the same event), and all
dialogs share the counters and the stack's limit of activities.

**What is hard.** A handler runs on a dialog that is over (the stack's abort, the
mobile's end, another handler); an answer is handled after the timeout that gave
it up, and re-opens what the timeout closed; a timer is identified only by the
last id that was stored; a dialog may be ended by four parties and each path has
to end the connection, count the failure, write the CDR once and leave the right
status; the count of dialogs in process lives on one Release for each hand-over.
`PROJECT.json` lists every such place under "hazards".

**What makes each component correct.**

- PULL service: exactly one CDR for an established dialog, written only when the
  dialog is over, with SUCCESS exactly for delivered final answers; no handler
  acts on a dialog that is over; the application's timer runs exactly while the
  application owes an answer; connections do not outlive the dialog; failures are
  counted; the count of dialogs in process is exact; every dialog comes to an end.
- PUSH service: a dialog is billed at most once and not while it goes on; a POST that
  the gateway holds is answered; a session is not ended before its dialog with the
  mobile; a SIP application is told of the end; the count of dialogs in process is exact.
- SRI: one result or one error reaches the parent, in every order of the events.
- statistics: minimum and maximum bound every value of their interval.
- routing rules: look-up finds the rule that the administrator gave for the code;
  modify and delete hit the named rule; a stored file loads.
- properties and life cycle: what was set is what a restart loads.

## 2. Plan

What was built, in this order, each part with its runs and proofs:

1. the PULL service: `PullDialog`, `HttpClientSbb`, `SipClientSbb`, `ChildSbb`,
   `ParentSbb`, composed by `UssdPull`; abstract specification `DialogLifecycle`;
2. `RoutingRules`: the commands on the table of rules, setter by setter, with look-ups
   in between; the file, failing stores, crashes;
3. the PUSH service: `PushDialog`, `SriSbb`, `HttpServerSbb`, `SipServerSbb`, composed by
   `UssdPush`; abstract specification `PushLifecycle`; `DialogServices` holds what both
   directions share;
4. `Statistics`: the gauge of dialogs in process, one step for each shared access.

What could follow: the theorems on HTTP dialogs of PUSH with suspended POSTs that are given
up, where they survive it; a `cdrloggingto` that changes while dialogs run.

## 3. Modules

| module | models |
|---|---|
| `DialogServices` | what PULL and PUSH dialogs share: the queue of the MAP activity, the CDR, the timer |
| `PullDialog` | the record of one PULL dialog (MAP stack state, event queues, CMP fields, timer, CDR, counters) and the services that its handlers call: abort, send, error message, counters |
| `HttpClientSbb` | POST and `onResponseEvent` |
| `SipClientSbb` | `sendUssdData`, `sendBye`, `terminateProtocolConnection`, the handlers of SIP responses, INFO and BYE |
| `ChildSbb` | the handlers of the MAP activity and the timer; its abstract methods are those of the transport |
| `ParentSbb` | overload check, refusals, `forwardEvent` |
| `UssdPull` | the PULL service: dialogs, the mobiles and the stack behind them, the applications, delivery of each event to its handler; specification, fairness, properties |
| `DialogLifecycle` | the abstract specification: a dialog is offered, refused or opened, billed once, closed; `inProcess` follows |
| `UssdPullDocs` | a sentence of the administration guide on PULL that the code contradicts |
| `PushDialog` | the record of one PUSH dialog and the services of both server SBBs |
| `SriSbb` | the query of the home register: what is stored, detached, reported |
| `HttpServerSbb` | first POST, session POSTs, MAP events, suspended event context |
| `SipServerSbb` | INVITE, INFO, BYE, MAP events, transport failures |
| `UssdPush` | the PUSH service: registers, mobiles, applications and the delivery to both SBBs; specification, fairness, properties |
| `PushLifecycle` | the abstract specification: a dialog is refused or located, pushed or given up, finished; billed at most once; `inProcess` follows |
| `UssdPushDocs` | sentences of the guide on PUSH that the code contradicts |
| `RoutingRules` | the table of routing rules: look-up, commands, file, crash and restart |
| `Statistics` | the count of dialogs in process and its extremes for each campaign |
| `MCUssdPull`, `MCUssdPush`, `MCRoutingRules`, `MCStatistics` | the instances for TLC |
| `UssdPullProofs`, `PullSessionProofs`, `PushHandlerProofs`, `UssdPushProofs`, `PushBillingProofs`, `PushSessionProofs`, `RoutingRulesProofs`, `StatisticsProofs` | the proofs |

### PULL

**State.** `dlg[d]` is the record of dialog `d`. `map`, `tcap` and `invoke` are
the dialog inside the stack; `mapq` holds the events fired on the MAP activity and
not delivered; `aci` says whether the SBB is attached to it (`getMAPDialog()` is
null without); `owner` is the attached SBB. `conn`, `waiting` and `appq` are the
application's side: the HTTP activity or SIP dialog, unanswered requests, and
events not delivered. `final`, `timerID` and `cdr` are CMP fields, `timers` the
armed timers, `count` the dialog's share of every counter it can move. `ending` is
a history variable: who ended the dialog towards the mobile.

**Actions.** Every handler is one action: SLEE runs it alone on its SBB entity.
It is a composition of operators on the record in the order in which the code
calls them, e.g. `OnInvokeTimeout` aborts the MAP dialog, tells the application,
ends the connection, counts and writes the CDR. An exception is a guard: `SendOk`
says when `sendUssdData` throws, `Live` when `send()` and `close()` do, and the
catch is the other branch. A routed request stays at the head of the queue when
the parent hands it over, because the child is attached while the event is being
delivered. Code outside the repository (the MAP stack, SLEE, the HTTP and SIP
stacks, applications, mobiles) is modelled from how the SBBs use it and marked
external in `PROJECT.json`.

**Abstractions.** The text of a menu, the XML payload and all fields of a CDR but
its status are left out; a payload is one of the kinds a handler tells apart.
The retransmissions of SIP and TCAP belong to their stacks. `DialogTimeout` comes
in two ways, because the stack may or may not keep the dialog until the handler has
run; the model checks both. `tcap` is read when a handler runs, not when its event
was fired: a TC-ABORT may overtake a handler.

`DialogLifecycle` maps to `UssdPull` by `Phase`: the phase of a dialog follows from
its owner, its attachment and its CDR.

### PUSH

**State.** As for PULL, `dlg[d]` is one record. `sri` and `sriq` are the MAP dialog of the
query, as far as the SriSbb is attached to it, and its events; `located` and `refusal`
the CMP fields of the SriSbb; `queries` and `answers` how often it asked and how often it
answered its parent. `map` and `mapq` are the dialog with the mobile, with `idle` for one
that was created and not sent, `invokes` the operations the mobile owes an answer to.
`ctx` is the CMP field `eventContext`: the POST that is suspended, `first` for the one that
created the dialog, `session` for a later one; it reads null once the POST is resumed.
`conn` is the HTTP session or the SIP dialog. `established` and `failed` are the dialog's
share of those two counters, `ending` the history variable of PULL.

**Actions.** `OnPost`, `OnInvite` and their failing variants start a dialog. `Faults` says
what may throw: `query` (`performSRIQuery`), `create` (`createNewDialog`), `send` (the first
`send()`), `reply` (a SIP response). The other exceptions follow from the state: `SendOk` and `CloseOk` say when the
MAP stack refuses, `InfoOk` when the SIP dialog does. The SriSbb runs in the same SLEE
transaction as the method of its parent that it calls, so that `TellResult` and `TellError`
are one step with what the parent does. After `onSriFullResponse` without a location it
stays attached to a query that the register left open, and may report again.

A POST that arrives while another is suspended depends on which: with the `first`
suspended, `onSessionPost` drops it, without answer; with a `session` POST suspended, the
activity itself is suspended and SLEE delivers nothing on it until it is resumed.
SLEE resumes a POST on its own after EVENT_SUSPEND_TIMEOUT and does not tell the SBB
(`SuspendExpires`).

**Abstractions.** The causes in a MAP error component are one CDR status, for the mobile
and for the register; the counters of messages are left out; `ProcessUnstructuredSSResponse`
and the requests that only a mobile should get are one event, `OtherMessage`, because their
handlers do the same. The invoke timeout of the query is only logged and has no action.
The alternative application context of a reject is the flag in `RejectAcn`.

`PushLifecycle` maps to `UssdPush` by `Phase`: who owns the dialog, whether the SriSbb
was asked and has answered, whether the MAP activity is attached. `onInvite` counts a
dialog before the query that throws, and then forgets it (`Forgotten`): the mapping takes
those off the counter, and `InProcessExact` names them.

### Routing rules and statistics

**`RoutingRules`** stands apart: `UssdPull` takes what the table says of a dialled code
as an input (`Routes`). `rules` is the list in memory, `file` what `load()` would find
in the rule file (nothing in a file that is missing or was truncated), `pc`, `target`,
`todo` and `wish` the command under way: `modifyScRoutingRule` changes the rule in the
table with one setter after the other, each a step, because the PULL service looks
rules up at any time; `store()` truncates the file, then writes it. Codes are values
with a prefix relation (`Begins`, for `startsWith`), which contains every code with
itself. Commands of two administrators do not overlap in the model. `unsaved` and
`widened` are history variables: the last store failed; an exact rule became a prefix
rule.

**`Statistics`** has one step for each access of `UssdStatAggregator` to something shared:
the atomic counter moves (`addAndGet`, `set`), then the collector of minima and then that
of maxima is told the value that the counter returned; a campaign that reads an extreme
restarts its interval, and seeds it with the counter in two more steps. An interval is the
set of its values, `recorded`; what is returned is their minimum or maximum.

## 4. Runs

| run | instance | question |
|---|---|---|
| `pull_dialog` | one dialog; all routes, addresses and answers; two menus | do CDR, timer, counters and connection agree with how the dialog ended, in every interleaving? |
| `pull_shared` | two dialogs, limit 2; final answers only | is the shared counter exact, does the limit hold, does every step implement the lifecycle? |
| `pull_live` | one dialog, one menu, fairness | is every established dialog billed and released? is every HTTP activity ended if exchanges end? |
| `push_dialog` | one dialog, HTTP or SIP; all first messages, all faults, three messages of the application, two queries | do counter, suspended POST, session, CDR and MAP dialog agree, in every interleaving? does every step implement the lifecycle? |
| `push_live` | one dialog, suspended POSTs may time out, two messages, two queries, fairness | does every dialog come to its end, and is every POST answered? |
| `routing_rules` | codes *1, *12, *2 of one network, two rules, one address | do table, file and rules under modification stay sound through commands, failing stores and crashes? |
| `statistics` | three threads, two campaigns, two dialogs | do the extremes of every interval embrace the count once no thread is inside? |

`pull_dialog` checks `TypeOK`, the inductive invariant `SessionConsistent`,
`CdrAgreesWithOutcome`, `CdrWriteOnce`, `EndingIsFinal`, `NoOrphanTimer`, `AwaitGuarded`,
`TimerOnlyWhileAwaiting`, `FailureCounted`, `NoHttpLeak` and `NoSipLeak`. `pull_shared`
checks `InProcessExact`, `StackBounded` and the refinement `LifecycleSafe`; `pull_live`
checks `LifecycleLive` and `HttpActivityEnded`. `push_dialog` checks `TypeOK`,
`InProcessExact`, `SriAnsweredOnce`, `SessionEndedDialogOver`, `SuspendedPostGuarded`,
`TimerOnlyWhileAppThinks`, `BilledOver`, `HttpCdrAgrees`, `EstablishedSent`, `SipTold`,
`AnswerFindsPost`, `CdrWriteOnce` and the refinement `LifecycleSafe`; `push_live` checks
`FailedSessionEnded`, `LifecycleLive` and `PostAnswered`. `routing_rules` checks `TypeOK`,
`UniqueIds`, `RulesReachable`, `AddressOfType` and `Persisted`; `statistics` checks `TypeOK`,
`CountRecorded` and `RecordedOrUnderWay`, its inductive form.

**Bounds.** `MaxRounds` bounds the menus one PULL dialog shows, by a guard on the
application's answer; the second menu is the first one after which a timer that
was armed, cancelled and armed again exists, and nothing in the code counts
further. The queues need no bound: events stop when the dialog ends. Two dialogs
suffice for the shared state, a counter and a comparison with a limit, which the
theorems cover for any number. `MaxPosts` bounds the messages of the application in one
PUSH dialog: with three, a POST meets a suspended one, an answered one, and a dialog that
another POST has ended. `MaxQueries` bounds the queries by a guard on the register's
refusal; the second is the first that meets what the first one left in the SriSbb. PUSH
dialogs share the counter only, so that one dialog is enough for TLC, and the theorems cover
any number. `push_dialog` leaves three kinds of SIP messages out whose handlers do what those
of others do (`MainPosts`); `push_live` and the theorems have them all. `MaxRules` bounds the table by a
guard of `Create`: every property of it is about one rule or two, and the theorems hold
without bound; three codes give a rule that begins another and one apart from both. In
`Statistics` a reader, an update in each direction and a second campaign fit in three
threads; `MaxDialogs` keeps the counter finite. A dialog that is over stays over, so the
runs of the services do not check for deadlock.

**Inputs.** `push_dialog` and `push_live` take a register that closes the query dialog,
except one that it has answered with the location (`LocatedOpen`). With any other open
dialog the SriSbb reports twice; `doc_in_progress` shows what follows from that, and the
theorems that need it have the same assumption. `push_dialog` leaves the timeout of a
suspended POST out, because `SessionEndedDialogOver` and `AnswerFindsPost` do not hold with
it (section 5 says why); `push_live` has it. `push_live` runs with warnings switched off,
because `FailedSessionEnded` holds only then: the early return of `abortHttpDialog` stands
inside the test of the log level.

**Fairness.** `FairSpec` of `UssdPull` assumes that SLEE delivers fired events (weak fairness
of the handlers of each activity) and that the stack's idle timer and the SLEE timer
expire. Nothing is assumed of mobiles and applications. `HttpActivityEnded` adds, as its
premise `ExchangesEnd`, that an HTTP exchange ends in a response or a failure: the HTTP
resource adaptor reports a broken connection as a ResponseEvent without response.
`FairSpec` of `UssdPush` assumes delivery on the three activities and the idle timers of the
query and of the MAP dialog; the register, the mobile and the application may be silent for
ever, and neither the SLEE timer nor the timeout of a suspended POST is needed.

**Refuted sentences of the guide** (`UssdPullDocs`, `UssdPushDocs`, and two properties at the
end of `RoutingRules`; one run for each):

- A PULL dialog that succeeded is counted in DialogsAllFailed when a timeout was queued
  behind its final answer (`doc_success`).
- An answer of the mobile that ends a PUSH dialog leaves no CDR (`doc_push_billed`).
- A PUSH dialog whose query stays open without an answer and then ends is taken off the
  dialogs in progress twice (`doc_in_progress`).
- While `modify` turns a SIP rule into an HTTP rule, a look-up finds an HTTP rule
  without URL (`doc_rule_address`).
- `delete` looks its short code up as if it had been dialled, and may remove the
  prefix rule of another code (`doc_delete_of_pair`).

**Observed on the way**, each visible in a condition of a property or a definition:

- With an address that is no URL, a DialogTimeout behind the request opens an HTTP
  activity that nothing ends (`NoHttpLeak`, `HttpActivityEnded` require `urlOk`).
- `onRejectComponent` leaves a confirmed SIP dialog to the application (`NoSipLeak`), and
  counts a PULL dialog in DialogsPushFailed, for SIP also in DialogsHttpFailed.
- `terminateProtocolConnection` deletes a SIP dialog without BYE or CANCEL; the
  answers of its transactions still reach the SBB (states `lateInvite`, `lateBye`).
- Handlers that run after the end of a dialog count its failure again: one dialog may
  be in DialogsAllFailed more than once. A wrong short code is counted there as well; an
  empty INFO ends a dialog that is not counted (`FailureCounted`).
- `checkMaxActivityCount` counts the new dialog too, so the dialog that reaches
  maxactivitycount is refused already.
- A rule that `modify` widens to a prefix rule shadows later rules, which then can
  be neither dialled nor named in a command (`RulesReachable` requires `~widened`).
- The guide describes MapErrorComponentOther as a PUSH counter and
  ProcessUssdRequestOperations as counting all requests; PULL dialogs move the
  first, and refused requests do not move the second.
- A request whose string does not decode gets no answer at all; the stack's idle
  timer ends it.
- A POST stays suspended when the mobile ends its PUSH dialog without an answer: nothing
  but the timeout of SLEE resumes it (`SuspendedPostGuarded`, `PostAnswered`).
- When the application is late, the HTTP session of a PUSH dialog stays open, although
  the comment of `HttpServerSbb.java:481` takes the application part for closed
  (`FailedSessionEnded`).
- An INFO, a BYE or a transport failure that comes before the register has answered is
  billed, and the mobile gets the message all the same; `onErrorComponent` over SIP bills
  a dialog and leaves it open (`BilledOver`).
- `onInvite` leaves the dialogs in process up by one when `performSRIQuery` throws
  (`InProcessExact`).

## 5. Proofs

### PULL

`UssdPullProofs` first reduces handlers to their effect. Of a record, the theorems
depend on its *core*: `map`, `ending`, `aci`, `mapq`, `owner`, `cdr`. Each service
either keeps the core, stops the dialog, or writes the CDR, and lemmas compose
these effects, so that every handler of `ChildSbb` and its transports is shown to do
one of four things (`HandlerStep`): keep the core, bill a failure on a dialog that is
over by then, deliver the final answer with SUCCESS, or send on a live dialog.

Then every action is shown to be a `DialogStep` of one dialog: the new
record has its type, is consistent, keeps what was final, and moves by at most one
step of the lifecycle. The theorems follow from `DialogStep` alone:

| theorem | states |
|---|---|
| `TypeCorrect` | `Spec => []TypeOK` |
| `SessionsConsistent` | `Spec => []SessionConsistent` |
| `CdrAgrees`, `CdrOfEnded` | `[]CdrAgreesWithOutcome`, `[]CdrOnlyOfEnded` |
| `Finality` | `CdrWriteOnce`, `EndingIsFinal` |
| `InProcess` | `[]InProcessExact` |
| `StackLimit` | `[]StackBounded` |
| `Refinement` | `LifecycleSafe`: `UssdPull` implements `DialogLifecycle` |
| `Soundness` | `Sound` of every dialog, the invariant behind those below |
| `NoOrphan`, `Guarded`, `TimerForApp` | `[]NoOrphanTimer`, `[]AwaitGuarded`, `[]TimerOnlyWhileAwaiting` |
| `FailuresCounted` | `[]FailureCounted` |
| `HttpLeaks`, `SipLeaks` | `[]NoHttpLeak`, `[]NoSipLeak` |

**Why `SessionConsistent`.** That the CDR agrees with the outcome is not inductive:
`onDialogClose` bills a dialog without looking at its state, and is right only
because a Close is never queued on a live dialog (`QueueConsistent`). That Release
finds a billed dialog, on which refinement and counter rest, needs that Release is
the last event and that the event before it, unless it was handled already, has a
handler that bills (`BillConsistent`); that the parent's hand-over starts the
dialog anew needs `OwnerConsistent`.

**Why `Sound`** (`PullSessionProofs`, the last seven theorems). Eight facts about one record,
none of which is inductive without the others:

- `TurnSound`: mobile and application take turns. While the application is asked, or its
  reply is on the way, nothing is asked of the mobile, no answer of the mobile is queued, and
  no second request or reply is open. Otherwise a handler would arm a timer, or send, on top
  of another that does.
- `TimerSound`: what is armed is the timer whose id is stored. `setTimer` overwrites the id
  without a look at the timer that is armed; that none is follows from the turns: at most
  one event that arms the timer is queued, and while it is, no timer runs.
- `AwaitSound`: who waits has a timer armed or its event queued; a timer that runs has somebody
  to wait for, or an event of the application that will cancel it.
- `TcapSound`: `onDialogClose` stands for the end of the dialog, so that it has to be known that
  a TC-END leaves Close and Release, in this order, behind whatever it carried.
- `FailureSound`: a handler that bills a failure without counting it runs only while a Close
  that counts is queued; `SipInfoReqEvent` bills the unreadable INFO uncounted.
- `LeakSound`: what is billed has let go of its connection or waits for one last response.
- `SideSound`, `RequestSound`: the events of one transport never reach the handlers of the
  other, and before the child has seen the request nothing was sent to the application.

Each service is shown to be `Quiet` (it arms no timer, takes back no count, changes no owner
and no queue of the application), so that a handler that ends the session is followed through
its calls; the handlers that go on (`answer`, `continue`, `menu`) are followed one by one.

### PUSH

`PushHandlerProofs` reduces the handlers of both server SBBs to a relation, `Evolves`: a
handler leaves the fields of the query and of the start alone (`Kept`), does not change a
CDR that is there (`CdrKept`), and moves the dialog with the mobile only as the stack
allows (`MapEvolves`: it may send on it, or expunge it, with a Release behind whatever is
queued, and never revives it).

`UssdPushProofs` shows that every action is a step `StepTo(r, s, delta)` of one dialog: type,
`CdrKept`, consistency, one step of the lifecycle or none, and the counter moves by `delta`.
The theorems follow from it:

| theorem | states |
|---|---|
| `TypeCorrect` | `Spec => []TypeOK` |
| `CdrWritten` | `Spec => CdrWriteOnce` |
| `Consistency` | `RegisterCloses => (Spec => [](TypeOK /\ AllConsistent))` |
| `AnsweredOnce` | `SriAnsweredOnce`, if `RegisterCloses` |
| `InProcess` | `InProcessExact`, if `RegisterCloses` |
| `Refinement` | `LifecycleSafe`, if `RegisterCloses`: `UssdPush` implements `PushLifecycle` |
| `BilledDialogsOver` | `BilledOver`, if `RegisterCloses` and no suspended POST is given up |
| `HttpCdrs` | `HttpCdrAgrees`, likewise |
| `SessionEnded` | `SessionEndedDialogOver`, likewise |
| `SessionSoundness` | `SessionSound` of every dialog, likewise: the invariant behind those below |
| `PostGuarded`, `AnswerHasPost` | `SuspendedPostGuarded`, `AnswerFindsPost`, likewise |
| `TimerThinks`, `Established` | `TimerOnlyWhileAppThinks`, `EstablishedSent`, likewise |
| `SipIsTold` | `SipTold`, if `RegisterCloses` |
| `FailedEnds` | `FailedSessionEnded`, without a premise |

**Why `Consistent`.** That the SriSbb answers once is not inductive: it needs that, once the
parent was answered, nothing that the SriSbb would report is queued on the query
(`QueryConsistent`). That Release counts down, once,
what the query counted up needs that events are queued and a dialog runs only while the
MAP activity is attached, and that a Release is queued only when the dialog is over
(`MapConsistent`). `Untouched` and `RefusedInvite` say what the record of a dialog
looks like that has not begun, or that was refused.

**Why `Sound`** (`PushBillingProofs`, `BilledDialogsOver` to `SessionEnded`). `onDialogReject` and the
handlers of the two aborts bill a dialog without looking at its state, and are right only
because those events are queued on a dialog that is over (`AbortsSound`). An answer ends the
session when the dialog's message type is End, which is read when the event is handled: it
has to be over by then (`MapSound`). The events of a session never reach the SIP handlers,
nor the other way round (`SideSound`). Above all, a dialog that is still being located must
not be billed or lose its session, since the location will start the dialog with the mobile:
over HTTP its first POST is suspended and keeps every later one out, over SIP only the
requests of the application can bill it (`EarlySound`). `BillSound` is what the theorems say.
Beside `Evolves`, each handler is shown to do no more than `HttpDoes` or `SipDoes`: leave the
bill alone or write one that agrees with the state it leaves behind, and end the session
only of a dialog that is over.

**Why `SessionSound`** (`PushSessionProofs`). That somebody will answer a suspended POST is
not inductive: the answer of the mobile, the end of the dialog and the timer each have a
handler that finds the POST only if the others have not come first. On top of `Sound`:

- `AnswerSound`: there is at most one question to the mobile, or one answer of it under way,
  and while there is, its POST is suspended. This is what keeps two questions of one session
  apart; a handshake holds back the first one, and the notification with the error message of
  the gateway (`final`) is no question of the application (`Asked`, `Replied`).
- `TimerSound`: what is armed is the timer that is stored, and none is while a POST is
  suspended, the mobile is asked, or its answer is on the way; otherwise `setTimer` would
  overwrite the id of a timer that `cancelTimer` then cannot reach.
- `HeardSound`: an application that waits on a dialog that is over (`Waits`: a suspended POST,
  or a SIP dialog without a bill) will hear of it from an event that is queued (`EndEvents`),
  unless the mobile, or its answer to the error message, has ended the dialog. With `Release`
  last in the queue (`ReleaseLast`) the SBB cannot leave the activity before.
- `AcceptSound`: the mobile accepts once, and a dialog that is billed as one that nobody has
  seen is over, without an Accept that would count it as established.
- `BilledTold`: only the two transport failures bill a SIP dialog without a BYE.
- `FailedSound`, `BlankSound`: the session is there once the register was asked, and nothing
  of the dialog with the mobile is there before it begins.

`Ready`, all but `HeardSound`, is what a handler finds once its event has left the queue. A
handler that only gives up is `Tame` (it asks nothing and arms nothing), and one that ends an
HTTP dialog `Quits` it: dialog over, billed, POST resumed. The handlers that ask, push or
arm the timer are followed one by one, as are the signals of the mobile (`Lives`).

`SipIsTold` restricts the induction to dialogs that HTTP applications do not own
(`SoundIfSip`), which have no POST to be given up. `FailedEnds` has an invariant of its own,
`Closed`: every handler is shown to be one that `Closes` the session of the dialog that it
bills, whatever else it finds, so that neither premise is needed; the run `push_live` checks
the property with suspended POSTs that are given up.

**Why no suspended POST may be given up** (`~SuspendTimeouts`): when SLEE resumes the first
POST while the subscriber is being located, the next POST is let in, finds no dialog with the
mobile, fails and ends the session; the location then starts the dialog nevertheless. TLC
finds this as soon as `push_dialog` is given the timeouts.

**Why `RegisterCloses`** (`HlrContinues \subseteq {<<"Response">>}`): a register that leaves an
unanswered query open makes the SriSbb report twice, which `doc_in_progress` exhibits. The
first two theorems, and `FailedEnds`, hold without it.

### Routing rules and statistics

`RoutingRulesProofs` proves each property of `routing_rules` for any codes with a
reflexive prefix relation, any networks, addresses and number of rules: `TableTyped`,
`IdsUnique`, `Reachable`, `HaveAddresses`, `FileIsTable`. None of the five is inductive
alone. `Inv` adds that the file is as good as the table, since a restart replaces one by
the other; that no rule matches the code of a later one (`Ordered`), from which
reachability follows; and, during `modify`, what the setters that are left will lead to
(`Underway`). The lemmas below it say what look-up, append and removal do to a table; that
a look-up without result excludes every match rests on the least element of a set of
natural numbers (`WFMin`).

`StatisticsProofs` proves `CounterTyped`, `CountUnderWay` (`RecordedOrUnderWay`) and
`CountIsRecorded` (`CountRecorded`) for any number of threads and campaigns.
`RecordedOrUnderWay` is inductive with the type invariant: a thread that changes the counter takes over the duty
to record it, and one that restarts an interval has queued its own update of it.

### Assumptions and limits

**Assumptions**, named in `UssdPull`: the set of dialogs is finite
(`DialogsAssumption`, for cardinalities), the limits are natural numbers
(`LimitAssumption`), and the inputs are of the kinds the code tells apart
(`InputsAssumption`). The theorems hold for any number of dialogs, menus and
events. `UssdPush` has the like (`DialogsAssumption`, `BoundsAssumption`, `InputsAssumption`),
`HttpServerSbb` that the log level is a switch (`WarningAssumption`); `RegisterCloses` is a
premise of the theorems that need it, and so is `~SuspendTimeouts`. `Statistics` assumes
`MaxDialogsAssumption`.
`RoutingRules` assumes that `Begins` contains every code with itself
(`BeginsAssumption`) and that `Null` is no address (`NullAssumption`). TLC evaluates the
assumptions on every run.

**Only model-checked.** The liveness properties (out of the prover's reach):
`LifecycleLive` of both services, `HttpActivityEnded`, `PostAnswered`. Every safety property
of a passing run is proved, those of PUSH under the premises that the table names.

## 6. Not modelled

- The CDR database tasks: SQL statements that the JDBC resource adaptor executes one at a
  time; their state is a table outside of the gateway.
- Properties: each setter assigns one field and stores all of them, `load()` reads them
  back; storing fails in the way of the rule file, which `RoutingRules` models. The models
  take `cdrloggingto` and the timeouts as fixed while a dialog runs.
- The management life cycle: `start()` and `stop()` register and load the beans once, in
  sequence, before and after the service runs.
- In the statistics, the counters of messages, the cumulative ones and the sums per code:
  increments of atomic longs that nothing compares. Nothing calls `reset()`.
- Commands of two administrators that overlap: the list of rules gives no guarantee for
  them, so that every outcome would be open.
- A SLEE container that fails to create or attach a child SBB.
- The shell, the XML mapping, the bootstrap code and the GUI hold no protocol state;
  simulators, examples and tests are not part of the gateway. The JavaScript of the
  repository is the browser side of the GUI and of the generated manuals, most of it
  third-party libraries (jQuery, Bootstrap, Jolokia): no module models it, since the gateway
  itself is written in Java.
