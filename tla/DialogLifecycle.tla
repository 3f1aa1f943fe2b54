-------------------------- MODULE DialogLifecycle --------------------------
(***************************************************************************)
(* What the gateway promises of a PULL dialog, whatever the mobile, the    *)
(* network and the application do: it is refused or established; once      *)
(* established it is billed exactly once, with one status, and only then   *)
(* released; and the gateway always knows how many are in process.         *)
(***************************************************************************)
EXTENDS Integers, FiniteSets

CONSTANTS Dialogs, Statuses

Phases == {"idle", "offered", "refused", "open", "billed", "closed"}

VARIABLES
  phase,      \* how far each dialog is
  record,     \* the status in its CDR, "none" without one
  inProcess   \* dialogs established and not released

vars == << phase, record, inProcess >>

Init == /\ phase = [d \in Dialogs |-> "idle"]
        /\ record = [d \in Dialogs |-> "none"]
        /\ inProcess = 0

Move(d, from, to) == phase[d] = from /\ phase' = [phase EXCEPT ![d] = to]

Offer(d) == Move(d, "idle", "offered") /\ UNCHANGED << record, inProcess >>

Refuse(d) == Move(d, "offered", "refused") /\ UNCHANGED << record, inProcess >>

Establish(d) == /\ Move(d, "offered", "open")
                /\ inProcess' = inProcess + 1
                /\ UNCHANGED record

Bill(d) == /\ Move(d, "open", "billed")
           /\ \E s \in Statuses : record' = [record EXCEPT ![d] = s]
           /\ UNCHANGED inProcess

Close(d) == /\ Move(d, "billed", "closed")
            /\ inProcess' = inProcess - 1
            /\ UNCHANGED record

Next == \E d \in Dialogs :
          Offer(d) \/ Refuse(d) \/ Establish(d) \/ Bill(d) \/ Close(d)

Spec == Init /\ [][Next]_vars

FairSpec == Spec /\ \A d \in Dialogs : WF_vars(Bill(d)) /\ WF_vars(Close(d))
=============================================================================
