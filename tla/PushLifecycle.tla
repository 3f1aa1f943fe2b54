--------------------------- MODULE PushLifecycle ---------------------------
(***************************************************************************)
(* What the gateway promises of a PUSH dialog, whatever the home register, *)
(* the mobile, the network and the application do: it is refused at once,  *)
(* or the subscriber is located (one answer to the query, never two) and   *)
(* the dialog pushed, or it ends; it is billed at most once; and the       *)
(* gateway always knows how many are in process.                           *)
(***************************************************************************)
EXTENDS Integers

CONSTANTS Dialogs, Statuses

Phases == {"idle", "refused", "locating", "pushing", "done"}

VARIABLES
  phase,      \* how far each dialog is
  record,     \* the status in its CDR, "none" without one
  inProcess   \* dialogs that are being located or pushed

vars == << phase, record, inProcess >>

Init == /\ phase = [d \in Dialogs |-> "idle"]
        /\ record = [d \in Dialogs |-> "none"]
        /\ inProcess = 0

Move(d, from, to) == phase[d] = from /\ phase' = [phase EXCEPT ![d] = to]

\* A dialog that has a CDR keeps it.
MayBill(d) ==
  \/ UNCHANGED record
  \/ /\ record[d] = "none" /\ phase[d] # "idle"
     /\ \E s \in Statuses : record' = [record EXCEPT ![d] = s]

Refuse(d) == Move(d, "idle", "refused") /\ UNCHANGED << record, inProcess >>

Start(d) == /\ Move(d, "idle", "locating")
            /\ inProcess' = inProcess + 1
            /\ UNCHANGED record

Push(d) == Move(d, "locating", "pushing") /\ MayBill(d) /\ UNCHANGED inProcess

GiveUp(d) == /\ Move(d, "locating", "done") /\ MayBill(d)
             /\ inProcess' = inProcess - 1

Finish(d) == /\ Move(d, "pushing", "done")
             /\ inProcess' = inProcess - 1
             /\ UNCHANGED record

Bill(d) == MayBill(d) /\ UNCHANGED << phase, inProcess >>

Next == \E d \in Dialogs :
          Refuse(d) \/ Start(d) \/ Push(d) \/ GiveUp(d) \/ Finish(d) \/ Bill(d)

Spec == Init /\ [][Next]_vars

FairSpec == Spec /\ \A d \in Dialogs : WF_vars(Push(d) \/ GiveUp(d)) /\ WF_vars(Finish(d))
=============================================================================
