--------------------------- MODULE DialogServices ---------------------------
(***************************************************************************)
(* What PULL and PUSH dialogs share: the queue of the MAP activity, the    *)
(* CDR and the application timer.  The record r of a dialog has at least   *)
(* the fields mapq, cdr, timerID and timers.                               *)
(***************************************************************************)
EXTENDS Naturals, Sequences

Fire(r, e) == [r EXCEPT !.mapq = Append(@, e)]

\* Faulty variant: no generated flag.
CreateCdrAgain(r, status) == [r EXCEPT !.cdr = status]

\* createRecord: the generated flag of the CDR state lets the first one pass.
CreateCdr(r, status) == IF r.cdr = "none" THEN [r EXCEPT !.cdr = status] ELSE r

SetTimer(r) == [r EXCEPT !.timerID = @ + 1, !.timers = @ \cup {r.timerID + 1}]

\* Faulty variant: the timer runs on.
CancelNoTimer(r) == r

\* cancelTimer: only the timer whose id was stored last, and only while armed.
CancelTimer(r) == [r EXCEPT !.timers = @ \ {r.timerID}]

\* Delivery of the head of the queue.
Rest(r) == [r EXCEPT !.mapq = Tail(@)]
=============================================================================
