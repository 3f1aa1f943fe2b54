----------------------------- MODULE MCUssdPush -----------------------------
(***************************************************************************)
(* Values of the constants of UssdPush for TLC.                            *)
(***************************************************************************)
EXTENDS UssdPushDocs, TLC

CONSTANTS p1, p2

\* Every first message that makes a difference to the server SBBs.
AllFirsts ==
  {f \in [op : {"request", "notify"}, handshake : BOOLEAN, last : BOOLEAN] :
     f.last => f.op = "notify"}

\* A question with and without a handshake, an announcement, and what only a
\* mobile should send.
SomeFirsts ==
  {[op |-> "request", handshake |-> h, last |-> FALSE] : h \in BOOLEAN} \cup
  {[op |-> "process", handshake |-> FALSE, last |-> FALSE]} \cup
  {[op |-> "notify", handshake |-> TRUE, last |-> TRUE]}

\* Everything that makes a difference to the dialog in service.
MainPosts == AppEvents \ {"infoNotify", "infoBad", "dialogTimeout"}

\* The register ends its dialogs, or leaves open those that it has answered.
LocatedOpen == {<< "Response" >>}

\* The register leaves open a dialog that it has not answered.
UnansweredOpen == {<< >>}
=============================================================================
