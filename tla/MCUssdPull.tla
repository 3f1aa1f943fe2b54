----------------------------- MODULE MCUssdPull -----------------------------
(***************************************************************************)
(* Values of the constants of UssdPull for TLC.                            *)
(***************************************************************************)
EXTENDS UssdPullDocs, TLC

CONSTANTS d1, d2

Symmetry == Permutations(Dialogs)

\* One dialog against everything an application can do.
AllAnswers == AppEvents

\* The least an application can do that leads a dialog through all its phases.
FinalAnswers == {"end", "success", "byeAnswer"}

=============================================================================
