----------------------------- MODULE Statistics -----------------------------
(***************************************************************************)
(* The number of dialogs in process and its extremes per statistic         *)
(* interval (UssdStatAggregator.java).  SBBs of many threads update it     *)
(* while campaigns of the OAM read it.  An update of the counter is        *)
(* atomic, an update of a collector too, but one follows the other:        *)
(* everything a thread does between two of them is a step.  How many       *)
(* dialogs there are is the matter of UssdPull and UssdPush.               *)
(***************************************************************************)
EXTENDS Integers, Sequences

CONSTANTS
  Threads,
  Campaigns,
  MaxDialogs    \* bound: dialogs in process

ASSUME MaxDialogsAssumption == MaxDialogs \in Nat

\* MIN_DIALOGS_IN_PROCESS, MAX_DIALOGS_IN_PROCESS.
Collectors == {"min", "max"}

VARIABLES
  dialogsCnt,
  known,      \* campaigns a collector has an interval for
  recorded,   \* the values in that interval; its result is their extreme
  todo,       \* collectors a thread has still to update
  newVal      \* with which value: none in {} before it has been read

vars == << dialogsCnt, known, recorded, todo, newVal >>

TypeOK ==
  /\ dialogsCnt \in Int
  /\ known \in [Collectors -> SUBSET Campaigns]
  /\ recorded \in [Collectors -> [Campaigns -> SUBSET Int]]
  /\ todo \in [Threads -> Seq(Collectors)]
  /\ newVal \in [Threads -> SUBSET Int]

Init ==
  /\ dialogsCnt = 0
  /\ known = [k \in Collectors |-> {}]
  /\ recorded = [k \in Collectors |-> [c \in Campaigns |-> {}]]
  /\ todo = [t \in Threads |-> << >>]
  /\ newVal = [t \in Threads |-> {}]

Free(t) == todo[t] = << >>

-----------------------------------------------------------------------------
\* addAndGet, set: the counter moves, both collectors will be told.
Move(t, to) ==
  /\ Free(t)
  /\ dialogsCnt' = to
  /\ newVal' = [newVal EXCEPT ![t] = {to}]
  /\ todo' = [todo EXCEPT ![t] = << "min", "max" >>]
  /\ UNCHANGED << known, recorded >>

AddDialogsInProcess(t) == dialogsCnt < MaxDialogs /\ Move(t, dialogsCnt + 1)

RemoveDialogsInProcess(t) == dialogsCnt > 0 /\ Move(t, dialogsCnt - 1)

\* At the start of the management.
ClearDialogsInProcess(t) == Move(t, 0)

\* Faulty variant: the names of collector and campaign are swapped.
OfCampaignSwapped(k, c) == {k}

\* The first call of a campaign creates its interval.
OfCampaign(k, c) == {c}

\* Faulty variant: the new interval does not begin with the current count.
SeedNever(t, k) == UNCHANGED todo

Seed(t, k) == todo' = [todo EXCEPT ![t] = << k >>]

\* restartAndGet and, as steps of their own, the update with the current count.
RestartAndGet(t, k, c) ==
  /\ Free(t)
  /\ known' = [known EXCEPT ![k] = @ \cup OfCampaign(k, c)]
  /\ recorded' = [recorded EXCEPT ![k][c] = {}]
  /\ newVal' = [newVal EXCEPT ![t] = {}]
  /\ Seed(t, k)
  /\ UNCHANGED dialogsCnt

GetMinDialogsInProcess(t) == \E c \in Campaigns : RestartAndGet(t, "min", c)

GetMaxDialogsInProcess(t) == \E c \in Campaigns : RestartAndGet(t, "max", c)

\* dialogsCnt.get(), the argument of updateData.
ReadCount(t) ==
  /\ ~Free(t) /\ newVal[t] = {}
  /\ newVal' = [newVal EXCEPT ![t] = {dialogsCnt}]
  /\ UNCHANGED << dialogsCnt, known, recorded, todo >>

\* updateData: the intervals of all campaigns.
UpdateData(t) ==
  LET k == Head(todo[t])
  IN  /\ ~Free(t) /\ newVal[t] # {}
      /\ recorded' = [recorded EXCEPT ![k] =
                        [c \in Campaigns |-> IF c \in known[k]
                                             THEN recorded[k][c] \cup newVal[t]
                                             ELSE recorded[k][c]]]
      /\ todo' = [todo EXCEPT ![t] = Tail(@)]
      /\ UNCHANGED << dialogsCnt, known, newVal >>

Next == \E t \in Threads :
          \/ AddDialogsInProcess(t) \/ RemoveDialogsInProcess(t)
          \/ ClearDialogsInProcess(t)
          \/ GetMinDialogsInProcess(t) \/ GetMaxDialogsInProcess(t)
          \/ ReadCount(t) \/ UpdateData(t)

Spec == Init /\ [][Next]_vars

-----------------------------------------------------------------------------
\* When no thread is under way the interval of every campaign holds the current
\* count, so that its minimum and maximum bound it: no interleaving of updates
\* with each other or with the restart of an interval loses the last one.
CountRecorded ==
  (\A t \in Threads : Free(t)) =>
    \A k \in Collectors : \A c \in known[k] : dialogsCnt \in recorded[k][c]

\* The inductive form: the current count is recorded, or some thread will do it.
WillRecord(t, k) ==
  /\ \E i \in 1 .. Len(todo[t]) : todo[t][i] = k
  /\ newVal[t] \in {{}, {dialogsCnt}}

RecordedOrUnderWay ==
  \A k \in Collectors : \A c \in known[k] :
    dialogsCnt \in recorded[k][c] \/ \E t \in Threads : WillRecord(t, k)
=============================================================================
