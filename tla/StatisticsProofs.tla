-------------------------- MODULE StatisticsProofs --------------------------
(***************************************************************************)
(* The statistics of dialogs in process, for any number of threads,        *)
(* campaigns and dialogs.  RecordedOrUnderWay is inductive: a thread that  *)
(* moves the counter or empties an interval takes over the duty to record  *)
(* the count, and no other thread had a duty that the step takes away.     *)
(***************************************************************************)
EXTENDS Statistics, TLAPS

Updates(t) == AddDialogsInProcess(t) \/ RemoveDialogsInProcess(t) \/ ClearDialogsInProcess(t)

Reads(t) == GetMinDialogsInProcess(t) \/ GetMaxDialogsInProcess(t)

\* Each update moves the counter to an integer.
LEMMA UpdateMoves ==
  ASSUME TypeOK, NEW t \in Threads, Updates(t)
  PROVE  \E to \in Int : Move(t, to)
<1>1. dialogsCnt + 1 \in Int /\ dialogsCnt - 1 \in Int /\ 0 \in Int
  BY DEF TypeOK
<1> QED
  BY <1>1 DEF Updates, AddDialogsInProcess, RemoveDialogsInProcess, ClearDialogsInProcess

\* Each read restarts an interval of one collector.
LEMMA ReadRestarts ==
  ASSUME NEW t \in Threads, Reads(t)
  PROVE  \E k \in Collectors, c \in Campaigns : RestartAndGet(t, k, c)
BY DEF Reads, GetMinDialogsInProcess, GetMaxDialogsInProcess, Collectors

LEMMA NextSteps ==
  ASSUME Next
  PROVE  \E t \in Threads : Updates(t) \/ Reads(t) \/ ReadCount(t) \/ UpdateData(t)
BY DEF Next, Updates, Reads

-----------------------------------------------------------------------------
LEMMA MoveTypes ==
  ASSUME TypeOK, NEW t \in Threads, NEW to \in Int, Move(t, to)
  PROVE  TypeOK'
<1>1. << "min", "max" >> \in Seq(Collectors)
  BY DEF Collectors
<1>2. todo' \in [Threads -> Seq(Collectors)]
  BY <1>1 DEF TypeOK, Move
<1>3. newVal' \in [Threads -> SUBSET Int]
  BY DEF TypeOK, Move
<1> QED
  BY <1>2, <1>3 DEF TypeOK, Move

LEMMA RestartTypes ==
  ASSUME TypeOK, NEW t \in Threads, NEW k \in Collectors, NEW c \in Campaigns,
         RestartAndGet(t, k, c)
  PROVE  TypeOK'
<1>1. << k >> \in Seq(Collectors)
  OBVIOUS
<1>2. todo' \in [Threads -> Seq(Collectors)]
  BY <1>1 DEF TypeOK, RestartAndGet, Seed
<1>3. newVal' \in [Threads -> SUBSET Int]
  BY DEF TypeOK, RestartAndGet
<1>4. known' \in [Collectors -> SUBSET Campaigns]
  BY DEF TypeOK, RestartAndGet, OfCampaign
<1>5. recorded' \in [Collectors -> [Campaigns -> SUBSET Int]]
  BY DEF TypeOK, RestartAndGet
<1> QED
  BY <1>2, <1>3, <1>4, <1>5 DEF TypeOK, RestartAndGet

LEMMA ReadCountTypes ==
  ASSUME TypeOK, NEW t \in Threads, ReadCount(t)
  PROVE  TypeOK'
BY DEF TypeOK, ReadCount

\* What an update leaves to do.
LEMMA UpdateHead ==
  ASSUME TypeOK, NEW t \in Threads, UpdateData(t)
  PROVE  /\ Head(todo[t]) \in Collectors
         /\ Tail(todo[t]) \in Seq(Collectors)
<1>1. todo[t] \in Seq(Collectors) /\ todo[t] # << >>
  BY DEF TypeOK, UpdateData, Free
<1> QED
  BY <1>1

LEMMA UpdateDataTypes ==
  ASSUME TypeOK, NEW t \in Threads, UpdateData(t)
  PROVE  TypeOK'
<1> DEFINE k == Head(todo[t])
           new == [c \in Campaigns |-> IF c \in known[k] THEN recorded[k][c] \cup newVal[t]
                                                         ELSE recorded[k][c]]
<1>1. k \in Collectors /\ Tail(todo[t]) \in Seq(Collectors)
  BY UpdateHead
<1>2. recorded' = [recorded EXCEPT ![k] = new] /\ todo' = [todo EXCEPT ![t] = Tail(@)]
  BY DEF UpdateData
<1>3. new \in [Campaigns -> SUBSET Int]
  BY <1>1 DEF TypeOK
<1>4. recorded' \in [Collectors -> [Campaigns -> SUBSET Int]]
  <2> HIDE DEF new, k
  <2> QED
    BY <1>1, <1>2, <1>3 DEF TypeOK
<1>5. todo' \in [Threads -> Seq(Collectors)]
  BY <1>1, <1>2 DEF TypeOK
<1> QED
  BY <1>4, <1>5 DEF TypeOK, UpdateData

\* Counter, intervals and threads keep their types.
THEOREM CounterTyped == Spec => []TypeOK
<1>1. Init => TypeOK
  <2> << >> \in Seq(Collectors)
    OBVIOUS
  <2> QED
    BY DEF Init, TypeOK
<1>2. TypeOK /\ [Next]_vars => TypeOK'
  <2> SUFFICES ASSUME TypeOK, [Next]_vars
               PROVE  TypeOK'
    OBVIOUS
  <2>1. CASE UNCHANGED vars
    BY <2>1 DEF vars, TypeOK
  <2>2. CASE Next
    <3>1. PICK t \in Threads : Updates(t) \/ Reads(t) \/ ReadCount(t) \/ UpdateData(t)
      BY <2>2, NextSteps
    <3>2. CASE Updates(t)
      BY <3>2, UpdateMoves, MoveTypes
    <3>3. CASE Reads(t)
      BY <3>3, ReadRestarts, RestartTypes
    <3>4. CASE ReadCount(t)
      BY <3>4, ReadCountTypes
    <3>5. CASE UpdateData(t)
      BY <3>5, UpdateDataTypes
    <3> QED
      BY <3>1, <3>2, <3>3, <3>4, <3>5
  <2> QED
    BY <2>1, <2>2
<1> QED
  BY <1>1, <1>2, PTL DEF Spec

-----------------------------------------------------------------------------
\* A thread that moves the counter will record where to.
LEMMA MoveRecords ==
  ASSUME TypeOK, NEW t \in Threads, NEW to \in Int, Move(t, to)
  PROVE  RecordedOrUnderWay'
<1>1. todo'[t] = << "min", "max" >> /\ newVal'[t] = {dialogsCnt'}
  BY DEF TypeOK, Move
<1>2. ASSUME NEW k \in Collectors
      PROVE  WillRecord(t, k)'
  BY <1>1, <1>2 DEF WillRecord, Collectors
<1> QED
  BY <1>2 DEF RecordedOrUnderWay

\* The others keep their duties when a thread that has none empties an interval.
LEMMA RestartRecords ==
  ASSUME TypeOK, RecordedOrUnderWay, NEW t \in Threads, NEW k \in Collectors,
         NEW c \in Campaigns, RestartAndGet(t, k, c)
  PROVE  RecordedOrUnderWay'
<1>1. todo'[t] = << k >> /\ newVal'[t] = {}
  BY DEF TypeOK, RestartAndGet, Seed
<1>2. WillRecord(t, k)'
  BY <1>1 DEF WillRecord
<1>3. ASSUME NEW j \in Collectors, j # k, NEW b \in known'[j]
      PROVE  dialogsCnt' \in recorded'[j][b] \/ \E u \in Threads : WillRecord(u, j)'
  <2>1. known'[j] = known[j] /\ recorded'[j] = recorded[j] /\ dialogsCnt' = dialogsCnt
    BY <1>3 DEF TypeOK, RestartAndGet
  <2>2. ASSUME NEW u \in Threads, WillRecord(u, j)
        PROVE  WillRecord(u, j)'
    <3>1. todo[t] = << >>
      BY DEF RestartAndGet, Free
    <3>2. u # t
      BY <2>2, <3>1 DEF WillRecord
    <3>3. todo'[u] = todo[u] /\ newVal'[u] = newVal[u]
      BY <3>2 DEF TypeOK, RestartAndGet, Seed
    <3> QED
      BY <2>1, <2>2, <3>3 DEF WillRecord
  <2>3. dialogsCnt \in recorded[j][b] \/ \E u \in Threads : WillRecord(u, j)
    BY <1>3, <2>1 DEF RecordedOrUnderWay
  <2> QED
    BY <2>1, <2>2, <2>3
<1> QED
  BY <1>2, <1>3 DEF RecordedOrUnderWay

\* The count that is read is the one to record.
LEMMA ReadCountRecords ==
  ASSUME TypeOK, RecordedOrUnderWay, NEW t \in Threads, ReadCount(t)
  PROVE  RecordedOrUnderWay'
<1>1. newVal'[t] = {dialogsCnt} /\ UNCHANGED << dialogsCnt, known, recorded, todo >>
  BY DEF TypeOK, ReadCount
<1>2. ASSUME NEW u \in Threads, NEW k \in Collectors, WillRecord(u, k)
      PROVE  WillRecord(u, k)'
  <2>1. u # t => newVal'[u] = newVal[u]
    BY DEF TypeOK, ReadCount
  <2> QED
    BY <1>1, <1>2, <2>1 DEF WillRecord
<1> QED
  BY <1>1, <1>2 DEF RecordedOrUnderWay

\* An update discharges the duty of one collector and leaves the others.
LEMMA UpdateDataRecords ==
  ASSUME TypeOK, RecordedOrUnderWay, NEW t \in Threads, UpdateData(t)
  PROVE  RecordedOrUnderWay'
<1> DEFINE k == Head(todo[t])
<1>1. k \in Collectors /\ todo[t] \in Seq(Collectors) /\ todo[t] # << >>
  BY UpdateHead DEF TypeOK, UpdateData, Free
<1>2. /\ UNCHANGED << dialogsCnt, known, newVal >>
      /\ todo'[t] = Tail(todo[t])
      /\ \A u \in Threads : u # t => todo'[u] = todo[u]
  BY DEF TypeOK, UpdateData
<1>3. /\ \A c \in known[k] : recorded'[k][c] = recorded[k][c] \cup newVal[t]
      /\ \A j \in Collectors : j # k => recorded'[j] = recorded[j]
  <2>1. known[k] \subseteq Campaigns
    BY <1>1 DEF TypeOK
  <2> QED
    BY <1>1, <2>1 DEF TypeOK, UpdateData
<1>4. ASSUME NEW u \in Threads, NEW j \in Collectors, WillRecord(u, j)
      PROVE  WillRecord(u, j)' \/ (u = t /\ j = k /\ newVal[t] = {dialogsCnt})
  <2>1. CASE u # t
    BY <1>2, <1>4, <2>1 DEF WillRecord
  <2>2. CASE u = t
    <3>1. newVal[t] = {dialogsCnt}
      BY <1>4, <2>2 DEF WillRecord, UpdateData
    <3>2. PICK i \in 1 .. Len(todo[t]) : todo[t][i] = j
      BY <1>4, <2>2 DEF WillRecord
    <3>3. CASE i = 1
      BY <1>1, <2>2, <3>1, <3>2, <3>3
    <3>4. CASE i # 1
      <4>1. /\ i - 1 \in 1 .. Len(Tail(todo[t]))
            /\ Tail(todo[t])[i - 1] = j
        BY <1>1, <3>2, <3>4
      <4> QED
        BY <1>2, <2>2, <3>1, <4>1 DEF WillRecord
    <3> QED
      BY <3>3, <3>4
  <2> QED
    BY <2>1, <2>2
<1>5. ASSUME NEW j \in Collectors, NEW b \in known'[j]
      PROVE  dialogsCnt' \in recorded'[j][b] \/ \E u \in Threads : WillRecord(u, j)'
  <2>1. b \in known[j] /\ dialogsCnt' = dialogsCnt
    BY <1>2
  <2>2. CASE dialogsCnt \in recorded[j][b]
    BY <1>3, <2>1, <2>2
  <2>3. CASE \E u \in Threads : WillRecord(u, j)
    BY <1>3, <1>4, <2>1, <2>3
  <2> QED
    BY <2>1, <2>2, <2>3 DEF RecordedOrUnderWay
<1> QED
  BY <1>5 DEF RecordedOrUnderWay

\* The current count is in the interval of every campaign, or a thread is on its
\* way to record it: addDialogsInProcess, removeDialogsInProcess and the restart
\* of an interval end with updateData of a count that is not older.
THEOREM CountUnderWay == Spec => []RecordedOrUnderWay
<1>1. Init => RecordedOrUnderWay
  BY DEF Init, RecordedOrUnderWay
<1>2. TypeOK /\ RecordedOrUnderWay /\ [Next]_vars => RecordedOrUnderWay'
  <2> SUFFICES ASSUME TypeOK, RecordedOrUnderWay, [Next]_vars
               PROVE  RecordedOrUnderWay'
    OBVIOUS
  <2>1. CASE UNCHANGED vars
    BY <2>1 DEF vars, RecordedOrUnderWay, WillRecord
  <2>2. CASE Next
    <3>1. PICK t \in Threads : Updates(t) \/ Reads(t) \/ ReadCount(t) \/ UpdateData(t)
      BY <2>2, NextSteps
    <3>2. CASE Updates(t)
      BY <3>2, UpdateMoves, MoveRecords
    <3>3. CASE Reads(t)
      BY <3>3, ReadRestarts, RestartRecords
    <3>4. CASE ReadCount(t)
      BY <3>4, ReadCountRecords
    <3>5. CASE UpdateData(t)
      BY <3>5, UpdateDataRecords
    <3> QED
      BY <3>1, <3>2, <3>3, <3>4, <3>5
  <2> QED
    BY <2>1, <2>2
<1> QED
  BY <1>1, <1>2, CounterTyped, PTL DEF Spec

\* When no thread is inside the aggregator, the minimum and maximum of every
\* campaign bound the count.
THEOREM CountIsRecorded == Spec => []CountRecorded
<1>1. RecordedOrUnderWay => CountRecorded
  <2> SUFFICES ASSUME RecordedOrUnderWay, \A t \in Threads : Free(t),
                      NEW k \in Collectors, NEW c \in known[k]
               PROVE  dialogsCnt \in recorded[k][c]
    BY DEF CountRecorded
  <2>1. ASSUME NEW t \in Threads
        PROVE  ~ WillRecord(t, k)
    BY <2>1 DEF Free, WillRecord
  <2> QED
    BY <2>1 DEF RecordedOrUnderWay
<1> QED
  BY <1>1, CountUnderWay, PTL
=============================================================================
