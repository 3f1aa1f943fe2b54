\* Three threads that update, clear and read the count of up to two dialogs.
CONSTANTS
  t1 = t1
  t2 = t2
  t3 = t3
  day = day
  hour = hour
  Threads = {t1, t2, t3}
  Campaigns = {day, hour}
  MaxDialogs = 2
SPECIFICATION Spec
SYMMETRY Symmetry
INVARIANTS
  TypeOK
  CountRecorded
  RecordedOrUnderWay
