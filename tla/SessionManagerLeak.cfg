SPECIFICATION FairSpec
CONSTANTS
  Id = {i1, i2}
  Resource = {r1}
  Subject = {s1}
  Request = {q1}
  Kind = {"start", "monitored"}
  Nil = Nil
  Stopped = Stopped
  Window = 1
  MaxSessions = 0
  MaxTime = 1
  StopMayFail = FALSE
PROPERTIES LapsedIsStopped
CHECK_DEADLOCK FALSE
