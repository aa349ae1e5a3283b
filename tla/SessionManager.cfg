\* Two ids under a limit of one session, two callers, one request at a time.
SPECIFICATION FairSpec
CONSTANTS
  Id = {i1, i2}
  Resource = {r1}
  Subject = {s1, s2}
  Request = {q1}
  Kind = {"start", "heartbeat", "monitored", "indirect", "remote"}
  Nil = Nil
  Stopped = Stopped
  Window = 1
  MaxSessions = 0
  MaxTime = 1
  StopMayFail = TRUE
PROPERTIES LapsedIsStoppedUnlessLeaked RequestsReturn
CHECK_DEADLOCK FALSE
