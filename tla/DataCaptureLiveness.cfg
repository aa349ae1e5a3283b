\* Two readings, of which an earlier process may have left one behind.
SPECIFICATION FairSpec
CONSTANTS
    r1 = r1
    r2 = r2
    u1 = u1
    Nil = Nil
    Reading = {r1, r2}
    Uploader = {u1}
    QueueSize = 1
    MaxFile = 2
    MaxCrash = 0
    SlowCollector = FALSE
PROPERTIES UpdateReturns 
