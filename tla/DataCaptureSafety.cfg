\* Two readings, two uploads at a time, a crash.
SPECIFICATION Spec
CONSTANTS
    r1 = r1
    r2 = r2
    u1 = u1
    u2 = u2
    Nil = Nil
    Reading = {r1, r2}
    Uploader = {u1, u2}
    QueueSize = 1
    MaxFile = 3
    MaxCrash = 1
    SlowCollector = FALSE
SYMMETRY Sym
INVARIANTS QueueIsOpen ClosedIsFlushed NothingIsLost UploadedOnce
