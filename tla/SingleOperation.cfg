\* Two goroutines; contexts that end either way, and exchanges that may fail.
SPECIFICATION SingleFairSpec
CONSTANTS
    c1 = c1
    c2 = c2
    NoCall = NoCall
    Call = {c1, c2}
    Foreign = {}
    Method = {"GoFor", "GoTo", "SetPower"}
    CtxError = {"canceled", "deadline"}
    IOMayFail = TRUE
PROPERTIES DisplacedReturns CanceledMoveStops
