\* Three RPCs, every operation with an id of its own.
SPECIFICATION TableSpec
CONSTANTS
    c1 = c1
    c2 = c2
    c3 = c3
    i1 = i1
    i2 = i2
    i3 = i3
    NoOp = NoOp
    Rpc = {c1, c2, c3}
    OpId = {i1, i2, i3}
    Handler = {"move", "stopAll", "other"}
    SharedId = FALSE
    Cancels = TRUE
SYMMETRY Sym
INVARIANTS ClaimCancelsEarlier
