\* Two REST threads: a delete races a re-load of the same id.
CONSTANTS
    Blues = {b1}
    Workers = {w1, w2, w3}
    Callers = {c1, c2}
    MaxMsgs = 4
    DestroyMayFail = FALSE
    NoBlue = NoBlue
    NoMsg = NoMsg
    Absent = Absent
    NoWorker = NoWorker
SPECIFICATION Spec
INVARIANT NoOrphanWorker
CHECK_DEADLOCK FALSE
