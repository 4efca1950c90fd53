\* Two REST threads: a DAY2 request enqueued behind a STOP on the same worker.
CONSTANTS
    Blues = {b1}
    Workers = {w1, w2, w3}
    Callers = {c1, c2}
    MaxMsgs = 4
    DestroyMayFail = FALSE
    NoBlue = NoBlue
    NoMsg = NoMsg
    Absent = Absent
    NoWorker = NoWorker
SPECIFICATION Spec
PROPERTY LCMDay2CallReturns
CHECK_DEADLOCK FALSE
