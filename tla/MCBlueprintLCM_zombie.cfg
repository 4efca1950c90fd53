\* One REST thread: the re-loaded worker writes the document back after destroy removed it.
CONSTANTS
    Blues = {b1}
    Workers = {w1, w2, w3}
    Callers = {c1}
    MaxMsgs = 4
    DestroyMayFail = FALSE
    NoBlue = NoBlue
    NoMsg = NoMsg
    Absent = Absent
    NoWorker = NoWorker
SPECIFICATION Spec
INVARIANT DeletedStaysDeleted
CHECK_DEADLOCK FALSE
