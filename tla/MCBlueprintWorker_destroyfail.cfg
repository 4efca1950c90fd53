CONSTANTS
    Blues = {b1}
    Workers = {w1}
    Callers = {c1, c2}
    MaxMsgs = 4
    DestroyMayFail = TRUE
    NoBlue = NoBlue
    NoMsg = NoMsg
    Absent = Absent
    w1 = w1
    b1 = b1
    c1 = c1
    c2 = c2
SPECIFICATION Spec
\* The consumer thread blocks in message_queue.get() once no message is
\* left, and a worker whose teardown raised has no thread at all.
CHECK_DEADLOCK FALSE
PROPERTY SyncCallReturns
