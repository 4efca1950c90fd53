\* Transient failures, fair worker and requests: does a failed pass get repaired?
CONSTANTS
    Areas = {a1, a2}
    Configs = {c1, c2}
    ExtRouter = {a2}
    MayFail = TRUE
    NoVal = NoVal
SPECIFICATION FairSpec
PROPERTIES Converges
