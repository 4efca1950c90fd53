\* Two areas, one with an external router; every sub-blueprint call may fail.
CONSTANTS
    Areas = {a1, a2}
    Configs = {c1, c2}
    ExtRouter = {a2}
    MayFail = TRUE
    NoVal = NoVal
SPECIFICATION Spec
INVARIANTS EdgeTypeOK ChildrenRecorded
PROPERTIES ReconcileSpec
