CONSTANTS
    Areas = {a1, a2}
    MaxRep = 3
    MaxOps = 2
SPECIFICATION Spec
INVARIANTS
    ScaledAsRequested
\* The scale requests are bounded by MaxOps.
CHECK_DEADLOCK FALSE
