CONSTANTS
    v1 = v1
    v2 = v2
    v3 = v3
    n1 = n1
    Vms = {v1, v2, v3}
    Nets = {n1}
    Name <- MCName
    MayFail = TRUE
    MaxCrash = 1
SPECIFICATION Spec
INVARIANTS
    ProviderTypeOK
    CleanupComplete
\* A deleted blueprint has no next step.
CHECK_DEADLOCK FALSE
