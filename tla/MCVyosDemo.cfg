CONSTANTS
    u = u
    f = f
    n1 = n1
    n2 = n2
    Ubuntu = u
    Fedora = f
    AreaVms = {n1, n2}
    Vms = {u, f, n1, n2}
    Nets = {}
    Name <- MCVyName
    MayFail = TRUE
    MaxCrash = 2
SPECIFICATION VySpec
INVARIANTS
    CleanupComplete
\* A deleted blueprint has no next step.
CHECK_DEADLOCK FALSE
