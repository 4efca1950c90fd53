\* Provider calls may raise: a worker whose create_vm raised keeps its number after del_workers.
CONSTANTS
    NumSlots = 3
    CreateReplicas = {1}
    AddReplicas = {1}
    ProviderMayFail = TRUE
    MaxOps = 5
SPECIFICATION Spec
INVARIANT NumberPoolAccounted
CHECK_DEADLOCK FALSE
