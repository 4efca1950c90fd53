\* Create with two workers, no provider failure: day0conf skips every other pending worker.
CONSTANTS
    NumSlots = 3
    CreateReplicas = {2}
    AddReplicas = {}
    ProviderMayFail = FALSE
    MaxOps = 5
SPECIFICATION Spec
INVARIANT IdleMeansConfigured
CHECK_DEADLOCK FALSE
