\* One k8s blueprint, a pool of three worker numbers, create with one or two
\* workers, add_node with one, failing provider calls, five operations.
CONSTANTS
    NumSlots = 3
    CreateReplicas = {1, 2}
    AddReplicas = {1}
    ProviderMayFail = TRUE
    MaxOps = 5
SPECIFICATION Spec
INVARIANTS K8sTypeOK WorkerNumbersUnique BackendVmsTracked NodesHaveVms TopologyReleased
\* The blueprint waits for requests once MaxOps operations have run.
CHECK_DEADLOCK FALSE
