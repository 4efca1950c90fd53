---------------------------- MODULE K8sBlueprint ----------------------------
(***************************************************************************)
(* The k8s blueprint (src/blueprints_ng/modules/k8s/k8s_blueprint.py): the *)
(* worker-VM bookkeeping of K8sBlueprintNGState under the operations the   *)
(* blueprint's worker runs one at a time: create (DAY0), add_worker and    *)
(* del_workers (DAY2), and the other DAY2 operations (install_karmada,     *)
(* create_vx_lan), which touch none of this state, and destroy (STOP).   *)
(* Beside the VIM, create writes to the topology: setup_networks reserves *)
(* a load-balancer IP range for the blueprint in its service net, and     *)
(* day0conf onboards the cluster; destroy releases both.                  *)
(*                                                                         *)
(* A worker VM is identified by its number n: its name is                  *)
(* "{id}_VM_W_{n}" and its day-0 configurator has vm_number n.  Every      *)
(* provider call (create_vm, configure_vm, destroy_vm) is a step of its    *)
(* own that may return or raise; an exception ends the operation, the      *)
(* worker records error = True and saves the state as it is (the state is *)
(* part of the saved document).                                           *)
(***************************************************************************)
EXTENDS Naturals, Sequences, SequencesExt, FiniteSets

CONSTANTS
    NumSlots,        \* len(worker_numbers): 18 in the code
    CreateReplicas,  \* worker_replicas a create request may ask for
    AddReplicas,     \* worker_replicas an add_node request may ask for
    ProviderMayFail, \* provider and topology calls may raise
    MaxOps           \* bound on the number of operations run

ASSUME NumSlots \in Nat \ {0} /\ ProviderMayFail \in BOOLEAN /\ MaxOps \in Nat

Slots == 0..NumSlots-1

VARIABLES
    pc,        \* step of the running operation, "idle" between operations
    op,        \* the running operation: "create", "add", "del", "other"
    deployed,  \* create has been started (the blueprint has a master)
    err,       \* base_model.status.error of the last operation
    numbers,   \* worker_numbers: numbers[n] = 1 iff n is reserved
    vmWorkers, \* vm_workers: the worker VMs, by number, in list order
    confs,     \* day_0_workers_configurators, by vm_number
    tobe,      \* day_0_workers_configurators_tobe_exec, in list order
    it,        \* position of the for-loop iterator over tobe in day0conf
    todo,      \* replicas left in the deploy_area loop
    delList,   \* vm_to_be_destroyed in del_workers
    backend,   \* worker VMs that exist on the VIM
    cluster,   \* worker VMs joined to the k8s cluster
    ops,       \* operations started so far
    svcNet,    \* the create request's master area has a service_net
    onboardReq,  \* create_model.topology_onboard
    topoRange,   \* the topology holds an LB range reserved for this blueprint
    topoCluster, \* the topology holds this blueprint's k8s cluster
    onboarded    \* state.topology_onboarded

topo == <<svcNet, onboardReq, topoRange, topoCluster, onboarded>>
kvars == <<pc, op, deployed, err, numbers, vmWorkers, confs, tobe, it, todo,
           delList, backend, cluster, ops, topo>>

K8sTypeOK ==
    /\ pc \in {"idle", "master", "deploy", "confmaster", "conf", "dayn", "destroy", "stopped"}
    /\ op \in {"none", "create", "add", "del", "other"}
    /\ deployed \in BOOLEAN /\ err \in BOOLEAN
    /\ numbers \in [Slots -> {0, 1}]
    /\ vmWorkers \in Seq(Slots) /\ tobe \in Seq(Slots) /\ delList \in Seq(Slots)
    /\ confs \subseteq Slots /\ backend \subseteq Slots /\ cluster \subseteq Slots
    /\ it \in Nat /\ todo \in Nat /\ ops \in 0..MaxOps
    /\ \A x \in {svcNet, onboardReq, topoRange, topoCluster, onboarded} : x \in BOOLEAN

Init ==
    /\ pc = "idle" /\ op = "none" /\ deployed = FALSE /\ err = FALSE
    /\ numbers = [n \in Slots |-> 0]
    /\ vmWorkers = <<>> /\ tobe = <<>> /\ delList = <<>>
    /\ confs = {} /\ backend = {} /\ cluster = {}
    /\ it = 1 /\ todo = 0 /\ ops = 0
    /\ svcNet = FALSE /\ onboardReq = FALSE
    /\ topoRange = FALSE /\ topoCluster = FALSE /\ onboarded = FALSE

-----------------------------------------------------------------------------
(* Operation boundaries (BlueprintWorker._listen).                         *)

\* The worker takes the next message; the new status has no error.
Begin == pc = "idle" /\ ops < MaxOps /\ ops' = ops + 1

\* The routine returned: the status becomes IDLE.
Finish == pc' = "idle" /\ op' = "none" /\ err' = FALSE

\* The routine raised: status.error = True; the state stays as it is.
Raise == pc' = "idle" /\ op' = "none" /\ err' = TRUE

\* A provider call raised.
ProviderRaise == ProviderMayFail /\ Raise

\* Where the operation carries on to its next step.
Continue(next) == pc' = next /\ UNCHANGED <<op, err>>

-----------------------------------------------------------------------------
(* K8sBlueprintNGState helpers.                                            *)

FirstFree(ns) == CHOOSE i \in Slots : ns[i] = 0 /\ \A j \in Slots : ns[j] = 0 => i =< j

\* Variant that returns the first free position without marking it.
ReserveWorkerNumberNoMark(ns) == <<FirstFree(ns), ns>>

\* reserve_worker_number: the first free position is marked and returned
\* (as a pair: the number and the new list); the caller checks first that
\* one is free, otherwise the method raises ValueError.
ReserveWorkerNumber(ns) == <<FirstFree(ns), [ns EXCEPT ![FirstFree(ns)] = 1]>>

PoolFull(ns) == \A i \in Slots : ns[i] = 1

-----------------------------------------------------------------------------
(* create: deploy_master_node, deploy_area, setup_networks, day0conf,      *)
(* install_default_plugins.                                                *)

StartCreate(r, sn, ob) ==
    /\ ~deployed
    /\ Begin /\ pc' = "master" /\ op' = "create" /\ err' = FALSE
    /\ todo' = r /\ deployed' = TRUE
    /\ svcNet' = sn /\ onboardReq' = ob
    /\ UNCHANGED <<numbers, vmWorkers, confs, tobe, it, delList, backend, cluster,
                   topoRange, topoCluster, onboarded>>

\* deploy_master_node: provider.create_vm of the master.
CreateMaster ==
    /\ pc = "master"
    /\ Continue("deploy") \/ ProviderRaise
    /\ UNCHANGED <<deployed, numbers, vmWorkers, confs, tobe, it, todo, delList, backend, cluster, ops, topo>>

\* add_worker: deploy_area for the requested areas, then day0conf.
StartAdd(r) ==
    /\ deployed
    /\ Begin /\ pc' = "deploy" /\ op' = "add" /\ err' = FALSE
    /\ todo' = r
    /\ UNCHANGED <<deployed, numbers, vmWorkers, confs, tobe, it, delList, backend, cluster, topo>>

\* Variant that appends the VM to vm_workers only once create_vm returned.
DeployWorkerAppendAfterCreate ==
    /\ pc = "deploy" /\ todo > 0
    /\ ~PoolFull(numbers)
    /\ LET r == ReserveWorkerNumber(numbers)
           n == r[1]
       IN /\ numbers' = r[2]
          /\ \/ /\ backend' = backend \cup {n}
                /\ vmWorkers' = Append(vmWorkers, n)
                /\ confs' = confs \cup {n}
                /\ tobe' = Append(tobe, n)
                /\ todo' = todo - 1
                /\ Continue("deploy")
             \/ /\ ProviderRaise
                /\ backend' \in {backend, backend \cup {n}}
                /\ UNCHANGED <<vmWorkers, confs, tobe, todo>>
    /\ UNCHANGED <<deployed, it, delList, cluster, ops, topo>>

\* One iteration of the deploy_area loop: reserve a number, append the VM
\* to vm_workers, register it, provider.create_vm; on return the day-0
\* configurator is appended to both configurator lists.  create_vm may
\* raise before or after the VM exists on the VIM.
DeployWorker ==
    /\ pc = "deploy" /\ todo > 0
    /\ ~PoolFull(numbers)
    /\ LET r == ReserveWorkerNumber(numbers)
           n == r[1]
       IN /\ numbers'   = r[2]
          /\ vmWorkers' = Append(vmWorkers, n)
          /\ \/ /\ backend' = backend \cup {n}
                /\ confs' = confs \cup {n}
                /\ tobe' = Append(tobe, n)
                /\ todo' = todo - 1
                /\ Continue("deploy")
             \/ /\ ProviderRaise
                /\ backend' \in {backend, backend \cup {n}}
                /\ UNCHANGED <<confs, tobe, todo>>
    /\ UNCHANGED <<deployed, it, delList, cluster, ops, topo>>

\* Variant without the final raise: the loop's position, one past the
\* last slot, is returned as the number.
DeployPoolExhaustedNoRaise ==
    /\ pc = "deploy" /\ todo > 0
    /\ PoolFull(numbers)
    /\ vmWorkers' = Append(vmWorkers, NumSlots)
    /\ todo' = todo - 1
    /\ Continue("deploy")
    /\ UNCHANGED <<deployed, numbers, confs, tobe, it, delList, backend, cluster, ops, topo>>

\* reserve_worker_number with every number taken raises ValueError.
DeployPoolExhausted ==
    /\ pc = "deploy" /\ todo > 0
    /\ PoolFull(numbers)
    /\ Raise
    /\ UNCHANGED <<deployed, numbers, vmWorkers, confs, tobe, it, todo, delList, backend, cluster, ops, topo>>

\* create: deploy_area done; setup_networks, then day0conf(..., True).
\* With a service net the topology reserves an LB range for the blueprint
\* (reserve_range_lb_pool may raise); otherwise a fixed range of the dummy
\* net is used and the topology is not touched.
DeployDoneCreate ==
    /\ pc = "deploy" /\ todo = 0 /\ op = "create"
    /\ \/ ~svcNet /\ Continue("confmaster") /\ UNCHANGED topoRange
       \/ svcNet /\ Continue("confmaster") /\ topoRange' = TRUE
       \/ svcNet /\ ProviderRaise /\ UNCHANGED topoRange
    /\ UNCHANGED <<deployed, numbers, vmWorkers, confs, tobe, it, todo, delList, backend, cluster, ops,
                   svcNet, onboardReq, topoCluster, onboarded>>

\* add_worker: deploy_area done; day0conf is called with four arguments
\* for two parameters and raises TypeError before its first line.
DeployDoneAdd ==
    /\ pc = "deploy" /\ todo = 0 /\ op = "add"
    /\ Raise
    /\ UNCHANGED <<deployed, numbers, vmWorkers, confs, tobe, it, todo, delList, backend, cluster, ops, topo>>

\* day0conf: configure_vm of the master, then the loop over the pending
\* worker configurators starts at its first position.
ConfigureMaster ==
    /\ pc = "confmaster"
    /\ \/ Continue("conf") /\ it' = 1
       \/ ProviderRaise /\ UNCHANGED it
    /\ UNCHANGED <<deployed, numbers, vmWorkers, confs, tobe, todo, delList, backend, cluster, ops, topo>>

\* One iteration of "for configurator in tobe_exec: configure_vm(...);
\* tobe_exec.remove(configurator)": the list iterator reads position it,
\* the element is removed, and the iterator moves to position it + 1 of
\* the shortened list.
ConfigureWorker ==
    /\ pc = "conf" /\ it =< Len(tobe)
    /\ LET n == tobe[it] IN
         \/ /\ cluster' = cluster \cup {n}
            /\ tobe' = RemoveFirst(tobe, n)
            /\ it' = it + 1
            /\ Continue("conf")
         \/ ProviderRaise /\ UNCHANGED <<cluster, tobe, it>>
    /\ UNCHANGED <<deployed, numbers, vmWorkers, confs, todo, delList, backend, ops, topo>>

\* Variant that records topology_onboarded only once the plugins are
\* installed.
ConfigureDoneLateFlag ==
    /\ pc = "conf" /\ it > Len(tobe)
    /\ \/ ~onboardReq /\ UNCHANGED <<topoCluster, onboarded>> /\ (Finish \/ ProviderRaise)
       \/ onboardReq /\ topoCluster' = TRUE
          /\ \/ Finish /\ onboarded' = TRUE
             \/ ProviderRaise /\ UNCHANGED onboarded
       \/ onboardReq /\ ProviderRaise /\ UNCHANGED <<topoCluster, onboarded>>
    /\ UNCHANGED <<deployed, numbers, vmWorkers, confs, tobe, it, todo, delList, backend, cluster, ops,
                   svcNet, onboardReq, topoRange>>

\* The iterator is exhausted.  If asked, the cluster is onboarded:
\* topo.add_k8scluster (may raise), then topology_onboarded = True; then
\* install_default_plugins (may raise) ends the create.
ConfigureDone ==
    /\ pc = "conf" /\ it > Len(tobe)
    /\ \/ ~onboardReq /\ UNCHANGED <<topoCluster, onboarded>> /\ (Finish \/ ProviderRaise)
       \/ onboardReq /\ topoCluster' = TRUE /\ onboarded' = TRUE /\ (Finish \/ ProviderRaise)
       \/ onboardReq /\ ProviderRaise /\ UNCHANGED <<topoCluster, onboarded>>
    /\ UNCHANGED <<deployed, numbers, vmWorkers, confs, tobe, it, todo, delList, backend, cluster, ops,
                   svcNet, onboardReq, topoRange>>
-----------------------------------------------------------------------------
(* del_workers.                                                            *)

\* The request names some nodes (the master's name is dropped from the
\* list first).  With at most one worker VM the method logs and returns;
\* otherwise the named worker VMs found in vm_workers are collected.
StartDel(names) ==
    /\ deployed
    /\ Begin
    /\ IF Len(vmWorkers) =< 1
       THEN /\ Finish
            /\ UNCHANGED delList
       ELSE /\ pc' = "dayn" /\ op' = "del" /\ err' = FALSE
            /\ delList' = SelectSeq(vmWorkers, LAMBDA n : n \in names)
    /\ UNCHANGED <<deployed, numbers, vmWorkers, confs, tobe, it, todo, backend, cluster, topo>>

\* Variant that destroys the VMs without the day-N configure_vm.
RemoveNodesSkipped ==
    /\ pc = "dayn"
    /\ Continue("destroy") \/ ProviderRaise
    /\ UNCHANGED <<deployed, numbers, vmWorkers, confs, tobe, it, todo, delList, backend, cluster, ops, topo>>

\* configure_vm of the day-N configurator on the master: every collected
\* node is removed from the cluster before any VM is destroyed.
RemoveNodes ==
    /\ pc = "dayn"
    /\ \/ Continue("destroy") /\ cluster' = cluster \ Range(delList)
       \/ ProviderRaise /\ UNCHANGED cluster
    /\ UNCHANGED <<deployed, numbers, vmWorkers, confs, tobe, it, todo, delList, backend, ops, topo>>

\* release_worker_number of the configurators of VM n, then their removal.
ReleaseNumberOf(n, ns) == IF n \in confs THEN [ns EXCEPT ![n] = 0] ELSE ns

\* One iteration of the destroy loop: provider.destroy_vm, deregister,
\* release the number of each day-0 configurator of the VM and drop it,
\* state.remove_worker (vm_workers, both configurator lists).
DestroyWorker ==
    /\ pc = "destroy" /\ delList # <<>>
    /\ LET n == Head(delList) IN
         \/ /\ backend' = backend \ {n}
            /\ numbers' = ReleaseNumberOf(n, numbers)
            /\ confs' = confs \ {n}
            /\ vmWorkers' = Remove(vmWorkers, n)
            /\ tobe' = Remove(tobe, n)
            /\ delList' = Tail(delList)
            /\ Continue("destroy")
         \/ ProviderRaise /\ UNCHANGED <<backend, numbers, confs, vmWorkers, tobe, delList>>
    /\ UNCHANGED <<deployed, it, todo, cluster, ops, topo>>

\* The destroy loop is over: del_workers returns.
DestroyDone ==
    /\ pc = "destroy" /\ delList = <<>>
    /\ Finish
    /\ UNCHANGED <<deployed, numbers, vmWorkers, confs, tobe, it, todo, delList, backend, cluster, ops, topo>>

\* STOP: destroy.  BlueprintNG.destroy (super().destroy(), not in the
\* sources) destroys every registered resource through the provider and
\* may raise, which ends the worker's loop at once.  Otherwise the
\* topology's ranges of the blueprint are released and, if the state says
\* it was onboarded, the cluster is deleted from the topology (a
\* ValueError there is caught).  The worker stops either way.
Destroy ==
    /\ pc = "idle" /\ deployed
    /\ pc' = "stopped" /\ op' = "none"
    /\ \/ /\ backend' = {} /\ cluster' = {} /\ err' = FALSE
          /\ topoRange' = FALSE
          /\ topoCluster' = (topoCluster /\ ~onboarded)
       \/ /\ ProviderMayFail /\ err' = TRUE
          /\ backend' \in SUBSET backend
          /\ UNCHANGED <<cluster, topoRange, topoCluster>>
    /\ UNCHANGED <<deployed, numbers, vmWorkers, confs, tobe, it, todo, delList, ops,
                   svcNet, onboardReq, onboarded>>

\* install_karmada, create_vx_lan: configure_vm on the master only.
OtherDay2 ==
    /\ deployed
    /\ Begin
    /\ Finish \/ ProviderRaise
    /\ UNCHANGED <<deployed, numbers, vmWorkers, confs, tobe, it, todo, delList, backend, cluster, topo>>

Next ==
    \/ \E r \in CreateReplicas, sn, ob \in BOOLEAN : StartCreate(r, sn, ob)
    \/ \E r \in AddReplicas : StartAdd(r)
    \/ \E names \in SUBSET Slots \ {{}} : StartDel(names)
    \/ OtherDay2
    \/ CreateMaster \/ DeployWorker \/ DeployPoolExhausted
    \/ DeployDoneCreate \/ DeployDoneAdd
    \/ ConfigureMaster \/ ConfigureWorker \/ ConfigureDone
    \/ RemoveNodes \/ DestroyWorker \/ DestroyDone
    \/ Destroy

Spec == Init /\ [][Next]_kvars

-----------------------------------------------------------------------------
(* Properties.                                                             *)

\* No two worker VMs carry the same number and every worker VM's number is
\* reserved: VM names "{id}_VM_W_{n}" stay unique, and del_workers, which
\* finds VMs by name, never picks two.
WorkerNumbersUnique ==
    /\ \A i, j \in 1..Len(vmWorkers) : i # j => vmWorkers[i] # vmWorkers[j]
    /\ \A i \in 1..Len(vmWorkers) : numbers[vmWorkers[i]] = 1

\* Every worker VM that exists on the VIM is in vm_workers, so that
\* del_workers and destroy can find it: no VM is leaked by a create_vm that
\* raised after the VM was built, nor by a destroy loop that stopped.
BackendVmsTracked == backend \subseteq Range(vmWorkers)

\* Between operations the reserved numbers are exactly those of the worker
\* VMs: a number is released when its VM is deleted, so the 18-slot pool
\* does not shrink over add/delete cycles.
NumberPoolAccounted ==
    pc = "idle" => {n \in Slots : numbers[n] = 1} = Range(vmWorkers)

\* While the blueprint lives, every node of the k8s cluster runs on a VM
\* that exists: del_workers removes the named nodes from the cluster (one
\* configure_vm on the master) before it destroys any of their VMs, and a
\* worker joins only after its create_vm returned.
NodesHaveVms == pc # "stopped" => cluster \subseteq backend

\* A destroy that returns leaves nothing of the blueprint in the topology:
\* neither the LB range that setup_networks reserved nor the cluster entry
\* that day0conf added, even when the create that wrote them failed later
\* (install_default_plugins raising after the onboarding).
TopologyReleased == (pc = "stopped" /\ ~err) => ~topoRange /\ ~topoCluster

\* When the last operation ended without error, every worker VM has joined
\* the cluster: create and add_node configure every worker they deploy.
IdleMeansConfigured ==
    (pc = "idle" /\ deployed /\ ~err) => Range(vmWorkers) \subseteq cluster
====
