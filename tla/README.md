# TLA+ models of the blueprint lifecycle engine

This directory holds TLA+ specifications of the blueprint lifecycle engine in
`src/`, together with the TLC configurations that check them. The engine
creates, reconfigures and destroys "blueprints": deployed topologies of VMs,
networks and configuration.

Source paths are relative to the repository root. The tree has two layouts:

- `src/src/nfvcl/...` holds the newer worker, the athonet core blueprint and
  the message types.
- `src/blueprints_ng/...` holds the manager, the OpenStack provider and the
  k8s and vyos blueprints.

## 1. The system

### Components and their state

| Component | Source | State it keeps |
|---|---|---|
| BlueprintWorker | `src/src/nfvcl/blueprints_ng/lcm/blueprint_worker.py` | `message_queue` (FIFO `queue.Queue`); one consumer thread (`_listen`); the wrapped blueprint object, whose `base_model.status` (`current_operation`, `error`) is copied to the document store by `to_db()` |
| WorkerMessage | `src/src/nfvcl/models/blueprint_ng/worker_message.py` | `message_type` ∈ {DAY0, DAY2, DAY2_BY_NAME, STOP}, `path`, `message`, optional `callback` |
| BlueprintManager | `src/blueprints_ng/lcm/blueprint_manager.py` | `worker_collection`: a class-level dict from blueprint id to worker, with no lock |
| K8s blueprint | `src/blueprints_ng/modules/k8s/k8s_blueprint.py` | `K8sBlueprintNGState`: master and worker VMs, `worker_numbers` pool (1..18), `day_0_workers_configurators_tobe_exec`, reserved IPs |
| Athonet core blueprint | `src/src/nfvcl/blueprints_ng/modules/athonet/athonet_core_blue.py` | `edge_areas`: area id to `EdgeAreaInfo(router, upf)`; the desired areas in `create_config` |
| OpenStack provider | `src/blueprints_ng/providers/virtualization/virtualization_provider_openstack.py` | per-blueprint provider data: `os_dict` (VM id to server id), `flavors`, `networks`, `subnets`; the process-wide `os_clients_dict` |
| VyOS demo blueprint and NAT configurator | `src/blueprints_ng/modules/vyos/...` | `TestBlueprintNGState`: `vm_ubuntu`, `vm_fedora`, their configurators and `additional_areas`; the resources registered with the blueprint; `nat_rules` of the NAT configurator |
| Legacy Free5GC blueprint | `src/blueprints/blue_free5gc/...` | `running_free5gc_conf`: the AMF, SMF, N3IWF and NSSF configuration bases; `conf["config"]["upf_nodes"]` with each UPF's `dnnList` |
| Other legacy blueprints | `src/blueprints/...` | Open5GS and SD-Core blueprints; the k8s beta blueprint (`blueprint_k8s_beta.py`): `k8s_model.areas` with each area's `workers_replica`, the NSDs in `base_model.nsd_` |
| REST and entry points | `src/rest_endpoints/horse.py`, `src/main.py`, `src/run.py`, `src/src/nfvcl/__main__.py` | — |
| Legacy helpers | `src/utils/k8s/k8s_utils.py`, `src/models/...`, `blueprints_ng/utils.py`, `cloudinit_builder.py` | — |

### How the components interact

1. A REST request reaches the manager. The endpoints run in FastAPI's thread
   pool, so several requests run the manager's methods at once.
2. The manager finds or creates the worker for the blueprint id:
   - `get_worker` looks the id up in `worker_collection`.
   - If the id is not cached, it loads the document from the store, starts a
     new worker for it and caches that worker.
3. The manager enqueues a message on the worker:
   - `create_blueprint` enqueues DAY0 on a fresh worker and returns the id at
     once.
   - `delete_blueprint` enqueues STOP (`destroy_blueprint`) and then pops the
     cache entry.
   - A DAY2 endpoint enqueues DAY2, either asynchronously or synchronously.
4. The worker's thread takes messages one at a time:
   - It sets and saves the status (DEPLOYING, RUNNING_DAY2 or DESTROYING).
   - It runs the blueprint routine (`create`, a day-2 method or `destroy`).
     The routine drives the provider.
   - It calls the callback and saves the final status. STOP does not save;
     it ends the thread.
5. A synchronous caller passes a callback that sets a `threading.Event`. It
   then blocks on `event.wait()`, which has no timeout.

### What is hard

- **Interleavings of REST threads on `worker_collection`.** `get_worker` is
  check-then-act. `delete_blueprint` pops by id after a STOP.
  `delete_all_blueprints` pops while it iterates.
- **Order of callback and save.** The callback that releases a synchronous
  caller runs before the final `to_db()`.
- **A routine that raises.** DAY0 and DAY2 catch the exception. STOP does
  not, so the thread dies.
- **Messages after a STOP are never handled.** Their synchronous callers wait
  forever.
- **Several worker objects for one blueprint.** This happens after a reload
  or a race. Each one saves its own in-memory copy, so a destroyed document
  can come back.
- **Blueprint routines that mutate lists they iterate, or check bounds in the
  wrong place.** Examples are the k8s `day0conf` and `del_workers`, and the
  worker-number pool.
- **Shared configuration lists edited per slice.** The legacy Free5GC
  handlers add a slice's entries to lists that several slices share (DNNs,
  per-area slice lists), remove them by value while enumerating, and can
  raise halfway through a request.
- **Resource accounting in the provider across failures.** A flavor or VM is
  created before the provider data is saved. Cleanup runs in a fixed order.

### What makes each component correct

- **Worker:**
  - It is a serialized actor: FIFO order, one message at a time, one answer
    per callback, and STOP is the last message it handles.
  - The stored status is never "in progress" unless a thread is working on it.
  - Every synchronous caller is released.
- **Manager:**
  - Each blueprint has at most one live worker.
  - Every live worker is reachable from the cache or has its STOP.
  - A deleted document stays deleted.
  - `delete_all` stops every worker.
  - Every synchronous DAY2 caller returns.
- **K8s blueprint:**
  - Every worker VM is configured.
  - Worker numbers are never shared.
  - A released number returns to the pool.
  - At least one worker is kept.
  - No cluster node outlives its VM.
  - A destroy releases what create wrote to the topology.
- **Edge-area reconciliation:**
  - The deployed areas converge to the desired ones.
  - A failed pass leaves no half entry that breaks later passes.
- **Free5GC core configuration:**
  - A deleted slice is gone from every NF.
  - The AMF advertises only slices the SMF and the NSSF serve.
  - Deleting a slice leaves the other slices' DNNs in place.
- **Provider:**
  - Every backend object created is recorded, so it can be destroyed.
  - Destroy is idempotent.
  - Cleanup leaves nothing behind.

## 2. Modules

| Module | Models | Kind |
|---|---|---|
| `BlueprintActor` | what a worker promises: serialized FIFO actor, one answer per callback, STOP last | abstract specification |
| `BlueprintWorker` | one or more workers: queue, `_listen` cases, status and store, callbacks, blocking callers | detailed specification; refines `BlueprintActor` |
| `MCBlueprintWorker` | one worker, fresh (DAY0 queued) or re-loaded (IDLE in the store), callers that stop after STOP | model-checking harness |
| `BlueprintLCM` | `BlueprintManager` and concurrent REST threads composed with the workers of `BlueprintWorker` | composition of the manager with its workers |
| `EdgeReconcile` | the diff-apply of spec §4.3, one area at a time: apply the desired configuration where it differs, remove areas no longer desired | abstract specification |
| `EdgeAreas` | athonet `update_edge_areas`, driven by `add_dnn`/`del_dnn`, with every sub-blueprint call able to raise | detailed specification; refines `EdgeReconcile` |
| `Free5GCCore` | the legacy Free5GC blueprint's core configuration under `core_nsd`, `init_day2_conf`, `add_slice`, `del_slice`, `add_tac_conf` and `del_tac_conf` | detailed specification (one blueprint; list helpers as operators, `RECURSIVE` for enumerate-pop) |
| `K8sBlueprint` | the k8s blueprint's worker-VM bookkeeping under create, add_node, del_workers, the other DAY2 operations and destroy, and what create writes to the topology (LB range, cluster entry) | detailed specification (one blueprint; its operations are serialized by its worker) |
| `ProviderOpenstack` | the OpenStack provider of one blueprint (`create_vm`, `create_net`, `configure_vm`, `destroy_vm`, `final_cleanup`) with the VIM it drives, failing calls and crashes | detailed specification; the blueprint's `register_resource` and `destroy` come from the specification |
| `VyosDemo` | the VyOS demo blueprint's `create`, `add_area` and `add_area3234` driving `ProviderOpenstack`, with a crash possible between two calls | composition (blueprint handlers over the provider) |
| `K8sBetaScale` | the legacy k8s blueprint's day 0 and its `scale` operation (`add_worker`, `add_worker_day2`, `add_worker_area_label`, `del_worker`) | detailed specification (one blueprint; the list handlers are `FoldLeft` steps) |

### Correspondence with the code

In `BlueprintWorker`, `wpc[w]` is the position of the worker's thread in
`_listen`:

| `wpc[w]` | Where the thread is |
|---|---|
| `listen` | blocked in `message_queue.get()` |
| `run` | inside the blueprint routine |
| `finish` | the callback has run; the closing `to_db()` has not |
| `stopped` | left the loop after STOP |
| `dead` | an exception escaped the STOP case |

Other variables:

- `mem[w]` is the worker's in-memory status. `db[b]` is the stored document:
  a status, or `Absent`.
- `reply[i]` is what the callback of message `i` delivered.
- A caller blocked in `event.wait()` has `cpc[c] = "wait"`.

One action per step of the code:

| Action | Code |
|---|---|
| `Receive` | `get()` and the head of each case, up to its first `to_db()` |
| `OperationSucceeded` | try body and callback |
| `OperationFailed` | except body and callback |
| `SaveStatus` | the closing `to_db()` |
| `Destroyed` | the STOP case when `destroy` returns |
| `DestroyRaised` | the STOP case when `destroy` raises |
| `PutMessage` | `put_message` and `destroy_blueprint` |
| `PutMessageSync` | `put_message_sync`, `call_function_sync` and `destroy_blueprint_sync` |
| `SyncReturn` | the return of `event.wait()` |

The blueprint routines are not modelled. Each one ends in success or an
exception, chosen nondeterministically.

In `BlueprintLCM`, each REST thread `c` runs one request at a time. The
request is split at the points where another thread can interleave:

| Request | Steps |
|---|---|
| `get_worker` | lookup (`GetWorkerCached`, `GetWorkerNotFound`, `GetWorkerLoad`), then `GetWorkerStart`: start a worker from the loaded snapshot and store it in the dict |
| DAY2 | `get_worker`, then `PutDay2` |
| `delete_blueprint` | `get_worker`, then `PutStop`, then `PopWorker` |

`create_blueprint` and `delete_all_blueprints` are single steps:

- `create_blueprint` is one step because its new id is invisible to other
  threads until it returns.
- In `delete_all_blueprints`, the `RuntimeError` after the first pop ends the
  loop: `DeleteAllBlueprints` sends one STOP and pops one entry.

In `K8sBlueprint`, a worker VM is its number `n`. Its name is
`{id}_VM_W_{n}` and its configurator has `vm_number = n`.

The model keeps these variables:

| Variable | Code |
|---|---|
| `numbers` | `worker_numbers` |
| `vmWorkers` | `vm_workers`, in list order |
| `confs` | `day_0_workers_configurators` |
| `tobe` | `day_0_workers_configurators_tobe_exec`, in list order |
| `backend` | the VMs that exist on the VIM |
| `cluster` | the nodes joined to Kubernetes |
| `err` | the worker's status error flag |
| `svcNet`, `onboardReq` | the create request: the master area has a `service_net`; `topology_onboard` |
| `topoRange`, `topoCluster` | the topology holds an LB range reserved for the blueprint; its k8s cluster |
| `onboarded` | `state.topology_onboarded` |

An operation is a sequence of steps, one per provider call, and any of them
may raise. An exception ends the operation with `err = TRUE` and keeps the
state as it was; the worker saves it.

- `DeployWorker` is one iteration of `deploy_area`. `create_vm` may return,
  raise before the VM exists, or raise after it exists.
- `ConfigureWorker` is one iteration of day0conf's `for ... remove` loop. The
  iterator position `it` advances while the list shrinks, which is what
  Python's list iterator does.
- `DestroyWorker` is one iteration of the destroy loop of `del_workers`,
  including `remove_worker`.
- `DeployDoneAdd` is the `TypeError` of `add_worker`'s `day0conf` call.
- `DeployDoneCreate` includes `setup_networks`. With a service net it
  reserves an LB range in the topology (`reserve_range_lb_pool`, which may
  raise). Without one, it uses a fixed range of the dummy net.
- `ConfigureDone` is the end of `day0conf` and `install_default_plugins`:
  `add_k8scluster`, then `topology_onboarded = True`, then the plugins. Each
  call may raise.
- `Destroy` is `destroy()` on STOP. It first calls `BlueprintNG.destroy`,
  which is not in the sources: from the specification, it destroys the VMs
  or raises. If it returns, `release_ranges` runs, and then
  `del_k8scluster` if the state says the cluster was onboarded. The worker
  stops either way (`pc = "stopped"`).

In `EdgeAreas` an area is a model value and a UPF configuration is one of a
small set `Configs`: `_create_upf_config` is abstracted to the value it
returns, which is all the code compares (line 244).

| Variable | Code |
|---|---|
| `desired` | `current_config.areas`, with the UPF configuration of each area, `NoVal` for an area not in the list |
| `edge` | `state.edge_areas`; an entry is `[router, upf]`, with `router` `"none"` (None), `"ext"` or `"own"` and `upf` the stored `current_config` or `NoVal` (None) |
| `routerBp`, `upfBp` | the router and UPF sub-blueprints that exist |
| `pc`, `todo`, `cur`, `dels` | position in `update_edge_areas`: the `for` over areas, the area being deployed, `areas_to_delete` |
| `err` | the DAY2 operation ended with an exception |

| Action | Code |
|---|---|
| `Request(d)` | `add_dnn`/`del_dnn`: `super()` rewrites `current_config`, `configure()` on the PDU (may raise), then the pass starts |
| `InsertEntry(a)` | line 225: `EdgeAreaInfo(area)` stored with router and upf None |
| `DeployRouter` | lines 227-233: external router recorded, or `deploy_router_blueprint` (may raise) |
| `DeployUpf` | lines 235-237: `deploy_upf_blueprint` (may raise) and the stored `UpfInfo` |
| `CheckArea(a)` | lines 238-247: `upf.current_config` read (AttributeError on None), update pushed when it differs; a raising update may or may not have reached the UPF |
| `LoopDone` | lines 255-258: `areas_to_delete` |
| `UndeployRouter(a)` | lines 259-265: `router.external` read (AttributeError on None), `undeploy_router_blueprint` (may raise) |
| `UndeployUpf` | lines 267-271: `undeploy_upf_blueprint` (may raise), then `del` of the entry |
| `PassDone` | the pass returns |

The loop visits the areas in any order (`todo` is a set): the order of
`current_config.areas` is whatever the requests built, and spec §4.3 allows
adds and updates in any order. The undeploy functions live in the generic 5G
blueprint, which is not in the sources; they are modelled as idempotent
(undeploying what is already gone succeeds), as spec §7 asks of teardown.

#### `Free5GCCore` (legacy Free5GC blueprint)

The blueprint edits nested dictionaries through helpers it inherits from
`Blue5GBase`, which is not in the sources. `free5gc_core_configurator.py`
carries the same helpers (`amf_set_configuration`, `smf_unset_configuration`,
...), and the module translates their bodies; the blueprint's positional
calls (`amf_unset_configuration(sliceList, dnnSliceList)`) are taken to bind
the slice and DNN lists. One PLMN; a slice `(sst, sd)`, a DNN and an area are
model values. Python lists stay sequences, because the unset helpers pop
while they `enumerate`: after a pop the next element is skipped. That is
`EnumPop`, a `RECURSIVE` operator. The add-if-absent loops are `AddAll`, a
`FoldLeft` of `AddIfAbsent`.

| Variable | Code |
|---|---|
| `phase` | creation not run, `core_nsd` run, `init_day2_conf` run |
| `day0Tac`, `day0` | the area and the slices of the creation request |
| `amfSlices`, `amfDnns`, `amfTacs` | AMF `plmnSupportList[0].snssaiList`, `supportDnnList`, `supportTaiList` |
| `smfInfos` | SMF `snssaiInfos`: `sNssai` and the DNNs of its `dnnInfos` |
| `upLinked` | areas whose `UPF-{tac}`/`gNB-{tac}` upNodes and link are in the SMF |
| `n3iwf` | N3IWF `SupportedTAList`: per area its `TAISliceSupportList`, `NoTa` if absent |
| `nssfSupported`, `nssfNsi`, `nssfTa` | NSSF `supportedNssaiInPlmnList` (with `mappingOfSnssai`, kept in step with it), `nsiList`, per-area `taList`/`amfList` |
| `upfDnns` | `upf_nodes[tac].dnnList` |
| `err`, `ops` | the last operation raised; day-2 operations so far |
| `lastDel` | the slice removed by the last `del_slice` (history variable for `DeletedSliceGone`) |

| Action | Code |
|---|---|
| `CoreNsd(t, c)` | `core_nsd` (lines 205-299) after the resets: `smf_set` per slice, `n3iwf_set` and `nssf_set` for the area, `amf_set` with all slices and DNNs |
| `InitDay2` | `init_day2_conf`: `smf_add_upf` per slice (the first raises `ValueError` for an area without a UPF/gNB pair), then the UPF's `dnnList.extend` |
| `AddSlice(t, d)` | `add_slice` for one slice: `smf_set`, UPF `extend`, `n3iwf_set`, `nssf_set`, `smf_add_upf` (may raise), then `amf_set` |
| `DelSlice(t, d)` | `del_slice`: `amf_unset`, `smf_unset`, `n3iwf_unset`, `nssf_unset`, then the UPF's enumerate-pop |
| `AddTac(t, n)` | `add_tac_conf` with `n` slices: `smf_add_upf` per slice; `TypeError` at the second (the set literal `{sd, sst, dnnList}`); its `add_slice` message has no `"areas"` |
| `DelTac(t)` | `del_tac_conf`: `smf_del_upf` raises `AttributeError` once any upNode exists; its `del_slice` message has no `"areas"` |

Requests carry one slice (a request with several is a sequence of these
steps, with one `amf_set` at the end). The UPF's per-slice `sNssaiUpfInfos`
in the SMF upNodes are not modelled: no property is about them. A raised
exception leaves the partial edits in `running_free5gc_conf`, which is
mutated in place. As written, `__init__` (line 98) builds
`Configurator_Free5GC_Core` with one argument and raises `TypeError`, so no
Free5GC blueprint can be created; the model describes the handlers as if
that line were fixed, since none of them uses `coreManager`.

#### `ProviderOpenstack` (OpenStack virtualization provider)

Source: `src/blueprints_ng/providers/virtualization/virtualization_provider_openstack.py`
(PV below). `mem` is the blueprint in memory: its resource registry
(`reg`), which VMs are `created`, and the provider data
`VirtualizationProviderDataOpenstack` (`os` for the keys of `os_dict`,
`flavors`, `subnets`, `networks`, PV 24-28). `saved` is the same record as
the last `to_db()` wrote it. The four `vim*` sets are what exists on
OpenStack.

- `CreateVm(v)` is the whole of `create_vm` (PV 84-221): the image lookup
  and `create_flavor` may raise; a flavor recorded under the VM name is
  reused only if it still exists on the VIM, else the call raises
  (`AddFlavor`, PV 95-108); `create_server` needs the networks (PV
  113-141); the server id is recorded and saved (PV 131), and the rest of
  the call (ports, port security, info gathering, PV 150-221) may still
  raise before `created` and the closing save. `create_vm` does not look at
  the registry; `Next` asks it only for registered VMs, as the blueprints
  do.
- `CreateNet(n)` is `create_net` (PV 177-196): the network is created, then
  the subnet; a raise between them leaves a network that is recorded
  nowhere.
- `ConfigureVm(v)` is `configure_vm` (PV 222-291): it waits for SSH,
  ignoring the timeout, runs the playbook, raises if the run failed, and
  saves the blueprint. The info gathering at the end of `create_vm` (PV
  198-221) runs a playbook the same way.
- `DestroyVm(v)` is `destroy_vm` (PV 293-300) on a day-2 removal.
- `Destroy` is the blueprint's `destroy` from the specification: every
  registered VM's `destroy_vm` with its save, then `final_cleanup` (PV
  302-311), which deletes flavors, subnets and networks in that order and
  stops at the first delete that raises. OpenStack refuses to delete a
  network or subnet a server is attached to (`InUse`).
- `Persist` is a save by the blueprint or by the worker's closing
  `to_db()`. `Crash` reloads `mem` from `saved`; at most `MaxCrash`.

The process-wide `os_clients_dict` and two blueprints sharing it are not
modelled; each blueprint has its own flavors, named after its VMs.

#### `VyosDemo` (VyOS demo blueprint over the OpenStack provider)

Source: `src/blueprints_ng/modules/vyos/vyos_demo_blue.py` (VD below). The
module extends `ProviderOpenstack`; `todo` is the list of provider calls the
running handler has still to make, and `created` records that `create` has
been started.

- `Create` is `create` (VD 75-124): it registers `vm_ubuntu` and
  `vm_fedora` (`RegisterAll`, VD 98-101), then calls `create_vm` on both,
  `configure_vm` on both and `to_db`.
- `AddArea(n)` is `add_area` (VD 135-160): it registers a VM in area 1,
  creates it, configures `vm_fedora` again and then the new VM, and
  saves. `AddArea3234(n)` (VD 168-188) registers, creates and saves.
- `Step` makes the next call: `CreateVm` or `ConfigureVm` of the provider,
  or the closing save. A call that raises empties `todo`, and so does
  `configure_vm` on a VM that is not created (the check of its parent
  class).
- `VyCrash` is the provider's `Crash` and also ends the handler.
  `VyPersist` (the worker's closing `to_db`) and `VyDestroy` (STOP) run
  only between handlers.
- The networks the VMs use exist on the VIM beforehand (`Nets` is empty).
  The area-1 VM has its own provider instance in the code; both instances'
  data are one record here, which is harmless because their VM and flavor
  names are disjoint.

#### `K8sBetaScale` (legacy k8s blueprint, scaling)

Source: `src/blueprints/blue_k8s/blueprint_k8s_beta.py` (KB below) and its
model `src/models/k8s/blue_k8s_model.py`. `areas` is `k8s_model.areas`
(area id to `workers_replica`), `nsd` the worker NSDs of `base_model.nsd_`,
`deployed` the NSDs the engine has deployed and not deleted, `joined` those
that `add_worker_day2` configured, `labeled` those that
`add_worker_area_label` labeled with their area.

- `BootstrapDay0(c, hasCore)` is `bootstrap_day0` and `nsd()` (KB 67-194):
  every area builds replicas `0 .. workers_replica - 1`; a request without a
  core area, or with a data net missing at a VIM, fails.
- `Scale(adds, mods, dels)` is one `scale` message (KB 477-656):
  `add_worker` folds `AddStep` over `add_areas` (an existing area raises,
  KB 448-457) and `ModifyAddStep` over `modify_areas` (builds
  `range(old + 1, new)` and never stores the new count, KB 459-475); the
  engine deploys its NSDs only if it returned; `add_worker_day2` joins the
  workers of `add_areas` only; `AreaLabel` is `add_worker_area_label` (KB
  518-566), which looks up the NFVO instance of every worker NSD of those
  areas in `nsd_` and raises when one is not running; `del_worker` folds
  `DelStep` (an unknown area raises) and `ModifyDelStep` (a smaller count
  raises a `TypeError`). `del_worker` never removes NSDs from `nsd_`.
- What a raising handler changed in `k8s_model` and `nsd_` stays.

## 3. Runs

| Run | Cfg | Expect | What it shows |
|---|---|---|---|
| `worker_actor` | `MCBlueprintWorker.cfg` | pass | The worker refines `BlueprintActor` (`ActorSpec`). The store never shows an operation in progress once the thread is idle (`PersistedInProgressOnlyWhileBusy`). Every synchronous DAY2 caller is released, even after failures (`Day2CallReturns`). |
| `worker_sync_stop_hang` | `MCBlueprintWorker_destroyfail.cfg` | violation | A `destroy()` that raises kills the thread without a callback. `destroy_blueprint_sync` hangs, where spec §4.4 says the callback fires even if destroy raised. |
| `lcm_orphan_worker` | `MCBlueprintLCM_orphan.cfg` | violation | `NoOrphanWorker`, with two REST threads (FastAPI runs synchronous endpoints on a thread pool). Both threads call `get_worker` on an uncached id, pass the unlocked check at line 48, load the blueprint and start a worker. The second insert at line 56 overwrites the first, whose thread keeps listening on a queue that no request can reach or stop. With one thread the check and the insert cannot interleave, so the property is only worth checking here. |
| `lcm_zombie_document` | `MCBlueprintLCM_zombie.cfg` | violation | The old worker's closing `to_db()` rewrites the document after the new worker's destroy deleted it. |
| `k8s_pool` | `MCK8sBlueprint.cfg` | pass | Across create, add_node, del_workers, other DAY2 operations and destroy, with failing provider and topology calls and a pool that runs out: worker numbers are unique and reserved (`WorkerNumbersUnique`); every VM on the VIM is in `vm_workers` (`BackendVmsTracked`); no cluster node outlives its VM (`NodesHaveVms`, because `del_workers` removes the nodes before it destroys any VM); and a destroy that returns leaves neither the LB range nor the cluster entry in the topology (`TopologyReleased`, because the onboarding flag is set right after the topology write, before the plugin install that may raise). 144,045 states. |
| `edge_reconcile` | `MCEdgeAreas.cfg` | pass | With any sub-blueprint call raising, every step of `update_edge_areas` is a step of `EdgeReconcile` (`ReconcileSpec`: only the desired configuration is ever recorded, only undesired areas are removed, an unchanged area is left alone), and every router and UPF sub-blueprint that exists is recorded in `edge_areas` (`ChildrenRecorded`). |
| `edge_half_entry_stuck` | `MCEdgeAreas_converge.cfg` | violation | `Converges`: a deploy that raises leaves a half-filled `EdgeAreaInfo`; every later pass raises on it (`upf.current_config` on None at line 244, `router.external` on None at line 264), so the area is never repaired, even with transient failures, a fair worker and an operator who keeps sending requests. With `MayFail = FALSE` the same property holds. |
| `free5gc_core` | `MCFree5GCCore.cfg` | pass | Over every creation request and three day-2 operations, some of them failing: after `del_slice` no NF list names the slice any more, `nsiList` aside (`DeletedSliceGone`, which rests on every set helper adding only absent slices); the AMF advertises only slices the SMF and the NSSF know (`AmfBackedBySmf`, because `add_slice` calls `amf_set` after the `smf_add_upf` that may raise). |
| `free5gc_slice_isolation` | `MCFree5GCCore_isolation.cfg` | violation | `SliceIsolation`: `del_slice` pops the deleted slice's DNNs from the AMF's global `supportDnnList` and from every other slice's SMF `dnnInfos`. TLC's shortest trace adds `s1` with `d1` and then deletes a slice that is not configured, naming `d1`. Two configured slices sharing a DNN lose it the same way. |
| `provider_openstack` | `MCProviderOpenstack.cfg` | pass | With every VIM call able to raise and one crash that reloads the last `to_db()`: flavor names in the provider data stay distinct, a flavor already recorded is reused (`ProviderTypeOK`), and once `destroy` has deleted the blueprint, no server, flavor, subnet or network the provider recorded in memory is left on the VIM (`CleanupComplete`). |
| `vyos_provider` | `MCVyosDemo.cfg` | pass | The VyOS handlers in their real order on the provider, with failing calls and two crashes: a deleted blueprint leaves none of its recorded servers or flavors on the VIM (`CleanupComplete`). This includes servers from `add_area` retries that raise on `configure_vm(vm_fedora)` after a failed create. |
| `k8s_beta_scale` | `MCK8sBetaScale.cfg` | violation | `ScaledAsRequested`: after scale requests, the deployed workers do not match `k8s_model.areas` (per-area count, area known, joined and labeled). The shortest trace adds a list whose second entry names an existing area: `add_worker` raises after changing `k8s_model.areas`, and the new area keeps its replica count with no worker deployed. Other traces: a `del_areas` list with an unknown second area drops the first area from `k8s_model` but never deletes its workers; a `modify_areas` request builds one worker too few and never joins it; an area deleted and added again gets workers that are never labeled, because the deleted NSD left in `nsd_` makes `add_worker_area_label` raise. |

#### Retired runs

Four violation runs were retired to keep the run list short. Their cfgs
stay beside the modules and still fail as described:

- `MCK8sBlueprint_day0skip.cfg` (`IdleMeansConfigured`): `day0conf` removes
  each configurator from the list its `for` loop iterates, so a create with
  two workers ends without error and one worker is never configured.
- `MCK8sBlueprint_numberleak.cfg` (`NumberPoolAccounted`): a VM whose
  `create_vm` raised is deleted without its worker number going back to the
  pool.
- `MCBlueprintWorker_release.cfg` (`ReleasedAfterSave`): the callback
  releases a synchronous caller before the closing `to_db()` (worker lines
  127-140), so the caller can read back a status that still says running.
- `MCBlueprintLCM_stoprace.cfg` (`LCMDay2CallReturns` with two threads): a
  DAY2 that took the worker from the cache before a concurrent delete is
  queued behind the STOP; the thread exits and the caller waits forever.

#### Defects without a run

Five more defects were found while modelling, and none has a run of its own:

- Right after the early pop, two live workers can exist for one id. The
  zombie run shows the consequence.
- `delete_all_blueprints` raises `RuntimeError` after stopping the first
  worker. `DeleteAllBlueprints` models what it does.
- `add_worker` raises `TypeError`. `DeployDoneAdd` models it. It violates
  `IdleMeansConfigured` too, but the day0conf run reaches a shorter
  counterexample of the same property first.
- `del_workers` can delete the last worker, because its check at line 308
  counts workers before the deletion.
- The k8s `destroy` calls `BlueprintNG.destroy` first. If that raises,
  `release_ranges` and `del_k8scluster` never run and the worker leaves its
  loop. The LB range and the cluster entry then stay in the topology, and no
  later step releases them. `Destroy` reaches this outcome;
  `TopologyReleased` is stated only for a destroy that returns.

`PROJECT.json` lists them as hazards. In the Free5GC blueprint:

- `nsiList` gets a new entry for every slice on every `nssf_set` call and is
  never cleaned.
- `add_slice` extends the UPF's `dnnList` without a membership check, so
  after a re-add `del_slice` leaves one copy of the deleted slice's DNN.
- `add_tac_conf` raises `TypeError` at an area's second slice, and
  `del_tac_conf` raises `AttributeError` whenever an upNode exists. Neither
  ever changes the AMF, N3IWF or NSSF. `AddTac` and `DelTac` model both.

In the OpenStack provider, `create_net` creates the network before the
subnet (PV 186) and records neither id until both exist. If the subnet call
raises, the network is on OpenStack and in no provider data, so
`final_cleanup` never deletes it. `MCProviderOpenstack_leak.cfg` checks
`NoLeakAfterDestroy` and finds this trace.

### Bounds

- **`MaxMsgs`** (4) bounds the number of messages ever created. Four messages
  allow a DAY0, a failing and a succeeding DAY2 and a STOP on one worker, or
  a create, a DAY2 and a STOP in the manager runs.
- **Workers:** 1 in the worker runs. In the manager runs there are 3: the
  creation and two re-loads, enough for a re-load during a destroy and a
  re-load after it.
- **Callers:** two in the worker runs. In the manager runs, one thread for
  the zombie run (the defect needs no concurrency) and two for the race runs.
- **Blueprint ids:** one. The manager runs with two ids took over eight
  minutes and showed nothing one id does not.
- **K8s runs:**
  - A pool of 3 worker numbers (18 in the code). Three is enough to exhaust
    the pool with a create of 2 and one add_node.
  - Create with 1 or 2 workers and add_node with 1. A create request may
    or may not have a service net and may or may not ask for onboarding.
  - At most 5 operations. That is enough for create, add, delete, add, and
    an operation after a failure.
- **Edge runs:** two areas, one with an external router, and two UPF
  configurations. That is enough for an add, an update, a removal and an
  external router in one behaviour, and for a half entry beside a healthy
  area. Requests are unbounded; the state space is finite without a bound.
- **Free5GC runs:** two slices, two DNNs, two areas. `t1` has a UPF and a
  gNB, and `t2` a UPF only, so `smf_add_upf` succeeds in one area and raises
  in the other. The creation request has at most 2 slices, and there are at
  most 3 day-2 operations. That is enough for two slices sharing a DNN, a
  re-add, a failing add and a delete in one behaviour. Every DNN list of 1
  or 2 DNNs, in either order, is a possible input.
- **Provider run:** three VMs, two of them sharing a name (so a recorded
  flavor is reused), one network, every call able to raise and one crash.
  That is enough for a flavor reuse after a crash, a server left by a
  failed save, a day-2 removal and a failed, retried destroy.
- **VyOS run:** `vm_ubuntu`, `vm_fedora` and two VMs for `add_area` and
  `add_area3234` (both named "VM Fedora in area 1", so they share a
  flavor), every call able to raise and two crashes. Two area-1 VMs allow
  a retried `add_area`; two crashes allow one inside a handler and one
  after a failed destroy.
- **K8s beta run:** two areas, `workers_replica` up to 3, lists of up to two
  entries and two scale requests.
- **Deadlock checking** is off in the worker, manager, k8s, Free5GC, provider, VyOS and k8s beta runs (a deleted blueprint and a blueprint past its request bound have no next step); the edge
  runs check it (an idle blueprint can always take another request). A worker whose queue is empty
  blocks forever in `get()`, and a client may stop sending requests; both
  are legitimate final states. The Free5GC runs stop at their operation
  bound.

### Fairness

- **Weak fairness on each worker's step.** The consumer thread is a dedicated
  `threading.Thread` that never yields for good while it has work.
- **Weak fairness on a started request's next step.** The REST thread keeps
  running its handler.
- **Weak fairness on `SyncReturn`.** A set event wakes its waiter.
- **No fairness on issuing new requests.** Clients may stop.
- **`Converges` (edge):** weak fairness on the worker's pass steps; strong
  fairness on the successful outcome of every sub-blueprint call, that is,
  provider failures are transient; strong fairness on successful requests,
  that is, the operator keeps retrying. These assumptions are generous on
  purpose: the property fails even under them.

## 4. Plan and what is left

Next modules, in order:

1. **Free5GC, continued:** requests with several slices, the edge NSDs
   and `config_5g_core_for_reboot`.
2. **K8s beta, continued:** the controller's day-2 steps and their
   callbacks.

Free5GC `add_ues`/`del_ues` only call `Configurator_Free5GC_User`, which
is not in the sources. The process-wide `os_clients_dict` is not modelled:
a check-then-set on a Python dict under the GIL at worst builds a second
client, and no state of a blueprint depends on which client it got.

The VyOS NAT configurator is left out: its `add_*` methods append to
`self._nat_rules`, which the class never defines, so every call raises
`AttributeError`.

Not modelled, and why:

- **Legacy Open5GS and SD-Core blueprints** (`src/blueprints/*` other than Free5GC). They are payload generators (NSDs, Helm values, Ansible
  playbooks) on top of a framework that is not in the repository.
- **`k8s_utils`.** It wraps the Kubernetes API.
- **REST routers, entry points, YAML and cloud-init helpers.** These are pure
  I/O or formatting.
- **The `liteon` configurator.** It builds a playbook and keeps no state.
- **`protect_blueprint` and the read-only queries of the manager.**
