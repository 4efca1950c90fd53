--------------------------- MODULE K8sBetaScale ----------------------------
(***************************************************************************)
(* The scaling of the legacy K8s blueprint (blueprint_k8s_beta.py).  The *)
(* blueprint keeps its areas with their workers_replica (k8s_model.areas) *)
(* and the list of NSDs it has built (base_model.nsd_).  Day 0 and        *)
(* add_worker return the names of the worker NSDs to deploy, del_worker   *)
(* the instances to delete; the engine of BlueprintBaseBeta deploys or    *)
(* deletes them only when the handler returns normally.  A worker NSD is  *)
(* a record of its area, its replica index and the request that built it; *)
(* the controller NSD is left out.                                         *)
(***************************************************************************)
EXTENDS Naturals, FiniteSets, SequencesExt

CONSTANTS
    Areas,     \* area ids
    MaxRep,    \* largest workers_replica of a request
    MaxOps     \* bound on scale requests

VARIABLES
    phase,     \* "new", "ready" after day 0, "failed" when day 0 raised
    areas,     \* k8s_model.areas: area id -> workers_replica
    nsd,       \* worker NSDs in base_model.nsd_
    deployed,  \* worker NSDs the engine has deployed and not deleted
    joined,    \* worker NSDs configured by add_worker_day2 (joined the cluster)
    labeled,   \* worker NSDs add_worker_area_label labeled with their area
    ops        \* scale requests so far; tags the NSDs a request builds

kvars == <<phase, areas, nsd, deployed, joined, labeled, ops>>

AreaInfos == [id : Areas, workers_replica : 0..MaxRep]

\* The lists of a K8sBlueprintScale, at most two entries each.
AreaLists == BoundedSeq(AreaInfos, 2)

\* worker_nsd(area, replica_id): one more worker NSD appended to nsd_.
WorkerNsd(a, i, g) == [area |-> a, idx |-> i, gen |-> g]

Init ==
    /\ phase = "new"
    /\ areas = <<>>
    /\ nsd = {}
    /\ deployed = {}
    /\ joined = {}
    /\ labeled = {}
    /\ ops = 0

(* nsd(): replicas 0 .. workers_replica - 1 of every area.                *)
DayZeroNsds(c) == UNION {{WorkerNsd(a, i, 0) : i \in 0..(c[a] - 1)} : a \in DOMAIN c}

(* The 'init' operation: bootstrap_day0 raises without a core area and    *)
(* topology_terraform when a data net is missing at a VIM; else the NSDs  *)
(* of nsd() are deployed and the day-2 steps configure the controller     *)
(* and, through add_worker_day2 over k8s_model.areas, every worker.       *)
BootstrapDay0(c, hasCore) ==
    /\ phase = "new"
    /\ \/ phase' = "failed" /\ UNCHANGED <<areas, nsd, deployed, joined, labeled>>
       \/ /\ hasCore
          /\ phase' = "ready"
          /\ areas' = c
          /\ nsd' = DayZeroNsds(c)
          /\ deployed' = nsd'
          /\ joined' = nsd'
          /\ labeled' = nsd'
    /\ UNCHANGED ops

(* One entry of add_areas: raise if the area exists, else build workers   *)
(* 1 .. workers_replica and append the area.                              *)
AddStep(acc, e) ==
    IF acc.err THEN acc
    ELSE IF e.id \in DOMAIN acc.areas THEN [acc EXCEPT !.err = TRUE]
    ELSE [acc EXCEPT
            !.built = @ \cup {WorkerNsd(e.id, i, ops + 1) : i \in 1..e.workers_replica},
            !.areas = @ @@ (e.id :> e.workers_replica)]

(* One entry of modify_areas when adding: for a known area with fewer     *)
(* replicas, build range(old + 1, new); the stored replica count is left *)
(* as it was.                                                              *)
ModifyAddStep(acc, e) ==
    IF acc.err \/ e.id \notin DOMAIN acc.areas THEN acc
    ELSE LET old == acc.areas[e.id] IN
         IF old < e.workers_replica
         THEN [acc EXCEPT !.built = @ \cup
                 {WorkerNsd(e.id, i, ops + 1) : i \in (old + 1)..(e.workers_replica - 1)}]
         ELSE acc

(* One entry of del_areas: raise if the area is unknown, else collect    *)
(* every worker NSD of the area in nsd_ and drop the area.                *)
DelStep(acc, e) ==
    IF acc.err THEN acc
    ELSE IF e \notin DOMAIN acc.areas THEN [acc EXCEPT !.err = TRUE]
    ELSE [acc EXCEPT
            !.del = @ \cup {d \in acc.nsds : d.area = e},
            !.areas = [x \in DOMAIN @ \ {e} |-> @[x]]]

(* One entry of modify_areas when deleting: fewer replicas than stored   *)
(* reaches checked_area['workers_replica'], which raises a TypeError.    *)
ModifyDelStep(acc, e) ==
    IF acc.err \/ e.id \notin DOMAIN acc.areas THEN acc
    ELSE IF acc.areas[e.id] > e.workers_replica THEN [acc EXCEPT !.err = TRUE]
    ELSE acc

(* add_worker_area_label for the areas ids: every worker NSD of nsd_ in  *)
(* those areas is looked up at the NFVO (get_vnfi_list(nsi_id)[0]), which *)
(* raises for an NSD whose instance is not running; else they are all     *)
(* labeled.                                                                *)
AreaLabel(ids, nsds, running) ==
    LET ws == {w \in nsds : w.area \in ids}
    IN [err |-> ~(ws \subseteq running), lab |-> ws]

(* The 'scale' operation of supported_operations runs, for one          *)
(* K8sBlueprintScale message, add_worker (its NSDs deployed), then         *)
(* add_worker_day2, which configures the workers of msg.add_areas, and    *)
(* add_worker_area_label, then del_worker (its instances deleted).  A     *)
(* handler that raises ends the operation: what it changed in k8s_model   *)
(* and nsd_ stays, nothing it returned is deployed or deleted.            *)
Scale(adds, mods, dels) ==
    /\ phase = "ready" /\ ops < MaxOps
    /\ LET a1 == FoldLeft(AddStep, [err |-> FALSE, areas |-> areas, built |-> {}], adds)
           r == FoldLeft(ModifyAddStep, a1, mods)
           addIds == {e.id : e \in Range(adds)}
           up == deployed \cup r.built
           d1 == FoldLeft(DelStep, [err |-> FALSE, areas |-> r.areas, nsds |-> nsd \cup r.built,
                                     del |-> {}], dels)
           d == FoldLeft(ModifyDelStep, d1, mods)
           l == AreaLabel(addIds, nsd \cup r.built, up)
       IN /\ nsd' = nsd \cup r.built
          /\ IF r.err
             THEN UNCHANGED <<deployed, joined, labeled>> /\ areas' = r.areas
             ELSE /\ joined' = joined \cup {w \in up : w.area \in addIds}
                  /\ labeled' = IF l.err THEN labeled ELSE labeled \cup l.lab
                  /\ areas' = IF l.err THEN r.areas ELSE d.areas
                  /\ deployed' = IF l.err \/ d.err THEN up ELSE up \ d.del
    /\ ops' = ops + 1
    /\ UNCHANGED phase

Next ==
    \/ \E c \in UNION {[D -> 0..MaxRep] : D \in SUBSET Areas \ {{}}},
          hasCore \in BOOLEAN : BootstrapDay0(c, hasCore)
    \/ \E adds, mods \in AreaLists, dels \in BoundedSeq(Areas, 2) : Scale(adds, mods, dels)

Spec == Init /\ [][Next]_kvars

-----------------------------------------------------------------------------

WorkerCount(a) == Cardinality({d \in deployed : d.area = a})

(* The docstring of add_worker: a scale request "can add new area with    *)
(* relative number of workers or add workers to existing areas".  After  *)
(* any sequence of scale requests every configured area runs as many      *)
(* deployed workers as its workers_replica, every deployed worker belongs *)
(* to a configured area, and every deployed worker has joined the cluster *)
(* and carries its area label.                                             *)
ScaledAsRequested ==
    phase = "ready" =>
        /\ \A a \in DOMAIN areas : areas[a] = WorkerCount(a)
        /\ \A w \in deployed : w.area \in DOMAIN areas
        /\ deployed \subseteq joined \cap labeled
=============================================================================
