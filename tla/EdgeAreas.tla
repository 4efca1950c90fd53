----------------------------- MODULE EdgeAreas -----------------------------
(***************************************************************************)
(* AthonetCore.update_edge_areas (athonet_core_blue.py): the edge-area    *)
(* reconciliation of the Athonet 5G core blueprint, run on the            *)
(* blueprint's worker thread at the end of add_dnn and del_dnn.           *)
(*                                                                         *)
(* desired is the state's current_config: per area the UPF configuration *)
(* _create_upf_config computes for it, or NoVal for an area that is not   *)
(* in current_config.areas.  edge is state.edge_areas: per area an        *)
(* EdgeAreaInfo record (router: "none" while it is None, "ext" for an     *)
(* external router, "own" for a router sub-blueprint; upf: the UPF's      *)
(* current_config, NoVal while it is None) or NoVal for no entry.         *)
(* routerBp and upfBp are the sub-blueprints that really exist.  Every    *)
(* call into a sub-blueprint may raise when MayFail; an exception ends    *)
(* the pass and the whole DAY2 operation, and edge keeps what the pass    *)
(* wrote so far (the worker saves the state whatever the outcome).        *)
(***************************************************************************)
EXTENDS FiniteSets

CONSTANTS
    Areas,      \* area ids
    Configs,    \* UPF configurations
    ExtRouter,  \* areas whose networks.external_router is set
    MayFail,    \* whether sub-blueprint calls and the PDU configure raise
    NoVal       \* None

ASSUME ExtRouter \subseteq Areas

VARIABLES
    desired,   \* current_config, per area
    edge,      \* state.edge_areas
    routerBp,  \* areas whose router sub-blueprint exists
    upfBp,     \* per area the configuration of its UPF sub-blueprint, or NoVal
    pc,        \* "idle", "add", "router", "upf", "delete", "delupf"
    todo,      \* areas of current_config.areas the for loop has still to visit
    cur,       \* area being deployed or deleted
    dels,      \* areas_to_delete still to handle
    err        \* the last operation ended with an exception

evars == <<desired, edge, routerBp, upfBp, pc, todo, cur, dels, err>>

Vals == Configs \cup {NoVal}
Entries == [router : {"none", "ext", "own"}, upf : Vals]

DesiredAreas == {a \in Areas : desired[a] # NoVal}
DeployedAreas == {a \in Areas : edge[a] # NoVal}

EdgeTypeOK ==
    /\ desired \in [Areas -> Vals]
    /\ edge \in [Areas -> Entries \cup {NoVal}]
    /\ routerBp \subseteq Areas
    /\ upfBp \in [Areas -> Vals]
    /\ pc \in {"idle", "add", "router", "upf", "delete", "delupf"}
    /\ todo \subseteq Areas /\ dels \subseteq Areas
    /\ cur \in Areas \cup {NoVal}
    /\ err \in BOOLEAN

Init ==
    /\ desired \in [Areas -> Vals]
    /\ edge = [a \in Areas |-> NoVal]
    /\ routerBp = {}
    /\ upfBp = [a \in Areas |-> NoVal]
    /\ pc = "idle" /\ todo = {} /\ cur = NoVal /\ dels = {}
    /\ err = FALSE

\* The exception propagates out of update_edge_areas and the DAY2 call.
Raise ==
    /\ pc' = "idle" /\ todo' = {} /\ cur' = NoVal /\ dels' = {}
    /\ err' = TRUE

-----------------------------------------------------------------------------
(* add_dnn / del_dnn: super() rewrites current_config, the PDU is          *)
(* configured (it may raise), then update_edge_areas runs.               *)
Request(d) ==
    /\ pc = "idle"
    /\ desired' = d
    /\ \/ /\ pc' = "add" /\ todo' = {a \in Areas : d[a] # NoVal}
          /\ err' = FALSE
          /\ UNCHANGED <<cur, dels>>
       \/ MayFail /\ Raise
    /\ UNCHANGED <<edge, routerBp, upfBp>>

\* Mutant: the entry is stored as a record holding only the area id.
InsertEntryAreaOnly(a) ==
    /\ pc = "add" /\ a \in todo /\ edge[a] = NoVal
    /\ edge' = [edge EXCEPT ![a] = [area |-> a]]
    /\ pc' = "router" /\ cur' = a
    /\ UNCHANGED <<desired, routerBp, upfBp, todo, dels, err>>

(* A new area: an EdgeAreaInfo with router and upf None is stored first. *)
InsertEntry(a) ==
    /\ pc = "add" /\ a \in todo /\ edge[a] = NoVal
    /\ edge' = [edge EXCEPT ![a] = [router |-> "none", upf |-> NoVal]]
    /\ pc' = "router" /\ cur' = a
    /\ UNCHANGED <<desired, routerBp, upfBp, todo, dels, err>>

(* An external router is recorded as is; otherwise deploy_router_blueprint.*)
DeployRouter ==
    /\ pc = "router"
    /\ \/ /\ \/ cur \in ExtRouter /\ edge' = [edge EXCEPT ![cur].router = "ext"]
                                  /\ UNCHANGED routerBp
             \/ cur \notin ExtRouter /\ edge' = [edge EXCEPT ![cur].router = "own"]
                                     /\ routerBp' = routerBp \cup {cur}
          /\ pc' = "upf"
          /\ UNCHANGED <<todo, cur, err>>
       \/ cur \notin ExtRouter /\ MayFail /\ Raise /\ UNCHANGED <<edge, routerBp>>
    /\ UNCHANGED <<desired, upfBp, dels>>

(* deploy_upf_blueprint, then the UpfInfo is stored.                      *)
DeployUpf ==
    /\ pc = "upf"
    /\ \/ /\ upfBp' = [upfBp EXCEPT ![cur] = desired[cur]]
          /\ edge' = [edge EXCEPT ![cur].upf = desired[cur]]
          /\ pc' = "add" /\ todo' = todo \ {cur} /\ cur' = NoVal
          /\ UNCHANGED err
       \/ MayFail /\ Raise /\ UNCHANGED <<edge, upfBp>>
    /\ UNCHANGED <<desired, routerBp, dels>>

(* An area already in edge_areas: edge_info.upf.current_config is read,   *)
(* an AttributeError when upf is None; a differing configuration is      *)
(* pushed with call_blueprint_function and the new UpfInfo stored.  A    *)
(* failing update may or may not have reached the UPF.                   *)
CheckArea(a) ==
    /\ pc = "add" /\ a \in todo /\ edge[a] # NoVal
    /\ \/ /\ edge[a].upf = NoVal
          /\ Raise /\ UNCHANGED <<edge, upfBp>>
       \/ /\ edge[a].upf \notin {NoVal, desired[a]}
          /\ \/ /\ upfBp' = [upfBp EXCEPT ![a] = desired[a]]
                /\ edge' = [edge EXCEPT ![a].upf = desired[a]]
                /\ todo' = todo \ {a}
                /\ UNCHANGED <<pc, cur, dels, err>>
             \/ /\ MayFail /\ Raise /\ UNCHANGED edge
                /\ upfBp' \in {upfBp, [upfBp EXCEPT ![a] = desired[a]]}
       \/ /\ edge[a].upf = desired[a]
          /\ todo' = todo \ {a}
          /\ UNCHANGED <<pc, cur, dels, err, edge, upfBp>>
    /\ UNCHANGED <<desired, routerBp>>

\* Mutant: every deployed area is deleted, not only the undesired ones.
LoopDoneAllDeployed ==
    /\ pc = "add" /\ todo = {}
    /\ pc' = "delete"
    /\ dels' = DeployedAreas
    /\ UNCHANGED <<desired, edge, routerBp, upfBp, todo, cur, err>>

(* The for loop is done: areas_to_delete = deployed - existing.           *)
LoopDone ==
    /\ pc = "add" /\ todo = {}
    /\ pc' = "delete"
    /\ dels' = DeployedAreas \ DesiredAreas
    /\ UNCHANGED <<desired, edge, routerBp, upfBp, todo, cur, err>>

(* edge_area_info.router.external is read (AttributeError on None); a    *)
(* router that is not external is undeployed.                            *)
UndeployRouter(a) ==
    /\ pc = "delete" /\ a \in dels
    /\ \/ edge[a].router = "none" /\ Raise /\ UNCHANGED routerBp
       \/ /\ edge[a].router = "ext"
          /\ pc' = "delupf" /\ cur' = a
          /\ UNCHANGED <<routerBp, todo, dels, err>>
       \/ /\ edge[a].router = "own"
          /\ \/ /\ routerBp' = routerBp \ {a}
                /\ pc' = "delupf" /\ cur' = a
                /\ UNCHANGED <<todo, dels, err>>
             \/ MayFail /\ Raise /\ UNCHANGED routerBp
    /\ UNCHANGED <<desired, edge, upfBp>>

\* Mutant: the entry is deleted before undeploy_upf_blueprint is called.
UndeployUpfDelFirst ==
    /\ pc = "delupf"
    /\ edge' = [edge EXCEPT ![cur] = NoVal]
    /\ \/ /\ upfBp' = [upfBp EXCEPT ![cur] = NoVal]
          /\ dels' = dels \ {cur} /\ pc' = "delete" /\ cur' = NoVal
          /\ UNCHANGED <<todo, err>>
       \/ MayFail /\ Raise /\ UNCHANGED upfBp
    /\ UNCHANGED <<desired, routerBp>>

(* undeploy_upf_blueprint, then the entry is deleted from edge_areas.    *)
UndeployUpf ==
    /\ pc = "delupf"
    /\ \/ /\ upfBp' = [upfBp EXCEPT ![cur] = NoVal]
          /\ edge' = [edge EXCEPT ![cur] = NoVal]
          /\ dels' = dels \ {cur} /\ pc' = "delete" /\ cur' = NoVal
          /\ UNCHANGED <<todo, err>>
       \/ MayFail /\ Raise /\ UNCHANGED <<edge, upfBp>>
    /\ UNCHANGED <<desired, routerBp>>

(* The pass and the DAY2 operation end normally.                          *)
PassDone ==
    /\ pc = "delete" /\ dels = {}
    /\ pc' = "idle" /\ err' = FALSE
    /\ UNCHANGED <<desired, edge, routerBp, upfBp, todo, cur, dels>>

\* One step of a running pass, on the blueprint's worker thread.
PassStep ==
    \/ \E a \in Areas : InsertEntry(a) \/ CheckArea(a) \/ UndeployRouter(a)
    \/ DeployRouter \/ DeployUpf \/ LoopDone \/ UndeployUpf \/ PassDone

Next == (\E d \in [Areas -> Vals] : Request(d)) \/ PassStep

Spec == Init /\ [][Next]_evars

(* A step of the pass that returns normally (no exception).              *)
Ok(A) == A /\ ~err'

(* The worker keeps running a started pass; the operator keeps sending  *)
(* DAY2 requests; a sub-blueprint call that can succeed eventually does  *)
(* (provider failures are transient).                                    *)
FairSpec ==
    /\ Spec
    /\ SF_evars(Ok(\E d \in [Areas -> Vals] : Request(d)))
    /\ \A a \in Areas : SF_evars(Ok(InsertEntry(a) \/ CheckArea(a) \/ UndeployRouter(a)))
    /\ SF_evars(Ok(DeployRouter)) /\ SF_evars(Ok(DeployUpf))
    /\ SF_evars(Ok(UndeployUpf))
    /\ WF_evars(PassStep)

-----------------------------------------------------------------------------
(* Properties.                                                            *)

\* The configuration the blueprint believes it applied to each area.
Applied == [a \in Areas |-> IF edge[a] = NoVal THEN NoVal ELSE edge[a].upf]

Reconcile == INSTANCE EdgeReconcile WITH applied <- Applied

\* update_edge_areas implements the diff-apply of spec 4.3: each step either
\* leaves the recorded configurations alone, deploys or updates a desired
\* area to exactly its desired configuration when it differs, or removes
\* an area that is no longer desired, whatever calls raised before.
ReconcileSpec == Reconcile!Spec

\* Every router and UPF sub-blueprint that exists is recorded in
\* edge_areas, so a later pass can find and undeploy it: no failing
\* deploy or undeploy leaves a sub-blueprint nobody tracks.
ChildrenRecorded ==
    /\ \A a \in routerBp : edge[a] # NoVal /\ edge[a].router = "own"
    /\ \A a \in Areas : upfBp[a] # NoVal => edge[a] # NoVal

\* Once current_config stops changing, repeated DAY2 requests eventually
\* leave every area with its desired UPF configuration, when provider
\* failures are transient: a failed pass is repaired by a later one.
Converges ==
    \A d \in [Areas -> Vals] :
        <>[](desired = d) => []<>(pc = "idle" /\ Reconcile!Synced)
=============================================================================
