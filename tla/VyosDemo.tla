------------------------------ MODULE VyosDemo ------------------------------
(***************************************************************************)
(* The VyOS demo blueprint (vyos_demo_blue.py) driving the OpenStack      *)
(* provider of ProviderOpenstack.  Its handlers run on the blueprint's     *)
(* worker thread, one at a time; each registers its resources in memory    *)
(* and then makes provider calls in a fixed order.  A call that raises     *)
(* ends the handler; a crash ends it too and the blueprint is reloaded    *)
(* from the last to_db.  The handler still to run is the sequence todo of *)
(* its remaining calls.                                                    *)
(*                                                                         *)
(* The blueprint's networks (dmz-internal, data-net, alderico-net) exist  *)
(* on the VIM beforehand: it never calls create_net, so Nets is empty.    *)
(* The VM of add_area lives in area 1, whose provider is another instance *)
(* of the same class; both providers' data are kept in one record here:   *)
(* their VM names, hence flavor names, are disjoint, and with no network  *)
(* of the blueprint's own neither cleanup depends on the other.           *)
(***************************************************************************)
EXTENDS ProviderOpenstack

CONSTANTS
    Ubuntu,    \* state.vm_ubuntu
    Fedora,    \* state.vm_fedora
    AreaVms    \* the VMs that add_area and add_area3234 may create

VARIABLES
    todo,      \* remaining provider calls of the running handler
    created    \* the create handler has been started

vvars == <<pvars, todo, created>>

Steps == ({"create", "configure"} \X Vms) \cup {<<"save">>}

\* The handler is running no call.
Idle == todo = <<>>

\* A handler that registers only the first of its VMs.
RegisterFirst(vs) == mem' = [mem EXCEPT !.reg = @ \o <<Head(vs)>>]

\* register_resource of every VM in vs, in order (memory only).
RegisterAll(vs) == mem' = [mem EXCEPT !.reg = @ \o vs]

VyInit == Init /\ todo = <<>> /\ created = FALSE

(* create: registers vm_ubuntu and vm_fedora (and their configurators),   *)
(* creates both VMs, configures both, and saves the blueprint.            *)
Create ==
    /\ alive /\ Idle /\ ~created
    /\ created' = TRUE
    /\ RegisterAll(<<Ubuntu, Fedora>>)
    /\ todo' = <<<<"create", Ubuntu>>, <<"create", Fedora>>,
                 <<"configure", Ubuntu>>, <<"configure", Fedora>>, <<"save">>>>
    /\ UNCHANGED <<saved, vimServers, vimFlavors, vimNets, vimSubnets, alive, tried, crashes>>

(* add_area: registers a new VM in area 1, creates it, reconfigures       *)
(* vm_fedora (max_num = 2), configures the new VM and saves.              *)
AddArea(n) ==
    /\ alive /\ Idle /\ created
    /\ n \notin Range(mem.reg) \cup tried
    /\ RegisterAll(<<n>>)
    /\ todo' = <<<<"create", n>>, <<"configure", Fedora>>, <<"configure", n>>,
                 <<"save">>>>
    /\ UNCHANGED <<saved, vimServers, vimFlavors, vimNets, vimSubnets, alive, tried,
                   crashes, created>>

(* add_area3234: registers a new VM in area 1, creates it and saves.      *)
AddArea3234(n) ==
    /\ alive /\ Idle /\ created
    /\ n \notin Range(mem.reg) \cup tried
    /\ RegisterAll(<<n>>)
    /\ todo' = <<<<"create", n>>, <<"save">>>>
    /\ UNCHANGED <<saved, vimServers, vimFlavors, vimNets, vimSubnets, alive, tried,
                   crashes, created>>

(* The next call of the running handler.  create_vm has succeeded when it *)
(* marked the VM created; configure_vm raises at once on a VM that is not *)
(* created; a raise ends the handler.                                      *)
Step ==
    /\ ~Idle
    /\ LET s == Head(todo) IN
       \/ /\ s[1] = "create"
          /\ CreateVm(s[2])
          /\ todo' = IF s[2] \in mem'.created THEN Tail(todo) ELSE <<>>
       \/ /\ s[1] = "configure" /\ s[2] \in mem.created
          /\ ConfigureVm(s[2])
          /\ \/ saved' = mem /\ todo' = Tail(todo)
             \/ MayFail /\ saved' = saved /\ todo' = <<>>
       \/ /\ s[1] = "configure" /\ s[2] \notin mem.created
          /\ todo' = <<>>
          /\ UNCHANGED pvars
       \/ /\ s[1] = "save"
          /\ saved' = mem /\ todo' = Tail(todo)
          /\ UNCHANGED <<mem, vimServers, vimFlavors, vimNets, vimSubnets, alive,
                         tried, crashes>>
    /\ UNCHANGED created

\* The process dies, in a handler or between two; the handler is lost.
VyCrash == Crash /\ todo' = <<>> /\ UNCHANGED created

\* The worker's closing to_db after a handler, and destroy on STOP.
VyPersist == Idle /\ Persist /\ UNCHANGED <<todo, created>>
VyDestroy == Idle /\ Destroy /\ UNCHANGED <<todo, created>>

VyNext ==
    \/ Create \/ Step \/ VyCrash \/ VyPersist \/ VyDestroy
    \/ \E n \in AreaVms : AddArea(n) \/ AddArea3234(n)

VySpec == VyInit /\ [][VyNext]_vvars
====
