------------------------- MODULE ProviderOpenstack -------------------------
(***************************************************************************)
(* The OpenStack virtualization provider of one blueprint area            *)
(* (virtualization_provider_openstack.py) together with the VIM it        *)
(* drives.  The provider keeps its bookkeeping (server ids, flavor names, *)
(* subnet and network ids) in the blueprint's memory; it reaches the      *)
(* database only when somebody calls the blueprint's to_db.  The VIM     *)
(* objects are sets: a server is named by the resource it was built for, *)
(* a flavor by the VM name, a network and its subnet by the NetResource.  *)
(*                                                                         *)
(* Every VIM call may raise (MayFail) and the process may die between     *)
(* two steps (at most MaxCrash times): on restart the blueprint is        *)
(* reloaded from what to_db last saved.  The calls of the blueprint around *)
(* the provider (register_resource, destroy) come from the specification  *)
(* of BlueprintNG, whose code is not part of the repository.               *)
(***************************************************************************)
EXTENDS Naturals, Sequences, SequencesExt, FiniteSets

CONSTANTS
    Vms,       \* VmResource ids
    Name,      \* Name[v]: vm_resource.name; two resources may share a name
    Nets,      \* NetResources of the blueprint, every VM attaches to all
    MayFail,   \* whether a VIM call may raise
    MaxCrash   \* bound on process crashes

VARIABLES
    mem,         \* blueprint in memory: registry and provider data
    saved,       \* the same, as the last to_db wrote it
    vimServers,  \* servers that exist on the VIM
    vimFlavors,  \* flavors that exist on the VIM
    vimNets,     \* networks that exist on the VIM
    vimSubnets,  \* subnets that exist on the VIM
    alive,       \* the blueprint has not been deleted
    tried,       \* VMs and nets whose creation was requested
    crashes

pvars == <<mem, saved, vimServers, vimFlavors, vimNets, vimSubnets,
           alive, tried, crashes>>

Names == {Name[v] : v \in Vms}

(* VirtualizationProviderDataOpenstack plus the blueprint's registry and  *)
(* the created flag of each VmResource.                                    *)
Data == [reg : Seq(Vms), os : SUBSET Vms, created : SUBSET Vms,
         flavors : Seq(Names), subnets : Seq(Nets), networks : Seq(Nets)]

EmptyData == [reg |-> <<>>, os |-> {}, created |-> {},
              flavors |-> <<>>, subnets |-> <<>>, networks |-> <<>>]

Init ==
    /\ mem = EmptyData
    /\ saved = EmptyData
    /\ vimServers = {} /\ vimFlavors = {} /\ vimNets = {} /\ vimSubnets = {}
    /\ alive = TRUE
    /\ tried = {}
    /\ crashes = 0

VimUnchanged == UNCHANGED <<vimServers, vimFlavors, vimNets, vimSubnets>>

\* A provider call that raised before changing anything.
Raised == UNCHANGED <<mem, saved, vimServers, vimFlavors, vimNets, vimSubnets>>

(* The blueprint registers a VmResource before it asks the provider to    *)
(* create it (register_resource, in memory only); Next asks create_vm    *)
(* only for registered VMs.                                                *)
Register(v) ==
    /\ alive
    /\ v \notin tried
    /\ v \notin Range(mem.reg)
    /\ mem' = [mem EXCEPT !.reg = Append(@, v)]
    /\ UNCHANGED <<saved, vimServers, vimFlavors, vimNets, vimSubnets,
                   alive, tried, crashes>>

\* A create_vm that creates the flavor even when the name is recorded.
AddFlavorAlways(d, nm) == [d EXCEPT !.flavors = Append(@, nm)]

\* Reuse a flavor recorded under this VM name, else record the new one.
AddFlavor(d, nm) ==
    IF nm \in Range(d.flavors) THEN d ELSE [d EXCEPT !.flavors = Append(@, nm)]

\* create_server builds a VM only on networks that exist.
NetsReady == Nets \subseteq vimNets

(* create_vm: image lookup, flavor reuse or creation, create_server, the  *)
(* registration of the server id followed by to_db, then the network     *)
(* details, port security and info gathering (a playbook run through    *)
(* __configure_vm_ansible), created and to_db.  Each call may raise; what *)
(* it did before stays in memory.                                          *)
CreateVm(v) ==
    /\ alive
    /\ v \notin tried
    /\ tried' = tried \cup {v}
    /\ LET nm == Name[v]
           known == nm \in Range(mem.flavors)
           m1 == AddFlavor(mem, nm)
           m2 == [m1 EXCEPT !.os = @ \cup {v}]
           m3 == [m2 EXCEPT !.created = @ \cup {v}]
       IN \/ MayFail /\ Raised
          \/ known /\ nm \notin vimFlavors /\ Raised
          \/ ~known /\ MayFail /\ Raised
          \/ /\ known => nm \in vimFlavors
             /\ vimFlavors' = vimFlavors \cup {nm}
             /\ UNCHANGED <<vimNets, vimSubnets>>
             /\ \/ MayFail /\ mem' = m1 /\ UNCHANGED <<saved, vimServers>>
                \/ /\ MayFail /\ NetsReady
                   /\ mem' = m1 /\ vimServers' = vimServers \cup {v}
                   /\ UNCHANGED saved
                \/ /\ NetsReady
                   /\ vimServers' = vimServers \cup {v}
                   /\ \/ MayFail /\ mem' = m2 /\ saved' = m2
                      \/ mem' = m3 /\ saved' = m3
    /\ UNCHANGED <<alive, crashes>>

(* create_net: refuse an existing name or CIDR, create the network, then  *)
(* its subnet, and record both ids (in memory only).                      *)
CreateNet(n) ==
    /\ alive
    /\ n \notin tried
    /\ tried' = tried \cup {n}
    /\ \/ MayFail /\ Raised
       \/ /\ n \notin vimNets
          /\ vimNets' = vimNets \cup {n}
          /\ UNCHANGED <<saved, vimServers, vimFlavors>>
          /\ \/ MayFail /\ UNCHANGED <<mem, vimSubnets>>
             \/ /\ vimSubnets' = vimSubnets \cup {n}
                /\ mem' = [mem EXCEPT !.subnets = Append(@, n),
                                      !.networks = Append(@, n)]
    /\ UNCHANGED <<alive, crashes>>

(* configure_vm: refused unless the VM is created; waits for SSH (its    *)
(* timeout is ignored), runs the playbook, which raises when it failed,   *)
(* and saves the blueprint.                                                *)
ConfigureVm(v) ==
    /\ alive
    /\ v \in mem.created
    /\ \/ MayFail /\ Raised
       \/ saved' = mem /\ UNCHANGED mem /\ VimUnchanged
    /\ UNCHANGED <<alive, tried, crashes>>

\* Deleting a server that is already gone does not raise.
DeleteServer(v) == vimServers' = vimServers \ {v}

(* destroy_vm on a day-2 node removal: delete the recorded server (the    *)
(* os_dict entry stays), to_db, and the caller deregisters the resource.  *)
DestroyVm(v) ==
    /\ alive
    /\ v \in Range(mem.reg)
    /\ \/ v \in mem.os /\ MayFail /\ Raised
       \/ /\ IF v \in mem.os THEN DeleteServer(v) ELSE UNCHANGED vimServers
          /\ saved' = mem
          /\ mem' = [mem EXCEPT !.reg = RemoveFirst(@, v)]
          /\ UNCHANGED <<vimFlavors, vimNets, vimSubnets>>
    /\ UNCHANGED <<alive, tried, crashes>>

\* A final_cleanup that forgets the networks.
CleanupObjsNoNets(d) ==
    [i \in 1..Len(d.flavors) |-> <<"flavor", d.flavors[i]>>]
    \o [i \in 1..Len(d.subnets) |-> <<"subnet", d.subnets[i]>>]

(* The objects final_cleanup deletes, in its order: flavors, subnets,     *)
(* networks.                                                               *)
CleanupObjs(d) ==
    [i \in 1..Len(d.flavors) |-> <<"flavor", d.flavors[i]>>]
    \o [i \in 1..Len(d.subnets) |-> <<"subnet", d.subnets[i]>>]
    \o [i \in 1..Len(d.networks) |-> <<"network", d.networks[i]>>]

\* The VIM refuses to delete a subnet or network a server is attached to.
InUse(o, servers) == o[1] \in {"subnet", "network"} /\ servers # {}

DeleteObjs(objs) ==
    /\ vimFlavors' = vimFlavors \ {o[2] : o \in {x \in Range(objs) : x[1] = "flavor"}}
    /\ vimSubnets' = vimSubnets \ {o[2] : o \in {x \in Range(objs) : x[1] = "subnet"}}
    /\ vimNets' = vimNets \ {o[2] : o \in {x \in Range(objs) : x[1] = "network"}}

(* The blueprint's destroy: destroy_vm for every registered VM in order,  *)
(* each followed by to_db, then final_cleanup, which stops at the first   *)
(* delete that raises; the document is deleted only when all succeeded.  *)
(* A failed destroy leaves the blueprint in the database to be retried.   *)
Destroy ==
    /\ alive
    /\ LET regs == mem.reg
           srv(k) == vimServers \ {regs[i] : i \in {j \in 1..k : regs[j] \in mem.os}}
           objs == CleanupObjs(mem)
       IN \/ \E k \in 0..(Len(regs) - 1) :
                /\ regs[k + 1] \in mem.os /\ MayFail
                /\ vimServers' = srv(k)
                /\ saved' = IF k = 0 THEN saved ELSE mem
                /\ UNCHANGED <<mem, vimFlavors, vimNets, vimSubnets, alive>>
          \/ /\ vimServers' = srv(Len(regs))
             /\ saved' = IF regs = <<>> THEN saved ELSE mem
             /\ UNCHANGED mem
             /\ \E j \in 0..Len(objs) :
                   /\ \A i \in 1..j : ~InUse(objs[i], vimServers')
                   /\ j < Len(objs) => (MayFail \/ InUse(objs[j + 1], vimServers'))
                   /\ DeleteObjs(SubSeq(objs, 1, j))
                   /\ alive' = (j < Len(objs))
    /\ UNCHANGED <<tried, crashes>>

\* The blueprint saves itself between provider calls (its own to_db and
\* the worker's closing to_db).
Persist ==
    /\ alive
    /\ saved # mem
    /\ saved' = mem
    /\ UNCHANGED <<mem, vimServers, vimFlavors, vimNets, vimSubnets,
                   alive, tried, crashes>>

\* The process dies; on restart the blueprint is reloaded from the database.
Crash ==
    /\ alive
    /\ crashes < MaxCrash
    /\ mem' = saved
    /\ crashes' = crashes + 1
    /\ UNCHANGED <<saved, vimServers, vimFlavors, vimNets, vimSubnets,
                   alive, tried>>

Next ==
    \/ \E v \in Vms : \/ Register(v)
                      \/ v \in Range(mem.reg) /\ CreateVm(v)
                      \/ ConfigureVm(v) \/ DestroyVm(v)
    \/ \E n \in Nets : CreateNet(n)
    \/ Destroy \/ Persist \/ Crash

Spec == Init /\ [][Next]_pvars

-----------------------------------------------------------------------------

ProviderTypeOK ==
    /\ mem \in Data /\ saved \in Data
    /\ IsInjective(mem.flavors) /\ IsInjective(saved.flavors)
    /\ vimServers \subseteq Vms /\ vimFlavors \subseteq Names
    /\ vimNets \subseteq Nets /\ vimSubnets \subseteq Nets
    /\ alive \in BOOLEAN /\ tried \subseteq Vms \cup Nets
    /\ crashes \in 0..MaxCrash

(* Once destroy has deleted the blueprint, nothing its provider data      *)
(* recorded (server ids, flavors, subnets, networks) is left on the VIM:  *)
(* destroy_vm and final_cleanup release everything create_vm and         *)
(* create_net wrote down, across crashes, failed and retried destroys.    *)
CleanupComplete ==
    ~alive =>
        /\ mem.os \cap vimServers = {}
        /\ Range(mem.flavors) \cap vimFlavors = {}
        /\ Range(mem.subnets) \cap vimSubnets = {}
        /\ Range(mem.networks) \cap vimNets = {}

(* The specification of final_cleanup and destroy_vm: once the blueprint  *)
(* is deleted, no server, flavor, subnet or network created for it is     *)
(* left on the VIM.                                                        *)
NoLeakAfterDestroy ==
    ~alive => vimServers \cup vimFlavors \cup vimNets \cup vimSubnets = {}
=============================================================================
