----------------------------- MODULE MCVyosDemo -----------------------------
(***************************************************************************)
(* vm_ubuntu, vm_fedora and two VMs for add_area / add_area3234, which    *)
(* both name their VM "VM Fedora in area 1" and so share its flavor.      *)
(***************************************************************************)
EXTENDS VyosDemo

CONSTANTS u, f, n1, n2

MCVyName == [v \in Vms |-> CASE v = u -> "VM Ubuntu"
                             [] v = f -> "VM Fedora"
                             [] OTHER -> "VM Fedora in area 1"]
=============================================================================
