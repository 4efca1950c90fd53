------------------------ MODULE MCProviderOpenstack ------------------------
(***************************************************************************)
(* Three VMs, two of which share a name (a worker number released and     *)
(* reused by the K8s blueprint gives the new VM the old name, hence the   *)
(* old flavor), one blueprint network.                                    *)
(***************************************************************************)
EXTENDS ProviderOpenstack

CONSTANTS v1, v2, v3

MCName == [v \in Vms |-> IF v = v3 THEN "vmB" ELSE "vmA"]
=============================================================================
