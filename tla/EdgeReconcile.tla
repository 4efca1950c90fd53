--------------------------- MODULE EdgeReconcile ---------------------------
(***************************************************************************)
(* The declarative diff-apply of edge areas (spec section 4.3), one area  *)
(* at a time: an area that is desired gets its desired child              *)
(* configuration (deployed, or updated if it differs from the one last    *)
(* applied), an area that is no longer desired is torn down.  Nothing    *)
(* else ever changes what is applied: no redeploy of an unchanged area,   *)
(* no configuration other than the desired one, no removal of a desired   *)
(* area.  EdgeAreas refines this module.                                  *)
(***************************************************************************)
CONSTANTS Areas, Configs, NoVal

VARIABLES
    desired,  \* desired[a]: configuration wanted for area a, or NoVal
    applied   \* applied[a]: configuration applied to area a, or NoVal

Vals == Configs \cup {NoVal}

Init ==
    /\ desired \in [Areas -> Vals]
    /\ applied = [a \in Areas |-> NoVal]

\* A request changes the desired areas or their configuration.
SetDesired(d) == desired' = d /\ UNCHANGED applied

\* Deploy or update a desired area whose applied configuration differs.
Apply(a) ==
    /\ desired[a] # NoVal
    /\ applied[a] # desired[a]
    /\ applied' = [applied EXCEPT ![a] = desired[a]]
    /\ UNCHANGED desired

\* Tear down an area that is no longer desired.
Remove(a) ==
    /\ desired[a] = NoVal
    /\ applied[a] # NoVal
    /\ applied' = [applied EXCEPT ![a] = NoVal]
    /\ UNCHANGED desired

Next ==
    \/ \E d \in [Areas -> Vals] : SetDesired(d)
    \/ \E a \in Areas : Apply(a) \/ Remove(a)

Spec == Init /\ [][Next]_<<desired, applied>>

Synced == applied = desired
=============================================================================
