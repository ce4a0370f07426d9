---------------------------- MODULE ClusterFormation ----------------------------
(***************************************************************************)
(* What the bootstrap provider promises about the formation of a workload  *)
(* cluster, with no locks, caches or retries in sight: one machine at a    *)
(* time may be the seed that runs "k8s bootstrap"; once it is up the       *)
(* cluster is formed and every other machine joins; a machine's role never *)
(* changes until the machine is deleted.                                   *)
(***************************************************************************)
CONSTANT Machines

VARIABLES
    role,     \* role[m]: what the bootstrap data handed out for m makes it do
    formed    \* a seed came up: Cluster condition ControlPlaneInitialized

vars == <<role, formed>>

Roles == {"none", "init", "join", "gone"}

Init ==
    /\ role = [m \in Machines |-> "none"]
    /\ formed = FALSE

\* The only machine whose data runs the cluster bootstrap.
Seed(m) ==
    /\ role[m] = "none"
    /\ \A n \in Machines : role[n] # "init"
    /\ role' = [role EXCEPT ![m] = "init"]
    /\ UNCHANGED formed

Form ==
    /\ \E m \in Machines : role[m] = "init"
    /\ formed' = TRUE
    /\ UNCHANGED role

Join(m) ==
    /\ formed
    /\ role[m] = "none"
    /\ role' = [role EXCEPT ![m] = "join"]
    /\ UNCHANGED formed

Leave(m) ==
    /\ role' = [role EXCEPT ![m] = "gone"]
    /\ UNCHANGED formed

Next ==
    \/ Form
    \/ \E m \in Machines : Seed(m) \/ Join(m) \/ Leave(m)

Spec == Init /\ [][Next]_vars
=============================================================================
