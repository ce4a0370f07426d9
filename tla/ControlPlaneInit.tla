---------------------------- MODULE ControlPlaneInit ----------------------------
(***************************************************************************)
(* The CK8sConfig reconciler of the bootstrap manager and the              *)
(* ControlPlaneInitMutex it uses to let one control plane machine          *)
(* initialise the cluster.                                                 *)
(*                                                                         *)
(* One reconcile runs at a time (MaxConcurrentReconciles is 1), and it is  *)
(* a sequence of API calls: between two of them machines are created and   *)
(* deleted, Cluster API hands out the data, nodes boot, and the manager    *)
(* may crash.  Typed reads go through the manager's informer cache, which  *)
(* holds, per kind, the state of the API server at some earlier moment;    *)
(* the owner Machine is read live (GetConfigOwner uses unstructured        *)
(* objects, which the client does not cache).  Lagging is the set of kinds *)
(* whose cache may be behind; a read of any other kind is current.         *)
(***************************************************************************)
EXTENDS Naturals, FiniteSets

CONSTANTS
    ControlPlane,   \* control plane machines (names are never reused)
    Workers,        \* worker machines
    NoMachine,      \* no lock ConfigMap
    Lagging,        \* kinds whose informer cache may be behind
    MaxFailures     \* bound on failed calls, crashes and lost statuses

Kinds == {"ConfigMap", "CK8sConfig", "Machine", "Cluster"}

Machines == ControlPlane \cup Workers

ASSUME NoMachineAssumption == NoMachine \notin Machines
ASSUME LaggingAssumption == Lagging \subseteq Kinds
ASSUME MaxFailuresAssumption == MaxFailures \in Nat

VARIABLES
    \* --- objects in the API server ---
    machine,      \* "absent", "present", "gone"; config and Machine live together
    dataSecret,   \* Machine.Spec.Bootstrap.DataSecretName is set
    ready,        \* CK8sConfig.Status.Ready, set together with its DataSecretName
    secret,       \* bootstrap data Secret: "none", "init" or "join" cloud-config
    lock,         \* holder named by the <cluster>-lock ConfigMap, or NoMachine
    cluster,      \* Cluster: infraReady, initialized (ControlPlaneInitialized)
    booted,       \* what the node of the machine ran at first boot
    \* --- the manager's informer cache, one snapshot per kind ---
    cacheLock, cacheReady, cacheMachine, cacheCluster,
    \* --- the reconcile in progress ---
    pc, target, kind,
    failures

apiVars   == <<machine, dataSecret, ready, secret, lock, cluster, booted>>
cacheVars == <<cacheLock, cacheReady, cacheMachine, cacheCluster>>
rcVars    == <<pc, target, kind>>
vars      == <<apiVars, cacheVars, rcVars, failures>>

Steps == {"idle", "lock", "generate", "join", "store", "unlock", "patch"}
Data  == {"none", "init", "join"}
ClusterStatus == [infraReady : BOOLEAN, initialized : BOOLEAN]

TypeOK ==
    /\ machine \in [Machines -> {"absent", "present", "gone"}]
    /\ dataSecret \in [Machines -> BOOLEAN]
    /\ ready \in [Machines -> BOOLEAN]
    /\ secret \in [Machines -> Data]
    /\ lock \in Machines \cup {NoMachine}
    /\ cluster \in ClusterStatus
    /\ booted \in [Machines -> Data]
    /\ cacheLock \in Machines \cup {NoMachine}
    /\ cacheReady \in [Machines -> BOOLEAN]
    /\ cacheMachine \in [Machines -> {"absent", "present", "gone"}]
    /\ cacheCluster \in ClusterStatus
    /\ pc \in Steps
    /\ target \in Machines \cup {NoMachine}
    /\ (pc # "idle" => target \in Machines)
    /\ kind \in Data
    /\ failures \in 0..MaxFailures

Init ==
    /\ machine = [m \in Machines |-> "absent"]
    /\ dataSecret = [m \in Machines |-> FALSE]
    /\ ready = [m \in Machines |-> FALSE]
    /\ secret = [m \in Machines |-> "none"]
    /\ lock = NoMachine
    /\ cluster = [infraReady |-> FALSE, initialized |-> FALSE]
    /\ booted = [m \in Machines |-> "none"]
    /\ cacheLock = lock
    /\ cacheReady = ready
    /\ cacheMachine = machine
    /\ cacheCluster = cluster
    /\ pc = "idle" /\ target = NoMachine /\ kind = "none"
    /\ failures = 0

-----------------------------------------------------------------------------
(***************************************************************************)
(* Reads through the manager's client, and failures.                       *)
(***************************************************************************)
SeenLock    == IF "ConfigMap"  \in Lagging THEN cacheLock    ELSE lock
SeenReady   == IF "CK8sConfig" \in Lagging THEN cacheReady   ELSE ready
SeenMachine == IF "Machine"    \in Lagging THEN cacheMachine ELSE machine
SeenCluster == IF "Cluster"    \in Lagging THEN cacheCluster ELSE cluster

\* The cache of these kinds catches up with the API server.
FillCache(K) ==
    /\ cacheLock'    = IF "ConfigMap"  \in K THEN lock    ELSE cacheLock
    /\ cacheReady'   = IF "CK8sConfig" \in K THEN ready   ELSE cacheReady
    /\ cacheMachine' = IF "Machine"    \in K THEN machine ELSE cacheMachine
    /\ cacheCluster' = IF "Cluster"    \in K THEN cluster ELSE cacheCluster

\* A call returns an error: within the bound, and the call may have taken effect.
Fail == failures < MaxFailures /\ failures' = failures + 1

Goto(step, m, k) == pc' = step /\ target' = m /\ kind' = k
Return == Goto("idle", NoMachine, "none")

-----------------------------------------------------------------------------
(***************************************************************************)
(* ControlPlaneInitMutex.                                                  *)
(***************************************************************************)
\* Unlock: Get through the cache, then Delete by name; every caller ignores
\* the result apart from reporting it.
Unlock ==
    \/ SeenLock = NoMachine /\ UNCHANGED <<lock, failures>>
    \/ SeenLock # NoMachine /\ lock' = NoMachine /\ UNCHANGED failures
    \/ SeenLock # NoMachine /\ Fail /\ lock' \in {lock, NoMachine}

\* Lock finds no ConfigMap and creates one.
LockCreate ==
    /\ pc = "lock"
    /\ SeenLock = NoMachine
    /\ \/ /\ lock = NoMachine
          /\ lock' = target
          /\ Goto("generate", target, "none")
          /\ UNCHANGED failures
       \/ /\ lock # NoMachine            \* AlreadyExists
          /\ Return
          /\ UNCHANGED <<lock, failures>>
       \/ /\ lock = NoMachine
          /\ Fail
          /\ lock' \in {NoMachine, target}
          /\ Return
    /\ UNCHANGED <<machine, dataSecret, ready, secret, cluster, booted, cacheVars>>

\* Faulty variant: the reconcile goes on without its machine.
LockHeldBySelfNoTarget ==
    /\ pc = "lock"
    /\ SeenLock = target
    /\ Goto("generate", NoMachine, "none")
    /\ UNCHANGED <<apiVars, cacheVars, failures>>

\* The ConfigMap already names the machine: the lock is its own.
LockHeldBySelf ==
    /\ pc = "lock"
    /\ SeenLock = target
    /\ Goto("generate", target, "none")
    /\ UNCHANGED <<apiVars, cacheVars, failures>>

\* Faulty variant: the lock of a deleted machine is never released.
LockHeldByOtherKept ==
    /\ pc = "lock"
    /\ SeenLock \notin {NoMachine, target}
    /\ Return
    /\ UNCHANGED <<apiVars, cacheVars, failures>>

\* Another machine holds the lock.  When that Machine is not found the lock is
\* released; in both cases Lock returns false and the request is requeued.
LockHeldByOther ==
    /\ pc = "lock"
    /\ SeenLock \notin {NoMachine, target}
    /\ IF SeenMachine[SeenLock] = "present"
         THEN UNCHANGED <<lock, failures>>
         ELSE Unlock
    /\ Return
    /\ UNCHANGED <<machine, dataSecret, ready, secret, cluster, booted, cacheVars>>

Lock == LockCreate \/ LockHeldBySelf \/ LockHeldByOther

-----------------------------------------------------------------------------
(***************************************************************************)
(* CK8sConfigReconciler.                                                   *)
(***************************************************************************)
\* The common prefix of Reconcile: the owner exists, the infrastructure is ready.
\* Every other return of the prefix (no owner, paused, ready) changes nothing here.
Reconcilable(m) ==
    /\ pc = "idle"
    /\ machine[m] = "present"
    /\ SeenCluster.infraReady
    /\ ~SeenReady[m]

\* The Machine has its data but the status says otherwise (pivot, restore,
\* stale cache): the status is set again from the Machine, nothing is generated.
ReconcileOwnerHasData(m) ==
    /\ Reconcilable(m)
    /\ dataSecret[m]
    /\ Goto("patch", m, "none")
    /\ UNCHANGED <<apiVars, cacheVars, failures>>

\* handleClusterNotInitialized, up to the lock; a worker is only requeued.
ReconcileNotInitialized(m) ==
    /\ Reconcilable(m)
    /\ ~dataSecret[m]
    /\ ~SeenCluster.initialized
    /\ m \in ControlPlane
    /\ Goto("lock", m, "none")
    /\ UNCHANGED <<apiVars, cacheVars, failures>>

\* Faulty variant: joins without waiting for the control plane.
ReconcileJoinEarly(m) ==
    /\ Reconcilable(m)
    /\ ~dataSecret[m]
    /\ Unlock
    /\ Goto("join", m, "none")
    /\ UNCHANGED <<machine, dataSecret, ready, secret, cluster, booted, cacheVars>>

\* Every other case is a join; the init lock is released first.
ReconcileJoin(m) ==
    /\ Reconcilable(m)
    /\ ~dataSecret[m]
    /\ SeenCluster.initialized
    /\ Unlock
    /\ Goto("join", m, "none")
    /\ UNCHANGED <<machine, dataSecret, ready, secret, cluster, booted, cacheVars>>

\* Certificates, tokens, files and user configuration of the init data.  Any
\* error runs the deferred Unlock.
GenerateInit ==
    /\ pc = "generate"
    /\ \/ Goto("store", target, "init") /\ UNCHANGED failures
       \/ Goto("unlock", target, "none") /\ Fail
    /\ UNCHANGED <<apiVars, cacheVars>>

\* A node of the workload cluster answers, as a join token needs.
ClusterUp == \E n \in Machines : machine[n] = "present" /\ booted[n] # "none"

\* joinControlplane and joinWorker: node token, join token, files.
GenerateJoin ==
    /\ pc = "join"
    /\ \/ ClusterUp /\ Goto("store", target, "join") /\ UNCHANGED failures
       \/ ~ClusterUp /\ Return /\ UNCHANGED failures
       \/ Fail /\ Return
    /\ UNCHANGED <<apiVars, cacheVars>>

\* Faulty variant: a Secret that already exists is kept instead of updated.
StoreBootstrapDataOnce ==
    LET stored == IF secret[target] = "none"
                    THEN [secret EXCEPT ![target] = kind] ELSE secret IN
    /\ pc = "store"
    /\ \/ secret' = stored /\ Goto("patch", target, kind) /\ UNCHANGED failures
       \/ /\ Fail
          /\ secret' \in {secret, stored}
          /\ IF kind = "init" THEN Goto("unlock", target, "none") ELSE Return
    /\ UNCHANGED <<machine, dataSecret, ready, lock, cluster, booted, cacheVars>>

\* storeBootstrapData: Create the Secret, Update it when it already exists.
StoreBootstrapData ==
    LET stored == [secret EXCEPT ![target] = kind] IN
    /\ pc = "store"
    /\ \/ secret' = stored /\ Goto("patch", target, kind) /\ UNCHANGED failures
       \/ /\ Fail
          /\ secret' \in {secret, stored}
          /\ IF kind = "init" THEN Goto("unlock", target, "none") ELSE Return
    /\ UNCHANGED <<machine, dataSecret, ready, lock, cluster, booted, cacheVars>>

\* The deferred Unlock of handleClusterNotInitialized.
UnlockOnError ==
    /\ pc = "unlock"
    /\ Unlock
    /\ Return
    /\ UNCHANGED <<machine, dataSecret, ready, secret, cluster, booted, cacheVars>>

\* Faulty variant: a failed patch runs the deferred Unlock as well.
PatchStatusUnlocks ==
    LET patched == IF machine[target] = "present"
                     THEN [ready EXCEPT ![target] = TRUE] ELSE ready IN
    /\ pc = "patch"
    /\ \/ ready' = patched /\ Return /\ UNCHANGED failures
       \/ ready' \in {ready, patched} /\ Goto("unlock", target, "none") /\ Fail
    /\ UNCHANGED <<machine, dataSecret, secret, lock, cluster, booted, cacheVars>>

\* The deferred status patch; a config deleted meanwhile is not found.
PatchStatus ==
    LET patched == IF machine[target] = "present"
                     THEN [ready EXCEPT ![target] = TRUE] ELSE ready IN
    /\ pc = "patch"
    /\ \/ ready' = patched /\ UNCHANGED failures
       \/ ready' \in {ready, patched} /\ Fail
    /\ Return
    /\ UNCHANGED <<machine, dataSecret, secret, lock, cluster, booted, cacheVars>>

\* The manager crashes or is restarted; its caches are filled anew.
Restart ==
    /\ Fail
    /\ Return
    /\ FillCache(Lagging)
    /\ UNCHANGED apiVars

-----------------------------------------------------------------------------
(***************************************************************************)
(* The environment: watches, Cluster API, the infrastructure, the user.    *)
(***************************************************************************)
\* The watch of one kind delivers everything up to now.
SyncCache(k) ==
    /\ k \in Lagging
    /\ FillCache({k})
    /\ UNCHANGED <<apiVars, rcVars, failures>>

InfrastructureReady ==
    /\ ~cluster.infraReady
    /\ cluster' = [cluster EXCEPT !.infraReady = TRUE]
    /\ UNCHANGED <<machine, dataSecret, ready, secret, lock, booted, cacheVars, rcVars, failures>>

CreateMachine(m) ==
    /\ machine[m] = "absent"
    /\ machine' = [machine EXCEPT ![m] = "present"]
    /\ UNCHANGED <<dataSecret, ready, secret, lock, cluster, booted, cacheVars, rcVars, failures>>

\* Cluster API copies the config's DataSecretName to the Machine.
CopyDataSecretName(m) ==
    /\ machine[m] = "present" /\ ready[m] /\ ~dataSecret[m]
    /\ dataSecret' = [dataSecret EXCEPT ![m] = TRUE]
    /\ UNCHANGED <<machine, ready, secret, lock, cluster, booted, cacheVars, rcVars, failures>>

\* The infrastructure provider boots the node with the data of that moment.
Boot(m) ==
    /\ machine[m] = "present" /\ dataSecret[m] /\ booted[m] = "none"
    /\ booted' = [booted EXCEPT ![m] = secret[m]]
    /\ UNCHANGED <<machine, dataSecret, ready, secret, lock, cluster, cacheVars, rcVars, failures>>

\* The control plane provider finds the k8sd ConfigMap in the workload cluster
\* and Cluster API sets the ControlPlaneInitialized condition.
ClusterInitialized ==
    /\ ~cluster.initialized
    /\ \E m \in Machines : machine[m] = "present" /\ booted[m] = "init"
    /\ cluster' = [cluster EXCEPT !.initialized = TRUE]
    /\ UNCHANGED <<machine, dataSecret, ready, secret, lock, booted, cacheVars, rcVars, failures>>

RemoveMachine(m) ==
    /\ machine[m] = "present"
    /\ machine' = [machine EXCEPT ![m] = "gone"]
    /\ UNCHANGED <<dataSecret, ready, secret, lock, cluster, booted, cacheVars, rcVars, failures>>

\* clusterctl move or a restored backup keeps the Machine's spec, not the status.
LoseStatus(m) ==
    /\ Fail
    /\ ready[m] /\ dataSecret[m]
    /\ ready' = [ready EXCEPT ![m] = FALSE]
    /\ UNCHANGED <<machine, dataSecret, secret, lock, cluster, booted, cacheVars, rcVars>>

-----------------------------------------------------------------------------
Reconcile(m) ==
    \/ ReconcileOwnerHasData(m)
    \/ ReconcileNotInitialized(m)
    \/ ReconcileJoin(m)

Continue ==
    \/ Lock \/ GenerateInit \/ GenerateJoin
    \/ StoreBootstrapData \/ UnlockOnError \/ PatchStatus

Environment(m) ==
    \/ CreateMachine(m) \/ CopyDataSecretName(m) \/ Boot(m)
    \/ RemoveMachine(m) \/ LoseStatus(m)

Next ==
    \/ \E m \in Machines : Reconcile(m) \/ Environment(m)
    \/ Continue
    \/ Restart
    \/ \E k \in Kinds : SyncCache(k)
    \/ InfrastructureReady
    \/ ClusterInitialized

Spec == Init /\ [][Next]_vars

(***************************************************************************)
(* Every request is requeued (errors with backoff, waits after 30s or 1m)  *)
(* and the work queue serves requests in turn, so a request that can be    *)
(* reconciled again and again is; a started reconcile goes on; watches     *)
(* deliver; Cluster API and the infrastructure do their part.              *)
(***************************************************************************)
Fairness ==
    /\ WF_vars(Continue)
    /\ \A m \in Machines :
         /\ SF_vars(Reconcile(m))
         /\ WF_vars(CopyDataSecretName(m))
         /\ WF_vars(Boot(m))
    /\ \A k \in Kinds : WF_vars(SyncCache(k))
    /\ WF_vars(InfrastructureReady)
    /\ WF_vars(ClusterInitialized)

FairSpec == Spec /\ Fairness

-----------------------------------------------------------------------------
(***************************************************************************)
(* Properties.                                                             *)
(***************************************************************************)
\* Data of this role has been handed out for m: Cluster API may boot it, or did.
HandedOut(m, role) ==
    /\ machine[m] = "present"
    /\ \/ booted[m] = role
       \/ booted[m] = "none" /\ secret[m] = role /\ (ready[m] \/ dataSecret[m])

InitNode(m) == HandedOut(m, "init")

\* At most one existing machine has been handed data that initialises a cluster
\* (ControlPlaneInitMutex.Lock: "the first and only node to run init").
AtMostOneInit ==
    \A m, n \in Machines : InitNode(m) /\ InitNode(n) => m = n

\* The reconcile in progress is the init branch of handleClusterNotInitialized.
InInitBranch ==
    \/ pc \in {"lock", "generate", "unlock"}
    \/ pc \in {"store", "patch"} /\ kind = "init"

\* As long as the reconciler can still take the init branch, a machine that was
\* handed init data holds the lock: no error path, stale holder check or crash
\* releases it (Unlock in handleClusterNotInitialized's defer and in Lock).
InitNodeHoldsLock ==
    \A m \in Machines :
        InitNode(m) /\ (~SeenCluster.initialized \/ InInitBranch) => lock = m

\* What each step of a reconcile may rely on, and the order in which the flags
\* of a machine are set.  Inductive together with TypeOK, InitNodeHoldsLock and
\* AtMostOneInit when only the Cluster cache may lag (ControlPlaneInitProofs).
ReconcileInv ==
    /\ cacheCluster.initialized => cluster.initialized
    /\ \A m \in Machines :
         /\ booted[m] # "none" => dataSecret[m]
         /\ machine[m] = "absent" => ~ready[m] /\ ~dataSecret[m]
    /\ pc # "idle" => machine[target] # "absent"
    /\ pc = "store" => kind # "none"
    /\ InInitBranch /\ pc # "lock" => lock = target
    /\ pc = "join" \/ kind = "join" => SeenCluster.initialized
    /\ pc = "patch" /\ kind = "none" => dataSecret[target]
    /\ pc = "patch" /\ kind # "none" => secret[target] = kind
    /\ pc \notin {"idle", "patch"} \/ kind # "none"
         => ~ready[target] /\ ~dataSecret[target]

\* The role of a machine, as the abstract specification sees it.
Role(m) ==
    IF machine[m] = "gone" THEN "gone"
    ELSE IF HandedOut(m, "init") THEN "init"
    ELSE IF HandedOut(m, "join") THEN "join"
    ELSE "none"

Formation == INSTANCE ClusterFormation
    WITH role <- [m \in Machines |-> Role(m)], formed <- cluster.initialized

\* The reconciler implements ClusterFormation: one seed, joins only after it is
\* up, and a role handed out never changes (CK8sConfigReconciler.Reconcile).
FormationSpec == Formation!Spec

\* Nothing to join: no control plane machine to initialise the cluster, or every
\* node of the initialised cluster was deleted.
NoClusterToJoin ==
    IF cluster.initialized
      THEN ~ClusterUp
      ELSE \A c \in ControlPlane : machine[c] # "present"

\* Every machine gets its bootstrap data unless it is deleted or there is no
\* cluster to join: a lock left by a crash, an error or a deleted machine is
\* released or taken over (Lock's stale holder branch, requeues).
EventuallyBootstrapped ==
    \A m \in Machines :
        machine[m] = "present" ~> (ready[m] \/ machine[m] = "gone" \/ NoClusterToJoin)
=============================================================================
