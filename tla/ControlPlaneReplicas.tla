-------------------------- MODULE ControlPlaneReplicas --------------------------
(***************************************************************************)
(* The CK8sControlPlane reconciler: it creates, rolls out, scales down,    *)
(* remediates and deletes the control plane machines of one cluster, and   *)
(* the hook of the machine reconciler that lets a deletion go on.          *)
(*                                                                         *)
(* One reconcile runs at a time.  It lists the machines once, decides from *)
(* that list and then makes its calls one by one; what it learned is       *)
(* written to the CK8sControlPlane by a patch at its very end.  Meanwhile  *)
(* users edit the spec, nodes join and fail, health checks give up on      *)
(* machines, deletions finish, and the manager may crash.  A call fails    *)
(* with no effect, or takes effect and its reply is lost.                  *)
(***************************************************************************)
EXTENDS ControlPlaneRules, Sequences

CONSTANTS
    Replicas,         \* replica counts users ask for, the first one included
    FirstReplicas,    \* the replica count the control plane is created with
    RollingUpdate,    \* spec.rolloutStrategy.rollingUpdate: {} absent, {{}} or {{n}} with its maxSurge
    MinHealthyPeriod, RetryPeriod, MaxRetry,  \* spec.remediationStrategy
    TemplateHook,     \* the machine template carries the pre-terminate hook
    Failures,         \* how a node fails: "unreachable" or "notReady"
    LateJoins,        \* a node may still come up after its start-up timeout
    LostReplies,      \* calls that may take effect although they report an error
    MachineCacheLags, \* the machines listed may be the ones of the last list
    Idempotent,       \* k8sd accepts the removal of a node it does not know
    MaxMachines,      \* bound on machines ever cloned
    MaxEdits,         \* bound on edits of the spec
    MaxFaults,        \* bound on failed calls, crashes, failed nodes and start-up timeouts
    MaxClock          \* bound on the clock, in units of the periods above

Calls == {"finalizer", "remove", "delete", "deleteAll",
          "infra", "config", "machine", "cleanup", "patch"}

Machine == 1..MaxMachines

ASSUME ReplicasAssumption == Replicas \subseteq Nat /\ FirstReplicas \in Replicas
ASSUME RollingUpdateAssumption == RollingUpdate \subseteq SUBSET Nat
ASSUME PeriodsAssumption == MinHealthyPeriod \in Nat /\ RetryPeriod \in Nat /\ MaxRetry \subseteq Nat
ASSUME LostRepliesAssumption == LostReplies \subseteq Calls
ASSUME BoundsAssumption ==
    MaxMachines \in Nat /\ MaxEdits \in Nat /\ MaxFaults \in Nat /\ MaxClock \in Nat
ASSUME FlagsAssumption ==
    /\ TemplateHook \in BOOLEAN /\ MachineCacheLags \in BOOLEAN /\ Idempotent \in BOOLEAN
    /\ LateJoins \in BOOLEAN
    /\ Failures \subseteq {"unreachable", "notReady"}

VARIABLES
    \* --- objects in the API server and nodes in the workload cluster ---
    kcp,        \* the CK8sControlPlane
    machines,   \* the control plane Machines that exist, each with its node
    infra,      \* machines whose cloned infrastructure machine exists
    config,     \* machines whose CK8sConfig exists
    workers,    \* worker machines exist
    formed,     \* the k8sd-config ConfigMap exists: some node initialised the cluster
    \* --- the manager ---
    cache,      \* the machines of the last list
    rc,         \* the reconcile in progress
    \* --- environment and bounds ---
    last,       \* the last machine cloned
    now, edits, faults,
    \* --- history, used by properties only ---
    origin,     \* per machine: the first of the machines it is a replacement of
    replacing,  \* the origin of a machine remediated and not replaced yet, or 0
    remediated, \* per first machine: the times it or a replacement was remediated
    unrecorded, \* a reconcile that created or deleted a machine did not get its patch through
    tilted,     \* machines taken out whatever their failure domain: remediated or marked
    downSince   \* a node failed since the reconcile in progress listed the machines

objects == <<kcp, machines, infra, config, workers, formed>>
history == <<origin, replacing, remediated, unrecorded, tilted, downSince>>
bounds  == <<now, edits>>
vars    == <<objects, cache, rc, last, bounds, faults, history>>

Strategy == [minHealthyPeriod |-> MinHealthyPeriod, retryPeriod |-> RetryPeriod, maxRetry |-> MaxRetry]

NodeStates == {"none", "ready", "unreachable", "notReady", "removed"}

RemediationData == [machine : 0..MaxMachines, time : 0..MaxClock, retry : Nat]

MachineData ==
    [deleting : BOOLEAN, node : NodeStates, agentHealthy : BOOLEAN, unhealthy : BOOLEAN,
     deleteFirst : BOOLEAN, revision : 0..MaxEdits, domain : FailureDomains \cup {NoDomain},
     remediationFor : RemediationData, hook : {"none", "set", "asked"}]

ControlPlane ==
    [state : {"live", "deleting", "gone"}, finalizer : BOOLEAN, replicas : Replicas,
     revision : 0..MaxEdits, remediationInProgress : RemediationData,
     initialized : BOOLEAN, ready : BOOLEAN]

Steps == {"idle", "sync", "conditions", "decide", "remove", "delete", "deleteAll",
          "infra", "config", "machine", "cleanup", "patch"}

NoMachines == [m \in {} |-> 0]

TypeOK ==
    /\ kcp \in ControlPlane
    /\ DOMAIN machines \subseteq 1..last /\ \A m \in DOMAIN machines : machines[m] \in MachineData
    /\ infra \subseteq 1..last /\ config \subseteq 1..last
    /\ workers \in BOOLEAN /\ formed \in BOOLEAN
    /\ last \in 0..MaxMachines /\ now \in 0..MaxClock
    /\ rc.pc \in Steps /\ rc.kcp \in ControlPlane /\ rc.target \in 0..MaxMachines
    /\ rc.why \in {"none", "remediate", "scaleDown"} /\ rc.domain \in FailureDomains \cup {NoDomain}
    /\ rc.data \in RemediationData /\ rc.parts \subseteq {"infra", "config"}

Created == [state |-> "live", finalizer |-> FALSE, replicas |-> FirstReplicas, revision |-> 0,
            remediationInProgress |-> NoData, initialized |-> FALSE, ready |-> FALSE]

Idle == [pc |-> "idle", kcp |-> Created, seen |-> NoMachines, target |-> 0, why |-> "none",
         domain |-> NoDomain, data |-> NoData, parts |-> {}]

\* Worker machines matter to a deletion only, which may find them gone already.
Init ==
    /\ kcp = Created
    /\ machines = NoMachines /\ cache = NoMachines
    /\ infra = {} /\ config = {} /\ workers = TRUE /\ formed = FALSE
    /\ rc = Idle
    /\ last = 0 /\ now = 0 /\ edits = 0 /\ faults = 0
    /\ origin = [m \in Machine |-> m] /\ replacing = 0 /\ remediated = [m \in Machine |-> <<>>]
    /\ unrecorded = FALSE /\ tilted = 0 /\ downSince = FALSE
--------------------------------------------------------------------------------
\* Calls.  Took: the call took effect.  Replied: the reconcile learns that it did.

Outcomes(call) == {"ok", "error"} \cup (IF call \in LostReplies THEN {"lost"} ELSE {})
Took(o) == o \in {"ok", "lost"}
Replied(o) == o = "ok"
Fault == faults < MaxFaults /\ faults' = faults + 1
Spend(o) == (o = "ok" /\ UNCHANGED faults) \/ (o # "ok" /\ Fault)

\* The reconcile goes on at a step, or ends with the patch of the CK8sControlPlane.
Goto(step) == rc' = [rc EXCEPT !.pc = step, !.seen = NoMachines]
GotoOrEnd(o, step) == Goto(IF Replied(o) THEN step ELSE "patch")
CleanUp(parts) == rc' = [rc EXCEPT !.pc = "cleanup", !.parts = parts]

\* What the reconcile noted about a remediation is not written yet.
Pending == rc.pc # "idle" /\ rc.kcp.remediationInProgress # kcp.remediationInProgress

ReadyNodes == {m \in DOMAIN machines : machines[m].node = "ready"}

\* What a list of the machines may return.  The reader that scale.go calls
\* uncached is the manager's client, so it is served from the same cache.
GetMachinesForCluster == {machines} \cup (IF MachineCacheLags THEN {cache} ELSE {})
--------------------------------------------------------------------------------
\* Reconcile: the finalizer comes first and has a reconcile of its own.
AddFinalizer ==
    /\ rc.pc = "idle" /\ kcp.state = "live" /\ ~kcp.finalizer
    /\ \E o \in Outcomes("finalizer") :
         /\ Spend(o)
         /\ kcp' = [kcp EXCEPT !.finalizer = Took(o)]
    /\ UNCHANGED <<machines, infra, config, workers, formed, cache, rc, last, bounds, history>>

Start(step, k, seen) ==
    /\ rc' = [Idle EXCEPT !.pc = step, !.kcp = k, !.seen = seen]
    /\ cache' = IF MachineCacheLags THEN seen ELSE cache
    /\ downSince' = FALSE
    /\ UNCHANGED <<objects, last, bounds, faults, origin, replacing, remediated, unrecorded, tilted>>

\* reconcile: the machines are listed once.
StartReconcile ==
    /\ rc.pc = "idle" /\ kcp.state = "live" /\ kcp.finalizer
    /\ \E seen \in GetMachinesForCluster : Start("sync", kcp, seen)

\* Faulty variant: the finalizer goes as soon as every machine is being deleted.
StartDeleteEarly ==
    /\ rc.pc = "idle" /\ kcp.state = "deleting" /\ kcp.finalizer
    /\ \E seen \in GetMachinesForCluster :
         IF \A m \in DOMAIN seen : seen[m].deleting THEN Start("patch", [kcp EXCEPT !.finalizer = FALSE], seen)
         ELSE Start("conditions", kcp, seen)

\* reconcileDelete: with no machine left the finalizer goes; otherwise the
\* conditions are updated first.
StartDelete ==
    /\ rc.pc = "idle" /\ kcp.state = "deleting" /\ kcp.finalizer
    /\ \E seen \in GetMachinesForCluster :
         IF DOMAIN seen = {} THEN Start("patch", [kcp EXCEPT !.finalizer = FALSE], seen)
         ELSE Start("conditions", kcp, seen)

\* syncMachines copies the annotations of the template to the machines that are
\* not being deleted, one after the other; the annotation that matters here is the
\* pre-terminate hook.  The first patch that fails, or finds the machine gone, is
\* the last.
SyncMachines ==
    /\ rc.pc = "sync"
    /\ LET due == {m \in DOMAIN rc.seen : TemplateHook /\ ~rc.seen[m].deleting /\ rc.seen[m].hook = "none"}
           Hooked(ms, done) == [m \in DOMAIN ms |-> IF m \in done THEN [ms[m] EXCEPT !.hook = "set"] ELSE ms[m]]
       IN \E o \in {"ok", "error"}, done \in SUBSET due :
            LET complete == Replied(o) /\ due \subseteq DOMAIN machines
            IN  /\ Spend(o)
                /\ complete => done = due
                /\ machines' = Hooked(machines, done)
                /\ rc' = IF complete THEN [rc EXCEPT !.pc = "conditions", !.seen = Hooked(@, due)]
                         ELSE [rc EXCEPT !.pc = "patch", !.seen = NoMachines]
    /\ UNCHANGED <<kcp, infra, config, workers, formed, cache, last, bounds, history>>

\* Faulty variant: a node that cannot be reached is left as it was, too.
UpdateAgentConditionsOnlyReady(ms) ==
    [m \in DOMAIN ms |-> IF HasNode(ms, m) /\ m \in ReadyNodes
                         THEN [ms[m] EXCEPT !.agentHealthy = ~ms[m].deleting] ELSE ms[m]]

\* UpdateAgentConditions: AgentHealthy of each machine that was listed, from the
\* nodes that are there now.  A node that reports NotReady is left as it was.
\* With no node that answers every condition becomes Unknown.
UpdateAgentConditions(ms) ==
    LET Node(m) == IF m \in DOMAIN machines THEN machines[m].node ELSE "removed"
        Healthy(m) ==
            IF ReadyNodes = {} THEN FALSE
            ELSE IF ~HasNode(ms, m) THEN ms[m].agentHealthy
            ELSE IF Node(m) = "notReady" /\ ~ms[m].deleting THEN ms[m].agentHealthy
            ELSE Node(m) = "ready" /\ ~ms[m].deleting
    IN  [m \in DOMAIN ms |-> [ms[m] EXCEPT !.agentHealthy = Healthy(m)]]

\* reconcileControlPlaneConditions, PatchMachines: nothing is known of the nodes
\* before the control plane is initialised.  The machines that changed are patched
\* one by one, whichever of them fail or are gone.  When deleting the control plane
\* an error is ignored and the machines are deleted once no worker machine is left.
ReconcileConditions ==
    /\ rc.pc = "conditions"
    /\ LET seen == IF rc.kcp.initialized THEN UpdateAgentConditions(rc.seen) ELSE rc.seen
           due  == {m \in DOMAIN seen : seen[m] # rc.seen[m]}
           next == IF rc.kcp.state = "live" THEN "decide" ELSE IF workers THEN "patch" ELSE "deleteAll"
       IN \E o \in {"ok", "error"}, done \in SUBSET due :
            /\ Spend(o)
            /\ Replied(o) => done = due
            /\ machines' = [m \in DOMAIN machines |->
                   IF m \in done THEN [machines[m] EXCEPT !.agentHealthy = seen[m].agentHealthy] ELSE machines[m]]
            /\ rc' = [rc EXCEPT !.pc = IF rc.kcp.state = "live" /\ ~(Replied(o) /\ due \subseteq DOMAIN machines)
                                       THEN "patch" ELSE next,
                                !.seen = seen]
    /\ UNCHANGED <<kcp, infra, config, workers, formed, cache, last, bounds, history>>
--------------------------------------------------------------------------------
\* The defaulting webhook: maxSurge gets its default with the rollingUpdate only.
defaultRolloutStrategy(rollingUpdate) == IF rollingUpdate = {} THEN {{1}} ELSE rollingUpdate

MaxSurge == UNION defaultRolloutStrategy(RollingUpdate)

\* Faulty variant: the conditions meant for an initialised control plane always apply.
reconcileUnhealthyMachinesStrict(ms, k) ==
    {m \in UnhealthyMachines(ms) :
        /\ m = getMachineToBeRemediated(ms)
        /\ ~ms[m].deleting /\ k.remediationInProgress = NoData
        /\ Cardinality(DOMAIN ms) > 1
        /\ ~HasHealthyMachineStillProvisioning(ms) /\ ~HasDeletingMachine(ms)}

\* reconcileUnhealthyMachines: the machine to remediate, if there is one and
\* nothing speaks against it.
reconcileUnhealthyMachines(ms, k) ==
    {m \in UnhealthyMachines(ms) :
        /\ m = getMachineToBeRemediated(ms)
        /\ ~ms[m].deleting
        /\ k.remediationInProgress = NoData
        /\ checkRetryLimits(ms[m].remediationFor, Strategy, now).can
        /\ k.initialized => /\ Cardinality(DOMAIN ms) > 1
                            /\ ~HasHealthyMachineStillProvisioning(ms)
                            /\ ~HasDeletingMachine(ms)}

\* Faulty variant: a rollout that may exceed the surge by one.
upgradeControlPlaneOneMore(ms, k) ==
    IF \A surge \in MaxSurge : Cardinality(DOMAIN ms) <= k.replicas + surge THEN "up" ELSE "down"

\* upgradeControlPlane dereferences maxSurge, which need not be there.
upgradeControlPlane(ms, k) ==
    CASE MaxSurge = {} -> "panic"
      [] MaxSurge # {} /\ \A surge \in MaxSurge : Cardinality(DOMAIN ms) < k.replicas + surge -> "up"
      [] OTHER -> "down"

\* Faulty variant: scaling up to one more than asked for.
OperationOneMore(ms, k) ==
    IF Cardinality(DOMAIN ms) = 0 THEN "init" ELSE IF Cardinality(DOMAIN ms) <= k.replicas THEN "up" ELSE "down"

\* What reconcile does with the machines when there is nothing to remediate.
Operation(ms, k) ==
    LET n == Cardinality(DOMAIN ms)
    IN  CASE MachinesNeedingRollout(ms, k.revision) # {} -> upgradeControlPlane(ms, k)
          [] MachinesNeedingRollout(ms, k.revision) = {} /\ n = 0 /\ n < k.replicas -> "init"
          [] MachinesNeedingRollout(ms, k.revision) = {} /\ n > 0 /\ n < k.replicas -> "up"
          [] MachinesNeedingRollout(ms, k.revision) = {} /\ n > k.replicas -> "down"
          [] OTHER -> "none"

Decide(op) ==
    /\ rc.pc = "decide"
    /\ reconcileUnhealthyMachines(rc.seen, rc.kcp) = {}
    /\ Operation(rc.seen, rc.kcp) = op

OnlyLocal == UNCHANGED <<objects, last, bounds, faults, history>>

\* A machine with a NodeRef is removed from the k8sd cluster before it is deleted.
Take(m, why, data) ==
    rc' = [rc EXCEPT !.pc = IF HasNode(rc.seen, m) THEN "remove" ELSE "delete",
                     !.seen = NoMachines, !.target = m, !.why = why, !.data = data]

Clone(fd) == rc' = [rc EXCEPT !.pc = "infra", !.seen = NoMachines, !.domain = fd]

Remediate ==
    /\ rc.pc = "decide"
    /\ \E m \in reconcileUnhealthyMachines(rc.seen, rc.kcp) :
         LET limits == checkRetryLimits(rc.seen[m].remediationFor, Strategy, now)
         IN  Take(m, "remediate", [machine |-> m, time |-> now, retry |-> limits.retry])
    /\ OnlyLocal /\ UNCHANGED cache

\* initializeControlPlane lists the machines again to be sure there is none.
InitializeControlPlane ==
    /\ Decide("init")
    /\ \E again \in GetMachinesForCluster :
         /\ cache' = IF MachineCacheLags THEN again ELSE cache
         /\ IF DOMAIN again = {}
            THEN \E fd \in NextFailureDomainForScaleUp(rc.seen, rc.kcp.revision) : Clone(fd)
            ELSE Goto("patch")
    /\ OnlyLocal

ScaleUpControlPlane ==
    /\ Decide("up")
    /\ IF preflightChecks(rc.seen, {})
       THEN \E fd \in NextFailureDomainForScaleUp(rc.seen, rc.kcp.revision) : Clone(fd)
       ELSE Goto("patch")
    /\ OnlyLocal /\ UNCHANGED cache

ScaleDownControlPlane ==
    /\ Decide("down")
    /\ \E m \in selectMachineForScaleDown(rc.seen, MachinesNeedingRollout(rc.seen, rc.kcp.revision)) :
         IF preflightChecks(rc.seen, {m}) THEN Take(m, "scaleDown", NoData) ELSE Goto("patch")
    /\ OnlyLocal /\ UNCHANGED cache

\* Nothing to do; a panic is recovered by the controller and ends the reconcile
\* without the patch.
NothingToDo ==
    /\ \/ Decide("none") /\ Goto("patch")
       \/ Decide("panic") /\ rc' = Idle
    /\ OnlyLocal /\ UNCHANGED cache
--------------------------------------------------------------------------------
\* RemoveMachineFromCluster asks k8sd on another node that answers; it may refuse
\* to remove a node that is not a member any more.
RemoveNode ==
    /\ rc.pc = "remove"
    /\ LET m == rc.target
           alone == ReadyNodes \ {m} = {}
           gone  == m \notin DOMAIN machines \/ machines[m].node \in {"none", "removed"}
       IN  \/ /\ alone \/ (gone /\ ~Idempotent)
              /\ Goto("patch") /\ UNCHANGED <<machines, faults>>
           \/ /\ ~alone
              /\ \E o \in Outcomes("remove") :
                   /\ Spend(o)
                   /\ machines' = IF Took(o) /\ ~gone THEN [machines EXCEPT ![m].node = "removed"] ELSE machines
                   /\ GotoOrEnd(o, "delete")
    /\ UNCHANGED <<kcp, infra, config, workers, formed, cache, last, bounds, history>>

\* The Delete of a scale down or of a remediation; the latter notes in memory
\* that a remediation is in progress, and does not accept that it is gone.
DeleteMachine ==
    /\ rc.pc = "delete"
    /\ LET m == rc.target
           there == m \in DOMAIN machines
           remediate == rc.why = "remediate"
       IN \E o \in Outcomes("delete") :
            /\ Spend(o)
            /\ machines' = IF Took(o) /\ there THEN [machines EXCEPT ![m].deleting = TRUE] ELSE machines
            /\ rc' = [rc EXCEPT !.pc = "patch",
                   !.kcp.remediationInProgress = IF Replied(o) /\ remediate /\ there THEN rc.data ELSE @]
            /\ remediated' = IF Took(o) /\ remediate /\ there
                             THEN [remediated EXCEPT ![origin[m]] = Append(@, rc.data.time)] ELSE remediated
            /\ replacing' = IF Took(o) /\ remediate /\ there THEN origin[m] ELSE replacing
            /\ unrecorded' = (unrecorded \/ o = "lost")
            /\ tilted' = IF Took(o) /\ there /\ (remediate \/ machines[m].deleteFirst) THEN tilted + 1 ELSE tilted
    /\ UNCHANGED <<kcp, infra, config, workers, formed, cache, last, bounds, origin, downSince>>

\* reconcileDelete deletes every machine; one that fails does not stop the others.
DeleteAllMachines ==
    /\ rc.pc = "deleteAll"
    /\ \E failed \in SUBSET {m \in DOMAIN rc.seen : ~rc.seen[m].deleting} :
         /\ Spend(IF failed = {} THEN "ok" ELSE "error")
         /\ machines' = [m \in DOMAIN machines |->
                IF m \in DOMAIN rc.seen \ failed THEN [machines[m] EXCEPT !.deleting = TRUE] ELSE machines[m]]
    /\ Goto("patch")
    /\ UNCHANGED <<kcp, infra, config, workers, formed, cache, last, bounds, history>>
--------------------------------------------------------------------------------
\* cloneConfigsAndGenerateMachine: infrastructure machine, CK8sConfig, Machine.
CreateInfra ==
    /\ rc.pc = "infra" /\ last < MaxMachines
    /\ \E o \in Outcomes("infra") :
         /\ Spend(o)
         /\ last' = last + 1
         /\ infra' = IF Took(o) THEN infra \cup {last + 1} ELSE infra
         /\ rc' = [rc EXCEPT !.pc = IF Replied(o) THEN "config" ELSE "patch", !.target = last + 1]
    /\ UNCHANGED <<kcp, machines, config, workers, formed, cache, bounds, history>>

\* Faulty variant: the Machine is created also when the CK8sConfig failed.
CreateConfigGoesOn ==
    /\ rc.pc = "config"
    /\ \E o \in Outcomes("config") :
         /\ Spend(o)
         /\ config' = IF Took(o) THEN config \cup {rc.target} ELSE config
         /\ Goto("machine")
    /\ UNCHANGED <<kcp, machines, infra, workers, formed, cache, last, bounds, history>>

\* generateCK8sConfig: no Machine is created when this fails.
CreateConfig ==
    /\ rc.pc = "config"
    /\ \E o \in Outcomes("config") :
         /\ Spend(o)
         /\ config' = IF Took(o) THEN config \cup {rc.target} ELSE config
         /\ IF Replied(o) THEN Goto("machine") ELSE CleanUp({"infra"})
    /\ UNCHANGED <<kcp, machines, infra, workers, formed, cache, last, bounds, history>>

\* The Machine that generateMachine builds: the remediation in progress, if there
\* is one, is noted on it.
NewMachine ==
    [deleting |-> FALSE, node |-> "none", agentHealthy |-> FALSE, unhealthy |-> FALSE,
     deleteFirst |-> FALSE, revision |-> rc.kcp.revision, domain |-> rc.domain,
     remediationFor |-> rc.kcp.remediationInProgress, hook |-> "none"]

\* generateMachine: once the machine is created the remediation is over, in memory.
CreateMachine ==
    /\ rc.pc = "machine"
    /\ \E o \in Outcomes("machine") :
         /\ Spend(o)
         /\ IF Took(o)
            THEN /\ machines' = [m \in DOMAIN machines \cup {rc.target} |->
                        IF m \in DOMAIN machines THEN machines[m] ELSE NewMachine]
                 /\ origin' = IF replacing = 0 THEN origin ELSE [origin EXCEPT ![rc.target] = replacing]
                 /\ replacing' = 0
            ELSE UNCHANGED <<machines, origin, replacing>>
         /\ IF Replied(o)
            THEN rc' = [rc EXCEPT !.pc = "patch", !.kcp.remediationInProgress = NoData]
            ELSE CleanUp({"infra", "config"})
         /\ unrecorded' = (unrecorded \/ o = "lost")
    /\ UNCHANGED <<kcp, infra, config, workers, formed, cache, last, bounds, remediated, tilted, downSince>>

\* cleanupFromGeneration: each part is deleted on its own, and may be left behind.
CleanupFromGeneration ==
    /\ rc.pc = "cleanup"
    /\ \E left \in SUBSET rc.parts :
         LET Rest(part, S) == IF part \in rc.parts \ left THEN S \ {rc.target} ELSE S
         IN  /\ Spend(IF left = {} THEN "ok" ELSE "error")
             /\ infra' = Rest("infra", infra)
             /\ config' = Rest("config", config)
    /\ Goto("patch")
    /\ UNCHANGED <<kcp, machines, workers, formed, cache, last, bounds, history>>
--------------------------------------------------------------------------------
\* updateStatus: without an answer from the workload cluster the status stays as
\* it is, and when deleting it is not asked for.
updateStatus(k, answered) ==
    LET asked == answered /\ rc.kcp.state = "live" /\ ReadyNodes # {}
    IN  [k EXCEPT !.initialized = @ \/ (asked /\ formed), !.ready = @ \/ asked]

\* patchCK8sControlPlane, at the end of every reconcile: what changed in memory is
\* merged into the object, whatever became of it meanwhile.
PatchControlPlane ==
    /\ rc.pc = "patch"
    /\ \E o \in Outcomes("patch") \cup {"noStatus"} :
         /\ Spend(o)
         /\ kcp' = IF Took(o) \/ o = "noStatus"
                   THEN updateStatus([kcp EXCEPT !.remediationInProgress = rc.kcp.remediationInProgress,
                                                 !.finalizer = rc.kcp.finalizer,
                                                 !.state = IF rc.kcp.finalizer THEN @ ELSE "gone"],
                                     o # "noStatus")
                   ELSE kcp
         /\ unrecorded' = (unrecorded \/ (o = "error" /\ Pending))
    /\ rc' = Idle
    /\ UNCHANGED <<machines, infra, config, workers, formed, cache, last, bounds,
                   origin, replacing, remediated, tilted, downSince>>

\* The manager stops and starts again; what the reconcile had in memory is lost.
Crash ==
    /\ rc.pc # "idle" /\ Fault
    /\ rc' = Idle
    /\ cache' = IF MachineCacheLags THEN machines ELSE cache
    /\ unrecorded' = (unrecorded \/ Pending)
    /\ UNCHANGED <<objects, last, bounds, origin, replacing, remediated, tilted, downSince>>
--------------------------------------------------------------------------------
\* The workload cluster and the infrastructure.

OnlyMachines == UNCHANGED <<kcp, workers, formed, cache, rc, last, now, edits,
                            origin, replacing, remediated, unrecorded, tilted>>

\* A machine's node comes up: the first one forms the cluster, the others join
\* through a node that answers.  One the health check gave up on may be late.
Join(m) ==
    /\ m \in infra \cap config /\ machines[m].node = "none" /\ ~machines[m].deleting
    /\ machines[m].unhealthy => LateJoins
    /\ formed => ReadyNodes # {}
    /\ machines' = [machines EXCEPT ![m].node = "ready", ![m].unhealthy = FALSE]
    /\ formed' = TRUE
    /\ UNCHANGED <<kcp, infra, config, workers, cache, rc, last, bounds, faults, history>>

NodeFails(m) ==
    /\ Fault
    /\ machines[m].node = "ready"
    /\ \E how \in Failures : machines' = [machines EXCEPT ![m].node = how]
    /\ downSince' = TRUE
    /\ UNCHANGED <<infra, config>> /\ OnlyMachines

\* MachineHealthCheck: a node that failed or disappeared, or none in time.
MarkUnhealthy(m) ==
    /\ machines[m].node \in {"unreachable", "notReady", "removed"} /\ ~machines[m].unhealthy
    /\ machines' = [machines EXCEPT ![m].unhealthy = TRUE]
    /\ UNCHANGED <<infra, config, faults, downSince>> /\ OnlyMachines

StartupTimeout(m) ==
    /\ Fault
    /\ machines[m].node = "none" /\ ~machines[m].unhealthy
    /\ machines' = [machines EXCEPT ![m].unhealthy = TRUE]
    /\ UNCHANGED <<infra, config, downSince>> /\ OnlyMachines

\* Cluster API deletes a machine: it waits for the pre-terminate hook, which it
\* asks for once the node is drained.
AskHook(m) ==
    /\ machines[m].deleting /\ machines[m].hook = "set"
    /\ machines' = [machines EXCEPT ![m].hook = "asked"]
    /\ UNCHANGED <<infra, config, faults, downSince>> /\ OnlyMachines

\* MachineReconciler.Reconcile: nothing is left to do, so the hook is removed.
MachineReconcile(m) ==
    /\ machines[m].deleting /\ machines[m].hook = "asked"
    /\ machines' = [machines EXCEPT ![m].hook = "none"]
    /\ UNCHANGED <<infra, config, faults, downSince>> /\ OnlyMachines

FinishDelete(m) ==
    /\ machines[m].deleting /\ machines[m].hook = "none"
    /\ machines' = [n \in DOMAIN machines \ {m} |-> machines[n]]
    /\ infra' = infra \ {m} /\ config' = config \ {m}
    /\ UNCHANGED <<faults, downSince>> /\ OnlyMachines
--------------------------------------------------------------------------------
\* Users edit the spec, mark a machine to be deleted first, delete the control
\* plane and remove its worker machines.

Edit(k) ==
    /\ edits < MaxEdits /\ edits' = edits + 1
    /\ kcp.state = "live"
    /\ kcp' = k
    /\ UNCHANGED <<machines, infra, config, workers, formed, cache, rc, last, now, faults, history>>

Scale == \E n \in Replicas \ {kcp.replicas} : Edit([kcp EXCEPT !.replicas = n])

Rollout == Edit([kcp EXCEPT !.revision = @ + 1])

DeleteControlPlane == Edit([kcp EXCEPT !.state = IF kcp.finalizer THEN "deleting" ELSE "gone"])

MarkDeleteFirst(m) ==
    /\ edits < MaxEdits /\ edits' = edits + 1
    /\ machines[m].deleting = FALSE /\ machines[m].deleteFirst = FALSE
    /\ machines' = [machines EXCEPT ![m].deleteFirst = TRUE]
    /\ UNCHANGED <<kcp, infra, config, workers, formed, cache, rc, last, now, faults, history>>

WorkersGone ==
    /\ workers /\ kcp.state = "deleting"
    /\ workers' = FALSE
    /\ UNCHANGED <<kcp, machines, infra, config, formed, cache, rc, last, bounds, faults, history>>

Tick ==
    /\ now < MaxClock /\ now' = now + 1
    /\ UNCHANGED <<objects, cache, rc, last, edits, faults, history>>
--------------------------------------------------------------------------------
ReconcileControlPlane ==
    \/ AddFinalizer \/ StartReconcile \/ StartDelete \/ SyncMachines \/ ReconcileConditions
    \/ Remediate \/ InitializeControlPlane \/ ScaleUpControlPlane \/ ScaleDownControlPlane \/ NothingToDo
    \/ RemoveNode \/ DeleteMachine \/ DeleteAllMachines
    \/ CreateInfra \/ CreateConfig \/ CreateMachine \/ CleanupFromGeneration \/ PatchControlPlane

Next ==
    \/ ReconcileControlPlane \/ Crash
    \/ \E m \in DOMAIN machines :
         \/ Join(m) \/ NodeFails(m) \/ MarkUnhealthy(m) \/ StartupTimeout(m)
         \/ AskHook(m) \/ MachineReconcile(m) \/ FinishDelete(m) \/ MarkDeleteFirst(m)
    \/ Scale \/ Rollout \/ DeleteControlPlane \/ WorkersGone \/ Tick

Spec == Init /\ [][Next]_vars

\* Reconciles are requeued, and the other controllers finish what they started.
\* Users, faults and start-up timeouts owe nothing.
There(m) == m \in DOMAIN machines

Fairness ==
    /\ WF_vars(ReconcileControlPlane) /\ WF_vars(WorkersGone)
    /\ \A m \in Machine :
         /\ WF_vars(There(m) /\ Join(m)) /\ WF_vars(There(m) /\ MarkUnhealthy(m))
         /\ WF_vars(There(m) /\ AskHook(m)) /\ WF_vars(There(m) /\ MachineReconcile(m))
         /\ WF_vars(There(m) /\ FinishDelete(m))

FairSpec == Spec /\ Fairness
--------------------------------------------------------------------------------
\* A machine is created only within the replicas the reconcile read, plus the
\* surge while machines of an older revision are replaced: no list, crash or lost
\* reply makes initializeControlPlane or scaleUpControlPlane add one too many.
NeverTooMany ==
    [][\A m \in DOMAIN machines' \ DOMAIN machines :
         LET n == Cardinality(DOMAIN machines')
             outdated == \E o \in DOMAIN machines : machines[o].revision # rc.kcp.revision
         IN  n <= rc.kcp.replicas \/ (outdated /\ \A surge \in MaxSurge : n <= rc.kcp.replicas + surge)]_vars

\* While the control plane is not being deleted one machine at most is on its
\* way out: scale down, rollout and remediation never overlap, across crashes,
\* failed calls and edits (preflightChecks, reconcileUnhealthyMachines).
OneDeletionAtATime ==
    kcp.state = "live" => Cardinality({m \in DOMAIN machines : machines[m].deleting}) <= 1

\* A scale down or rollout takes a node out of the cluster only while every other
\* machine has its node and can be reached, but for nodes that failed after the
\* machines were listed: AgentHealthy, a condition kept on the machines, is what
\* tells.  A node that only reports NotReady is not noticed.
ScaleDownWhenStable ==
    [][\A m \in DOMAIN machines :
         (rc.pc = "remove" /\ rc.why = "scaleDown" /\ ~downSince
          /\ machines[m].node # "removed" /\ m \in DOMAIN machines' /\ machines'[m].node = "removed")
         => \A n \in DOMAIN machines \ {m} : machines[n].node \in {"ready", "notReady"}]_vars

\* A machine that is not being deleted has its infrastructure machine and its
\* CK8sConfig, whichever step of cloneConfigsAndGenerateMachine failed.
MachineHasParts ==
    \A m \in DOMAIN machines : ~machines[m].deleting => m \in infra \cap config

\* The finalizer outlives the machines, also when the control plane is deleted
\* while a reconcile is about to create one.
GoneLeavesNothing == kcp.state = "gone" => machines = NoMachines

\* A machine that keeps failing after its replacement is remediated at most
\* MaxRetry more times, RetryPeriod apart, as long as each failure comes within
\* MinHealthyPeriod of the last remediation: the count travels through two
\* annotations and the replacement machine.  Reconciles that deleted or created a
\* machine and could not write the annotation are excepted.
RetryBound ==
    ~unrecorded => \A m \in Machine :
        LET s == remediated[m]
            Same(i, j) == \A k \in i..(j - 1) : s[k + 1] - s[k] < MinHealthyPeriod
        IN  \A i, j \in DOMAIN s : (i < j /\ Same(i, j)) =>
                /\ s[i + 1] - s[i] >= RetryPeriod
                /\ \A max \in MaxRetry : j - i <= max

\* The ways a control plane gets stuck.  Every node failed, or the last one that
\* answered did: k8sd has no one to ask.
Lost == formed /\ ReadyNodes = {} /\ \E m \in DOMAIN machines : machines[m].node \in Failures

\* A node was removed and its machine was not deleted, because of a crash or a
\* failed call in between: k8sd may refuse to remove the node again for ever.
Refused ==
    /\ kcp.state = "live" /\ ~Idempotent
    /\ \E m \in DOMAIN machines : machines[m].node = "removed" /\ ~machines[m].deleting

\* The annotation of a remediation stays on the CK8sControlPlane, because no
\* replacement is needed, and keeps the next unhealthy machine from being remediated.
Blocked ==
    /\ kcp.state = "live" /\ kcp.remediationInProgress # NoData
    /\ Cardinality(DOMAIN machines) >= kcp.replicas
    /\ \E m \in DOMAIN machines : machines[m].unhealthy

Settled ==
    IF kcp.state = "live"
    THEN /\ Cardinality(DOMAIN machines) = kcp.replicas
         /\ \A m \in DOMAIN machines : /\ machines[m].node = "ready" /\ machines[m].revision = kcp.revision
                                       /\ ~machines[m].deleting
    ELSE kcp.state = "gone"

\* The machines of the current revision are spread over the failure domains as
\* evenly as their number allows, during every scale up, scale down and rollout
\* and across edits, crashes and failed calls; a machine taken out because it was
\* remediated or marked to be deleted first costs one more at most.  The reconciler
\* only chooses domains for machines it creates or scales down: it never moves one.
SpreadEvenly ==
    LET current == {m \in DOMAIN machines : ~machines[m].deleting /\ machines[m].revision = kcp.revision}
        n(fd) == Cardinality(In(machines, current, fd))
    IN  kcp.state = "live" => \A a, b \in FailureDomains : n(a) <= n(b) + 1 + tilted

\* Once users and faults are quiet the control plane has the machines its spec
\* asks for, all up to date and ready, or is gone, whatever scale, rollout,
\* remediation and deletion were under way, together, when calls failed, nodes
\* were lost or the manager stopped: the three ways above are all there are to get
\* stuck (reconcile, reconcileUnhealthyMachines, preflightChecks).
EventuallySettled == <>[](Settled \/ Lost \/ Refused \/ Blocked)
================================================================================
