# TLA+ models of the Canonical Kubernetes Cluster API providers

This directory models the bootstrap provider and the control plane provider of
cluster-api-k8s: Kubernetes controllers that turn `CK8sConfig`,
`CK8sControlPlane`, `Machine` and `MachineDeployment` objects into running k8s
nodes. `tlc` checks the modules on small instances, `tlapm` proves the theorems
of the `*Proofs` modules for any instance, and `PROJECT.json` lists the
components, runs, faulty variants, source lines, hazards and theorems.

## 1. Inventory

Two managers (processes) run the controllers: the **bootstrap manager**
(`bootstrap/main.go`) and the **control plane manager** (`controlplane/main.go`).
Each has leader election, one worker per controller, and a client whose typed
reads come from an informer cache while its writes go to the API server. They
share no memory: all interaction is through API objects, mostly annotations and
conditions, and through calls to k8sd on the nodes.

| Component | State | Operations | Hard behaviour |
|---|---|---|---|
| `CK8sConfigReconciler` | Status.Ready, DataSecretName, bootstrap Secret | init, control plane join, worker join, store, patch | crash between Secret and patch, deferred unlock, stale cache, pivot |
| `ControlPlaneInitMutex` | lock ConfigMap naming a machine | Lock, Unlock | holder deleted, lock read from a cache |
| `pkg/upgrade/inplace` | five annotations | predicates, marks | every mark is a merge patch against an earlier read |
| `InPlaceUpgradeReconciler` | annotations of one Machine | request, poll, done, failed | refresh started before its id is recorded |
| control plane `OrchestratedInPlaceUpgradeController` | annotations of the CK8sControlPlane, lock ConfigMap | lock, mark machine, mark control plane, unlock | three calls in a row, two managers on the same annotations, late joiners |
| `MachineDeployment` orchestrator | annotations of the MachineDeployment | examine in UID order, mark | no lock; one MachineSet only |
| `CK8sControlPlaneReconciler` | replicas, conditions, remediation data | initialise, scale up/down, rollout, remediate, delete, status | decisions from a cached list, partial creation, retry limits |
| `CertificatesReconciler` | refresh annotations of one Machine | control plane and worker refresh | in-progress left by a crash, two calls to different nodes |
| `MachineReconciler` | pre-terminate hook | remove node, drop hook | node removal fails or is repeated |
| secrets (`pkg/secret`, `pkg/token`, `pkg/kubeconfig`) | CA, tokens, kubeconfig Secrets | look up or generate | both managers generate |

Correctness, per component: one machine initialises a cluster and all others
join it; every machine gets its data; an upgrade touches one machine at a time,
records what was installed, survives any single failure and reaches every
machine; the control plane never has more machines than replicas plus surge and
never removes two members at once; a retried remediation respects its limits;
all nodes trust the same CA. The hazards behind these properties are listed at
their source lines in `PROJECT.json`.

## 2. Plan

Modelled and checked, in this order: bootstrap and its lock (with an abstract
specification and proofs), the in-place upgrade of a machine, of a control plane
and of a MachineDeployment; the control plane reconciler with its pure decisions,
remediation and the deletion hook; the Secrets both managers share; the
certificate refresh on top of them.

Then proved, in the same order: every component's types, every safety property the
runs check, and that bootstrap and both orchestrators implement abstract
specifications (section 5).

Left: the parts of section 6 that are not modelled, of which the adoption of
machines and Secrets without an owner has state of its own; and theorems that allow
machines to join during an upgrade, which need the orchestrators to keep the release
and to tell a joiner's lock from a stale one ("Known limits").

## 3. Modules

Conventions. A reconcile is a sequence of steps, one per call that changes
state, with a program counter (`pc`, `upc`, `opc`, `dpc`) and the values read so
far as variables; between two steps anything else may happen. `Fail` counts a
call that returns an error, with or without its effect, or a crash, up to
`MaxFailures`. `Lagging` is the set of caches that may be behind; a read of
another kind is current. A reconcile that ends without changing state (object
not found, paused, waiting) is not a step: it is a stutter. "Faulty variant"
definitions are deliberate mistakes used to see that a property can fail; no
specification uses them.

**`ClusterFormation`** is what bootstrap promises: roles `none`, `init`, `join`,
`gone`; one seed at a time, joins only after the cluster is formed, no change of
role.

**`ControlPlaneInit`** models `bootstrap/controllers/ck8sconfig_controller.go`
and `pkg/locking/control_plane_init_mutex.go`. `ReconcileOwnerHasData`,
`ReconcileNotInitialized` and `ReconcileJoin` are the branches of `Reconcile`;
`LockCreate`, `LockHeldBySelf`, `LockHeldByOther` are those of `Lock`;
`GenerateInit`, `GenerateJoin`, `StoreBootstrapData`, `PatchStatus` and
`UnlockOnError` (the deferred `Unlock`) the calls that follow. The owner Machine
is read live (`GetConfigOwner` uses unstructured objects), everything else
through the cache. A cloud-config is only its role. The environment creates and
deletes machines, copies the data's name to the Machine, boots nodes with the
data of that moment, sets ControlPlaneInitialized, and loses statuses on a move
or restore.

**`InPlace`** models `pkg/upgrade/inplace`: the annotations as a record,
the predicates, the marks as functions from annotations to annotations, and
`Merge`, the merge patch of Cluster API's patch helper (only what differs from
the object as read is sent).

**`MachineUpgrade`** models `bootstrap/controllers/upgrade_controller.go` with
`RefreshMachine` and `GetRefreshStatusForMachine`. A node is a sequence of snap
changes; `FinishChange` ends one, with success or error. A change id is its index.

**`RollingUpgrade`** is what an orchestrated upgrade promises about a group of
machines: an open request is carried out in turns, one at a time; only the node
whose turn it is changes, and only to what was requested; the turn ends when that
runs and is recorded; the request closes when it is recorded for every machine left.
Both modules below implement it under the same mapping: the group's request is
its upgrade-to annotation, a machine's turn is the machine's own.

**`ControlPlaneUpgrade`** extends `MachineUpgrade` with
`controlplane/controllers/orchestrated_inplace_upgrade_controller.go` and
`pkg/upgrade/inplace/lock.go`, in the other manager with caches of its own.

**`MachineDeploymentUpgrade`** extends `MachineUpgrade` with
`bootstrap/controllers/orchestrated_inplace_upgrade_controller.go`, in the same
manager: a restart ends both reconciles. Machines are numbers, their UIDs.

**`ControlPlaneRules`** holds the decisions of the control plane reconciler that
only look at the machines it listed, as operators: `MachinesNeedingRollout`
(`pkg/machinefilters`; version, configuration, template and rollout deadline of a
machine are one revision number), the failure domain choices, `preflightChecks`,
`selectMachineForScaleDown`, `getMachineToBeRemediated` and `checkRetryLimits`.
Machines are numbered in the order of creation; a choice the code makes among
equals is a set.

**`ControlPlaneReplicas`** models
`controlplane/controllers/ck8scontrolplane_controller.go`, `scale.go`,
`remediation.go` and `machine_controller.go`. `rc` is the reconcile in progress:
its step, its copy of the CK8sControlPlane, the machines it listed and its target.
`StartReconcile` or `StartDelete` lists; `SyncMachines` and `ReconcileConditions`
write to the machines; `Remediate`, `InitializeControlPlane`,
`ScaleUpControlPlane`, `ScaleDownControlPlane` or `NothingToDo` decides;
`RemoveNode` and `DeleteMachine`, or `CreateInfra`, `CreateConfig` and
`CreateMachine`, or `CleanupFromGeneration`, or `DeleteAllMachines`, act; and
`PatchControlPlane` writes what the reconcile kept in memory, the remediation
annotation in particular. The machines are patched one by one, so an error leaves
any part of them patched. Another call ends `ok`, `error` (no effect) or, where
`LostReplies` allows, `lost` (effect, but an error is returned). The environment
boots and fails nodes, marks machines unhealthy, finishes deletions, edits the
spec and lets time pass. `origin`, `replacing`, `remediated`, `unrecorded`, `tilted`
and `downSince` are history for the properties; no action reads them to decide.

**`ClusterSecrets`** models `pkg/secret`, `pkg/token` and `pkg/kubeconfig` as both
managers call them: `LookupOrGenerate` (`Lookup`, `SaveGenerated`) in either one,
`token.Reconcile` (`ReconcileToken`, `CreateToken`, `OwnToken`) and the kubeconfig
in the control plane manager, `token.Lookup`, `EnsureNodeToken` and the join token
in the bootstrap manager, whose result is the bootstrap data of a machine. A
Secret is abstracted to which key pair or token it holds, a new value is one that
occurs nowhere, a read may be served from the manager's cache, and a write under a
resourceVersion fails when the object changed.

**`CertificatesRefresh`** extends it with
`bootstrap/controllers/certificates_controller.go`: `StartRefresh` is the `Get`
and `Reconcile` up to `createScope`, `ClearStatus`, `UpdateExpiryDate`,
`MarkInProgress`, `Plan`, `Approve`, `Run`, `Finish` and `RecordFailure` its
calls. Patches of the scope's helper send what differs from the object as read;
the two Updates carry its resourceVersion (`stale`). The `Get` is answered from
the informer cache: with the Machine as it is (`StartCurrent`), or with one of
the copies in `older` that were overwritten since the cache was last seen to have
caught up (`StartOutdated`); `outdated` counts the latter. An expiry date is the
number of times the node replaced its certificates. There are two initial states:
a cluster that is being formed, and one that is complete and whose users ask for
refreshes.

`MC*` modules instantiate the specifications whose properties have their own
module; `MCControlPlaneInit` adds the symmetry of the machines. The runs of
`ControlPlaneReplicas` and `CertificatesRefresh` use these modules directly.

**Proof modules.** `ControlPlaneInitProofs`, `MachineUpgradeProofs`,
`ControlPlaneUpgradeProofs`, `MachineDeploymentUpgradeProofs`,
`ControlPlaneReplicasProofs` and `CertificatesRefreshProofs` each extend the module
they prove about and hold its inductive invariant; `ClusterSecretsProofs` has the
lemmas on the Secrets that the last of them builds on, and `NumberLemmas` what is
needed about least elements, unused numbers and finite sets. The upgrade of a
machine is used by both orchestrators: their proofs take its invariant from
`MachineUpgradeProofs` and add what the orchestrator's own steps do to it.

## 4. Runs

| Run | Shows |
|---|---|
| `init` | `AtMostOneInit`, `InitNodeHoldsLock` and the refinement `FormationSpec` for three control plane machines and a worker, three failures, a lagging Cluster cache (206,588 states) |
| `init_live` | `EventuallyBootstrapped` with lagging lock, config and machine caches and a failure (295,832 states) |
| `machine_upgrade` | `ReleaseIsInstalled`, `NoNeedlessRefresh`, `EventuallyUpgraded` for two requests, two failures and two failed refreshes (24,439 states) |
| `control_plane_upgrade` | `OneAtATime`, `UpgradingHoldsLock`, the machine's properties and `EventuallyAllUpgraded`, and the refinement `RollingSpec`: two machines of which one may be deleted, two requests, a failure and a failed refresh (256,692 states) |
| `control_plane_upgrade_lag` | `EventuallyAllUpgraded` with a late joiner, a failure and lagging lock, CK8sControlPlane and bootstrap caches (257,628 states) |
| `machine_deployment_upgrade` | `OneAtATime`, `DoneMeansUpgraded`, `EventuallyAllUpgraded` for three machines of which one joins and one may be deleted (43,533 states) |
| `replicas` | `NeverTooMany`, `OneDeletionAtATime`, `ScaleDownWhenStable`, `MachineHasParts`, `GoneLeavesNothing`, `SpreadEvenly`, `EventuallySettled`: one or two replicas in two failure domains, two edits, two faults, a k8sd that may refuse to remove an unknown node (1.1 million states) |
| `remediation` | `RetryBound`, `NeverTooMany`, `OneDeletionAtATime` and `MachineHasParts` with three faults, nodes that are unreachable or NotReady, lost replies, late nodes, the hook in the template, a clock and a k8sd that may refuse to remove an unknown node (4.4 million states) |
| `certificates` | `OneAuthority`, `TokensAgree`, `AllJoin`, `DoneMeansRefreshed`, `RefreshesAccounted`, `WithdrawalClears`: a control plane machine and a worker, lagging caches in both managers, a token Secret of an older release, a failed call or crash at any step, two requests, a reconcile that starts from an outdated Machine (503,451 states) |

Three runs show a disagreement between the code and its comments (details under
`findings` in `PROJECT.json`):

- `init_stale_config`: a CK8sConfig read before its own status patch is
  reconciled again; an error there runs the deferred `Unlock`, and a second
  machine initialises.
- `replicas_stale_list`: the list `initializeControlPlane` calls uncached is
  served from the cache; a machine just created is missing from it and a second
  one is created.
- `certificates_stuck`: the Update that records a failed refresh conflicts with
  the reconcile's own in-progress patch; the machine stays in progress and is not
  retried.

### Bounds

- Machines: two contend for every lock, a third takes over from a deleted
  holder; a fourth adds no new situation because a lock relates its holder to
  one other machine. The proofs of section 5 lift this bound, and the ones below,
  for the properties they state.
- `MaxFailures`, `MaxFaults`: crashes and failed calls, at every step (failed
  nodes and start-up timeouts too in `ControlPlaneReplicas`). One is enough to
  leave each intermediate state behind; two or three let the recovery fail as
  well: in `replicas` a remediation that a crash cut short is followed by another
  failure.
- `MaxOutdated`: reconciles of a certificate refresh that start from an outdated
  Machine. One, beside a failure, is enough for a refresh to run twice; it starts
  when the cluster is complete. That the copies run out is also what makes the cache
  catch up in the end.
- `MaxRequests`, `MaxErrors`, `MaxEdits`: user requests and edits, and refreshes
  that end in error; two requests allow an upgrade after an upgrade, two edits a
  scale during a rollout or a deletion during either.
- `MaxChanges`: refreshes a node accepts. 9 is never reached; 2 in the lagging run
  lets a refresh be repeated once, which is all that one failure causes. With
  deletions or failed refreshes as well a stale cache repeats more of them than
  that, so these are in the other run.
- `MaxMachines`: machines ever cloned. Were six too few in `replicas`, a reconcile
  would wait for ever and `EventuallySettled` fail; in `remediation`, a safety run,
  the fifth machine is the end of the history explored.
- `MaxClock`: three units, against a healthy period of two and a retry period of
  one: retries before, at and after both limits.
- Worker machines exist at first in `ControlPlaneReplicas`: only a deletion asks for
  them, and they may be gone by the time it does.
- Replicas: one and two, so that scaling starts from none, from one and back; the
  preflight checks and the surge are about one machine more or less. Two are
  enough for `SpreadEvenly` to fail: both in one failure domain and none in the other.
- `Options`: two where the options matter, one where only progress does.
- The lagging caches of each run are the ones under which its properties hold;
  the others are in the violation runs and in the known limits below.

`certificates` and `certificates_stuck` check for deadlock; the reconcile of the
CK8sControlPlane is repeated for ever. In the other runs an idle provider with
nothing requested and all bounds used up is a proper end state, so deadlock is not
checked there, and the liveness properties say what must have happened before.

### Fairness

A controller's work queue requeues a request after an error (with backoff), after
the delay a reconcile asks for, and on every event of a watched object, and serves
requests in turn. Hence weak fairness of a started reconcile's next step
(`Continue...`), strong fairness of starting a reconcile for a machine (the
single worker is free again and again), weak fairness of watches, of Cluster API
and infrastructure steps, of snapd finishing a change and of a deletion
finishing. The orchestrators have a single object, for which weak fairness of a
start is enough, and the same holds for the CK8sControlPlane and, since
each machine asks for a bounded number of refreshes, for the certificates. Other
controllers are weakly fair in what the code relies on: booting a machine that has
its data, marking a failed node unhealthy, asking for the hook and finishing a
deletion, removing the workers of a cluster being deleted, setting the endpoint.
No fairness is assumed of users, failures, crashes, outdated reads, creations,
start-up timeouts, the clock and deletions.

## 5. Proofs

TLAPS checks the following for any sets of machines, any bounds and any number of
failures, under the `ASSUME`s of the modules, which only type the constants. A
hypothesis of a theorem is written in its `ASSUME`. The lagging caches, replaced
requests, joining machines, several MachineSets, lost replies and torn reads that are
excluded break the property of the same module that the violation runs and "Known
limits" name; the module's other theorems share the invariant, and with it the
hypotheses. Each inductive invariant was first checked by TLC on the instances of
section 4.

| Theorem | Property | Hypotheses |
|---|---|---|
| **ControlPlaneInitProofs** | | |
| `TypeCorrect` | `TypeOK` | |
| `InitMutualExclusion` | `AtMostOneInit` | at most the Cluster cache lags |
| `InitLockHeld` | `InitNodeHoldsLock` | same |
| `RefinesClusterFormation` | `FormationSpec` | same |
| **MachineUpgradeProofs** | | |
| `UpgradeTypeCorrect` | `UpgradeTypeOK` | |
| `ReleaseCorrect` | `ReleaseIsInstalled` | the bootstrap manager reads Machines as they are, no request is replaced while it is carried out |
| `RefreshesArePaid` | `NoNeedlessRefresh` | same |
| **ControlPlaneUpgradeProofs** | | |
| `TypeCorrect` | `TypeOK` | |
| `LockOutlivesUpgrade` | `UpgradingHoldsLock` | no cache lags, no request is replaced, no machine joins |
| `UpgradesInTurn` | `OneAtATime` | same |
| `ControlPlaneReleaseCorrect` | `ReleaseIsInstalled` | same |
| `ControlPlaneRefreshesArePaid` | `NoNeedlessRefresh` | same |
| `RefinesRollingUpgrade` | `RollingSpec` | same |
| **MachineDeploymentUpgradeProofs** | | |
| `DeploymentTypeCorrect` | `TypeOK` | |
| `DeploymentUpgradesInTurn` | `OneAtATime` | as for a machine, one MachineSet, no machine joins |
| `DoneIsUpgraded` | `DoneMeansUpgraded` | same |
| `DeploymentRefinesRollingUpgrade` | `RollingSpec` | same |
| **ControlPlaneReplicasProofs** | | |
| `TypeCorrect` | `TypeOK` | |
| `MachinesHaveParts` | `MachineHasParts` | the reply to the creation of a Machine is not lost |
| `NothingLeftBehind` | `GoneLeavesNothing` | the list of machines is not an old one |
| `DeletionsInTurn` | `OneDeletionAtATime` | same |
| `MachinesWithinLimits` | `NeverTooMany` | same |
| `ScaleDownIsStable` | `ScaleDownWhenStable` | same |
| `SpreadIsEven` | `SpreadEvenly` | same |
| `RemediationsAreBounded` | `RetryBound` | same |
| **CertificatesRefreshProofs** | | |
| `CertificatesTypeCorrect` | `TypeOK` | |
| `OneAuthorityHolds` | `OneAuthority` | |
| `TokensAgreeHolds` | `TokensAgree` | the cache stands still between the two reads of `EnsureNodeToken` |
| `RefreshesAreAccounted` | `RefreshesAccounted` | |
| `OncePerRequestWhenCurrent` | at most one refresh for a request | no reconcile starts from an outdated Machine |
| `DoneShowsExpiry` | `DoneMeansRefreshed` | |

Every proof has the same shape: a type invariant, then an invariant that is
inductive given the types, with one step per action of `Next` and, under it, one per
conjunct the action can disturb.

**Bootstrap.** `AtMostOneInit` is not inductive: nothing in it says why the next
machine cannot get init data. The invariant used is `TypeOK /\ ReconcileInv /\
InitNodeHoldsLock /\ AtMostOneInit`. `InitNodeHoldsLock` ties the data handed out
to the lock for as long as an init branch can still run; `ReconcileInv` says what
each step of a reconcile may rely on (in the init branch past `Lock` the lock
names the machine, a joining reconcile has seen the cluster initialised, the
Secret has the role the patch is about to publish, and nothing has been handed
out for a machine whose data is being generated). The assumption on `Lagging` is
used once, in `CurrentReads`; without it the theorem is false, as
`init_stale_config` shows. For the refinement, `OneRoleChanges` and
`SameRolesStutter` reduce each action to the change of one role, and
`RefinementStep` maps `PatchStatus` to `Seed` or `Join`, `ClusterInitialized` to
`Form`, `RemoveMachine` to `Leave` and all others to a stutter.

**Upgrade of a machine.** The release annotation is right because of what the other
annotations say of the node meanwhile: the invariant relates the change id, the
status and the request of each machine to the changes its node has run, also while
a reconcile holds an earlier copy of them. The count of refreshes is paid for by a
credit: each request, failed refresh and failed call allows one more, and a refresh
not recorded yet has spent it already.

**Upgrade of a control plane.** A machine with a request is the one the lock names,
from before it is marked until it is seen done, and the orchestrator unlocks only on
a state its holder cannot leave in between. When machines join this is false: a
machine that joins after an upgrade is upgraded with no request on the
CK8sControlPlane, and a request that comes then finds its lock stale.

**Upgrade of a MachineDeployment.** There is no lock; what keeps two machines from
being upgraded at once is the order of UIDs: the machine with a request comes right
after the ones that are done, for any orchestrator step that may still mark one. A
machine that joins with a smaller UID, or several MachineSets, break the order.

**Rolling upgrade.** Both refinements rest on the invariants above and on
`RunningInv`: a change a node is running is one that the Machine's request asked
for. So `FinishChange` is `Install`, the patch that records a refresh is `EndTurn`
(the node runs the request by `UpgradeInv`), a mark is `TakeTurn` (nobody else has
one, by the lock or by the order), and the patch of the group's object is `Close`
(what the orchestrator saw recorded when it looked is still recorded) or nothing.
All locks, polls, retries, failed calls and crashes are stutters. The lemmas on the
machine's steps (`RollingPatch`, `RollingMachines`) are proved once and used by both.
Without the hypotheses the refinement is false: a late joiner takes a turn with no
request open, and a replaced request is recorded without having been installed.

**Replicas.** The argument is that one reconcile runs at a time. From the list to
the call it decides on, nobody else creates a machine or starts a deletion, so the
list still shows every machine, with its revision and its deletion (`Agrees`); only
machines being deleted can have gone. Hence the room found for a machine is still
there when the Machine is created three calls later (`RoomInv`: no deletion is under
way then, so the count cannot have changed), and a deletion is started while no
other is (`DeletionInv`). Before the control plane is initialised the preflight
checks are not made for a remediation; `InitializedInv` says that there is only one
machine then. `FinalizerInv` ties the finalizer to the machines, and `HealthInv`
follows AgentHealthy from the node to the condition, the list and the removal.

`SpreadEvenly` counts the machines of one revision in each failure domain.
`CloneInv` and `ChoiceInv` carry the choice made from the list to the call: a new
machine goes where the fewest are, and a machine scaled down is marked, outdated or
where the most are. Since only the current revision is counted, a rollout starts
from an even count of none, and `RevisionInv` says that no machine is of a later
revision. That the machines are spread evenly with nothing excepted is not true: a
remediated machine is taken out of whichever domain it is in, as is one marked to be
deleted first, and if the control plane is then scaled down the gap stays, because
the reconciler never moves a machine. `tilted` counts these, and each costs one.

`RetryBound` is about a machine and its replacements, a line. `LineInv` says where
the count of a line is kept: in the annotation of its one machine that is not being
deleted, or, between a remediation and its replacement, in that of the
CK8sControlPlane, and never in both. `LimitInv` and `NotedInv` carry the outcome of
`checkRetryLimits` from the decision to the deletion; `RemediationCounted` does the
arithmetic. A reconcile whose last patch is lost breaks `LineInv`; `unrecorded`
excepts it, and the code then starts a new count.

With an old list all of this breaks, see `replicas_stale_list`.

**Secrets and certificates.** A Secret is written once: what a reconcile read from
it, or generated and saved, stays what it holds (`AuthorityInv`, `NodeTokenInv`), so
late readers and the loser of a race agree with the winner. For the refresh the
invariant counts: the certificates of a node were replaced at most as often as
refreshes were requested and reconciles started from an outdated Machine, and once
less while a refresh is pending, be it that the Machine asks for one or that a
reconcile is on its way to it. A reconcile with an outdated Machine costs its own
refresh and no more: its patch marks the Machine in progress before the run, its
Updates are refused, so it never makes the Machine ask for a refresh again. That
done goes with the right date holds for it too, because its base has an earlier date
than the run returns.

## 6. What is only model-checked, and what is left out

Every invariant of a passing run is proved, and so are the action properties
`NeverTooMany`, `DoneMeansUpgraded` and `ScaleDownWhenStable` and the refinements.
Only TLC checks the liveness properties (`EventuallyBootstrapped`,
`EventuallyUpgraded`, `EventuallyAllUpgraded`, `EventuallySettled`, `AllJoin`,
`WithdrawalClears`): fairness and `ENABLED` are beyond the prover. That
`ScaleDownWhenStable` allows a node that only reports NotReady is for its theorem to
show; nodes of `replicas` become unreachable, those of `remediation`, where nothing
is scaled down, either. The hypotheses of a theorem say which instances it leaves to the
runs: `init_live` and `control_plane_upgrade_lag` have lagging caches, and
`machine_deployment_upgrade` a machine that joins. `RollingSpec` of
`MachineDeploymentUpgrade` is the other way round: with the joining machine of that
run it is false, and only the theorem states it. TLC agrees with it on three machines
that do not join, two requests, a deletion, a failure and a failed refresh
(87,768 states).

Not modelled: the content of cloud-config files and k8s-snap configuration, the
connection to k8sd (a call succeeds or fails), events and logs, the validation
webhooks, generated code, manager start-up, the arithmetic of a time to live
(accepted or rejected), cryptography, certificates users provide for an external
etcd, and the adoption of machines and Secrets without an owner.

Simplifications inside the modelled parts. Machine names are never reused.
`machinesAreReady` may hold the orchestrator back at any time and is part of the
environment's choice of when `OrchestrateScope` is taken; the deletion of the
CK8sControlPlane or MachineDeployment itself ends an upgrade and is left out there.
A machine is present with its phase in `MachineUpgrade` and
`MachineDeploymentUpgrade` as soon as it exists, only its annotations may be read
late. In `ControlPlaneReplicas` the CK8sControlPlane is read current; one cache of
machines may lag. Machine health checks are configured. In `CertificatesRefresh`
machines are not deleted, and while the cluster forms the Machine is read current.

`EventuallySettled` excepts three ways to get stuck, and TLC finds no other within
the bounds of `replicas`: `Lost`, every node has failed and no k8sd is left to ask;
`Refused`, a node was removed, its machine was not deleted, and k8sd may refuse to
remove the node again, as the TODOs at `scale.go:131` and `remediation.go:175`
expect; `Blocked`, an annotation of a remediation that needs no replacement keeps the
next unhealthy machine from being remediated. The last two are limits of the code,
below. A control plane in such a state may still get out of it; the property does not
say that it does.

`docs/proposals/002-cluster-controller.md` stops an orchestrated upgrade at the
first machine that fails: the request is removed (lines 106 and 207). The code
marks the group failed and keeps the request, the machine is retried, and the
models follow the code.

### Known limits of the code

Variations of the configurations under which a property fails, for whoever works
on the code:

- `Lagging = {"ConfigMap"}` in `ControlPlaneInitStaleCK8sConfig.cfg`: a lock that
  was released is taken for one's own (`AtMostOneInit`).
- `Retarget = TRUE` in `MachineUpgrade.cfg`: a request replaced while its refresh
  runs is recorded as installed (`ReleaseIsInstalled`, `upgrade_controller.go:282`);
  the same in `ControlPlaneUpgrade.cfg`: the holder's instructions differ from
  the control plane's, its lock looks stale and a second machine is marked
  (`OneAtATime`, `orchestrated_inplace_upgrade_controller.go:117`).
- `Joining = {m2}`, `MaxRequests = 2` in `ControlPlaneUpgrade.cfg`: a request made
  while a late joiner is being marked is overwritten by the orchestrator's patch
  (`EventuallyAllUpgraded`, line 171), or makes the joiner's lock look stale
  (`OneAtATime`).
- `Lagging = {"Machine"}` in `ControlPlaneUpgrade.cfg`: the mark just made is not
  seen and the lock looks stale (`OneAtATime`).
- Three machines with two joining, a crash and a failed refresh in
  `ControlPlaneUpgrade.cfg`, or `Joining = {2, 3}`, `Leaving = {}`, `MaxChanges = 3` in
  `MachineDeploymentUpgrade.cfg`: after an upgrade a machine joins and the call that
  marks it reports an error, so the group is not marked in progress again; its refresh
  fails once, `MarkUpgradeFailed` deletes the group's release (`mark.go:48`), and the
  next machine that joins finds no instructions (`EventuallyAllUpgraded`), although
  `inplace.go:16` means to upgrade machines that join later.
- `MachineSets = {{1}, {}}` in `MachineDeploymentUpgrade.cfg`: with an empty
  MachineSet of an earlier revision the MachineDeployment may be marked done with
  nothing upgraded (`DoneMeansUpgraded`). `Joining = {1}`: a new machine with a
  smaller UID is upgraded beside the one in progress (`OneAtATime`).
- Without `Blocked` in `EventuallySettled`: a remediated surge machine needs no
  replacement, so the annotation that a remediation is in progress stays on the
  CK8sControlPlane and blocks every later remediation (`remediation.go:102`).
- `"machine"` in `LostReplies`: a Machine that was created although the call
  reported an error has its infrastructure machine and CK8sConfig deleted by the
  clean-up (`MachineHasParts`).
- Without `Refused` in `EventuallySettled`: after a crash between the removal of a
  node and the deletion of its machine k8sd may refuse the removal for ever
  (`scale.go:131`, `remediation.go:175`). With `Idempotent = TRUE` the exception
  never applies.
- `LateJoins = TRUE` with a remediation: a node that comes up between the decision
  and the deletion stays a member of k8sd, because only a machine with a NodeRef is
  removed first.
- `RollingUpdate = {{}}`: a rolling update without `maxSurge` gets no default and
  `upgradeControlPlane` dereferences nil; the panic is recovered and the rollout
  never starts. A node that only reports NotReady keeps its AgentHealthy condition,
  which is why `ScaleDownWhenStable` allows it.
- `TornReads = TRUE` in `Certificates.cfg`: `EnsureNodeToken` reads the Secret
  twice, and a cache that moves on in between lets it replace a token a node uses
  (`TokensAgree`).
- `MaxOutdated = 1` in `Certificates.cfg`, which is why `RefreshesAccounted` counts
  such reads: the in-progress status at `certificates_controller.go:100` is read from
  the informer cache (line 74). A reconcile that follows before the cache shows the
  last patch, for instance after the answer of a run was lost and the Update at line
  139 conflicted, or right after a refresh that succeeded, runs the refresh of the
  same request again: `cert[m] <= requested[m]` fails.
- Certificates: a second refresh of a machine whose status was done ends in
  progress, not done, because the final patch leaves out a status that equals the
  one first read; the next reconcile clears it. A request set during a refresh is
  deleted by the final patch. A run whose answer is lost leaves the expiry date
  outdated while the status is in progress.
- Read in the code, not modelled: `token.Reconcile` dereferences the Secret after
  an error other than NotFound; the info branch of `aggregateFromMachinesToKCP`
  tests the warnings.
