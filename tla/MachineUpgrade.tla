----------------------------- MODULE MachineUpgrade -----------------------------
(***************************************************************************)
(* The InPlaceUpgradeReconciler of the bootstrap manager: it refreshes the *)
(* k8s snap of one machine when the Machine is annotated with upgrade-to,  *)
(* and keeps track of the refresh in the Machine's annotations.            *)
(*                                                                         *)
(* Reconciles run one at a time; each is a sequence of API patches and     *)
(* calls to k8sd on the node.  Any call may fail, with or without its      *)
(* effect, the manager may crash between two calls, users and              *)
(* orchestrators patch the same annotations meanwhile, and, when           *)
(* "bootstrap" is in Lagging, the Machine is read from a cache that may be *)
(* behind the API server.                                                  *)
(***************************************************************************)
EXTENDS InPlace, Sequences

CONSTANTS
    Machines,
    NoMachine,
    Base,          \* the option nodes are installed with
    Lagging,       \* informer caches that may be behind
    MaxFailures,   \* bound on failed calls and crashes
    Joining,       \* machines that do not exist yet
    Leaving,       \* machines that may be deleted
    Retarget,      \* users replace a request that is being carried out
    MaxRequests,   \* bound on user requests
    MaxErrors,     \* bound on refreshes that end in error
    MaxChanges     \* bound on the refreshes a node accepts

\* The Machines of the bootstrap manager, and what the control plane manager caches.
Caches == {"bootstrap", "Machine", "ConfigMap", "CK8sControlPlane"}

ASSUME NoMachineAssumption == NoMachine \notin Machines
ASSUME BaseAssumption == Base \in Options
ASSUME LaggingAssumption == Lagging \subseteq Caches
ASSUME MachinesAssumption == Joining \subseteq Machines /\ Leaving \subseteq Machines
ASSUME RetargetAssumption == Retarget \in BOOLEAN
ASSUME BoundsAssumption == {MaxFailures, MaxRequests, MaxErrors, MaxChanges} \subseteq Nat

VARIABLES
    phase,       \* "absent", "present", "deleting", "gone"
    ann,         \* annotations of the Machines in the API server
    cacheAnn,    \* the same in the bootstrap manager's cache
    snap,        \* snapd changes of each node: [option, state], id = index
    installed,   \* option the node runs
    upc, um,     \* reconcile in progress: step and machine
    seen, next,  \* the Machine as read (patch helper) and as modified
    failures, errors, requests

nodeVars    == <<snap, installed, errors>>
taskVars    == <<upc, um, seen, next>>
upgradeVars == <<phase, ann, cacheAnn, nodeVars, taskVars, failures, requests>>

UpgradeSteps == {"idle", "clean", "refresh", "poll", "patch"}
Changes == [option : Options, state : {"Doing", "Done", "Error"}]

UpgradeTypeOK ==
    /\ phase \in [Machines -> {"absent", "present", "deleting", "gone"}]
    /\ ann \in [Machines -> Annotations]
    /\ cacheAnn \in [Machines -> Annotations]
    /\ snap \in [Machines -> Seq(Changes)]
    /\ installed \in [Machines -> Options]
    /\ upc \in UpgradeSteps
    /\ um \in Machines \cup {NoMachine}
    /\ (upc # "idle" => um \in Machines)
    /\ seen \in Annotations /\ next \in Annotations
    /\ failures \in 0..MaxFailures
    /\ errors \in 0..MaxErrors
    /\ requests \in 0..MaxRequests
    /\ \A m \in Machines : ann[m].change \in 0..Len(snap[m])   \* ids of known changes

UpgradeInit ==
    /\ phase = [m \in Machines |-> IF m \in Joining THEN "absent" ELSE "present"]
    /\ ann = [m \in Machines |-> NoAnnotations]
    /\ cacheAnn = ann
    /\ snap = [m \in Machines |-> <<>>]
    /\ installed = [m \in Machines |-> Base]
    /\ upc = "idle" /\ um = NoMachine
    /\ seen = NoAnnotations /\ next = NoAnnotations
    /\ failures = 0 /\ errors = 0 /\ requests = 0

-----------------------------------------------------------------------------
Exists(m) == phase[m] \in {"present", "deleting"}

SeenAnn == IF "bootstrap" \in Lagging THEN cacheAnn ELSE ann

Fail == failures < MaxFailures /\ failures' = failures + 1

\* The reconcile returns: nothing of it is kept.
UpgradeReturn ==
    /\ upc' = "idle" /\ um' = NoMachine
    /\ seen' = NoAnnotations /\ next' = NoAnnotations

\* Refreshing: a change of the node's snap is running.
Doing(m) == \E i \in DOMAIN snap[m] : snap[m][i].state = "Doing"

-----------------------------------------------------------------------------
(***************************************************************************)
(* Reconcile: read the Machine and dispatch on its annotations.            *)
(***************************************************************************)
Begin(m, step, read, modified) ==
    /\ upc' = step /\ um' = m
    /\ seen' = read /\ next' = modified
    /\ UNCHANGED <<phase, ann, cacheAnn, nodeVars, failures, requests>>

\* upgrade-to is set: there is something to do.
Requested(m) == upc = "idle" /\ Exists(m) /\ SeenAnn[m].to # NoOption

\* Faulty variant: the change id of a running refresh is not looked at.
StartRequestAlways(m) ==
    LET a == SeenAnn[m] IN
    /\ Requested(m)
    /\ Begin(m, "clean", a, [a EXCEPT !.status = "none", !.change = 0, !.release = NoOption])

\* No change id: a new upgrade or a retry (handleUpgradeRequest).
StartRequest(m) ==
    LET a == SeenAnn[m] IN
    /\ Requested(m)
    /\ a.change = 0
    /\ Begin(m, "clean", a, [a EXCEPT !.status = "none", !.change = 0, !.release = NoOption])

\* handleUpgradeInProgress
StartPoll(m) ==
    LET a == SeenAnn[m] IN
    /\ Requested(m)
    /\ a.change # 0 /\ a.status = "in-progress"
    /\ Begin(m, "poll", a, a)

\* Faulty variant: the request is not removed.
StartDoneKeepsTo(m) ==
    LET a == SeenAnn[m] IN
    /\ Requested(m)
    /\ a.change # 0 /\ a.status = "done"
    /\ Begin(m, "patch", a, [a EXCEPT !.change = 0, !.failed = FALSE, !.release = a.to])

\* handleUpgradeDone: the option recorded is the one upgrade-to names now.
StartDone(m) ==
    LET a == SeenAnn[m] IN
    /\ Requested(m)
    /\ a.change # 0 /\ a.status = "done"
    /\ Begin(m, "patch", a, [a EXCEPT !.to = NoOption, !.change = 0,
                                      !.failed = FALSE, !.release = a.to])

\* Faulty variant: the change id stays, so nothing is retried.
StartFailedKeepsId(m) ==
    LET a == SeenAnn[m] IN
    /\ Requested(m)
    /\ a.change # 0 /\ a.status = "failed"
    /\ Begin(m, "patch", a, [a EXCEPT !.status = "none"])

\* handleUpgradeFailed: a retry, remembering that an attempt failed.
StartFailed(m) ==
    LET a == SeenAnn[m] IN
    /\ Requested(m)
    /\ a.change # 0 /\ a.status = "failed"
    /\ Begin(m, "patch", a, [a EXCEPT !.status = "none", !.change = 0])

\* A change id without a (valid) status is marked as failed; a missing status is
\* marked so twice in a row, with the same patch.
StartInvalid(m) ==
    LET a == SeenAnn[m] IN
    /\ Requested(m)
    /\ a.change # 0 /\ a.status \notin {"in-progress", "done", "failed"}
    /\ Begin(m, "patch", a, [a EXCEPT !.status = "failed", !.failed = TRUE])

StartReconcile(m) ==
    \/ StartRequest(m) \/ StartPoll(m) \/ StartDone(m)
    \/ StartFailed(m) \/ StartInvalid(m)

-----------------------------------------------------------------------------
(***************************************************************************)
(* The calls of a reconcile.                                               *)
(***************************************************************************)
Patched == IF Exists(um) THEN [ann EXCEPT ![um] = Merge(ann[um], seen, next)] ELSE ann

\* handleUpgradeRequest removes what an earlier upgrade left, then calls k8sd.
CleanAnnotations ==
    /\ upc = "clean"
    /\ \/ /\ Exists(um)
          /\ ann' = Patched
          /\ upc' = "refresh"
          /\ UNCHANGED <<um, seen, next, failures>>
       \/ /\ ~Exists(um) /\ UpgradeReturn
          /\ UNCHANGED <<ann, failures>>
       \/ /\ Fail /\ UpgradeReturn
          /\ ann' \in {ann, Patched}
    /\ UNCHANGED <<phase, cacheAnn, nodeVars, requests>>

\* Faulty variant: the id recorded is one too high.
RefreshMachineNextId ==
    LET started == [snap EXCEPT ![um] = Append(@, [option |-> seen.to, state |-> "Doing"])]
        accepts == Exists(um) /\ ~Doing(um) /\ Len(snap[um]) < MaxChanges IN
    /\ upc = "refresh"
    /\ \/ /\ accepts
          /\ snap' = started
          /\ next' = [next EXCEPT !.status = "in-progress", !.change = Len(started[um]) + 1]
          /\ upc' = "patch"
          /\ UNCHANGED <<um, seen, failures>>
       \/ /\ ~accepts /\ UpgradeReturn
          /\ UNCHANGED <<snap, failures>>
       \/ /\ Fail /\ UpgradeReturn
          /\ snap' \in {snap, IF accepts THEN started ELSE snap}
    /\ UNCHANGED <<phase, ann, cacheAnn, installed, errors, requests>>

\* RefreshMachine: k8sd starts a snap change and returns its id.  snapd refuses
\* a second change of a snap while one is running.
RefreshMachine ==
    LET started == [snap EXCEPT ![um] = Append(@, [option |-> seen.to, state |-> "Doing"])]
        accepts == Exists(um) /\ ~Doing(um) /\ Len(snap[um]) < MaxChanges IN
    /\ upc = "refresh"
    /\ \/ /\ accepts
          /\ snap' = started
          /\ next' = [next EXCEPT !.status = "in-progress", !.change = Len(started[um])]
          /\ upc' = "patch"
          /\ UNCHANGED <<um, seen, failures>>
       \/ /\ ~accepts /\ UpgradeReturn
          /\ UNCHANGED <<snap, failures>>
       \/ /\ Fail /\ UpgradeReturn
          /\ snap' \in {snap, IF accepts THEN started ELSE snap}
    /\ UNCHANGED <<phase, ann, cacheAnn, installed, errors, requests>>

\* What k8sd reports of a change; anything completed but not "Done" is an error.
GetRefreshStatusForMachine(m, id) == snap[m][id].state

\* Faulty variant: every completed change counts as done.
PollRefreshStatusAnyDone ==
    LET state == GetRefreshStatusForMachine(um, seen.change) IN
    /\ upc = "poll"
    /\ \/ /\ Exists(um) /\ state = "Doing"
          /\ UpgradeReturn
          /\ UNCHANGED failures
       \/ /\ Exists(um) /\ state # "Doing"
          /\ next' = [seen EXCEPT !.status = "done"]
          /\ upc' = "patch"
          /\ UNCHANGED <<um, seen, failures>>
       \/ /\ ~Exists(um) /\ UpgradeReturn
          /\ UNCHANGED failures
       \/ Fail /\ UpgradeReturn
    /\ UNCHANGED <<phase, ann, cacheAnn, nodeVars, requests>>

\* handleUpgradeInProgress: what follows from the status of the change.
PollRefreshStatus ==
    LET state == GetRefreshStatusForMachine(um, seen.change) IN
    /\ upc = "poll"
    /\ \/ /\ Exists(um) /\ state = "Doing"
          /\ UpgradeReturn
          /\ UNCHANGED failures
       \/ /\ Exists(um) /\ state = "Done"
          /\ next' = [seen EXCEPT !.status = "done"]
          /\ upc' = "patch"
          /\ UNCHANGED <<um, seen, failures>>
       \/ /\ Exists(um) /\ state = "Error"
          /\ next' = [seen EXCEPT !.status = "failed", !.failed = TRUE]
          /\ upc' = "patch"
          /\ UNCHANGED <<um, seen, failures>>
       \/ /\ ~Exists(um) /\ UpgradeReturn
          /\ UNCHANGED failures
       \/ Fail /\ UpgradeReturn
    /\ UNCHANGED <<phase, ann, cacheAnn, nodeVars, requests>>

\* The last patch of every branch.
PatchAnnotations ==
    /\ upc = "patch"
    /\ \/ ann' = Patched /\ UNCHANGED failures
       \/ ann' \in {ann, Patched} /\ Fail
    /\ UpgradeReturn
    /\ UNCHANGED <<phase, cacheAnn, nodeVars, requests>>

ContinueReconcile ==
    CleanAnnotations \/ RefreshMachine \/ PollRefreshStatus \/ PatchAnnotations

\* The bootstrap manager is restarted; its cache is filled anew.
RestartBootstrap ==
    /\ Fail
    /\ UpgradeReturn
    /\ cacheAnn' = IF "bootstrap" \in Lagging THEN ann ELSE cacheAnn
    /\ UNCHANGED <<phase, ann, nodeVars, requests>>

-----------------------------------------------------------------------------
(***************************************************************************)
(* The environment.                                                        *)
(***************************************************************************)
\* The watch delivers everything up to now.  A step of ControlPlaneUpgrade:
\* UpgradeSpec is about current reads, "bootstrap" \notin Lagging.
SyncBootstrap ==
    /\ "bootstrap" \in Lagging
    /\ cacheAnn' = ann
    /\ UNCHANGED <<phase, ann, nodeVars, taskVars, failures, requests>>

\* snapd finishes a change of the node.
FinishChange(m) ==
    \E i \in DOMAIN snap[m] :
        /\ snap[m][i].state = "Doing"
        /\ \/ /\ snap' = [snap EXCEPT ![m][i].state = "Done"]
              /\ installed' = [installed EXCEPT ![m] = snap[m][i].option]
              /\ UNCHANGED errors
           \/ /\ errors < MaxErrors
              /\ errors' = errors + 1
              /\ snap' = [snap EXCEPT ![m][i].state = "Error"]
              /\ UNCHANGED installed
        /\ UNCHANGED <<phase, ann, cacheAnn, taskVars, failures, requests>>

CreateMachine(m) ==
    /\ phase[m] = "absent"
    /\ phase' = [phase EXCEPT ![m] = "present"]
    /\ UNCHANGED <<ann, cacheAnn, nodeVars, taskVars, failures, requests>>

DeleteMachine(m) ==
    /\ m \in Leaving /\ phase[m] = "present"
    /\ phase' = [phase EXCEPT ![m] = "deleting"]
    /\ UNCHANGED <<ann, cacheAnn, nodeVars, taskVars, failures, requests>>

\* The Machine and its node are gone, with all they kept.
MachineGone(m) ==
    /\ phase[m] = "deleting"
    /\ phase' = [phase EXCEPT ![m] = "gone"]
    /\ ann' = [ann EXCEPT ![m] = NoAnnotations]
    /\ snap' = [snap EXCEPT ![m] = <<>>]
    /\ UNCHANGED <<cacheAnn, installed, errors, taskVars, failures, requests>>

\* A user asks for the upgrade of a machine.
SetUpgradeTo(m, option) ==
    /\ requests < MaxRequests
    /\ requests' = requests + 1
    /\ Exists(m) /\ ann[m].to # option
    /\ ann[m].to = NoOption \/ Retarget
    /\ ann' = [ann EXCEPT ![m].to = option]
    /\ UNCHANGED <<phase, cacheAnn, nodeVars, taskVars, failures>>

\* A user removes the status annotation of a machine being upgraded.
DropStatus(m) ==
    /\ Fail
    /\ Exists(m) /\ ann[m].status # "none"
    /\ ann' = [ann EXCEPT ![m].status = "none"]
    /\ UNCHANGED <<phase, cacheAnn, nodeVars, taskVars, requests>>

-----------------------------------------------------------------------------
\* What happens to a machine whoever asks for its upgrade.
UpgradeStep ==
    \/ \E m \in Machines : StartReconcile(m) \/ FinishChange(m)
    \/ ContinueReconcile

UpgradeNext ==
    \/ UpgradeStep
    \/ RestartBootstrap
    \/ \E m \in Machines :
         \/ DeleteMachine(m) \/ MachineGone(m) \/ DropStatus(m)
         \/ \E option \in Options : SetUpgradeTo(m, option)

UpgradeSpec == UpgradeInit /\ [][UpgradeNext]_upgradeVars

(***************************************************************************)
(* A reconcile that returns an error or asks for a requeue runs again, and *)
(* every patch of a Machine triggers one; the work queue serves machines   *)
(* in turn; a started reconcile goes on; snapd ends every change; watches  *)
(* deliver.                                                                *)
(***************************************************************************)
UpgradeFairness ==
    /\ WF_upgradeVars(ContinueReconcile)
    /\ \A m \in Machines :
         /\ SF_upgradeVars(StartReconcile(m))
         /\ WF_upgradeVars(FinishChange(m))
    /\ WF_upgradeVars(SyncBootstrap)

FairUpgradeSpec == UpgradeSpec /\ UpgradeFairness

-----------------------------------------------------------------------------
(***************************************************************************)
(* Properties of the machine reconciler.                                   *)
(***************************************************************************)
\* The release annotation names what the node runs (handleUpgradeDone records
\* upgrade-to; docs/proposals/001: "updated with the used {upgrade-option}").
ReleaseIsInstalled ==
    \A m \in Machines :
        Exists(m) /\ ann[m].release # NoOption => installed[m] = ann[m].release

\* A request is carried out, whatever fails on the way, unless the machine is
\* deleted: the reconciler retries failed refreshes (handleUpgradeFailed) and
\* recovers from a crash between the refresh and the patch of its change id.
EventuallyUpgraded ==
    \A m \in Machines, option \in Options :
        ann[m].to = option ~>
            (ann[m].release = option /\ installed[m] = option) \/ phase[m] # "present"

\* A node is refreshed once per request: every further refresh makes up for one
\* that ended in error, for a failed call or crash, or for a lost status
\* (Reconcile's dispatch on the change id, MarkMachineToUpgrade).
NoNeedlessRefresh ==
    \A m \in Machines : Len(snap[m]) <= requests + errors + failures
=============================================================================
