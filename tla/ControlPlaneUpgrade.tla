--------------------------- MODULE ControlPlaneUpgrade ---------------------------
(***************************************************************************)
(* The OrchestratedInPlaceUpgradeController of the control plane manager:  *)
(* it upgrades the machines of a CK8sControlPlane one after the other by   *)
(* annotating them with upgrade-to, under a lock kept in a ConfigMap, and  *)
(* leaves the refresh itself to the machine reconciler (MachineUpgrade),   *)
(* which runs in another manager.                                          *)
(*                                                                         *)
(* A reconcile reads the CK8sControlPlane and its Machines, then the lock  *)
(* and its holder, and then makes its calls one by one; each may fail,     *)
(* with or without its effect.  Reads go through the manager's informer    *)
(* cache, which may be behind for the kinds in Lagging.  machinesAreReady  *)
(* depends on the nodes' own state, which may hold a reconcile back at any *)
(* moment: it is part of when OrchestrateScope is taken.                   *)
(***************************************************************************)
EXTENDS MachineUpgrade

VARIABLES
    cp,              \* annotations of the CK8sControlPlane
    uplock,          \* machine named by the <cluster>-cp-inplace-upgrade-lock ConfigMap
    wanted,          \* the option users asked for last
    cacheMachines, cacheLock, cacheCP,   \* the control plane manager's cache
    opc, om,         \* reconcile in progress: step and chosen machine
    ocp, onext,      \* the CK8sControlPlane as read and as modified
    olist            \* the Machines as listed

orchCache == <<cacheMachines, cacheLock, cacheCP>>
orchTask  == <<opc, om, ocp, onext, olist>>
orchVars  == <<cp, uplock, wanted, orchCache, orchTask>>
vars      == <<upgradeVars, orchVars>>

OrchestratorSteps == {"idle", "check", "unlock", "unlockStale", "lock", "mark", "patch"}
Listed == [Machines -> [phase : {"absent", "present", "deleting", "gone"}, ann : Annotations]]

TypeOK ==
    /\ UpgradeTypeOK
    /\ {cp, cacheCP, ocp, onext} \subseteq Annotations
    /\ {uplock, cacheLock} \subseteq Machines \cup {NoMachine}
    /\ wanted \in Options \cup {NoOption}
    /\ cacheMachines \in Listed /\ olist \in Listed
    /\ opc \in OrchestratorSteps
    /\ om \in Machines \cup {NoMachine}
    /\ (opc \in {"lock", "mark"} => om \in Machines)

LiveMachines == [m \in Machines |-> [phase |-> phase[m], ann |-> ann[m]]]

SeenMachines == IF "Machine" \in Lagging THEN cacheMachines ELSE LiveMachines
SeenLock     == IF "ConfigMap" \in Lagging THEN cacheLock ELSE uplock
SeenCP       == IF "CK8sControlPlane" \in Lagging THEN cacheCP ELSE cp

FillCache(K) ==
    /\ cacheMachines' = IF "Machine" \in K THEN LiveMachines ELSE cacheMachines
    /\ cacheLock' = IF "ConfigMap" \in K THEN uplock ELSE cacheLock
    /\ cacheCP' = IF "CK8sControlPlane" \in K THEN cp ELSE cacheCP

NothingListed == [m \in Machines |-> [phase |-> "absent", ann |-> NoAnnotations]]

Init ==
    /\ UpgradeInit
    /\ cp = NoAnnotations
    /\ uplock = NoMachine
    /\ wanted = NoOption
    /\ cacheMachines = LiveMachines /\ cacheLock = uplock /\ cacheCP = cp
    /\ opc = "idle" /\ om = NoMachine
    /\ ocp = NoAnnotations /\ onext = NoAnnotations
    /\ olist = NothingListed

-----------------------------------------------------------------------------
OrchestrateReturn ==
    /\ opc' = "idle" /\ om' = NoMachine
    /\ ocp' = NoAnnotations /\ onext' = NoAnnotations
    /\ olist' = NothingListed

\* What the bootstrap manager and the nodes keep, and what a user asked for.
KeepMachines == UNCHANGED <<phase, ann, cacheAnn, nodeVars, taskVars, requests>>
KeepOthers   == UNCHANGED <<wanted, orchCache>> /\ KeepMachines

\* Go on with this machine, or with this CK8sControlPlane to patch.
Goto(step, m, modified) ==
    /\ opc' = step /\ om' = m /\ onext' = modified
    /\ UNCHANGED <<ocp, olist>>

upgradeTo == GetUpgradeInstructions(ocp)

\* createScope: the CK8sControlPlane has instructions; its Machines are listed.
OrchestrateScope ==
    /\ opc = "idle"
    /\ GetUpgradeInstructions(SeenCP) # NoOption
    /\ opc' = "check" /\ ocp' = SeenCP /\ olist' = SeenMachines
    /\ UNCHANGED <<cp, uplock, om, onext, failures>>
    /\ KeepOthers

Holder == SeenMachines[SeenLock]

\* Faulty variant: a machine that is being deleted counts as gone.
HolderFoundNotDeleting == SeenLock # NoMachine /\ Holder.phase = "present"

HolderFound == SeenLock # NoMachine /\ Holder.phase \in {"present", "deleting"}

\* Faulty variants: a failed machine gives up the lock; an upgraded one keeps it.
FinishedStaleOrFailed ==
    /\ opc = "check" /\ HolderFound
    /\ \/ GetUpgradeInstructions(Holder.ann) # upgradeTo
       \/ IsUpgraded(Holder.ann, upgradeTo)
       \/ IsMachineUpgradeFailed(Holder.ann)
    /\ Goto("unlock", NoMachine, onext)
    /\ UNCHANGED <<cp, uplock, failures>>
    /\ KeepOthers

OnlyStale ==
    /\ opc = "check" /\ HolderFound
    /\ GetUpgradeInstructions(Holder.ann) # upgradeTo
    /\ Goto("unlock", NoMachine, onext)
    /\ UNCHANGED <<cp, uplock, failures>>
    /\ KeepOthers

\* The lock is held for a machine that was not told to upgrade (any more), or
\* that is upgraded: release it.
FinishedOrStale ==
    /\ opc = "check" /\ HolderFound
    /\ \/ GetUpgradeInstructions(Holder.ann) # upgradeTo
       \/ IsUpgraded(Holder.ann, upgradeTo)
    /\ Goto("unlock", NoMachine, onext)
    /\ UNCHANGED <<cp, uplock, failures>>
    /\ KeepOthers

HolderUpgrading ==
    /\ opc = "check" /\ HolderFound
    /\ GetUpgradeInstructions(Holder.ann) = upgradeTo
    /\ ~IsUpgraded(Holder.ann, upgradeTo)
    /\ IF IsMachineUpgradeFailed(Holder.ann)
         THEN Goto("patch", NoMachine, MarkUpgradeFailed(ocp))
         ELSE OrchestrateReturn
    /\ UNCHANGED <<cp, uplock, failures>>
    /\ KeepOthers

\* Faulty variant: the lock of a deleted machine is kept.
HolderGoneWaits ==
    /\ opc = "check"
    /\ SeenLock # NoMachine /\ ~HolderFound
    /\ OrchestrateReturn
    /\ UNCHANGED <<cp, uplock, failures>>
    /\ KeepOthers

\* IsLocked: the holder does not exist, so the lock is released on the spot.
HolderGone ==
    /\ opc = "check"
    /\ SeenLock # NoMachine /\ ~HolderFound
    /\ Goto("unlockStale", NoMachine, onext)
    /\ UNCHANGED <<cp, uplock, failures>>
    /\ KeepOthers

\* Faulty variant: the upgrade counts as done as soon as one machine is upgraded.
SelectMachineSomeDone ==
    LET owned == {m \in Machines : olist[m].phase \in {"present", "deleting"}}
        todo  == {m \in owned : ~IsUpgraded(olist[m].ann, upgradeTo)} IN
    \/ \E m \in todo :
         IF olist[m].phase = "deleting"
           THEN OrchestrateReturn
           ELSE Goto("lock", m, MarkUpgradeInProgress(ocp, upgradeTo))
    \/ todo # owned /\ Goto("patch", NoMachine, MarkUpgradeDone(ocp, upgradeTo))

\* The loop over the Machines, in no particular order (they are in a map): the
\* first one that is not upgraded is locked and marked, unless it is being
\* deleted; with none left the upgrade is done.
SelectMachine ==
    LET owned == {m \in Machines : olist[m].phase \in {"present", "deleting"}}
        todo  == {m \in owned : ~IsUpgraded(olist[m].ann, upgradeTo)} IN
    \/ \E m \in todo :
         IF olist[m].phase = "deleting"
           THEN OrchestrateReturn
           ELSE Goto("lock", m, MarkUpgradeInProgress(ocp, upgradeTo))
    \/ todo = {} /\ Goto("patch", NoMachine, MarkUpgradeDone(ocp, upgradeTo))

NotLocked ==
    /\ opc = "check" /\ SeenLock = NoMachine
    /\ SelectMachine
    /\ UNCHANGED <<cp, uplock, failures>>
    /\ KeepOthers

\* Unlock gets the ConfigMap and deletes it; a missing one is fine.
Unlock ==
    /\ opc \in {"unlock", "unlockStale"}
    /\ \/ /\ uplock' = IF SeenLock = NoMachine THEN uplock ELSE NoMachine
          /\ IF opc = "unlock" THEN OrchestrateReturn ELSE SelectMachine
          /\ UNCHANGED failures
       \/ /\ Fail /\ OrchestrateReturn
          /\ uplock' \in {uplock, IF SeenLock = NoMachine THEN uplock ELSE NoMachine}
    /\ UNCHANGED cp
    /\ KeepOthers

\* Lock creates the ConfigMap and fails when there is one.
Lock ==
    /\ opc = "lock"
    /\ \/ uplock = NoMachine /\ uplock' = om /\ Goto("mark", om, onext) /\ UNCHANGED failures
       \/ uplock # NoMachine /\ OrchestrateReturn /\ UNCHANGED <<uplock, failures>>
       \/ /\ Fail /\ OrchestrateReturn
          /\ uplock' \in {uplock, IF uplock = NoMachine THEN om ELSE uplock}
    /\ UNCHANGED cp
    /\ KeepOthers

\* markMachineToUpgrade patches the Machine against the listed one.
MarkMachine ==
    LET listed == olist[om].ann
        marked == [ann EXCEPT ![om] =
                     Merge(@, listed, MarkMachineToUpgrade(listed, upgradeTo))] IN
    /\ opc = "mark"
    /\ \/ Exists(om) /\ ann' = marked /\ Goto("patch", om, onext) /\ UNCHANGED failures
       \/ ~Exists(om) /\ OrchestrateReturn /\ UNCHANGED <<ann, failures>>
       \/ /\ Fail /\ OrchestrateReturn
          /\ ann' \in {ann, IF Exists(om) THEN marked ELSE ann}
    /\ UNCHANGED <<cp, uplock, wanted, orchCache>>
    /\ UNCHANGED <<phase, cacheAnn, nodeVars, taskVars, requests>>

\* markUpgradeInProgress, markUpgradeDone and markUpgradeFailed patch the
\* CK8sControlPlane against the one read in createScope.
PatchControlPlane ==
    LET patched == Merge(cp, ocp, onext) IN
    /\ opc = "patch"
    /\ \/ cp' = patched /\ UNCHANGED failures
       \/ cp' \in {cp, patched} /\ Fail
    /\ OrchestrateReturn
    /\ UNCHANGED uplock
    /\ KeepOthers

ContinueOrchestrate ==
    \/ FinishedOrStale \/ HolderUpgrading \/ HolderGone \/ NotLocked
    \/ Unlock \/ Lock \/ MarkMachine \/ PatchControlPlane

\* The control plane manager is restarted; its cache is filled anew.
RestartControlPlane ==
    /\ Fail
    /\ OrchestrateReturn
    /\ FillCache(Lagging)
    /\ UNCHANGED <<cp, uplock, wanted>>
    /\ KeepMachines

-----------------------------------------------------------------------------
\* The watch of one kind delivers everything up to now.
SyncControlPlane(kind) ==
    /\ kind \in Lagging
    /\ FillCache({kind})
    /\ UNCHANGED <<cp, uplock, wanted, orchTask, failures>>
    /\ KeepMachines

\* A user asks for the upgrade of the control plane.
UpgradeControlPlane(option) ==
    /\ requests < MaxRequests
    /\ requests' = requests + 1
    /\ cp.to # option
    /\ cp.to = NoOption \/ Retarget
    /\ cp' = [cp EXCEPT !.to = option]
    /\ wanted' = option
    /\ UNCHANGED <<uplock, orchCache, orchTask, failures>>
    /\ UNCHANGED <<phase, ann, cacheAnn, nodeVars, taskVars>>

Next ==
    \/ (UpgradeStep \/ RestartBootstrap \/ SyncBootstrap) /\ UNCHANGED orchVars
    \/ \E m \in Machines :
         /\ CreateMachine(m) \/ DeleteMachine(m) \/ MachineGone(m)
         /\ UNCHANGED orchVars
    \/ OrchestrateScope
    \/ ContinueOrchestrate
    \/ RestartControlPlane
    \/ \E kind \in Caches \ {"bootstrap"} : SyncControlPlane(kind)
    \/ \E option \in Options : UpgradeControlPlane(option)

Spec == Init /\ [][Next]_vars

(***************************************************************************)
(* As in MachineUpgrade; in addition the orchestrator requeues itself or   *)
(* is triggered by the patches of its objects, ready replicas permitting,  *)
(* and a machine that is being deleted goes away.                          *)
(***************************************************************************)
FairSpec ==
    /\ Spec
    /\ UpgradeFairness
    /\ WF_vars(OrchestrateScope)
    /\ WF_vars(ContinueOrchestrate)
    /\ \A kind \in Caches \ {"bootstrap"} : WF_vars(SyncControlPlane(kind))
    /\ \A m \in Machines : WF_upgradeVars(MachineGone(m))

-----------------------------------------------------------------------------
(***************************************************************************)
(* Properties.                                                             *)
(***************************************************************************)
\* One machine of the control plane is upgraded at a time: a second one is not
\* marked before the first is done (UpgradeLock; docs/proposals/002: "Apply
\* upgrade-to on one of the machines", wait, then "every remaining").
OneAtATime ==
    \A m, n \in Machines :
        /\ Exists(m) /\ IsMachineUpgrading(ann[m])
        /\ Exists(n) /\ IsMachineUpgrading(ann[n])
        => m = n

\* A machine that is upgrading holds the lock until it is done, whatever fails:
\* no crash, error or deletion releases the lock under it (IsLocked, and the
\* stale lock test of Reconcile).
UpgradingHoldsLock ==
    \A m \in Machines :
        Exists(m) /\ IsMachineUpgrading(ann[m]) => uplock = m

\* The machines of the control plane as a group that is upgraded in turns.
Rolling == INSTANCE RollingUpgrade
    WITH members <- {m \in Machines : Exists(m)}, request <- cp.to,
         turn <- [m \in Machines |-> ann[m].to],
         release <- [m \in Machines |-> ann[m].release], runs <- installed

\* The control plane orchestrator and the machine reconciler
\* implement RollingUpgrade: no turn starts before the last one ended, a node is
\* refreshed only in its turn and to what was requested, a turn ends only with
\* the release installed, and the request is withdrawn only when every machine
\* has it (Reconcile, markMachineToUpgrade, handleUpgradeDone, markUpgradeDone).
RollingSpec == Rolling!Spec

\* Every machine, including one that joins after the upgrade is done, ends up
\* on the release users asked for last, unless it is deleted
\* (GetUpgradeInstructions: "upgrade the new machines that joined after").
EventuallyAllUpgraded ==
    \A m \in Machines, option \in Options :
        (phase[m] = "present" /\ wanted = option) ~>
            \/ ann[m].release = option /\ installed[m] = option
            \/ phase[m] # "present"
            \/ wanted # option
=============================================================================
