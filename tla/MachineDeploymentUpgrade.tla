------------------------ MODULE MachineDeploymentUpgrade ------------------------
(***************************************************************************)
(* The OrchestratedInPlaceUpgradeController of the bootstrap manager: it   *)
(* upgrades the machines of a MachineDeployment one after the other, with  *)
(* no lock: every reconcile examines them in the order of their UIDs and   *)
(* stops at the first that is not upgraded.  It runs beside the machine    *)
(* reconciler (MachineUpgrade), in the same process and from the same      *)
(* cache.                                                                  *)
(*                                                                         *)
(* Machines are named by their UIDs, so that they can be compared.         *)
(***************************************************************************)
EXTENDS MachineUpgrade, FiniteSets, FiniteSetsExt

CONSTANT MachineSets   \* the machines of each MachineSet of the MachineDeployment

ASSUME UIDAssumption == Machines \subseteq Nat
ASSUME MachineSetsAssumption == MachineSets # {} /\ UNION MachineSets = Machines

VARIABLES
    md,           \* annotations of the MachineDeployment
    wanted,       \* the option users asked for last
    dpc, dm,      \* reconcile in progress: step and machine to mark
    dmd, dnext,   \* the MachineDeployment as read and as modified
    dann          \* annotations of the machine to mark, as listed

deployTask == <<dpc, dm, dmd, dnext, dann>>
deployVars == <<md, wanted, deployTask>>
vars       == <<upgradeVars, deployVars>>

TypeOK ==
    /\ UpgradeTypeOK
    /\ {md, dmd, dnext, dann} \subseteq Annotations
    /\ wanted \in Options \cup {NoOption}
    /\ dpc \in {"idle", "list", "mark", "patch"}
    /\ dm \in Machines \cup {NoMachine}
    /\ (dpc = "mark" => dm \in Machines)

Init ==
    /\ UpgradeInit
    /\ md = NoAnnotations /\ wanted = NoOption
    /\ dpc = "idle" /\ dm = NoMachine
    /\ dmd = NoAnnotations /\ dnext = NoAnnotations /\ dann = NoAnnotations

-----------------------------------------------------------------------------
DeploymentReturn ==
    /\ dpc' = "idle" /\ dm' = NoMachine
    /\ dmd' = NoAnnotations /\ dnext' = NoAnnotations /\ dann' = NoAnnotations

KeepMachines == UNCHANGED <<phase, ann, cacheAnn, nodeVars, taskVars, requests>>

\* Reconcile reads the MachineDeployment, which has instructions.
ReadDeployment ==
    /\ dpc = "idle"
    /\ GetUpgradeInstructions(md) # NoOption
    /\ dpc' = "list" /\ dmd' = md
    /\ UNCHANGED <<md, wanted, dm, dnext, dann, failures>>
    /\ KeepMachines

upgradeTo == GetUpgradeInstructions(dmd)

\* Go on to patch the MachineDeployment with this mark.
PatchNext(modified) == dpc' = "patch" /\ dnext' = modified /\ UNCHANGED <<dm, dmd, dann>>

\* Faulty variant: a machine that is upgrading is passed over.
ExamineNextIdle(owned) ==
    LET todo  == {m \in owned : ~IsUpgraded(SeenAnn[m], upgradeTo)}
        idle  == {m \in todo : ~IsMachineUpgrading(SeenAnn[m])}
        first == Min(idle) IN
    \/ todo = {} /\ PatchNext(MarkUpgradeDone(dmd, upgradeTo))
    \/ todo # {} /\ idle = {} /\ DeploymentReturn
    \/ /\ idle # {}
       /\ dpc' = "mark" /\ dm' = first /\ dann' = SeenAnn[first]
       /\ dnext' = MarkUpgradeInProgress(dmd, upgradeTo)
       /\ UNCHANGED dmd

\* Faulty variant: done as soon as the first machine is.
ExamineFirstOnly(owned) ==
    LET first == Min(owned) IN
    \/ owned = {} /\ PatchNext(MarkUpgradeDone(dmd, upgradeTo))
    \/ /\ owned # {} /\ IsUpgraded(SeenAnn[first], upgradeTo)
       /\ PatchNext(MarkUpgradeDone(dmd, upgradeTo))
    \/ /\ owned # {} /\ ~IsUpgraded(SeenAnn[first], upgradeTo)
       /\ IF phase[first] = "deleting" \/ IsMachineUpgrading(SeenAnn[first])
            THEN DeploymentReturn
            ELSE /\ dpc' = "mark" /\ dm' = first /\ dann' = SeenAnn[first]
                 /\ dnext' = MarkUpgradeInProgress(dmd, upgradeTo)
                 /\ UNCHANGED dmd

\* The loop over the owned machines, sorted by UID: the first one that is not
\* upgraded decides.  A machine that is being deleted or upgraded is waited for,
\* a failed attempt is reported, any other machine is marked.
Examine(owned) ==
    LET todo  == {m \in owned : ~IsUpgraded(SeenAnn[m], upgradeTo)}
        first == Min(todo)
        a     == SeenAnn[first] IN
    \/ todo = {} /\ PatchNext(MarkUpgradeDone(dmd, upgradeTo))
    \/ todo # {} /\ phase[first] = "deleting" /\ DeploymentReturn
    \/ /\ todo # {} /\ phase[first] # "deleting" /\ IsMachineUpgradeFailed(a)
       /\ PatchNext(MarkUpgradeFailed(dmd))
    \/ /\ todo # {} /\ phase[first] # "deleting"
       /\ ~IsMachineUpgradeFailed(a) /\ IsMachineUpgrading(a)
       /\ DeploymentReturn
    \/ /\ todo # {} /\ phase[first] # "deleting"
       /\ ~IsMachineUpgradeFailed(a) /\ ~IsMachineUpgrading(a)
       /\ dpc' = "mark" /\ dm' = first /\ dann' = a
       /\ dnext' = MarkUpgradeInProgress(dmd, upgradeTo)
       /\ UNCHANGED dmd

\* getOwnedMachines takes the machines of the first MachineSet it finds, the
\* cache lists MachineSets in no particular order.
ListMachines ==
    /\ dpc = "list"
    /\ \E set \in MachineSets : Examine({m \in set : Exists(m)})
    /\ UNCHANGED <<md, wanted, failures>>
    /\ KeepMachines

\* MarkMachineToUpgrade patches the Machine against the listed one.
MarkMachine ==
    LET marked == [ann EXCEPT ![dm] =
                     Merge(@, dann, MarkMachineToUpgrade(dann, upgradeTo))] IN
    /\ dpc = "mark"
    /\ \/ Exists(dm) /\ ann' = marked /\ PatchNext(dnext) /\ UNCHANGED failures
       \/ ~Exists(dm) /\ DeploymentReturn /\ UNCHANGED <<ann, failures>>
       \/ /\ Fail /\ DeploymentReturn
          /\ ann' \in {ann, IF Exists(dm) THEN marked ELSE ann}
    /\ UNCHANGED <<md, wanted, phase, cacheAnn, nodeVars, taskVars, requests>>

\* markUpgradeInProgress, markUpgradeDone and markUpgradeFailed patch the
\* MachineDeployment against the one read first.
PatchDeployment ==
    LET patched == Merge(md, dmd, dnext) IN
    /\ dpc = "patch"
    /\ \/ md' = patched /\ UNCHANGED failures
       \/ md' \in {md, patched} /\ Fail
    /\ DeploymentReturn
    /\ UNCHANGED wanted
    /\ KeepMachines

ContinueDeployment == ListMachines \/ MarkMachine \/ PatchDeployment

\* The manager is restarted: both reconciles end.
RestartManager ==
    /\ RestartBootstrap
    /\ DeploymentReturn
    /\ UNCHANGED <<md, wanted>>

\* A user asks for the upgrade of the MachineDeployment.
UpgradeDeployment(option) ==
    /\ requests < MaxRequests
    /\ requests' = requests + 1
    /\ md.to = NoOption \/ Retarget
    /\ md.to # option
    /\ md' = [md EXCEPT !.to = option]
    /\ wanted' = option
    /\ UNCHANGED <<deployTask, failures, phase, ann, cacheAnn, nodeVars, taskVars>>

Next ==
    \/ UpgradeStep /\ UNCHANGED deployVars
    \/ \E m \in Machines :
         /\ CreateMachine(m) \/ DeleteMachine(m) \/ MachineGone(m)
         /\ UNCHANGED deployVars
    \/ ReadDeployment
    \/ ContinueDeployment
    \/ RestartManager
    \/ \E option \in Options : UpgradeDeployment(option)

Spec == Init /\ [][Next]_vars

(***************************************************************************)
(* As in MachineUpgrade; the controller requeues itself every five seconds *)
(* and is triggered by patches of the MachineDeployment and its machines.  *)
(***************************************************************************)
FairSpec ==
    /\ Spec
    /\ UpgradeFairness
    /\ WF_vars(ReadDeployment)
    /\ WF_vars(ContinueDeployment)
    /\ \A m \in Machines : WF_upgradeVars(MachineGone(m))

-----------------------------------------------------------------------------
(***************************************************************************)
(* Properties.                                                             *)
(***************************************************************************)
\* The order of the UIDs replaces a lock: a machine is not marked before the one
\* marked earlier is done, whatever fails (getOwnedMachines: "make sure that
\* upgrade was successful before moving to the next machine").
OneAtATime ==
    \A m, n \in Machines :
        /\ Exists(m) /\ IsMachineUpgrading(ann[m])
        /\ Exists(n) /\ IsMachineUpgrading(ann[n])
        => m = n

\* The MachineDeployment is marked done only when every machine it has had from
\* the start and is not deleting runs the release recorded (markUpgradeDone;
\* docs/proposals/002: "If all the machine upgrades were successful").
DoneMeansUpgraded ==
    [][md.status # "done" /\ md'.status = "done" =>
         \A m \in Machines \ Joining :
            phase[m] = "present" => installed[m] = md'.release]_vars

\* The machines of the MachineDeployment as a group that is upgraded in turns.
Rolling == INSTANCE RollingUpgrade
    WITH members <- {m \in Machines : Exists(m)}, request <- md.to,
         turn <- [m \in Machines |-> ann[m].to],
         release <- [m \in Machines |-> ann[m].release], runs <- installed

\* The MachineDeployment orchestrator and the machine reconciler
\* implement RollingUpgrade: no turn starts before the last one ended, a node is
\* refreshed only in its turn and to what was requested, a turn ends only with
\* the release installed, and the request is withdrawn only when every machine
\* has it (Reconcile, markMachineToUpgrade, handleUpgradeDone, markUpgradeDone).
RollingSpec == Rolling!Spec

\* Every machine, also one that joins later, ends up on the release users asked
\* for last unless it is deleted (GetUpgradeInstructions, requeues of Reconcile).
EventuallyAllUpgraded ==
    \A m \in Machines, option \in Options :
        (phase[m] = "present" /\ wanted = option) ~>
            \/ ann[m].release = option /\ installed[m] = option
            \/ phase[m] # "present"
            \/ wanted # option
=============================================================================
