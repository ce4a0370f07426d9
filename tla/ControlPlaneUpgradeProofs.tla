------------------------- MODULE ControlPlaneUpgradeProofs -------------------------
(***************************************************************************)
(* Theorems about ControlPlaneUpgrade, for any machines, options and       *)
(* bounds.  The types need nothing.  The order of the upgrades is proved   *)
(* for current reads, requests that are not replaced while they are        *)
(* carried out, and a control plane no machine joins: a machine that joins *)
(* after an upgrade is upgraded without a request on the CK8sControlPlane, *)
(* and a new request takes the lock away from it.                          *)
(***************************************************************************)
EXTENDS ControlPlaneUpgrade, MachineUpgradeProofs

USE NoOptionAssumption, NoMachineAssumption, BaseAssumption, LaggingAssumption,
    MachinesAssumption, RetargetAssumption, BoundsAssumption

-----------------------------------------------------------------------------
(***************************************************************************)
(* Types.                                                                  *)
(***************************************************************************)
TaskType ==
    /\ ocp \in Annotations /\ onext \in Annotations
    /\ olist \in Listed
    /\ opc \in OrchestratorSteps
    /\ om \in Machines \cup {NoMachine}
    /\ opc \in {"lock", "mark"} => om \in Machines

\* A reconcile that is in progress was started for a request.
OrchType == TypeOK /\ TypeInv /\ (opc # "idle" => upgradeTo # NoOption)

\* Returning keeps nothing.
LEMMA ReturnTask ==
  ASSUME OrchestrateReturn
  PROVE  TaskType' /\ opc' = "idle"
<1>1. NoAnnotations \in Annotations
  BY DEF NoAnnotations, Annotations, Statuses
<1>2. NothingListed \in Listed
  BY <1>1 DEF NothingListed, Listed
<1>3. QED
  BY <1>1, <1>2 DEF OrchestrateReturn, TaskType, OrchestratorSteps

\* Going on keeps what was read.
LEMMA GotoTask ==
  ASSUME OrchType, NEW step \in OrchestratorSteps, NEW m \in Machines \cup {NoMachine},
         NEW a \in Annotations, step \in {"lock", "mark"} => m \in Machines,
         Goto(step, m, a), opc # "idle"
  PROVE  TaskType' /\ upgradeTo' # NoOption
BY DEF Goto, TaskType, OrchType, TypeOK, upgradeTo

\* SelectMachine goes on or returns.
LEMMA SelectTask ==
  ASSUME OrchType, SelectMachine, opc # "idle"
  PROVE  TaskType' /\ (opc' # "idle" => upgradeTo' # NoOption)
<1>1. ocp \in Annotations /\ upgradeTo \in Options
  BY MarkTypes DEF OrchType, TypeOK, upgradeTo, Annotations, GetUpgradeInstructions
<1>2. /\ MarkUpgradeInProgress(ocp, upgradeTo) \in Annotations
      /\ MarkUpgradeDone(ocp, upgradeTo) \in Annotations
  BY <1>1, MarkTypes
<1>3. CASE OrchestrateReturn
  BY <1>3, ReturnTask
<1>4. ASSUME NEW m \in Machines, Goto("lock", m, MarkUpgradeInProgress(ocp, upgradeTo))
      PROVE  TaskType' /\ upgradeTo' # NoOption
  BY <1>2, <1>4, GotoTask DEF OrchestratorSteps
<1>5. CASE Goto("patch", NoMachine, MarkUpgradeDone(ocp, upgradeTo))
  BY <1>2, <1>5, GotoTask DEF OrchestratorSteps
<1>6. QED
  BY <1>3, <1>4, <1>5 DEF SelectMachine

\* A step that leaves the machines to the bootstrap manager keeps their types.
LEMMA KeepMachinesType ==
  ASSUME TypeInv, KeepMachines, failures' \in 0..MaxFailures
  PROVE  TypeInv'
BY DEF TypeInv, UpgradeTypeOK, KeepMachines, nodeVars, taskVars

\* The steps of the orchestrator that patch nothing but the lock.
LEMMA DecideType ==
  ASSUME OrchType,
         FinishedOrStale \/ HolderUpgrading \/ HolderGone \/ NotLocked \/ Unlock \/ Lock
  PROVE  OrchType'
<1>1. /\ ocp \in Annotations /\ onext \in Annotations /\ failures \in 0..MaxFailures
      /\ uplock \in Machines \cup {NoMachine} /\ om \in Machines \cup {NoMachine}
  BY DEF OrchType, TypeOK, UpgradeTypeOK
<1>2. TaskType' /\ (opc' # "idle" => upgradeTo' # NoOption)
  <2>1. CASE FinishedOrStale
    BY <1>1, <2>1, GotoTask DEF FinishedOrStale, OrchestratorSteps
  <2>2. CASE HolderUpgrading
    <3>1. MarkUpgradeFailed(ocp) \in Annotations
      BY <1>1 DEF MarkUpgradeFailed, Annotations, Statuses
    <3>2. CASE OrchestrateReturn
      BY <3>2, ReturnTask
    <3>3. CASE Goto("patch", NoMachine, MarkUpgradeFailed(ocp))
      BY <2>2, <3>1, <3>3, GotoTask DEF HolderUpgrading, OrchestratorSteps
    <3>4. QED
      BY <2>2, <3>2, <3>3 DEF HolderUpgrading
  <2>3. CASE HolderGone
    BY <1>1, <2>3, GotoTask DEF HolderGone, OrchestratorSteps
  <2>4. CASE NotLocked
    BY <2>4, SelectTask DEF NotLocked
  <2>5. CASE Unlock
    BY <2>5, SelectTask, ReturnTask DEF Unlock
  <2>6. CASE Lock
    <3>1. CASE OrchestrateReturn
      BY <3>1, ReturnTask
    <3>2. CASE Goto("mark", om, onext)
      <4>1. om \in Machines
        BY <2>6 DEF OrchType, TypeOK, Lock
      <4>2. QED
        BY <1>1, <2>6, <3>2, <4>1, GotoTask DEF Lock, OrchestratorSteps
    <3>3. QED
      BY <2>6, <3>1, <3>2 DEF Lock
  <2>7. QED
    BY <2>1, <2>2, <2>3, <2>4, <2>5, <2>6
<1>3. /\ cp' = cp /\ uplock' \in Machines \cup {NoMachine}
      /\ UNCHANGED <<wanted, orchCache>> /\ KeepMachines
      /\ failures' \in 0..MaxFailures
  <2>1. failures' = failures \/ Fail
    BY DEF FinishedOrStale, HolderUpgrading, HolderGone, NotLocked, Unlock, Lock
  <2>2. failures' \in 0..MaxFailures
    BY <1>1, <2>1 DEF Fail
  <2>3. QED
    BY <1>1, <2>2 DEF FinishedOrStale, HolderUpgrading, HolderGone, NotLocked, Unlock, Lock, KeepOthers
<1>4. TypeInv'
  BY <1>3, KeepMachinesType DEF OrchType
<1>5. QED
  BY <1>2, <1>3, <1>4 DEF OrchType, TypeOK, TaskType, TypeInv, orchCache

\* The patch of a Machine.
LEMMA MarkType ==
  ASSUME OrchType, MarkMachine
  PROVE  OrchType'
<1>1. /\ om \in Machines /\ olist[om].ann \in Annotations /\ upgradeTo \in Options
      /\ ann \in [Machines -> Annotations] /\ failures \in 0..MaxFailures
      /\ onext \in Annotations
  BY MarkTypes DEF OrchType, TypeOK, UpgradeTypeOK, MarkMachine, Listed, upgradeTo,
     GetUpgradeInstructions, Annotations
<1> DEFINE b == Merge(ann[om], olist[om].ann, MarkMachineToUpgrade(olist[om].ann, upgradeTo))
<1>2. /\ b \in Annotations /\ b.change \in {ann[om].change, 0}
  <2>1. ann[om] \in Annotations
    BY <1>1
  <2>2. /\ MarkMachineToUpgrade(olist[om].ann, upgradeTo) \in Annotations
        /\ MarkMachineToUpgrade(olist[om].ann, upgradeTo).change = 0
    BY <1>1, MarkTypes
  <2>3. QED
    BY <1>1, <2>1, <2>2, MergeType
<1>3. ann' = ann \/ ann' = [ann EXCEPT ![om] = b]
  BY DEF MarkMachine
<1> HIDE DEF b
<1>4. /\ ann' \in [Machines -> Annotations]
      /\ \A m \in Machines : ann'[m].change \in 0..Len(snap[m])
  <2>1. \A m \in Machines : ann[m].change \in 0..Len(snap[m]) /\ Len(snap[m]) \in Nat
    BY NodeTypes DEF OrchType, TypeInv, UpgradeTypeOK
  <2>2. QED
    BY <1>1, <1>2, <1>3, <2>1
<1>5. failures' \in 0..MaxFailures
  BY <1>1 DEF MarkMachine, Fail
<1>6. UNCHANGED <<phase, cacheAnn, nodeVars, taskVars, requests, cp, uplock, wanted, orchCache>>
  BY DEF MarkMachine
<1>7. TypeInv'
  BY <1>4, <1>5, <1>6 DEF OrchType, TypeInv, UpgradeTypeOK, nodeVars, taskVars
<1>8. TaskType' /\ (opc' # "idle" => upgradeTo' # NoOption)
  <2>1. CASE OrchestrateReturn
    BY <2>1, ReturnTask
  <2>2. CASE Goto("patch", om, onext)
    BY <1>1, <2>2, GotoTask DEF OrchestratorSteps, MarkMachine
  <2>3. QED
    BY <2>1, <2>2 DEF MarkMachine
<1>9. QED
  BY <1>6, <1>7, <1>8 DEF OrchType, TypeOK, TaskType, TypeInv, orchCache

\* A step of the cache, of a user or of the patch of the CK8sControlPlane.
LEMMA ControlPlaneType ==
  ASSUME OrchType,
         \/ OrchestrateScope \/ PatchControlPlane \/ RestartControlPlane
         \/ \E kind \in Caches : SyncControlPlane(kind)
         \/ \E option \in Options : UpgradeControlPlane(option)
  PROVE  OrchType'
<1>1. /\ cp \in Annotations /\ cacheCP \in Annotations /\ ocp \in Annotations
      /\ onext \in Annotations /\ failures \in 0..MaxFailures /\ olist \in Listed
      /\ cacheMachines \in Listed /\ opc \in OrchestratorSteps
      /\ wanted \in Options \cup {NoOption} /\ requests \in 0..MaxRequests
      /\ {uplock, cacheLock} \subseteq Machines \cup {NoMachine}
      /\ om \in Machines \cup {NoMachine}
  BY DEF OrchType, TypeOK, UpgradeTypeOK
<1>2. LiveMachines \in Listed
  BY DEF LiveMachines, Listed, OrchType, TypeOK, UpgradeTypeOK
<1>3. CASE OrchestrateScope
  <2>1. SeenCP \in Annotations /\ SeenMachines \in Listed
    BY <1>1, <1>2 DEF SeenCP, SeenMachines
  <2>2. TypeInv'
    BY <1>1, <1>3, KeepMachinesType DEF OrchestrateScope, OrchType, KeepOthers
  <2>3. TaskType' /\ upgradeTo' # NoOption
    BY <1>1, <1>3, <2>1 DEF OrchestrateScope, TaskType, upgradeTo, OrchestratorSteps
  <2>4. QED
    BY <1>1, <1>3, <2>2, <2>3 DEF OrchestrateScope, OrchType, TypeOK, TaskType, TypeInv,
       KeepOthers, orchCache
<1>4. CASE PatchControlPlane
  <2>1. Merge(cp, ocp, onext) \in Annotations
    BY <1>1, MergeType
  <2>2. cp' \in Annotations
    BY <1>1, <1>4, <2>1 DEF PatchControlPlane
  <2>3. TypeInv'
    <3>1. KeepMachines /\ (failures' = failures \/ Fail)
      BY <1>4 DEF PatchControlPlane, KeepOthers
    <3>2. QED
      BY <1>1, <3>1, KeepMachinesType DEF OrchType, Fail
  <2>4. TaskType' /\ opc' = "idle"
    BY <1>4, ReturnTask DEF PatchControlPlane
  <2>5. UNCHANGED <<uplock, wanted, orchCache>>
    BY <1>4 DEF PatchControlPlane, KeepOthers
  <2>6. QED
    BY <1>1, <2>2, <2>3, <2>4, <2>5 DEF OrchType, TypeOK, TaskType, TypeInv, orchCache
<1>5. ASSUME NEW K, FillCache(K)
      PROVE  cacheCP' \in Annotations /\ cacheMachines' \in Listed
             /\ cacheLock' \in Machines \cup {NoMachine}
  BY <1>1, <1>2, <1>5 DEF FillCache
<1>6. CASE RestartControlPlane
  <2>1. TypeInv'
    BY <1>1, <1>6, KeepMachinesType DEF RestartControlPlane, OrchType, Fail
  <2>2. TaskType' /\ opc' = "idle"
    BY <1>6, ReturnTask DEF RestartControlPlane
  <2>3. UNCHANGED <<cp, uplock, wanted>> /\ FillCache(Lagging)
    BY <1>6 DEF RestartControlPlane
  <2>4. QED
    BY <1>1, <1>5, <2>1, <2>2, <2>3 DEF OrchType, TypeOK, TaskType, TypeInv
<1>7. ASSUME NEW kind \in Caches, SyncControlPlane(kind)
      PROVE  OrchType'
  <2>1. TypeInv'
    BY <1>1, <1>7, KeepMachinesType DEF SyncControlPlane, OrchType
  <2>2. UNCHANGED <<cp, uplock, wanted, orchTask>> /\ FillCache({kind})
    BY <1>7 DEF SyncControlPlane
  <2>3. QED
    BY <1>1, <1>5, <2>1, <2>2 DEF OrchType, TypeOK, TypeInv, orchTask, upgradeTo
<1>8. ASSUME NEW option \in Options, UpgradeControlPlane(option)
      PROVE  OrchType'
  <2>1. [cp EXCEPT !.to = option] \in Annotations
    BY <1>1 DEF Annotations
  <2>2. requests' \in 0..MaxRequests
    BY <1>1, <1>8 DEF UpgradeControlPlane
  <2>3. TypeInv'
    BY <1>8, <2>2 DEF UpgradeControlPlane, OrchType, TypeInv, UpgradeTypeOK, nodeVars, taskVars
  <2>4. QED
    BY <1>1, <1>8, <2>1, <2>3 DEF UpgradeControlPlane, OrchType, TypeOK, TypeInv, orchCache,
       orchTask, upgradeTo
<1>9. QED
  BY <1>3, <1>4, <1>6, <1>7, <1>8

\* Every step keeps the types.
LEMMA OrchTypeStep ==
  ASSUME OrchType, [Next]_vars
  PROVE  OrchType'
<1>1. CASE UNCHANGED vars
  BY <1>1 DEF vars, upgradeVars, orchVars, orchCache, orchTask, nodeVars, taskVars, OrchType,
     TypeOK, TypeInv, UpgradeTypeOK, upgradeTo
<1>2. ASSUME TypeInv', UNCHANGED orchVars
      PROVE  OrchType'
  BY <1>2 DEF orchVars, orchCache, orchTask, OrchType, TypeOK, TypeInv, upgradeTo
<1>3. ASSUME \/ UpgradeStep \/ RestartBootstrap \/ SyncBootstrap
             \/ \E m \in Machines : CreateMachine(m) \/ DeleteMachine(m) \/ MachineGone(m)
      PROVE  TypeInv'
  BY <1>3, StartType, ContinueType, EnvironmentType DEF UpgradeStep, OrchType
<1>4. QED
  BY <1>1, <1>2, <1>3, DecideType, MarkType, ControlPlaneType DEF Next, ContinueOrchestrate

\* A control plane starts without annotations, its lock free.
LEMMA OrchTypeInitially == Init => OrchType
<1> SUFFICES ASSUME Init PROVE OrchType
  OBVIOUS
<1>1. TypeInv
  BY TypeInitially DEF Init
<1>2. NoAnnotations \in Annotations
  BY DEF NoAnnotations, Annotations, Statuses
<1>3. NothingListed \in Listed /\ LiveMachines \in Listed
  BY <1>1, <1>2 DEF NothingListed, LiveMachines, Listed, TypeInv, UpgradeTypeOK
<1>4. QED
  BY <1>1, <1>2, <1>3 DEF Init, OrchType, TypeOK, TypeInv, OrchestratorSteps

\* The types of the orchestrator and of the machines, whatever fails and however
\* far every cache lags: in particular a machine is locked and marked only when
\* one was chosen, and no annotation names a change its node does not have.
THEOREM TypeCorrect == Spec => []TypeOK
<1>1. OrchType => TypeOK
  BY DEF OrchType
<1>2. QED
  BY <1>1, OrchTypeInitially, OrchTypeStep, PTL DEF Spec

-----------------------------------------------------------------------------
(***************************************************************************)
(* The inductive invariant of the orchestrator.                            *)
(***************************************************************************)
Owned(m) == olist[m].phase \in {"present", "deleting"}

\* A machine with a request has the one of the CK8sControlPlane, holds the lock
\* and names no release.
RequestInv ==
    \A m \in Machines : Exists(m) /\ ann[m].to # NoOption =>
        uplock = m /\ cp.to = ann[m].to /\ ann[m].release = NoOption

\* The CK8sControlPlane names a release and no request: every machine runs it.
DoneInv ==
    cp.to = NoOption /\ cp.release # NoOption =>
        \A m \in Machines : Exists(m) => ann[m].release = cp.release

\* The CK8sControlPlane that was read: a request is still there, or there was
\* none and nothing was left to do.
ScopeInv ==
    /\ upgradeTo # NoOption
    /\ ocp.to # NoOption => cp.to = ocp.to
    /\ cp.release = ocp.release
    /\ ocp.to = NoOption =>
         /\ \A m \in Machines : Owned(m) => olist[m].ann.release = ocp.release
         /\ \A m \in Machines : Exists(m) => ann[m].to = NoOption

\* The Machines that were listed: none was missed, and one without a request is
\* as it was.
ListInv ==
    /\ \A m \in Machines : Exists(m) => Owned(m)
    /\ \A m \in Machines : Owned(m) /\ olist[m].ann.release # NoOption => olist[m].ann.to = NoOption
    /\ \A m \in Machines : Exists(m) /\ olist[m].ann.to = NoOption => ann[m] = olist[m].ann
    /\ opc \in {"check", "unlockStale"} =>
         \A m \in Machines : Owned(m) /\ olist[m].ann.to # NoOption => uplock = m

\* The lock when it is about to be released, taken or used.
LockInv ==
    /\ opc = "unlock" => \A m \in Machines : Exists(m) => ann[m].to = NoOption
    /\ opc = "unlockStale" /\ uplock \in Machines => ~Exists(uplock)
    /\ opc = "lock" => uplock = NoMachine
    /\ opc = "mark" => uplock = om
    /\ opc \in {"lock", "mark"} =>
         /\ om \in Machines /\ ocp.to # NoOption /\ onext.to = ocp.to
         /\ olist[om].ann.release # ocp.to
         /\ Exists(om) => ann[om] = olist[om].ann /\ ann[om].to = NoOption

\* What is about to be patched on the CK8sControlPlane.
PatchInv ==
    opc = "patch" =>
        \/ ocp.to # NoOption /\ onext.to = ocp.to
        \/ /\ onext.to = NoOption /\ onext.release = upgradeTo
           /\ \A m \in Machines : Exists(m) => ann[m].release = upgradeTo

OrchInv ==
    /\ \A m \in Machines : phase[m] # "absent"
    /\ RequestInv /\ DoneInv
    /\ opc # "idle" => ScopeInv /\ LockInv /\ PatchInv
    /\ opc \notin {"idle", "patch"} => ListInv

-----------------------------------------------------------------------------
(***************************************************************************)
(* One step keeps the order.                                               *)
(***************************************************************************)
\* What the machines do by themselves.
LEMMA OrderMachines ==
  ASSUME OrchType, OrchInv, UNCHANGED orchVars,
         \A m \in Machines : Effect(m) /\ phase'[m] # "absent"
  PROVE  OrchInv'
<1> USE DEF orchVars, orchTask, orchCache
<1>1. RequestInv'
  BY DEF OrchInv, RequestInv, Effect
<1>2. DoneInv'
  BY DEF OrchInv, DoneInv, RequestInv, Effect
<1>3. opc # "idle" => ScopeInv'
  BY DEF OrchInv, ScopeInv, Effect, Owned, upgradeTo
<1>4. opc # "idle" => LockInv'
  BY DEF OrchInv, LockInv, Effect
<1>5. opc # "idle" => PatchInv'
  <2>1. \A m \in Machines : Exists(m)' /\ ann[m].release = upgradeTo /\ opc # "idle"
          => ann'[m].release = upgradeTo
    BY DEF OrchInv, RequestInv, Effect, ScopeInv
  <2>2. QED
    BY <2>1 DEF OrchInv, PatchInv, Effect, upgradeTo
<1>6. opc \notin {"idle", "patch"} => ListInv'
  BY DEF OrchInv, ListInv, Effect, Owned
<1>7. QED
  BY <1>1, <1>2, <1>3, <1>4, <1>5, <1>6 DEF OrchInv

\* The reconcile returns, with the lock and the machines as they were.
LEMMA OrderReturn ==
  ASSUME OrchInv, OrchestrateReturn, UNCHANGED <<phase, ann, cp, uplock>>
  PROVE  OrchInv'
BY DEF OrchInv, OrchestrateReturn, RequestInv, DoneInv, Exists

\* createScope reads a consistent state.
LEMMA OrderScope ==
  ASSUME OrchType, OrchInv, Lagging = {}, OrchestrateScope
  PROVE  OrchInv'
<1>1. /\ opc' = "check" /\ ocp' = cp /\ olist' = LiveMachines
      /\ GetUpgradeInstructions(cp) # NoOption
      /\ UNCHANGED <<cp, uplock, phase, ann>>
  BY DEF OrchestrateScope, SeenCP, SeenMachines, KeepOthers, KeepMachines
<1>2. \A m \in Machines : olist'[m].phase = phase[m] /\ olist'[m].ann = ann[m]
  BY <1>1 DEF LiveMachines
<1>3. RequestInv' /\ DoneInv' /\ \A m \in Machines : phase'[m] # "absent"
  BY <1>1 DEF OrchInv, RequestInv, DoneInv, Exists
<1>4. ScopeInv'
  BY <1>1, <1>2 DEF OrchInv, RequestInv, DoneInv, ScopeInv, upgradeTo, GetUpgradeInstructions,
     Owned, Exists
<1>5. ListInv'
  BY <1>1, <1>2 DEF OrchInv, RequestInv, ListInv, Owned, Exists
<1>6. LockInv' /\ PatchInv'
  BY <1>1 DEF LockInv, PatchInv
<1>7. QED
  BY <1>1, <1>3, <1>4, <1>5, <1>6 DEF OrchInv

\* SelectMachine, once nobody holds the lock.
LEMMA OrderSelect ==
  ASSUME OrchType, OrchInv, opc \in {"check", "unlockStale"}, SelectMachine,
         UNCHANGED <<phase, ann, cp>>, uplock' = NoMachine,
         uplock \in Machines => ~Exists(uplock)
  PROVE  OrchInv'
<1>1. /\ \A m \in Machines : Exists(m) => ann[m].to = NoOption /\ ann[m] = olist[m].ann
      /\ ScopeInv /\ ListInv
  BY DEF OrchInv, RequestInv, ListInv
<1>2. RequestInv' /\ DoneInv' /\ \A m \in Machines : phase'[m] # "absent"
  BY <1>1 DEF OrchInv, RequestInv, DoneInv, Exists
<1>3. CASE OrchestrateReturn
  BY <1>2, <1>3 DEF OrchInv, OrchestrateReturn
<1>4. ASSUME NEW m \in Machines, Goto("lock", m, MarkUpgradeInProgress(ocp, upgradeTo)),
             Owned(m), ~IsUpgraded(olist[m].ann, upgradeTo)
      PROVE  OrchInv'
  <2>1. ocp.to # NoOption /\ upgradeTo = ocp.to
    BY <1>1, <1>4 DEF ScopeInv, IsUpgraded, upgradeTo, GetUpgradeInstructions
  <2>2. MarkUpgradeInProgress(ocp, upgradeTo).to = ocp.to
    BY <2>1 DEF MarkUpgradeInProgress, OrchType, TypeOK, Annotations
  <2>3. /\ opc' = "lock" /\ om' = m /\ onext'.to = ocp.to /\ UNCHANGED <<ocp, olist>>
    BY <1>4, <2>2 DEF Goto
  <2>4. ScopeInv'
    BY <1>1, <2>1, <2>3 DEF ScopeInv, upgradeTo
  <2>5. LockInv' /\ PatchInv'
    BY <1>1, <1>4, <2>1, <2>3 DEF LockInv, PatchInv, IsUpgraded, Exists
  <2>6. ListInv'
    BY <1>1, <2>3 DEF ListInv, Owned, Exists
  <2>7. QED
    BY <1>2, <2>4, <2>5, <2>6 DEF OrchInv
<1>5. ASSUME \A m \in Machines : Owned(m) => IsUpgraded(olist[m].ann, upgradeTo),
             Goto("patch", NoMachine, MarkUpgradeDone(ocp, upgradeTo))
      PROVE  OrchInv'
  <2>1. /\ MarkUpgradeDone(ocp, upgradeTo).to = NoOption
        /\ MarkUpgradeDone(ocp, upgradeTo).release = upgradeTo
    BY DEF MarkUpgradeDone, OrchType, TypeOK, Annotations
  <2>2. /\ opc' = "patch" /\ onext'.to = NoOption /\ onext'.release = upgradeTo
        /\ UNCHANGED <<ocp, olist>>
    BY <1>5, <2>1 DEF Goto
  <2>3. \A m \in Machines : Exists(m) => ann[m].release = upgradeTo
    BY <1>1, <1>5 DEF ListInv, IsUpgraded
  <2>4. ScopeInv'
    BY <1>1, <2>2 DEF ScopeInv, upgradeTo, Owned, Exists
  <2>5. LockInv' /\ PatchInv'
    BY <2>2, <2>3 DEF LockInv, PatchInv, upgradeTo, Exists
  <2>6. QED
    BY <1>2, <2>2, <2>4, <2>5 DEF OrchInv
<1>6. QED
  BY <1>3, <1>4, <1>5 DEF SelectMachine, Owned

\* The decisions of Reconcile about the lock: who holds it, and whether for the
\* upgrade that is asked for.
LEMMA OrderDecide ==
  ASSUME OrchType, OrchInv, Lagging = {},
         FinishedOrStale \/ HolderUpgrading \/ HolderGone \/ NotLocked
  PROVE  OrchInv'
<1>1. /\ opc = "check" /\ UNCHANGED <<phase, ann, cp, uplock>>
      /\ uplock \in Machines \cup {NoMachine}
  BY DEF FinishedOrStale, HolderUpgrading, HolderGone, NotLocked, KeepOthers, KeepMachines,
     OrchType, TypeOK
<1>2. /\ SeenLock = uplock
      /\ uplock \in Machines => Holder.phase = phase[uplock] /\ Holder.ann = ann[uplock]
  BY DEF SeenLock, Holder, SeenMachines, LiveMachines
<1>3. ScopeInv /\ ListInv /\ RequestInv /\ DoneInv
  BY <1>1 DEF OrchInv
<1>4. RequestInv' /\ DoneInv' /\ \A m \in Machines : phase'[m] # "absent"
  BY <1>1 DEF OrchInv, RequestInv, DoneInv, Exists
<1>5. CASE FinishedOrStale
  <2>1. \A m \in Machines : Exists(m) => ann[m].to = NoOption
    BY <1>1, <1>2, <1>3, <1>5 DEF FinishedOrStale, HolderFound, RequestInv, ScopeInv, upgradeTo,
       GetUpgradeInstructions, IsUpgraded
  <2>2. opc' = "unlock" /\ UNCHANGED <<ocp, olist, onext>>
    BY <1>5 DEF FinishedOrStale, Goto
  <2>3. ScopeInv' /\ ListInv'
    BY <1>1, <1>3, <2>2 DEF ScopeInv, ListInv, upgradeTo, Owned, Exists
  <2>4. LockInv' /\ PatchInv'
    BY <1>1, <2>1, <2>2 DEF LockInv, PatchInv, Exists
  <2>5. QED
    BY <1>4, <2>3, <2>4 DEF OrchInv
<1>6. CASE HolderUpgrading
  <2>1. CASE OrchestrateReturn
    BY <1>1, <2>1, OrderReturn
  <2>2. CASE Goto("patch", NoMachine, MarkUpgradeFailed(ocp)) /\ IsMachineUpgradeFailed(Holder.ann)
    <3>1. ocp.to # NoOption
      BY <1>1, <1>2, <1>3, <1>6 DEF HolderUpgrading, HolderFound, ScopeInv, ListInv, upgradeTo,
         GetUpgradeInstructions, IsUpgraded, Exists
    <3>2. MarkUpgradeFailed(ocp).to = ocp.to
      BY DEF MarkUpgradeFailed, OrchType, TypeOK, Annotations
    <3>3. opc' = "patch" /\ onext'.to = ocp.to /\ UNCHANGED <<ocp, olist>>
      BY <2>2, <3>2 DEF Goto
    <3>4. ScopeInv'
      BY <1>1, <1>3, <3>3 DEF ScopeInv, upgradeTo, Owned, Exists
    <3>5. LockInv' /\ PatchInv'
      BY <3>1, <3>3 DEF LockInv, PatchInv
    <3>6. QED
      BY <1>4, <3>3, <3>4, <3>5 DEF OrchInv
  <2>3. QED
    BY <1>6, <2>1, <2>2 DEF HolderUpgrading
<1>7. CASE HolderGone
  <2>1. uplock \in Machines /\ ~Exists(uplock)
    BY <1>1, <1>2, <1>7 DEF HolderGone, HolderFound, Exists
  <2>2. opc' = "unlockStale" /\ UNCHANGED <<ocp, olist, onext>>
    BY <1>7 DEF HolderGone, Goto
  <2>3. ScopeInv' /\ ListInv'
    BY <1>1, <1>3, <2>2 DEF ScopeInv, ListInv, upgradeTo, Owned, Exists
  <2>4. LockInv' /\ PatchInv'
    BY <1>1, <2>1, <2>2 DEF LockInv, PatchInv, Exists
  <2>5. QED
    BY <1>4, <2>3, <2>4 DEF OrchInv
<1>8. CASE NotLocked
  BY <1>1, <1>2, <1>8, OrderSelect DEF NotLocked
<1>9. QED
  BY <1>5, <1>6, <1>7, <1>8

\* UpgradeLock.Unlock and UpgradeLock.Lock.
LEMMA OrderLock ==
  ASSUME OrchType, OrchInv, Lagging = {}, Unlock \/ Lock
  PROVE  OrchInv'
<1>1. /\ UNCHANGED <<phase, ann, cp>> /\ uplock \in Machines \cup {NoMachine}
      /\ SeenLock = uplock
  BY DEF Unlock, Lock, KeepOthers, KeepMachines, OrchType, TypeOK, SeenLock
<1>2. CASE Unlock
  <2>1. /\ uplock' \in {uplock, NoMachine}
        /\ \A m \in Machines : Exists(m) => ann[m].to = NoOption
    BY <1>1, <1>2 DEF Unlock, OrchInv, LockInv, RequestInv
  <2>2. CASE OrchestrateReturn
    BY <1>1, <2>1, <2>2 DEF OrchInv, RequestInv, DoneInv, Exists, OrchestrateReturn
  <2>3. CASE opc = "unlockStale" /\ SelectMachine /\ uplock' = NoMachine
    <3>1. uplock \in Machines => ~Exists(uplock)
      BY <2>3 DEF OrchInv, LockInv
    <3>2. QED
      BY <1>1, <2>3, <3>1, OrderSelect
  <2>4. QED
    BY <1>1, <1>2, <2>2, <2>3 DEF Unlock
<1>3. CASE Lock
  <2>1. /\ uplock = NoMachine /\ ScopeInv /\ ListInv /\ LockInv /\ opc = "lock"
        /\ \A m \in Machines : Exists(m) => ann[m].to = NoOption
    BY <1>3 DEF Lock, OrchInv, LockInv, RequestInv
  <2>2. CASE OrchestrateReturn
    BY <1>1, <2>1, <2>2 DEF OrchInv, RequestInv, DoneInv, Exists, OrchestrateReturn
  <2>3. CASE uplock' = om /\ Goto("mark", om, onext)
    <3>1. opc' = "mark" /\ UNCHANGED <<om, ocp, olist, onext>>
      BY <2>3 DEF Goto
    <3>2. RequestInv' /\ DoneInv' /\ \A m \in Machines : phase'[m] # "absent"
      BY <1>1, <2>1 DEF OrchInv, RequestInv, DoneInv, Exists
    <3>3. ScopeInv' /\ ListInv'
      BY <1>1, <2>1, <3>1 DEF ScopeInv, ListInv, upgradeTo, Owned, Exists
    <3>4. LockInv' /\ PatchInv'
      BY <1>1, <2>1, <2>3, <3>1 DEF LockInv, PatchInv, Exists
    <3>5. QED
      BY <3>2, <3>3, <3>4 DEF OrchInv
  <2>4. QED
    BY <1>3, <2>2, <2>3 DEF Lock
<1>4. QED
  BY <1>2, <1>3

\* Marks(b): the locked machine exists, was idle, and is told to upgrade to what
\* the CK8sControlPlane asks for.
Marks(b) ==
    /\ om \in Machines /\ Exists(om) /\ ann[om].to = NoOption /\ ann[om].release # cp.to
    /\ b \in Annotations /\ b.to = cp.to /\ cp.to \in Options
    /\ b.status = "none" /\ b.change = 0 /\ b.release = NoOption
    /\ ann' = [ann EXCEPT ![om] = b]

\* markMachineToUpgrade has that effect, or none.
LEMMA MarkEffect ==
  ASSUME OrchType, OrchInv, MarkMachine
  PROVE  ann' = ann \/ \E b : Marks(b)
<1>1. /\ om \in Machines /\ ann \in [Machines -> Annotations] /\ upgradeTo \in Options
  BY DEF OrchType, TypeOK, UpgradeTypeOK, MarkMachine, upgradeTo, GetUpgradeInstructions,
     Annotations
<1>2. /\ Exists(om) => ann[om] = olist[om].ann /\ ann[om].to = NoOption
      /\ olist[om].ann.release # ocp.to /\ cp.to = ocp.to /\ upgradeTo = ocp.to
  BY DEF MarkMachine, OrchInv, LockInv, ScopeInv, upgradeTo, GetUpgradeInstructions
<1> DEFINE b == Merge(ann[om], olist[om].ann, MarkMachineToUpgrade(olist[om].ann, upgradeTo))
<1>3. ann' = ann \/ (Exists(om) /\ ann' = [ann EXCEPT ![om] = b])
  BY DEF MarkMachine
<1>4. CASE Exists(om) /\ ann' = [ann EXCEPT ![om] = b]
  <2>1. ann[om] \in Annotations
    BY <1>1
  <2>2. b = Merge(ann[om], ann[om], MarkMachineToUpgrade(ann[om], upgradeTo))
    BY <1>2, <1>4
  <2>3. /\ b \in Annotations /\ b.to = upgradeTo /\ b.status = "none" /\ b.change = 0
        /\ b.release = NoOption
    BY <1>1, <2>1, <2>2, MarkedFields
  <2> HIDE DEF b
  <2>4. Marks(b)
    BY <1>1, <1>2, <1>4, <2>3 DEF Marks
  <2>5. QED
    BY <2>4
<1>5. QED
  BY <1>3, <1>4

\* The mark goes to the machine that holds the lock.
LEMMA OrderMark ==
  ASSUME OrchType, OrchInv, MarkMachine
  PROVE  OrchInv'
<1>1. /\ UNCHANGED <<phase, cp, uplock>> /\ opc = "mark" /\ om \in Machines
      /\ ann \in [Machines -> Annotations]
  BY DEF MarkMachine, OrchType, TypeOK, UpgradeTypeOK
<1>2. ScopeInv /\ LockInv /\ RequestInv /\ DoneInv
  BY <1>1 DEF OrchInv
<1>3. RequestInv' /\ DoneInv' /\ \A m \in Machines : phase'[m] # "absent"
  <2>1. CASE ann' = ann
    BY <1>1, <2>1 DEF OrchInv, RequestInv, DoneInv, Exists
  <2>2. ASSUME NEW b, Marks(b)
        PROVE  RequestInv' /\ DoneInv' /\ \A m \in Machines : phase'[m] # "absent"
    <3>1. /\ ann'[om] = b /\ \A m \in Machines : m # om => ann'[m] = ann[m]
          /\ b.to = cp.to /\ b.release = NoOption /\ cp.to # NoOption /\ uplock = om
      BY <1>1, <1>2, <2>2 DEF Marks, LockInv
    <3>2. QED
      BY <1>1, <3>1 DEF OrchInv, RequestInv, DoneInv, Exists
  <2>3. QED
    BY <2>1, <2>2, MarkEffect
<1>4. CASE OrchestrateReturn
  BY <1>3, <1>4 DEF OrchInv, OrchestrateReturn
<1>5. CASE Goto("patch", om, onext)
  <2>1. opc' = "patch" /\ UNCHANGED <<ocp, olist, onext>>
    BY <1>5 DEF Goto
  <2>2. ocp.to # NoOption /\ onext.to = ocp.to
    BY <1>1, <1>2 DEF LockInv
  <2>3. ScopeInv' /\ LockInv' /\ PatchInv'
    BY <1>1, <1>2, <2>1, <2>2 DEF ScopeInv, LockInv, PatchInv, upgradeTo
  <2>4. QED
    BY <1>3, <2>1, <2>3 DEF OrchInv
<1>6. QED
  BY <1>4, <1>5 DEF MarkMachine

\* The patch of the CK8sControlPlane leaves a request that came meanwhile alone,
\* and removes the one that was read only when every machine runs it.
LEMMA OrderPatch ==
  ASSUME OrchType, OrchInv, PatchControlPlane
  PROVE  OrchInv'
<1>1. /\ UNCHANGED <<phase, ann, uplock>> /\ OrchestrateReturn
      /\ cp' = cp \/ cp' = Merge(cp, ocp, onext)
  BY DEF PatchControlPlane, KeepOthers, KeepMachines
<1>2. ScopeInv /\ PatchInv /\ RequestInv /\ DoneInv /\ opc = "patch"
  BY DEF PatchControlPlane, OrchInv
<1>3. CASE cp' = cp
  BY <1>1, <1>3, OrderReturn
<1>4. CASE cp' = Merge(cp, ocp, onext)
  <2>1. /\ cp'.to = IF onext.to # ocp.to THEN onext.to ELSE cp.to
        /\ cp'.release = IF onext.release # ocp.release THEN onext.release ELSE cp.release
    BY <1>4, MergeFields
  <2>2. CASE ocp.to # NoOption /\ onext.to = ocp.to
    <3>1. cp'.to = cp.to /\ cp.to # NoOption
      BY <1>2, <2>1, <2>2 DEF ScopeInv
    <3>2. RequestInv' /\ DoneInv'
      BY <1>1, <1>2, <3>1 DEF RequestInv, DoneInv, Exists
    <3>3. QED
      BY <1>1, <3>2 DEF OrchInv, OrchestrateReturn
  <2>3. CASE /\ onext.to = NoOption /\ onext.release = upgradeTo
             /\ \A m \in Machines : Exists(m) => ann[m].release = upgradeTo
    <3>1. /\ cp'.release = upgradeTo /\ upgradeTo # NoOption
      BY <1>2, <2>1, <2>3 DEF ScopeInv
    <3>2. \A m \in Machines : Exists(m) => ann[m].to = NoOption
      BY <1>2, <2>3, <3>1 DEF RequestInv
    <3>3. RequestInv' /\ DoneInv'
      BY <1>1, <2>3, <3>1, <3>2 DEF RequestInv, DoneInv, Exists
    <3>4. QED
      BY <1>1, <3>3 DEF OrchInv, OrchestrateReturn
  <2>4. QED
    BY <1>2, <2>2, <2>3 DEF PatchInv
<1>5. QED
  BY <1>1, <1>3, <1>4

\* A user's request on a CK8sControlPlane that has none.
LEMMA OrderRequest ==
  ASSUME OrchType, OrchInv, ~Retarget, NEW option \in Options, UpgradeControlPlane(option)
  PROVE  OrchInv'
<1>1. cp \in Annotations
  BY DEF OrchType, TypeOK
<1>2. cp.to = NoOption /\ cp'.to = option /\ cp'.release = cp.release
  BY <1>1 DEF UpgradeControlPlane, Annotations
<1>3. UNCHANGED <<phase, ann, uplock, opc, om, ocp, onext, olist>>
  BY DEF UpgradeControlPlane, orchTask
<1>4. RequestInv' /\ DoneInv'
  BY <1>2, <1>3 DEF OrchInv, RequestInv, DoneInv, Exists
<1>5. opc # "idle" => ScopeInv' /\ LockInv' /\ PatchInv'
  BY <1>2, <1>3 DEF OrchInv, ScopeInv, LockInv, PatchInv, upgradeTo, Owned, Exists
<1>6. opc \notin {"idle", "patch"} => ListInv'
  BY <1>3 DEF OrchInv, ListInv, Owned, Exists
<1>7. QED
  BY <1>3, <1>4, <1>5, <1>6 DEF OrchInv

\* Every step keeps the order.
LEMMA OrderStep ==
  ASSUME OrchType, UpgradeInv, OrchInv, Lagging = {}, ~Retarget, [Next]_vars
  PROVE  OrchInv'
<1>1. CASE UNCHANGED vars
  <2>1. \A m \in Machines : Effect(m) /\ phase'[m] # "absent"
    BY <1>1 DEF vars, upgradeVars, nodeVars, OrchInv, Effect, Exists
  <2>2. QED
    BY <1>1, <2>1, OrderMachines DEF vars
<1>2. ASSUME \/ UpgradeStep \/ RestartBootstrap \/ SyncBootstrap
             \/ \E m \in Machines : CreateMachine(m) \/ DeleteMachine(m) \/ MachineGone(m),
             UNCHANGED orchVars
      PROVE  OrchInv'
  <2>1. \A m \in Machines : phase[m] # "absent"
    BY DEF OrchInv
  <2>2. \A m \in Machines : Effect(m) /\ phase'[m] # "absent"
    BY <1>2, <2>1, MachineEffect DEF OrchType
  <2>3. QED
    BY <1>2, <2>2, OrderMachines
<1>3. CASE RestartControlPlane
  BY <1>3, OrderReturn DEF RestartControlPlane, KeepMachines
<1>4. ASSUME NEW kind, SyncControlPlane(kind)
      PROVE  OrchInv'
  BY <1>4 DEF SyncControlPlane
<1>5. CASE ContinueOrchestrate
  BY <1>5, OrderDecide, OrderLock, OrderMark, OrderPatch DEF ContinueOrchestrate
<1>6. QED
  BY <1>1, <1>2, <1>3, <1>4, <1>5, OrderScope, OrderRequest DEF Next

\* The steps of the orchestrator other than a mark leave machines and nodes alone.
LEMMA OrchKeeps ==
  ASSUME \/ OrchestrateScope \/ RestartControlPlane \/ UNCHANGED vars
         \/ FinishedOrStale \/ HolderUpgrading \/ HolderGone \/ NotLocked
         \/ Unlock \/ Lock \/ PatchControlPlane
         \/ \E kind \in Caches : SyncControlPlane(kind)
         \/ \E option \in Options : UpgradeControlPlane(option)
  PROVE  UNCHANGED <<phase, ann, snap, installed, upc, um, seen, next>>
BY DEF OrchestrateScope, RestartControlPlane, vars, upgradeVars, FinishedOrStale,
   HolderUpgrading, HolderGone, NotLocked, Unlock, Lock, PatchControlPlane,
   SyncControlPlane, UpgradeControlPlane, KeepOthers, KeepMachines, nodeVars, taskVars

\* Every step of the orchestrator leaves machines and nodes in line.
LEMMA OrchUpgradeStep ==
  ASSUME OrchType, UpgradeInv, OrchInv, Lagging = {}, [Next]_vars
  PROVE  UpgradeInv'
<1>1. ASSUME UNCHANGED <<phase, ann, snap, installed, upc, um, seen, next>>
      PROVE  UpgradeInv'
  BY <1>1 DEF UpgradeInv
<1>2. CASE MarkMachine
  <2>1. UNCHANGED <<phase, snap, installed, upc, um, seen, next>>
    BY <1>2 DEF MarkMachine, nodeVars, taskVars
  <2>2. ASSUME NEW b, Marks(b)
        PROVE  UpgradeInv'
    <3>1. /\ om \in Machines /\ ann[om].to = NoOption /\ b \in Annotations /\ b.change = 0
          /\ b.status = "none" /\ b.release = NoOption /\ ann' = [ann EXCEPT ![om] = b]
          /\ phase[om] # "gone"
      BY <2>2 DEF Marks, Exists
    <3>2. ann[om].change = 0
      BY <3>1 DEF UpgradeInv, Fits
    <3>3. QED
      BY <2>1, <3>1, <3>2, InvMark DEF OrchType
  <2>3. QED
    BY <1>1, <1>2, <2>1, <2>2, MarkEffect
<1>3. CASE \/ OrchestrateScope \/ RestartControlPlane \/ UNCHANGED vars
           \/ FinishedOrStale \/ HolderUpgrading \/ HolderGone \/ NotLocked
           \/ Unlock \/ Lock \/ PatchControlPlane
           \/ \E kind \in Caches : SyncControlPlane(kind)
           \/ \E option \in Options : UpgradeControlPlane(option)
  <2>1. UNCHANGED <<phase, ann, snap, installed, upc, um, seen, next>>
    BY <1>3, OrchKeeps
  <2>2. QED
    BY <1>1, <2>1
<1>4. CASE \/ UpgradeStep \/ RestartBootstrap \/ SyncBootstrap
           \/ \E m \in Machines : CreateMachine(m) \/ DeleteMachine(m) \/ MachineGone(m)
  BY <1>4, InvStart, InvContinue, InvEnvironment DEF UpgradeStep, OrchType
<1>5. QED
  BY <1>2, <1>3, <1>4 DEF Next, ContinueOrchestrate

\* All machines of the control plane are there from the start.
LEMMA OrchInitially ==
  ASSUME Joining = {}
  PROVE  Init => UpgradeInv /\ OrchInv
<1> SUFFICES ASSUME Init PROVE UpgradeInv /\ OrchInv
  OBVIOUS
<1>1. UpgradeInv
  BY InvInitially DEF Init
<1>2. OrchInv
  BY DEF Init, UpgradeInit, OrchInv, RequestInv, DoneInv, NoAnnotations
<1>3. QED
  BY <1>1, <1>2

\* A machine that is upgrading holds the lock until it is done, whatever fails:
\* an unlock is decided on the state the holder is still in when the lock goes
\* (IsLocked, the stale lock test and markMachineToUpgrade of Reconcile).
THEOREM LockOutlivesUpgrade ==
  ASSUME Lagging = {}, ~Retarget, Joining = {}
  PROVE  Spec => []UpgradingHoldsLock
<1>1. UpgradeInv /\ OrchInv => UpgradingHoldsLock
  BY DEF UpgradeInv, OrchInv, RequestInv, UpgradingHoldsLock, IsMachineUpgrading, Fits, Exists
<1>2. Init => OrchType /\ UpgradeInv /\ OrchInv
  BY OrchTypeInitially, OrchInitially
<1>3. OrchType /\ UpgradeInv /\ OrchInv /\ [Next]_vars => OrchType' /\ UpgradeInv' /\ OrchInv'
  BY OrchTypeStep, OrchUpgradeStep, OrderStep
<1>4. QED
  BY <1>1, <1>2, <1>3, PTL DEF Spec

\* The machines of a control plane are upgraded one after the other: with one
\* lock, two machines that are upgrading are the same (UpgradeLock).
THEOREM UpgradesInTurn ==
  ASSUME Lagging = {}, ~Retarget, Joining = {}
  PROVE  Spec => []OneAtATime
<1>1. UpgradingHoldsLock => OneAtATime
  BY DEF UpgradingHoldsLock, OneAtATime
<1>2. QED
  BY <1>1, LockOutlivesUpgrade, PTL

\* Under the orchestrator, too, a machine's release annotation names what its node
\* runs: a mark resets what the last upgrade left (MarkMachineToUpgrade).
THEOREM ControlPlaneReleaseCorrect ==
  ASSUME Lagging = {}, ~Retarget, Joining = {}
  PROVE  Spec => []ReleaseIsInstalled
<1>1. UpgradeInv => ReleaseIsInstalled
  BY DEF UpgradeInv, ReleaseIsInstalled, Fits, Exists
<1>2. Init => OrchType /\ UpgradeInv /\ OrchInv
  BY OrchTypeInitially, OrchInitially
<1>3. OrchType /\ UpgradeInv /\ OrchInv /\ [Next]_vars => OrchType' /\ UpgradeInv' /\ OrchInv'
  BY OrchTypeStep, OrchUpgradeStep, OrderStep
<1>4. QED
  BY <1>1, <1>2, <1>3, PTL DEF Spec

-----------------------------------------------------------------------------
(***************************************************************************)
(* How often a node is refreshed: the mark of a machine is paid for by the *)
(* request on the CK8sControlPlane.                                        *)
(***************************************************************************)
\* A machine that will be marked for the current request.
Pending(m) == ann[m].to = NoOption /\ cp.to # NoOption /\ ann[m].release # cp.to

PendingInv ==
    \A m \in Machines : phase[m] # "gone" /\ Pending(m) =>
        Len(snap[m]) < requests + errors + failures

\* Requests, errors and failures are only ever counted up.
LEMMA BudgetGrows ==
  ASSUME OrchType, [Next]_vars
  PROVE  requests' >= requests /\ errors' >= errors /\ failures' >= failures
<1>1. requests \in Nat /\ errors \in Nat /\ failures \in Nat
  BY DEF OrchType, TypeInv, UpgradeTypeOK
<1>2. requests' = requests \/ requests' = requests + 1
  BY DEF vars, upgradeVars, Next, UpgradeStep, StartReconcile, StartRequest, StartPoll,
     StartDone, StartFailed, StartInvalid, Begin, ContinueReconcile, CleanAnnotations,
     RefreshMachine, PollRefreshStatus, PatchAnnotations, FinishChange, RestartBootstrap,
     SyncBootstrap, CreateMachine, DeleteMachine, MachineGone, OrchestrateScope,
     ContinueOrchestrate, FinishedOrStale, HolderUpgrading, HolderGone, NotLocked, Unlock,
     Lock, MarkMachine, PatchControlPlane, RestartControlPlane, SyncControlPlane,
     UpgradeControlPlane, KeepOthers, KeepMachines
<1>3. errors' = errors \/ errors' = errors + 1
  BY DEF vars, upgradeVars, Next, UpgradeStep, StartReconcile, StartRequest, StartPoll,
     StartDone, StartFailed, StartInvalid, Begin, ContinueReconcile, CleanAnnotations,
     RefreshMachine, PollRefreshStatus, PatchAnnotations, FinishChange, RestartBootstrap,
     SyncBootstrap, CreateMachine, DeleteMachine, MachineGone, OrchestrateScope,
     ContinueOrchestrate, FinishedOrStale, HolderUpgrading, HolderGone, NotLocked, Unlock,
     Lock, MarkMachine, PatchControlPlane, RestartControlPlane, SyncControlPlane,
     UpgradeControlPlane, KeepOthers, KeepMachines, nodeVars
<1>4. failures' = failures \/ failures' = failures + 1
  BY DEF vars, upgradeVars, Next, UpgradeStep, StartReconcile, StartRequest, StartPoll,
     StartDone, StartFailed, StartInvalid, Begin, ContinueReconcile, CleanAnnotations,
     RefreshMachine, PollRefreshStatus, PatchAnnotations, FinishChange, RestartBootstrap,
     SyncBootstrap, CreateMachine, DeleteMachine, MachineGone, OrchestrateScope,
     ContinueOrchestrate, FinishedOrStale, HolderUpgrading, HolderGone, NotLocked, Unlock,
     Lock, MarkMachine, PatchControlPlane, RestartControlPlane, SyncControlPlane,
     UpgradeControlPlane, KeepOthers, Fail
<1>5. QED
  BY <1>1, <1>2, <1>3, <1>4

\* So their sum only grows, and grows with every request.
LEMMA BudgetSum ==
  ASSUME NEW r \in Nat, NEW e \in Nat, NEW f \in Nat, NEW r1 \in Nat, NEW e1 \in Nat,
         NEW f1 \in Nat, r1 >= r, e1 >= e, f1 >= f
  PROVE  /\ r + e + f <= r1 + e1 + f1
         /\ r + e + f \in Nat /\ r1 + e1 + f1 \in Nat
         /\ r1 = r + 1 => r + e + f < r1 + e1 + f1
OBVIOUS

\* Every step keeps every refresh paid for: a mark spends what the request on the
\* CK8sControlPlane brought.
LEMMA OrchCreditStep ==
  ASSUME OrchType, OrchType', UpgradeInv, UpgradeInv', OrchInv, CreditInv, PendingInv,
         Lagging = {}, [Next]_vars
  PROVE  CreditInv'
<1>0. TypeInv /\ TypeInv' /\ "bootstrap" \notin Lagging
  BY DEF OrchType
<1>1. requests' >= requests /\ errors' >= errors /\ failures' >= failures
  BY BudgetGrows
<1>2. CASE MarkMachine
  <2>1. UNCHANGED <<phase, snap, upc, um, seen>>
    BY <1>2 DEF MarkMachine, nodeVars, taskVars
  <2>2. CASE ann' = ann
    <3>1. \A m \in Machines : Owed(m)' => Owed(m)
      BY <2>1, <2>2 DEF Owed
    <3>2. QED
      BY <1>0, <1>1, <2>1, <3>1, PaidUnchanged DEF CreditInv
  <2>3. ASSUME NEW b, Marks(b)
        PROVE  CreditInv'
    <3>1. /\ om \in Machines /\ \A m \in Machines : m # om => ann'[m] = ann[m]
          /\ Pending(om) /\ phase[om] # "gone"
      BY <1>0, <2>3 DEF Marks, Pending, Exists, TypeInv, UpgradeTypeOK
    <3>2. \A m \in Machines : m # om /\ Owed(m)' => Owed(m)
      BY <2>1, <3>1 DEF Owed
    <3>3. \A m \in Machines : m # om /\ Paid(m) => Paid(m)'
      BY <1>0, <1>1, <2>1, <3>2, PaidUnchanged
    <3>4. PICK n \in Machines : n = om
      BY <3>1
    <3>5. Len(snap[n]) < requests + errors + failures
      BY <3>1, <3>4 DEF PendingInv
    <3>6. Paid(n)'
      <4>1. /\ requests \in Nat /\ errors \in Nat /\ failures \in Nat
            /\ requests' \in Nat /\ errors' \in Nat /\ failures' \in Nat
            /\ Len(snap[n]) \in Nat
        BY <1>0, NodeTypes DEF TypeInv, UpgradeTypeOK
      <4>2. Len(snap'[n]) < requests' + errors' + failures'
        <5> DEFINE had == requests + errors + failures
                   has == requests' + errors' + failures'
        <5>1. had <= has /\ had \in Nat /\ has \in Nat
          BY <1>1, <4>1, BudgetSum
        <5>2. Len(snap[n]) < had /\ Len(snap'[n]) = Len(snap[n])
          BY <2>1, <3>5
        <5> HIDE DEF had, has
        <5>3. Len(snap'[n]) < has
          BY <4>1, <5>1, <5>2
        <5>4. QED
          BY <5>3 DEF has
      <4>3. QED
        BY <2>1, <4>1, <4>2 DEF Paid
    <3>7. QED
      BY <2>1, <3>3, <3>4, <3>6 DEF CreditInv
  <2>4. QED
    BY <1>2, <2>2, <2>3, MarkEffect
<1>3. CASE \/ OrchestrateScope \/ RestartControlPlane \/ UNCHANGED vars
           \/ FinishedOrStale \/ HolderUpgrading \/ HolderGone \/ NotLocked
           \/ Unlock \/ Lock \/ PatchControlPlane
           \/ \E kind \in Caches : SyncControlPlane(kind)
           \/ \E option \in Options : UpgradeControlPlane(option)
  <2>1. UNCHANGED <<phase, ann, snap, upc, um, seen>>
    BY <1>3, OrchKeeps
  <2>2. \A m \in Machines : Owed(m)' => Owed(m)
    BY <2>1 DEF Owed
  <2>3. QED
    BY <1>0, <1>1, <2>1, <2>2, PaidUnchanged DEF CreditInv
<1>4. CASE \/ UpgradeStep \/ RestartBootstrap \/ SyncBootstrap
           \/ \E m \in Machines : CreateMachine(m) \/ DeleteMachine(m) \/ MachineGone(m)
  BY <1>0, <1>4, CreditStart, CreditContinue, CreditEnvironment DEF UpgradeStep
<1>5. QED
  BY <1>2, <1>3, <1>4 DEF Next, ContinueOrchestrate

\* A request makes every machine that does not run it pending, and pays for that;
\* a machine stops being pending when it is marked, and is not pending again for
\* the same request.
LEMMA PendingStep ==
  ASSUME OrchType, OrchType', UpgradeInv, OrchInv, CreditInv, PendingInv,
         Lagging = {}, ~Retarget, [Next]_vars
  PROVE  PendingInv'
<1>0. \A m \in Machines : Len(snap[m]) \in Nat
  BY NodeTypes DEF OrchType
<1>1. /\ requests + errors + failures <= requests' + errors' + failures'
      /\ requests + errors + failures \in Nat /\ requests' + errors' + failures' \in Nat
      /\ requests' = requests + 1 =>
           requests + errors + failures < requests' + errors' + failures'
  <2>1. /\ requests \in Nat /\ errors \in Nat /\ failures \in Nat
        /\ requests' \in Nat /\ errors' \in Nat /\ failures' \in Nat
    BY DEF OrchType, TypeInv, UpgradeTypeOK
  <2>2. requests' >= requests /\ errors' >= errors /\ failures' >= failures
    BY BudgetGrows
  <2>3. QED
    BY <2>1, <2>2, BudgetSum
<1>2. \A x \in Nat : x < requests + errors + failures => x < requests' + errors' + failures'
  BY <1>1
<1>3. ASSUME NEW m \in Machines, phase[m] # "gone", Pending(m), Len(snap'[m]) = Len(snap[m])
      PROVE  Len(snap'[m]) < requests' + errors' + failures'
  BY <1>0, <1>2, <1>3 DEF PendingInv
<1>4. ASSUME UNCHANGED <<phase, ann, snap>>, cp'.to \in {cp.to, NoOption}
      PROVE  PendingInv'
  <2>1. \A m \in Machines : Pending(m)' => Pending(m)
    BY <1>4 DEF Pending
  <2>2. QED
    BY <1>3, <1>4, <2>1 DEF PendingInv
<1>5. CASE MarkMachine
  <2>1. UNCHANGED <<phase, snap, cp>>
    BY <1>5 DEF MarkMachine, nodeVars
  <2>2. CASE ann' = ann
    BY <1>4, <2>1, <2>2
  <2>3. ASSUME NEW b, Marks(b)
        PROVE  PendingInv'
    <3>1. /\ \A m \in Machines : m # om => ann'[m] = ann[m]
          /\ om \in Machines /\ ann'[om].to # NoOption
      BY <2>3 DEF Marks, OrchType, TypeInv, UpgradeTypeOK
    <3>2. \A m \in Machines : Pending(m)' => Pending(m)
      BY <2>1, <3>1 DEF Pending
    <3>3. QED
      BY <1>3, <2>1, <3>2 DEF PendingInv
  <2>4. QED
    BY <1>5, <2>2, <2>3, MarkEffect
<1>6. CASE PatchControlPlane
  <2>1. opc = "patch" /\ ScopeInv /\ PatchInv /\ (cp' = cp \/ cp' = Merge(cp, ocp, onext))
    BY <1>6 DEF PatchControlPlane, OrchInv
  <2>2. cp'.to \in {cp.to, NoOption}
    BY <2>1, MergeFields DEF PatchInv
  <2>3. QED
    BY <1>4, <1>6, <2>2, OrchKeeps
<1>7. CASE \/ OrchestrateScope \/ RestartControlPlane \/ UNCHANGED vars
           \/ FinishedOrStale \/ HolderUpgrading \/ HolderGone \/ NotLocked
           \/ Unlock \/ Lock
           \/ \E kind \in Caches : SyncControlPlane(kind)
  <2>1. cp' = cp
    BY <1>7 DEF OrchestrateScope, RestartControlPlane, vars, orchVars, FinishedOrStale,
       HolderUpgrading, HolderGone, NotLocked, Unlock, Lock, SyncControlPlane
  <2>2. QED
    BY <1>4, <1>7, <2>1, OrchKeeps
<1>8. ASSUME NEW option \in Options, UpgradeControlPlane(option)
      PROVE  PendingInv'
  <2>1. UNCHANGED <<phase, ann, snap>>
    BY <1>8, OrchKeeps
  <2>2. requests' = requests + 1
    BY <1>8 DEF UpgradeControlPlane
  <2>3. \A m \in Machines : phase[m] # "gone" => Len(snap[m]) <= requests + errors + failures
    BY DEF CreditInv, Paid
  <2>4. \A x \in Nat : x <= requests + errors + failures => x < requests' + errors' + failures'
    BY <1>1, <2>2
  <2>5. \A m \in Machines : phase[m] # "gone" => Len(snap[m]) < requests' + errors' + failures'
    BY <1>0, <2>3, <2>4
  <2>6. QED
    BY <2>1, <2>5 DEF PendingInv
<1>9. ASSUME \/ UpgradeStep \/ RestartBootstrap \/ SyncBootstrap
             \/ \E m \in Machines : CreateMachine(m) \/ DeleteMachine(m) \/ MachineGone(m),
             UNCHANGED orchVars
      PROVE  PendingInv'
  <2>1. \A m \in Machines : Effect(m) /\ phase'[m] # "absent" /\ phase[m] # "absent"
    BY <1>9, MachineEffect DEF OrchType, OrchInv
  <2>2. /\ cp' = cp
        /\ phase' \in [Machines -> {"absent", "present", "deleting", "gone"}]
    BY <1>9 DEF orchVars, OrchType, TypeInv, UpgradeTypeOK
  <2>3. ASSUME NEW m \in Machines, phase'[m] # "gone", Pending(m)'
        PROVE  phase[m] # "gone" /\ Pending(m) /\ Len(snap'[m]) = Len(snap[m])
    <3>1. Exists(m)' /\ Exists(m)
      BY <2>1, <2>2, <2>3 DEF Effect, Exists
    <3>2. ann[m].to = NoOption
      BY <2>1, <2>2, <2>3, <3>1 DEF Effect, Pending, OrchInv, RequestInv
    <3>3. ann'[m] = ann[m] /\ Len(snap'[m]) = Len(snap[m])
      BY <2>1, <3>1, <3>2 DEF Effect
    <3>4. QED
      BY <2>2, <2>3, <3>1, <3>3 DEF Pending, Exists
  <2>4. QED
    BY <1>3, <2>3 DEF PendingInv
<1>10. QED
  BY <1>5, <1>6, <1>7, <1>8, <1>9 DEF Next, ContinueOrchestrate

\* However the steps of the two managers interleave, no node of the control plane
\* is refreshed more often than there were requests on the CK8sControlPlane,
\* failed refreshes, failed calls and crashes (Reconcile of both controllers).
THEOREM ControlPlaneRefreshesArePaid ==
  ASSUME Lagging = {}, ~Retarget, Joining = {}
  PROVE  Spec => []NoNeedlessRefresh
<1> DEFINE All == OrchType /\ UpgradeInv /\ OrchInv /\ CreditInv /\ PendingInv /\ GoneNodes
<1>1. All => NoNeedlessRefresh
  <2>1. SUFFICES ASSUME All, NEW m \in Machines
                 PROVE  Len(snap[m]) <= requests + errors + failures
    BY DEF NoNeedlessRefresh
  <2>2. requests \in Nat /\ errors \in Nat /\ failures \in Nat
    BY <2>1 DEF OrchType, TypeInv, UpgradeTypeOK
  <2>3. QED
    BY <2>1, <2>2 DEF CreditInv, Paid, GoneNodes
<1>2. Init => All
  <2>1. Init => CreditInv /\ GoneNodes /\ PendingInv
    BY CreditInitially DEF Init, UpgradeInit, GoneNodes, PendingInv, Pending, NoAnnotations
  <2>2. QED
    BY <2>1, OrchTypeInitially, OrchInitially
<1>3. All /\ [Next]_vars => All'
  <2>1. SUFFICES ASSUME All, [Next]_vars
                 PROVE  All'
    OBVIOUS
  <2>2. OrchType' /\ UpgradeInv' /\ OrchInv'
    BY <2>1, OrchTypeStep, OrchUpgradeStep, OrderStep
  <2>3. CreditInv' /\ PendingInv'
    BY <2>1, <2>2, OrchCreditStep, PendingStep
  <2>4. GoneNodes'
    <3>1. CASE MarkMachine
      BY <2>1, <3>1, GoneStep DEF OrchType, MarkMachine, nodeVars
    <3>2. QED
      BY <2>1, <3>1, OrchKeeps, GoneStep DEF OrchType, Next, ContinueOrchestrate
  <2>5. QED
    BY <2>2, <2>3, <2>4
<1>4. QED
  BY <1>1, <1>2, <1>3, PTL DEF Spec

-----------------------------------------------------------------------------
(***************************************************************************)
(* The orchestrator implements RollingUpgrade.                             *)
(***************************************************************************)
\* Every step starts changes for requests only.
LEMMA OrchRunning ==
  ASSUME OrchType, UpgradeInv, OrchInv, RunningInv, [Next]_vars
  PROVE  RunningInv'
<1>1. CASE MarkMachine
  <2>1. UNCHANGED <<phase, snap>>
    BY <1>1 DEF MarkMachine, nodeVars
  <2>2. CASE ann' = ann
    BY <2>1, <2>2 DEF RunningInv
  <2>3. ASSUME NEW b, Marks(b)
        PROVE  RunningInv'
    BY <2>1, <2>3, RunningMark DEF Marks, OrchType
  <2>4. QED
    BY <1>1, <2>2, <2>3, MarkEffect
<1>2. CASE UNCHANGED <<phase, ann, snap>>
  BY <1>2 DEF RunningInv
<1>3. QED
  BY <1>1, <1>2, OrchKeeps, RunningMachines DEF OrchType, Next, ContinueOrchestrate

\* A mark is the start of a turn: the request is open, the machine lacks it, and
\* no other machine is upgrading.
LEMMA RollingMark ==
  ASSUME OrchType, OrchInv, MarkMachine
  PROVE  [Rolling!Next]_(Rolling!vars)
<1>1. UNCHANGED <<phase, installed, cp>> /\ uplock = om
  BY DEF MarkMachine, nodeVars, OrchInv, LockInv
<1>2. CASE ann' = ann
  BY <1>1, <1>2 DEF Rolling!vars, Exists
<1>3. ASSUME NEW b, Marks(b)
      PROVE  Rolling!Next
  <2>1. /\ om \in Machines /\ Exists(om) /\ ann[om].to = NoOption /\ ann[om].release # cp.to
        /\ b.to = cp.to /\ cp.to # NoOption /\ b.release = NoOption
        /\ ann' = [ann EXCEPT ![om] = b] /\ ann \in [Machines -> Annotations]
    BY <1>3 DEF Marks, OrchType, TypeOK, UpgradeTypeOK
  <2>2. \A m \in Machines : Exists(m) => ann[m].to = NoOption
    BY <1>1, <2>1 DEF OrchInv, RequestInv
  <2>3. /\ ann'[om] = b /\ \A m \in Machines : m # om => ann'[m] = ann[m]
    BY <2>1
  <2>4. PICK m \in Machines : m = om
    BY <2>1
  <2>5. /\ Turns' = [Turns EXCEPT ![m] = cp.to] /\ Releases' = [Releases EXCEPT ![m] = NoOption]
        /\ UNCHANGED Members /\ m \in Members /\ Releases[m] # cp.to
        /\ \A n \in Members : Turns[n] = NoOption
    BY <1>1, <2>1, <2>2, <2>3, <2>4 DEF Turns, Releases, Members, Exists
  <2>6. Rolling!TakeTurn(m)
    BY <1>1, <2>1, <2>5 DEF Rolling!TakeTurn, Turns, Releases, Members
  <2>7. QED
    BY <2>6 DEF Rolling!Next
<1>4. QED
  BY <1>2, <1>3, MarkEffect

\* A patch of the CK8sControlPlane keeps its request, or withdraws it when every
\* machine has it.
LEMMA RollingPatchControlPlane ==
  ASSUME OrchType, OrchInv, PatchControlPlane
  PROVE  [Rolling!Next]_(Rolling!vars)
<1>1. /\ UNCHANGED <<phase, ann, installed>>
      /\ cp' = cp \/ cp' = Merge(cp, ocp, onext)
  BY DEF PatchControlPlane, KeepOthers, KeepMachines, nodeVars
<1>2. ScopeInv /\ PatchInv /\ opc = "patch"
  BY DEF PatchControlPlane, OrchInv
<1>3. CASE cp'.to = cp.to
  BY <1>1, <1>3 DEF Rolling!vars, Exists
<1>4. CASE cp'.to # cp.to
  <2>1. cp'.to = IF onext.to # ocp.to THEN onext.to ELSE cp.to
    BY <1>1, <1>4, MergeFields
  <2>2. /\ ocp.to # NoOption /\ onext.to = NoOption /\ cp'.to = NoOption
        /\ \A m \in Machines : Exists(m) => ann[m].release = upgradeTo
    BY <1>2, <1>4, <2>1 DEF PatchInv
  <2>3. upgradeTo = cp.to
    BY <1>2, <2>2 DEF ScopeInv, upgradeTo, GetUpgradeInstructions
  <2>4. Rolling!Close
    BY <1>1, <2>2, <2>3 DEF Rolling!Close, Exists
  <2>5. QED
    BY <2>4 DEF Rolling!Next
<1>5. QED
  BY <1>3, <1>4

\* Every step is one of RollingUpgrade, or does not show there.
LEMMA RollingStep ==
  ASSUME OrchType, UpgradeInv, UpgradeInv', OrchInv, RunningInv, GoneNodes,
         ~Retarget, [Next]_vars
  PROVE  [Rolling!Next]_(Rolling!vars)
<1>1. ASSUME \/ UpgradeStep \/ RestartBootstrap \/ SyncBootstrap
             \/ \E m \in Machines : CreateMachine(m) \/ DeleteMachine(m) \/ MachineGone(m),
             UNCHANGED orchVars
      PROVE  [Rolling!Next]_(Rolling!vars)
  <2>1. /\ TurnInv /\ TypeInv /\ \A m \in Machines : phase[m] # "absent"
    BY DEF OrchInv, RequestInv, TurnInv, OrchType
  <2>2. \/ UNCHANGED <<Members, Turns, Releases, installed>>
        \/ \E m \in Machines : Installs(m) \/ EndsTurn(m) \/ Leaves(m)
    BY <1>1, <2>1, RollingMachines
  <2>3. UNCHANGED cp
    BY <1>1 DEF orchVars
  <2>4. CASE UNCHANGED <<Members, Turns, Releases, installed>>
    BY <2>3, <2>4 DEF Rolling!vars, Members, Turns, Releases
  <2>5. ASSUME NEW m \in Machines, Installs(m) \/ EndsTurn(m) \/ Leaves(m)
        PROVE  Rolling!Next
    <3>1. CASE Installs(m)
      <4>1. Rolling!Install(m)
        BY <2>3, <3>1 DEF Rolling!Install, Installs, Members, Turns, Releases
      <4>2. QED
        BY <4>1 DEF Rolling!Next
    <3>2. CASE EndsTurn(m)
      <4>1. Rolling!EndTurn(m)
        BY <2>3, <3>2 DEF Rolling!EndTurn, EndsTurn, Members, Turns, Releases
      <4>2. QED
        BY <4>1 DEF Rolling!Next
    <3>3. CASE Leaves(m)
      <4>1. Rolling!Leave(m)
        BY <2>3, <3>3 DEF Rolling!Leave, Leaves, Members, Turns, Releases
      <4>2. QED
        BY <4>1 DEF Rolling!Next
    <3>4. QED
      BY <2>5, <3>1, <3>2, <3>3
  <2>6. QED
    BY <2>2, <2>4, <2>5
<1>2. ASSUME NEW option \in Options, UpgradeControlPlane(option)
      PROVE  [Rolling!Next]_(Rolling!vars)
  <2>1. cp \in Annotations
    BY DEF OrchType, TypeOK
  <2>2. /\ cp.to = NoOption /\ cp'.to = option
        /\ UNCHANGED <<phase, ann, installed>>
    BY <1>2, <2>1 DEF UpgradeControlPlane, Annotations, nodeVars
  <2>3. Rolling!Open(option)
    BY <2>2 DEF Rolling!Open, Exists
  <2>4. QED
    BY <2>3 DEF Rolling!Next
<1>3. CASE \/ OrchestrateScope \/ RestartControlPlane \/ UNCHANGED vars
           \/ FinishedOrStale \/ HolderUpgrading \/ HolderGone \/ NotLocked \/ Unlock \/ Lock
           \/ \E kind \in Caches : SyncControlPlane(kind)
  <2>1. UNCHANGED <<phase, ann, installed>>
    BY <1>3, OrchKeeps
  <2>2. UNCHANGED cp
    BY <1>3 DEF OrchestrateScope, RestartControlPlane, vars, orchVars, FinishedOrStale,
       HolderUpgrading, HolderGone, NotLocked, Unlock, Lock, SyncControlPlane
  <2>3. QED
    BY <2>1, <2>2 DEF Rolling!vars, Exists
<1>4. QED
  BY <1>1, <1>2, <1>3, RollingMark, RollingPatchControlPlane DEF Next, ContinueOrchestrate

\* The orchestrator, its lock and the machine reconciler implement RollingUpgrade,
\* for any number of machines, requests and failures: turns never overlap, a node
\* changes only in its turn and to what was requested, a turn ends with the
\* request installed and recorded, and the request is withdrawn only when every
\* machine has it (Reconcile of both controllers, markUpgradeDone).
THEOREM RefinesRollingUpgrade ==
  ASSUME Lagging = {}, ~Retarget, Joining = {}
  PROVE  Spec => RollingSpec
<1> DEFINE All == OrchType /\ UpgradeInv /\ OrchInv /\ RunningInv /\ GoneNodes
<1>1. Init => Rolling!Init
  BY DEF Init, UpgradeInit, Rolling!Init, Exists, NoAnnotations
<1>2. Init => All
  <2>1. Init => GoneNodes /\ RunningInv
    BY DEF Init, UpgradeInit, GoneNodes, RunningInv, RunsFor
  <2>2. QED
    BY <2>1, OrchTypeInitially, OrchInitially
<1>3. All /\ [Next]_vars => All'
  <2>1. SUFFICES ASSUME All, [Next]_vars
                 PROVE  All'
    OBVIOUS
  <2>2. OrchType' /\ UpgradeInv' /\ OrchInv' /\ RunningInv'
    BY <2>1, OrchTypeStep, OrchUpgradeStep, OrderStep, OrchRunning
  <2>3. GoneNodes'
    <3>1. CASE MarkMachine
      BY <2>1, <3>1, GoneStep DEF OrchType, MarkMachine, nodeVars
    <3>2. QED
      BY <2>1, <3>1, OrchKeeps, GoneStep DEF OrchType, Next, ContinueOrchestrate
  <2>4. QED
    BY <2>2, <2>3
<1>4. All /\ All' /\ [Next]_vars => [Rolling!Next]_(Rolling!vars)
  BY RollingStep
<1>5. QED
  BY <1>1, <1>2, <1>3, <1>4, PTL DEF Spec, RollingSpec, Rolling!Spec
=============================================================================
