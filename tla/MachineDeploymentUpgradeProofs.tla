--------------------- MODULE MachineDeploymentUpgradeProofs ---------------------
(***************************************************************************)
(* Theorems about MachineDeploymentUpgrade, for any machines, options and  *)
(* bounds.  The types need nothing.  That the order of the UIDs stands in  *)
(* for a lock is proved for current reads, requests that are not replaced  *)
(* while they are carried out, one MachineSet, and no machine that joins:  *)
(* one that joins with a smaller UID would be upgraded next to another.    *)
(***************************************************************************)
EXTENDS MachineDeploymentUpgrade, MachineUpgradeProofs, NumberLemmas

USE NoOptionAssumption, NoMachineAssumption, BaseAssumption, LaggingAssumption,
    MachinesAssumption, RetargetAssumption, BoundsAssumption, UIDAssumption,
    MachineSetsAssumption

-----------------------------------------------------------------------------
(***************************************************************************)
(* Types.                                                                  *)
(***************************************************************************)
TaskType ==
    /\ dmd \in Annotations /\ dnext \in Annotations /\ dann \in Annotations
    /\ dpc \in {"idle", "list", "mark", "patch"}
    /\ dm \in Machines \cup {NoMachine}
    /\ dpc = "mark" => dm \in Machines

\* A reconcile that is in progress was started for a request.
DeployType == TypeOK /\ TypeInv /\ (dpc # "idle" => upgradeTo # NoOption)

\* What Reconcile holds, and the marks it makes.
LEMMA DeployMarks ==
  ASSUME DeployType
  PROVE  /\ md \in Annotations /\ dmd \in Annotations /\ dnext \in Annotations
         /\ dann \in Annotations /\ SeenAnn \in [Machines -> Annotations]
         /\ failures \in 0..MaxFailures /\ requests \in 0..MaxRequests
         /\ dpc # "idle" =>
              /\ upgradeTo \in Options
              /\ MarkUpgradeInProgress(dmd, upgradeTo) \in Annotations
              /\ MarkUpgradeDone(dmd, upgradeTo) \in Annotations
              /\ MarkUpgradeFailed(dmd) \in Annotations
<1>1. /\ md \in Annotations /\ dmd \in Annotations /\ dnext \in Annotations
      /\ dann \in Annotations /\ SeenAnn \in [Machines -> Annotations]
      /\ failures \in 0..MaxFailures /\ requests \in 0..MaxRequests
  BY DEF DeployType, TypeOK, UpgradeTypeOK, SeenAnn
<1>2. dpc # "idle" => upgradeTo \in Options
  BY <1>1 DEF DeployType, upgradeTo, GetUpgradeInstructions, Annotations
<1>3. QED
  BY <1>1, <1>2, MarkTypes

\* Returning keeps nothing.
LEMMA ReturnTask ==
  ASSUME DeploymentReturn
  PROVE  TaskType' /\ dpc' = "idle"
BY DEF DeploymentReturn, TaskType, NoAnnotations, Annotations, Statuses

\* Going on to the patch of the MachineDeployment keeps what was read.
LEMMA PatchTask ==
  ASSUME DeployType, dpc # "idle", NEW a \in Annotations, PatchNext(a)
  PROVE  TaskType' /\ upgradeTo' # NoOption
BY DEF PatchNext, TaskType, DeployType, TypeOK, upgradeTo

\* The machines that are left, and the first of them.
LEMMA FirstTodo ==
  ASSUME NEW set \in MachineSets
  PROVE  LET todo == {m \in {n \in set : Exists(n)} : ~IsUpgraded(SeenAnn[m], upgradeTo)}
         IN  todo # {} =>
               /\ Min(todo) \in Machines /\ Exists(Min(todo))
               /\ ~IsUpgraded(SeenAnn[Min(todo)], upgradeTo)
               /\ Min(todo) \in set
               /\ \A m \in set : m < Min(todo) /\ Exists(m) => IsUpgraded(SeenAnn[m], upgradeTo)
<1> DEFINE todo == {m \in {n \in set : Exists(n)} : ~IsUpgraded(SeenAnn[m], upgradeTo)}
<1>1. set \subseteq Machines /\ todo \subseteq Nat
  OBVIOUS
<1>2. SUFFICES ASSUME todo # {}
               PROVE  /\ Min(todo) \in Machines /\ Exists(Min(todo))
                      /\ ~IsUpgraded(SeenAnn[Min(todo)], upgradeTo)
                      /\ Min(todo) \in set
                      /\ \A m \in set : m < Min(todo) /\ Exists(m) =>
                            IsUpgraded(SeenAnn[m], upgradeTo)
  OBVIOUS
<1>3. Min(todo) \in todo /\ \A m \in todo : Min(todo) <= m
  BY <1>1, <1>2, MinOfNaturals
<1>4. ASSUME NEW m \in set, m < Min(todo), Exists(m)
      PROVE  IsUpgraded(SeenAnn[m], upgradeTo)
  <2>1. m \in Nat /\ Min(todo) \in Nat
    BY <1>1, <1>3
  <2>2. ~(Min(todo) <= m)
    BY <1>4, <2>1
  <2>3. m \notin todo
    BY <1>3, <2>2
  <2>4. QED
    BY <1>4, <2>3
<1>5. QED
  BY <1>1, <1>3, <1>4

\* Marking(m): the reconcile goes on to mark m as it was listed.
Marking(m) ==
    /\ dpc' = "mark" /\ dm' = m /\ dann' = SeenAnn[m]
    /\ dnext' = MarkUpgradeInProgress(dmd, upgradeTo)
    /\ UNCHANGED dmd

\* What Examine decides.
LEMMA ExamineCases ==
  ASSUME NEW set \in MachineSets, Examine({m \in set : Exists(m)})
  PROVE  \/ DeploymentReturn
         \/ /\ \A m \in set : Exists(m) => IsUpgraded(SeenAnn[m], upgradeTo)
            /\ PatchNext(MarkUpgradeDone(dmd, upgradeTo))
         \/ \E m \in Machines :
              /\ Exists(m) /\ ~IsUpgraded(SeenAnn[m], upgradeTo)
              /\ PatchNext(MarkUpgradeFailed(dmd))
         \/ \E m \in Machines :
              /\ Exists(m) /\ ~IsUpgraded(SeenAnn[m], upgradeTo)
              /\ ~IsMachineUpgrading(SeenAnn[m])
              /\ \A n \in set : n < m /\ Exists(n) => IsUpgraded(SeenAnn[n], upgradeTo)
              /\ Marking(m)
<1> DEFINE todo == {m \in {n \in set : Exists(n)} : ~IsUpgraded(SeenAnn[m], upgradeTo)}
<1>1. todo # {} =>
        /\ Min(todo) \in Machines /\ Exists(Min(todo))
        /\ ~IsUpgraded(SeenAnn[Min(todo)], upgradeTo)
        /\ \A m \in set : m < Min(todo) /\ Exists(m) => IsUpgraded(SeenAnn[m], upgradeTo)
  BY FirstTodo
<1>2. \/ todo = {} /\ PatchNext(MarkUpgradeDone(dmd, upgradeTo))
      \/ DeploymentReturn
      \/ todo # {} /\ PatchNext(MarkUpgradeFailed(dmd))
      \/ todo # {} /\ ~IsMachineUpgrading(SeenAnn[Min(todo)]) /\ Marking(Min(todo))
  BY DEF Examine, Marking
<1>3. todo = {} => \A m \in set : Exists(m) => IsUpgraded(SeenAnn[m], upgradeTo)
  OBVIOUS
<1> HIDE DEF todo
<1>4. QED
  BY <1>1, <1>2, <1>3

\* The list of machines, and what follows from it.
LEMMA ListType ==
  ASSUME DeployType, ListMachines
  PROVE  DeployType'
<1>1. /\ dpc = "list" /\ UNCHANGED <<md, wanted, failures>> /\ KeepMachines
  BY DEF ListMachines
<1>2. PICK set \in MachineSets : Examine({m \in set : Exists(m)})
  BY DEF ListMachines
<1>3. TaskType' /\ (dpc' # "idle" => upgradeTo' # NoOption)
  <2>1. CASE DeploymentReturn
    BY <2>1, ReturnTask
  <2>2. CASE \/ PatchNext(MarkUpgradeDone(dmd, upgradeTo)) \/ PatchNext(MarkUpgradeFailed(dmd))
    BY <1>1, <2>2, PatchTask, DeployMarks
  <2>3. ASSUME NEW m \in Machines, Marking(m)
        PROVE  TaskType' /\ upgradeTo' # NoOption
    <3>1. /\ dmd \in Annotations /\ SeenAnn[m] \in Annotations /\ upgradeTo # NoOption
          /\ MarkUpgradeInProgress(dmd, upgradeTo) \in Annotations
      BY <1>1, DeployMarks DEF DeployType
    <3>2. QED
      BY <2>3, <3>1 DEF Marking, TaskType, upgradeTo
  <2>4. QED
    BY <1>2, <2>1, <2>2, <2>3, ExamineCases
<1>4. TypeInv'
  BY <1>1 DEF DeployType, TypeInv, UpgradeTypeOK, KeepMachines, nodeVars, taskVars
<1>5. QED
  BY <1>1, <1>3, <1>4 DEF DeployType, TypeOK, TaskType, TypeInv

\* The patch of a Machine.
LEMMA MarkType ==
  ASSUME DeployType, MarkMachine
  PROVE  DeployType'
<1>1. /\ dm \in Machines /\ dann \in Annotations /\ upgradeTo \in Options
      /\ ann \in [Machines -> Annotations] /\ failures \in 0..MaxFailures
      /\ dnext \in Annotations /\ dpc = "mark"
  BY DeployMarks DEF DeployType, TypeOK, UpgradeTypeOK, MarkMachine
<1> DEFINE b == Merge(ann[dm], dann, MarkMachineToUpgrade(dann, upgradeTo))
<1>2. /\ b \in Annotations /\ b.change \in {ann[dm].change, 0}
  <2>1. ann[dm] \in Annotations
    BY <1>1
  <2>2. /\ MarkMachineToUpgrade(dann, upgradeTo) \in Annotations
        /\ MarkMachineToUpgrade(dann, upgradeTo).change = 0
    BY <1>1, MarkTypes
  <2>3. QED
    BY <1>1, <2>1, <2>2, MergeType
<1>3. ann' = ann \/ ann' = [ann EXCEPT ![dm] = b]
  BY DEF MarkMachine
<1> HIDE DEF b
<1>4. /\ ann' \in [Machines -> Annotations]
      /\ \A m \in Machines : ann'[m].change \in 0..Len(snap[m])
  <2>1. \A m \in Machines : ann[m].change \in 0..Len(snap[m]) /\ Len(snap[m]) \in Nat
    BY NodeTypes DEF DeployType, TypeInv, UpgradeTypeOK
  <2>2. QED
    BY <1>1, <1>2, <1>3, <2>1
<1>5. failures' \in 0..MaxFailures
  BY <1>1 DEF MarkMachine, Fail
<1>6. UNCHANGED <<phase, cacheAnn, nodeVars, taskVars, requests, md, wanted>>
  BY DEF MarkMachine
<1>7. TypeInv'
  BY <1>4, <1>5, <1>6 DEF DeployType, TypeInv, UpgradeTypeOK, nodeVars, taskVars
<1>8. TaskType' /\ (dpc' # "idle" => upgradeTo' # NoOption)
  <2>1. CASE DeploymentReturn
    BY <2>1, ReturnTask
  <2>2. CASE PatchNext(dnext)
    BY <1>1, <2>2, PatchTask
  <2>3. QED
    BY <2>1, <2>2 DEF MarkMachine
<1>9. QED
  BY <1>6, <1>7, <1>8 DEF DeployType, TypeOK, TaskType, TypeInv

\* The steps that touch the MachineDeployment, and the restart.
LEMMA DeploymentType ==
  ASSUME DeployType,
         \/ ReadDeployment \/ PatchDeployment \/ RestartManager
         \/ \E option \in Options : UpgradeDeployment(option)
  PROVE  DeployType'
<1>1. CASE ReadDeployment
  <2>1. TypeInv'
    BY <1>1 DEF ReadDeployment, DeployType, TypeInv, UpgradeTypeOK, KeepMachines, nodeVars, taskVars
  <2>2. QED
    BY <1>1, <2>1 DEF ReadDeployment, DeployType, TypeOK, TypeInv, upgradeTo
<1>2. CASE PatchDeployment
  <2>1. md' \in Annotations
    BY <1>2, DeployMarks, MergeType DEF PatchDeployment
  <2>2. failures' \in 0..MaxFailures
    <3>1. failures' = failures \/ Fail
      BY <1>2 DEF PatchDeployment
    <3>2. QED
      BY <3>1, DeployMarks DEF Fail
  <2>3. KeepMachines /\ UNCHANGED wanted /\ TaskType' /\ dpc' = "idle"
    BY <1>2, ReturnTask DEF PatchDeployment
  <2>4. TypeInv'
    BY <2>2, <2>3 DEF DeployType, TypeInv, UpgradeTypeOK, KeepMachines, nodeVars, taskVars
  <2>5. QED
    BY <2>1, <2>3, <2>4 DEF DeployType, TypeOK, TypeInv, TaskType
<1>3. CASE RestartManager
  <2>1. UNCHANGED <<md, wanted>> /\ TaskType' /\ dpc' = "idle"
    BY <1>3, ReturnTask DEF RestartManager
  <2>2. TypeInv'
    BY <1>3, EnvironmentType DEF RestartManager, DeployType
  <2>3. QED
    BY <2>1, <2>2 DEF DeployType, TypeOK, TypeInv, TaskType
<1>4. ASSUME NEW option \in Options, UpgradeDeployment(option)
      PROVE  DeployType'
  <2>1. [md EXCEPT !.to = option] \in Annotations
    BY DeployMarks DEF Annotations
  <2>2. requests' \in 0..MaxRequests
    BY <1>4, DeployMarks DEF UpgradeDeployment
  <2>3. TypeInv'
    BY <1>4, <2>2 DEF UpgradeDeployment, DeployType, TypeInv, UpgradeTypeOK, nodeVars, taskVars
  <2>4. QED
    BY <1>4, <2>1, <2>3 DEF UpgradeDeployment, DeployType, TypeOK, TypeInv, deployTask, upgradeTo
<1>5. QED
  BY <1>1, <1>2, <1>3, <1>4

\* Every step keeps the types.
LEMMA DeployTypeStep ==
  ASSUME DeployType, [Next]_vars
  PROVE  DeployType'
<1>1. CASE UNCHANGED vars
  BY <1>1 DEF vars, upgradeVars, deployVars, deployTask, nodeVars, taskVars, DeployType,
     TypeOK, TypeInv, UpgradeTypeOK, upgradeTo
<1>2. ASSUME TypeInv', UNCHANGED deployVars
      PROVE  DeployType'
  BY <1>2 DEF deployVars, deployTask, DeployType, TypeOK, TypeInv, upgradeTo
<1>3. ASSUME \/ UpgradeStep
             \/ \E m \in Machines : CreateMachine(m) \/ DeleteMachine(m) \/ MachineGone(m)
      PROVE  TypeInv'
  BY <1>3, StartType, ContinueType, EnvironmentType DEF UpgradeStep, DeployType
<1>4. QED
  BY <1>1, <1>2, <1>3, ListType, MarkType, DeploymentType DEF Next, ContinueDeployment

\* A MachineDeployment starts without annotations.
LEMMA DeployTypeInitially == Init => DeployType
<1> SUFFICES ASSUME Init PROVE DeployType
  OBVIOUS
<1>1. TypeInv
  BY TypeInitially DEF Init
<1>2. NoAnnotations \in Annotations
  BY DEF NoAnnotations, Annotations, Statuses
<1>3. QED
  BY <1>1, <1>2 DEF Init, DeployType, TypeOK, TypeInv

\* The types of the controller and of the machines, whatever fails and however far
\* the cache lags: in particular a machine that is to be marked was chosen, and
\* no annotation names a change its node does not have.
THEOREM DeploymentTypeCorrect == Spec => []TypeOK
<1>1. DeployType => TypeOK
  BY DEF DeployType
<1>2. QED
  BY <1>1, DeployTypeInitially, DeployTypeStep, PTL DEF Spec

-----------------------------------------------------------------------------
(***************************************************************************)
(* The inductive invariant.                                                *)
(***************************************************************************)
\* Every machine before m runs this release.
UpgradedBefore(m, option) ==
    \A n \in Machines : n < m /\ Exists(n) => ann[n].release = option

\* A machine with a request has the one of the MachineDeployment, names no
\* release, and comes after the machines that are done.
RequestInv ==
    \A m \in Machines : Exists(m) /\ ann[m].to # NoOption =>
        md.to = ann[m].to /\ ann[m].release = NoOption /\ UpgradedBefore(m, md.to)

\* The MachineDeployment names a release and no request: every machine runs it.
DoneInv ==
    md.to = NoOption /\ md.release # NoOption =>
        \A m \in Machines : Exists(m) => ann[m].release = md.release

\* The MachineDeployment that was read: a request is still there, or there was
\* none and nothing was left to do.
ScopeInv ==
    /\ upgradeTo # NoOption
    /\ dmd.to # NoOption => md.to = dmd.to
    /\ md.release = dmd.release
    /\ dmd.to = NoOption =>
         \A m \in Machines : Exists(m) => ann[m].to = NoOption /\ ann[m].release = dmd.release

\* The machine about to be marked is as it was listed, and the next in turn.
MarkInv ==
    /\ dm \in Machines /\ dmd.to # NoOption
    /\ dnext.to = dmd.to /\ dnext.status = "in-progress"
    /\ dann.release # dmd.to /\ dann.to = NoOption
    /\ Exists(dm) => ann[dm] = dann
    /\ UpgradedBefore(dm, dmd.to)

\* What is about to be patched on the MachineDeployment.
PatchInv ==
    \/ dmd.to # NoOption /\ dnext.to = dmd.to /\ dnext.status \in {"in-progress", "failed"}
    \/ /\ dnext.to = NoOption /\ dnext.release = upgradeTo
       /\ \A m \in Machines : Exists(m) => ann[m].release = upgradeTo

DeployInv ==
    /\ \A m \in Machines : phase[m] # "absent"
    /\ RequestInv /\ DoneInv
    /\ dpc # "idle" => ScopeInv
    /\ dpc = "mark" => MarkInv
    /\ dpc = "patch" => PatchInv
-----------------------------------------------------------------------------
(***************************************************************************)
(* One step keeps the order.                                               *)
(***************************************************************************)
\* What the machines do by themselves.
LEMMA OrderMachines ==
  ASSUME DeployInv, UNCHANGED deployVars,
         \A m \in Machines : Effect(m) /\ phase'[m] # "absent"
  PROVE  DeployInv'
<1> USE DEF deployVars, deployTask
<1>1. \A m \in Machines, option \in Options \cup {NoOption} :
        option # NoOption /\ Exists(m)' /\ ann[m].release = option
          => Exists(m) /\ ann'[m].release = option /\ ann'[m].to = ann[m].to
  BY DEF DeployInv, RequestInv, Effect
<1>2. RequestInv'
  <2>1. SUFFICES ASSUME NEW m \in Machines, Exists(m)', ann'[m].to # NoOption
                 PROVE  /\ md'.to = ann'[m].to /\ ann'[m].release = NoOption
                        /\ UpgradedBefore(m, md.to)'
    BY DEF RequestInv
  <2>2. /\ Exists(m) /\ ann[m].to # NoOption /\ ann'[m].to = ann[m].to /\ ann'[m].release = NoOption
        /\ md.to = ann[m].to /\ UpgradedBefore(m, md.to)
    BY <2>1 DEF Effect, DeployInv, RequestInv
  <2>3. UpgradedBefore(m, md.to)'
    BY <1>1, <2>2 DEF UpgradedBefore, Effect, DeployInv, RequestInv
  <2>4. QED
    BY <2>2, <2>3
<1>3. DoneInv'
  BY DEF DeployInv, DoneInv, RequestInv, Effect
<1>4. dpc # "idle" => ScopeInv'
  BY DEF DeployInv, ScopeInv, Effect, upgradeTo
<1>5. dpc = "mark" => MarkInv'
  <2>1. SUFFICES ASSUME dpc = "mark" PROVE MarkInv'
    OBVIOUS
  <2>2. MarkInv
    BY <2>1 DEF DeployInv
  <2>3. UpgradedBefore(dm, dmd.to)'
    BY <2>2 DEF MarkInv, UpgradedBefore, Effect, DeployInv, RequestInv
  <2>4. QED
    BY <2>2, <2>3 DEF MarkInv, Effect
<1>6. dpc = "patch" => PatchInv'
  BY DEF DeployInv, PatchInv, ScopeInv, RequestInv, Effect, upgradeTo
<1>7. QED
  BY <1>2, <1>3, <1>4, <1>5, <1>6 DEF DeployInv

\* The reconcile returns, with the machines as they were.
LEMMA OrderReturn ==
  ASSUME DeployInv, DeploymentReturn, UNCHANGED <<phase, ann, md>>
  PROVE  DeployInv'
BY DEF DeployInv, DeploymentReturn, RequestInv, DoneInv, Exists, UpgradedBefore

\* Reconcile reads the MachineDeployment.
LEMMA OrderRead ==
  ASSUME DeployInv, ReadDeployment
  PROVE  DeployInv'
<1>1. /\ dpc' = "list" /\ dmd' = md /\ GetUpgradeInstructions(md) # NoOption
      /\ UNCHANGED <<md, phase, ann>>
  BY DEF ReadDeployment, KeepMachines
<1>2. RequestInv' /\ DoneInv'
  BY <1>1 DEF DeployInv, RequestInv, DoneInv, Exists, UpgradedBefore
<1>3. ScopeInv'
  BY <1>1 DEF DeployInv, RequestInv, DoneInv, ScopeInv, upgradeTo, GetUpgradeInstructions, Exists
<1>4. QED
  BY <1>1, <1>2, <1>3 DEF DeployInv

\* The loop over the machines: the one to mark comes after those that are done,
\* and the MachineDeployment is done with the last of them.
LEMMA OrderList ==
  ASSUME DeployType, DeployInv, "bootstrap" \notin Lagging, MachineSets = {Machines}, ListMachines
  PROVE  DeployInv'
<1>1. /\ dpc = "list" /\ UNCHANGED <<md, phase, ann>> /\ SeenAnn = ann
      /\ ScopeInv /\ RequestInv /\ DoneInv /\ upgradeTo # NoOption
      /\ Examine({m \in Machines : Exists(m)})
  BY DEF ListMachines, KeepMachines, SeenAnn, DeployInv, ScopeInv
<1>2. RequestInv' /\ DoneInv' /\ \A m \in Machines : phase'[m] # "absent"
  BY <1>1 DEF DeployInv, RequestInv, DoneInv, Exists, UpgradedBefore
<1>3. ASSUME UNCHANGED dmd
      PROVE  ScopeInv'
  BY <1>1, <1>3 DEF ScopeInv, upgradeTo, Exists
<1>4. \A m \in Machines : Exists(m) /\ ~IsUpgraded(ann[m], upgradeTo) =>
        dmd.to # NoOption /\ upgradeTo = dmd.to /\ ann[m].release # dmd.to
  BY <1>1 DEF ScopeInv, IsUpgraded, upgradeTo, GetUpgradeInstructions
<1>5. CASE DeploymentReturn
  BY <1>1, <1>5, OrderReturn
<1>6. CASE /\ \A m \in Machines : Exists(m) => IsUpgraded(SeenAnn[m], upgradeTo)
           /\ PatchNext(MarkUpgradeDone(dmd, upgradeTo))
  <2>1. /\ MarkUpgradeDone(dmd, upgradeTo).to = NoOption
        /\ MarkUpgradeDone(dmd, upgradeTo).release = upgradeTo
    BY DeployMarks DEF MarkUpgradeDone, Annotations
  <2>2. /\ dpc' = "patch" /\ UNCHANGED dmd /\ dnext'.to = NoOption /\ dnext'.release = upgradeTo
    BY <1>6, <2>1 DEF PatchNext
  <2>3. PatchInv'
    BY <1>1, <1>6, <2>2 DEF PatchInv, IsUpgraded, upgradeTo, Exists
  <2>4. QED
    BY <1>2, <1>3, <2>2, <2>3 DEF DeployInv
<1>7. ASSUME NEW m \in Machines, Exists(m), ~IsUpgraded(SeenAnn[m], upgradeTo),
             PatchNext(MarkUpgradeFailed(dmd))
      PROVE  DeployInv'
  <2>1. /\ MarkUpgradeFailed(dmd).to = dmd.to /\ MarkUpgradeFailed(dmd).status = "failed"
    BY DeployMarks DEF MarkUpgradeFailed, Annotations
  <2>2. /\ dpc' = "patch" /\ UNCHANGED dmd /\ dnext'.to = dmd.to /\ dnext'.status = "failed"
        /\ dmd.to # NoOption
    BY <1>1, <1>4, <1>7, <2>1 DEF PatchNext
  <2>3. PatchInv'
    BY <2>2 DEF PatchInv
  <2>4. QED
    BY <1>2, <1>3, <2>2, <2>3 DEF DeployInv
<1>8. ASSUME NEW m \in Machines, Exists(m), ~IsUpgraded(SeenAnn[m], upgradeTo),
             ~IsMachineUpgrading(SeenAnn[m]), Marking(m),
             \A n \in Machines : n < m /\ Exists(n) => IsUpgraded(SeenAnn[n], upgradeTo)
      PROVE  DeployInv'
  <2>1. /\ MarkUpgradeInProgress(dmd, upgradeTo).to = upgradeTo
        /\ MarkUpgradeInProgress(dmd, upgradeTo).status = "in-progress"
    BY DeployMarks DEF MarkUpgradeInProgress, Annotations
  <2>2. /\ dpc' = "mark" /\ dm' = m /\ dann' = ann[m] /\ UNCHANGED dmd
        /\ dnext'.to = upgradeTo /\ dnext'.status = "in-progress"
    BY <1>1, <1>8, <2>1 DEF Marking
  <2>3. dmd.to # NoOption /\ upgradeTo = dmd.to /\ ann[m].release # dmd.to /\ ann[m].to = NoOption
    BY <1>1, <1>4, <1>8 DEF IsMachineUpgrading
  <2>4. UpgradedBefore(dm, dmd.to)'
    BY <1>1, <1>8, <2>2, <2>3 DEF UpgradedBefore, IsUpgraded, Exists
  <2>5. MarkInv'
    BY <1>1, <2>2, <2>3, <2>4 DEF MarkInv, Exists
  <2>6. QED
    BY <1>2, <1>3, <2>2, <2>5 DEF DeployInv
<1>9. QED
  BY <1>1, <1>5, <1>6, <1>7, <1>8, ExamineCases

\* Marks(b): the machine exists, was idle, and is told to upgrade to what the
\* MachineDeployment asks for.
Marks(b) ==
    /\ dm \in Machines /\ Exists(dm) /\ ann[dm].to = NoOption
    /\ b \in Annotations /\ b.to = md.to /\ md.to # NoOption
    /\ b.status = "none" /\ b.change = 0 /\ b.release = NoOption
    /\ ann' = [ann EXCEPT ![dm] = b]

\* MarkMachineToUpgrade has that effect, or none.
LEMMA MarkEffect ==
  ASSUME DeployType, DeployInv, MarkMachine
  PROVE  ann' = ann \/ \E b : Marks(b)
<1>1. /\ dm \in Machines /\ ann \in [Machines -> Annotations] /\ upgradeTo \in Options
  BY DeployMarks DEF DeployType, TypeOK, UpgradeTypeOK, MarkMachine
<1>2. /\ Exists(dm) => ann[dm] = dann
      /\ dann.to = NoOption /\ md.to = dmd.to /\ upgradeTo = dmd.to /\ dmd.to # NoOption
  BY DEF MarkMachine, DeployInv, MarkInv, ScopeInv, upgradeTo, GetUpgradeInstructions
<1> DEFINE b == Merge(ann[dm], dann, MarkMachineToUpgrade(dann, upgradeTo))
<1>3. ann' = ann \/ (Exists(dm) /\ ann' = [ann EXCEPT ![dm] = b])
  BY DEF MarkMachine
<1>4. CASE Exists(dm) /\ ann' = [ann EXCEPT ![dm] = b]
  <2>1. ann[dm] \in Annotations
    BY <1>1
  <2>2. b = Merge(ann[dm], ann[dm], MarkMachineToUpgrade(ann[dm], upgradeTo))
    BY <1>2, <1>4
  <2>3. /\ b \in Annotations /\ b.to = upgradeTo /\ b.status = "none" /\ b.change = 0
        /\ b.release = NoOption
    BY <1>1, <2>1, <2>2, MarkedFields
  <2> HIDE DEF b
  <2>4. Marks(b)
    BY <1>1, <1>2, <1>4, <2>3 DEF Marks
  <2>5. QED
    BY <2>4
<1>5. QED
  BY <1>3, <1>4

\* The machine that is marked lacks the request, and nothing else is upgrading.
LEMMA MarkAlone ==
  ASSUME DeployInv, dpc = "mark", NEW b, Marks(b)
  PROVE  /\ md.to = dmd.to /\ ann[dm].release # md.to /\ UpgradedBefore(dm, md.to)
         /\ \A m \in Machines : Exists(m) => ann[m].to = NoOption
<1>1. ScopeInv /\ MarkInv /\ RequestInv
  BY DEF DeployInv
<1>2. PICK d \in Machines : d = dm
  BY DEF Marks
<1>3. /\ md.to # NoOption /\ Exists(d) /\ ann[d].to = NoOption
      /\ ann[d].release # md.to /\ md.to = dmd.to /\ UpgradedBefore(d, md.to)
  BY <1>1, <1>2 DEF Marks, MarkInv, ScopeInv
<1>4. d \in Nat /\ \A m \in Machines : m \in Nat
  OBVIOUS
<1>5. ASSUME NEW m \in Machines, Exists(m), ann[m].to # NoOption
      PROVE  FALSE
  <2>1. ann[m].release = NoOption /\ UpgradedBefore(m, md.to)
    BY <1>1, <1>5 DEF RequestInv
  <2>2. ~(m < d)
    BY <1>3, <1>5, <2>1 DEF UpgradedBefore
  <2>3. ~(d < m)
    BY <1>3, <2>1 DEF UpgradedBefore
  <2>4. m # d
    BY <1>3, <1>5
  <2>5. QED
    BY <1>4, <2>2, <2>3, <2>4
<1>6. QED
  BY <1>2, <1>3, <1>5

\* The machine that is marked is the next in turn, and nothing else is upgrading.
LEMMA OrderMark ==
  ASSUME DeployType, DeployInv, MarkMachine
  PROVE  DeployInv'
<1>1. /\ UNCHANGED <<phase, md>> /\ dpc = "mark" /\ dm \in Machines
      /\ ann \in [Machines -> Annotations]
  BY DEF MarkMachine, DeployType, TypeOK, UpgradeTypeOK
<1>2. ScopeInv /\ MarkInv /\ RequestInv /\ DoneInv
  BY <1>1 DEF DeployInv
<1>3. RequestInv' /\ DoneInv' /\ \A m \in Machines : phase'[m] # "absent"
  <2>1. CASE ann' = ann
    BY <1>1, <2>1 DEF DeployInv, RequestInv, DoneInv, Exists, UpgradedBefore
  <2>2. ASSUME NEW b, Marks(b)
        PROVE  RequestInv' /\ DoneInv' /\ \A m \in Machines : phase'[m] # "absent"
    <3>1. PICK d \in Machines : d = dm
      BY <1>1
    <3>2. /\ ann'[d] = b /\ \A m \in Machines : m # d => ann'[m] = ann[m]
          /\ b.to = md.to /\ b.release = NoOption /\ md.to # NoOption /\ Exists(d)
          /\ ann[d].to = NoOption /\ ann[d].release # md.to /\ md.to = dmd.to
          /\ UpgradedBefore(d, md.to)
      BY <1>1, <2>2, <3>1, MarkAlone DEF Marks
    <3>3. d \in Nat /\ \A m \in Machines : m \in Nat
      OBVIOUS
    <3>4. UpgradedBefore(d, md.to)'
      BY <1>1, <3>2, <3>3 DEF UpgradedBefore, Exists
    <3>5. \A m \in Machines : Exists(m) => ann[m].to = NoOption
      BY <1>1, <2>2, MarkAlone
    <3>6. RequestInv'
      BY <1>1, <3>2, <3>4, <3>5 DEF RequestInv, Exists
    <3>7. QED
      BY <1>1, <3>2, <3>6 DEF DeployInv, DoneInv
  <2>3. QED
    BY <2>1, <2>2, MarkEffect
<1>4. CASE DeploymentReturn
  BY <1>3, <1>4 DEF DeployInv, DeploymentReturn
<1>5. CASE PatchNext(dnext)
  <2>1. dpc' = "patch" /\ UNCHANGED <<dmd, dnext>>
    BY <1>5 DEF PatchNext
  <2>2. dmd.to # NoOption /\ dnext.to = dmd.to /\ dnext.status = "in-progress"
    BY <1>2 DEF MarkInv
  <2>3. ScopeInv' /\ PatchInv'
    BY <1>1, <1>2, <2>1, <2>2 DEF ScopeInv, PatchInv, upgradeTo
  <2>4. QED
    BY <1>3, <2>1, <2>3 DEF DeployInv
<1>6. QED
  BY <1>4, <1>5 DEF MarkMachine

\* The patch of the MachineDeployment leaves a request that came meanwhile alone,
\* and removes the one that was read only when every machine runs it.
LEMMA OrderPatch ==
  ASSUME DeployInv, PatchDeployment
  PROVE  DeployInv'
<1>1. /\ UNCHANGED <<phase, ann>> /\ DeploymentReturn
      /\ md' = md \/ md' = Merge(md, dmd, dnext)
  BY DEF PatchDeployment, KeepMachines
<1>2. ScopeInv /\ PatchInv /\ RequestInv /\ DoneInv
  BY DEF PatchDeployment, DeployInv
<1>3. CASE md' = md
  BY <1>1, <1>3, OrderReturn
<1>4. CASE md' = Merge(md, dmd, dnext)
  <2>1. /\ md'.to = IF dnext.to # dmd.to THEN dnext.to ELSE md.to
        /\ md'.release = IF dnext.release # dmd.release THEN dnext.release ELSE md.release
    BY <1>4, MergeFields
  <2>2. CASE dmd.to # NoOption /\ dnext.to = dmd.to
    <3>1. md'.to = md.to /\ md.to # NoOption
      BY <1>2, <2>1, <2>2 DEF ScopeInv
    <3>2. RequestInv' /\ DoneInv'
      BY <1>1, <1>2, <3>1 DEF RequestInv, DoneInv, Exists, UpgradedBefore
    <3>3. QED
      BY <1>1, <3>2 DEF DeployInv, DeploymentReturn
  <2>3. CASE /\ dnext.to = NoOption /\ dnext.release = upgradeTo
             /\ \A m \in Machines : Exists(m) => ann[m].release = upgradeTo
    <3>1. /\ md'.release = upgradeTo /\ upgradeTo # NoOption
      BY <1>2, <2>1, <2>3 DEF ScopeInv
    <3>2. \A m \in Machines : Exists(m) => ann[m].to = NoOption
      BY <1>2, <2>3, <3>1 DEF RequestInv
    <3>3. RequestInv' /\ DoneInv'
      BY <1>1, <2>3, <3>1, <3>2 DEF RequestInv, DoneInv, Exists
    <3>4. QED
      BY <1>1, <3>3 DEF DeployInv, DeploymentReturn
  <2>4. QED
    BY <1>2, <2>2, <2>3 DEF PatchInv
<1>5. QED
  BY <1>1, <1>3, <1>4

\* A user's request on a MachineDeployment that has none.
LEMMA OrderRequest ==
  ASSUME DeployType, DeployInv, ~Retarget, NEW option \in Options, UpgradeDeployment(option)
  PROVE  DeployInv'
<1>1. md.to = NoOption /\ md'.to = option /\ md'.release = md.release
  BY DeployMarks DEF UpgradeDeployment, Annotations
<1>2. UNCHANGED <<phase, ann, dpc, dm, dmd, dnext, dann>>
  BY DEF UpgradeDeployment, deployTask
<1>3. RequestInv' /\ DoneInv'
  BY <1>1, <1>2 DEF DeployInv, RequestInv, DoneInv, Exists
<1>4. dpc # "idle" => ScopeInv'
  BY <1>1, <1>2 DEF DeployInv, ScopeInv, upgradeTo, Exists
<1>5. /\ dpc = "mark" => MarkInv'
      /\ dpc = "patch" => PatchInv'
  BY <1>2 DEF DeployInv, MarkInv, PatchInv, upgradeTo, Exists, UpgradedBefore
<1>6. QED
  BY <1>2, <1>3, <1>4, <1>5 DEF DeployInv

\* Every step keeps the order.
LEMMA OrderStep ==
  ASSUME DeployType, UpgradeInv, DeployInv, "bootstrap" \notin Lagging, ~Retarget,
         MachineSets = {Machines}, [Next]_vars
  PROVE  DeployInv'
<1>1. CASE UNCHANGED vars
  <2>1. \A m \in Machines : Effect(m) /\ phase'[m] # "absent"
    BY <1>1 DEF vars, upgradeVars, nodeVars, DeployInv, Effect, Exists
  <2>2. QED
    BY <1>1, <2>1, OrderMachines DEF vars
<1>2. ASSUME \/ UpgradeStep
             \/ \E m \in Machines : CreateMachine(m) \/ DeleteMachine(m) \/ MachineGone(m),
             UNCHANGED deployVars
      PROVE  DeployInv'
  <2>1. \A m \in Machines : phase[m] # "absent"
    BY DEF DeployInv
  <2>2. \A m \in Machines : Effect(m) /\ phase'[m] # "absent"
    BY <1>2, <2>1, MachineEffect DEF DeployType
  <2>3. QED
    BY <1>2, <2>2, OrderMachines
<1>3. CASE RestartManager
  BY <1>3, OrderReturn DEF RestartManager, RestartBootstrap
<1>4. QED
  BY <1>1, <1>2, <1>3, OrderRead, OrderList, OrderMark, OrderPatch, OrderRequest
     DEF Next, ContinueDeployment

\* Every step of the controller leaves machines and nodes in line.
LEMMA DeployUpgradeStep ==
  ASSUME DeployType, UpgradeInv, DeployInv, "bootstrap" \notin Lagging, [Next]_vars
  PROVE  UpgradeInv'
<1>1. ASSUME UNCHANGED <<phase, ann, snap, installed, upc, um, seen, next>>
      PROVE  UpgradeInv'
  BY <1>1 DEF UpgradeInv
<1>2. CASE MarkMachine
  <2>1. UNCHANGED <<phase, snap, installed, upc, um, seen, next>>
    BY <1>2 DEF MarkMachine, nodeVars, taskVars
  <2>2. ASSUME NEW b, Marks(b)
        PROVE  UpgradeInv'
    <3>1. /\ dm \in Machines /\ ann[dm].to = NoOption /\ b \in Annotations /\ b.change = 0
          /\ b.status = "none" /\ b.release = NoOption /\ ann' = [ann EXCEPT ![dm] = b]
          /\ phase[dm] # "gone"
      BY <2>2 DEF Marks, Exists
    <3>2. ann[dm].change = 0
      BY <3>1 DEF UpgradeInv, Fits
    <3>3. QED
      BY <2>1, <3>1, <3>2, InvMark DEF DeployType
  <2>3. QED
    BY <1>1, <1>2, <2>1, <2>2, MarkEffect
<1>3. CASE \/ ReadDeployment \/ ListMachines \/ PatchDeployment \/ UNCHANGED vars
           \/ \E option \in Options : UpgradeDeployment(option)
  <2>1. UNCHANGED <<phase, ann, snap, installed, upc, um, seen, next>>
    BY <1>3 DEF ReadDeployment, ListMachines, PatchDeployment, UpgradeDeployment, KeepMachines,
       vars, upgradeVars, nodeVars, taskVars
  <2>2. QED
    BY <1>1, <2>1
<1>4. CASE \/ UpgradeStep \/ RestartManager
           \/ \E m \in Machines : CreateMachine(m) \/ DeleteMachine(m) \/ MachineGone(m)
  BY <1>4, InvStart, InvContinue, InvEnvironment DEF UpgradeStep, DeployType, RestartManager
<1>5. QED
  BY <1>2, <1>3, <1>4 DEF Next, ContinueDeployment

\* All machines of the MachineDeployment are there from the start.
LEMMA DeployInitially ==
  ASSUME Joining = {}
  PROVE  Init => DeployType /\ UpgradeInv /\ DeployInv
<1> SUFFICES ASSUME Init PROVE DeployType /\ UpgradeInv /\ DeployInv
  OBVIOUS
<1>1. DeployType /\ UpgradeInv
  BY DeployTypeInitially, InvInitially DEF Init
<1>2. DeployInv
  BY DEF Init, UpgradeInit, DeployInv, RequestInv, DoneInv, NoAnnotations
<1>3. QED
  BY <1>1, <1>2

\* The machines of a MachineDeployment are upgraded one after the other, without
\* a lock: a machine with a request comes right after those that are done, so
\* two of them are the same (sorting by UID in Reconcile, getOwnedMachines).
THEOREM DeploymentUpgradesInTurn ==
  ASSUME "bootstrap" \notin Lagging, ~Retarget, Joining = {}, MachineSets = {Machines}
  PROVE  Spec => []OneAtATime
<1>1. UpgradeInv /\ DeployInv => OneAtATime
  <2>1. SUFFICES ASSUME UpgradeInv, DeployInv, NEW m \in Machines, NEW n \in Machines,
                        Exists(m), IsMachineUpgrading(ann[m]),
                        Exists(n), IsMachineUpgrading(ann[n])
                 PROVE  m = n
    BY DEF OneAtATime
  <2>2. ann[m].to # NoOption /\ ann[n].to # NoOption
    BY <2>1 DEF UpgradeInv, Fits, IsMachineUpgrading, Exists
  <2>3. /\ UpgradedBefore(m, md.to) /\ ann[m].release = NoOption /\ md.to # NoOption
        /\ UpgradedBefore(n, md.to) /\ ann[n].release = NoOption
    BY <2>1, <2>2 DEF DeployInv, RequestInv
  <2>4. ~(m < n) /\ ~(n < m)
    BY <2>1, <2>3 DEF UpgradedBefore
  <2>5. m \in Nat /\ n \in Nat
    OBVIOUS
  <2>6. QED
    BY <2>4, <2>5
<1>2. /\ DeployType /\ UpgradeInv /\ DeployInv /\ [Next]_vars
      => DeployType' /\ UpgradeInv' /\ DeployInv'
  BY DeployTypeStep, DeployUpgradeStep, OrderStep
<1>3. QED
  BY <1>1, <1>2, DeployInitially, PTL DEF Spec

\* When the MachineDeployment is marked done, every machine it has runs the
\* release that is recorded (markUpgradeDone of Reconcile).
THEOREM DoneIsUpgraded ==
  ASSUME "bootstrap" \notin Lagging, ~Retarget, Joining = {}, MachineSets = {Machines}
  PROVE  Spec => DoneMeansUpgraded
<1>1. ASSUME DeployType, UpgradeInv, DeployInv, [Next]_vars, md.status # "done",
             md'.status = "done", NEW m \in Machines, phase[m] = "present"
      PROVE  installed[m] = md'.release
  <2>1. ASSUME PatchDeployment
        PROVE  installed[m] = md'.release
    <3>1. md' = Merge(md, dmd, dnext) /\ ScopeInv /\ PatchInv
      BY <1>1, <2>1 DEF PatchDeployment, DeployInv
    <3>2. /\ md'.status = IF dnext.status # dmd.status THEN dnext.status ELSE md.status
          /\ md'.release = IF dnext.release # dmd.release THEN dnext.release ELSE md.release
      BY <3>1, MergeFields
    <3>3. dnext.release = upgradeTo /\ ann[m].release = upgradeTo /\ upgradeTo # NoOption
      BY <1>1, <3>1, <3>2 DEF PatchInv, ScopeInv, Exists
    <3>4. md'.release = upgradeTo
      BY <3>1, <3>2, <3>3 DEF ScopeInv
    <3>5. QED
      BY <1>1, <3>3, <3>4 DEF UpgradeInv, Fits
  <2>2. ASSUME ~PatchDeployment
        PROVE  md'.status = md.status
    <3>1. CASE \E option \in Options : UpgradeDeployment(option)
      <4>1. PICK option \in Options : md' = [md EXCEPT !.to = option]
        BY <3>1 DEF UpgradeDeployment
      <4>2. QED
        BY <1>1, <4>1, DeployMarks DEF Annotations
    <3>2. CASE ~\E option \in Options : UpgradeDeployment(option)
      <4>1. md' = md
        BY <1>1, <2>2, <3>2 DEF Next, vars, deployVars, ReadDeployment, ContinueDeployment,
           ListMachines, MarkMachine, RestartManager
      <4>2. QED
        BY <4>1
    <3>3. QED
      BY <3>1, <3>2
  <2>3. QED
    BY <1>1, <2>1, <2>2
<1>2. DeployType /\ UpgradeInv /\ DeployInv /\ [Next]_vars =>
        [md.status # "done" /\ md'.status = "done" =>
           \A m \in Machines \ Joining :
              phase[m] = "present" => installed[m] = md'.release]_vars
  BY <1>1
<1>3. /\ DeployType /\ UpgradeInv /\ DeployInv /\ [Next]_vars
      => DeployType' /\ UpgradeInv' /\ DeployInv'
  BY DeployTypeStep, DeployUpgradeStep, OrderStep
<1>4. QED
  BY <1>2, <1>3, DeployInitially, PTL DEF Spec, DoneMeansUpgraded

-----------------------------------------------------------------------------
(***************************************************************************)
(* The controller implements RollingUpgrade.                               *)
(***************************************************************************)
\* The steps of the controller other than a mark leave machines and nodes alone.
LEMMA DeployKeeps ==
  ASSUME \/ ReadDeployment \/ ListMachines \/ PatchDeployment \/ UNCHANGED vars
         \/ \E option \in Options : UpgradeDeployment(option)
  PROVE  UNCHANGED <<phase, ann, snap, installed>>
BY DEF ReadDeployment, ListMachines, PatchDeployment, UpgradeDeployment, KeepMachines,
   vars, upgradeVars, nodeVars

\* Every step starts changes for requests only, and a node that is gone has none.
LEMMA DeployRunning ==
  ASSUME DeployType, UpgradeInv, DeployInv, RunningInv, GoneNodes, [Next]_vars
  PROVE  RunningInv' /\ GoneNodes'
<1>1. CASE MarkMachine
  <2>1. UNCHANGED <<phase, snap>>
    BY <1>1 DEF MarkMachine, nodeVars
  <2>2. CASE ann' = ann
    BY <2>1, <2>2 DEF RunningInv, GoneNodes
  <2>3. ASSUME NEW b, Marks(b)
        PROVE  RunningInv'
    BY <2>1, <2>3, RunningMark DEF Marks, DeployType
  <2>4. QED
    BY <1>1, <2>1, <2>2, <2>3, MarkEffect DEF GoneNodes
<1>2. CASE UNCHANGED <<phase, ann, snap>>
  BY <1>2 DEF RunningInv, GoneNodes
<1>3. CASE \/ UpgradeStep \/ RestartManager
           \/ \E m \in Machines : CreateMachine(m) \/ DeleteMachine(m) \/ MachineGone(m)
  BY <1>3, RunningMachines, GoneStep DEF DeployType, RestartManager
<1>4. QED
  BY <1>1, <1>2, <1>3, DeployKeeps DEF Next, ContinueDeployment

\* A mark is the start of a turn: the request is open, the machine lacks it, and
\* no other machine is upgrading.
LEMMA RollingMark ==
  ASSUME DeployType, DeployInv, MarkMachine
  PROVE  [Rolling!Next]_(Rolling!vars)
<1>1. UNCHANGED <<phase, installed, md>> /\ dpc = "mark"
  BY DEF MarkMachine, nodeVars
<1>2. CASE ann' = ann
  BY <1>1, <1>2 DEF Rolling!vars, Exists
<1>3. ASSUME NEW b, Marks(b)
      PROVE  Rolling!Next
  <2>1. PICK m \in Machines : m = dm
    BY <1>3 DEF Marks
  <2>2. /\ Exists(m) /\ ann[m].release # md.to
        /\ b.to = md.to /\ md.to # NoOption /\ b.release = NoOption
        /\ ann' = [ann EXCEPT ![m] = b] /\ ann \in [Machines -> Annotations]
        /\ \A n \in Machines : Exists(n) => ann[n].to = NoOption
    BY <1>1, <1>3, <2>1, MarkAlone DEF Marks, DeployType, TypeOK, UpgradeTypeOK
  <2>3. /\ ann'[m] = b /\ \A n \in Machines : n # m => ann'[n] = ann[n]
    BY <2>2
  <2>4. /\ Turns' = [Turns EXCEPT ![m] = md.to] /\ Releases' = [Releases EXCEPT ![m] = NoOption]
        /\ UNCHANGED Members /\ m \in Members /\ Releases[m] # md.to
        /\ \A n \in Members : Turns[n] = NoOption
    BY <1>1, <2>2, <2>3 DEF Turns, Releases, Members, Exists
  <2>5. Rolling!TakeTurn(m)
    BY <1>1, <2>2, <2>4 DEF Rolling!TakeTurn, Turns, Releases, Members
  <2>6. QED
    BY <2>5 DEF Rolling!Next
<1>4. QED
  BY <1>2, <1>3, MarkEffect

\* A patch of the MachineDeployment keeps its request, or withdraws it when every
\* machine has it.
LEMMA RollingPatchDeployment ==
  ASSUME DeployType, DeployInv, PatchDeployment
  PROVE  [Rolling!Next]_(Rolling!vars)
<1>1. /\ UNCHANGED <<phase, ann, installed>>
      /\ md' = md \/ md' = Merge(md, dmd, dnext)
  BY DEF PatchDeployment, KeepMachines, nodeVars
<1>2. ScopeInv /\ PatchInv
  BY DEF PatchDeployment, DeployInv
<1>3. CASE md'.to = md.to
  BY <1>1, <1>3 DEF Rolling!vars, Exists
<1>4. CASE md'.to # md.to
  <2>1. md'.to = IF dnext.to # dmd.to THEN dnext.to ELSE md.to
    BY <1>1, <1>4, MergeFields
  <2>2. /\ dmd.to # NoOption /\ dnext.to = NoOption /\ md'.to = NoOption
        /\ \A m \in Machines : Exists(m) => ann[m].release = upgradeTo
    BY <1>2, <1>4, <2>1 DEF PatchInv
  <2>3. upgradeTo = md.to
    BY <1>2, <2>2 DEF ScopeInv, upgradeTo, GetUpgradeInstructions
  <2>4. Rolling!Close
    BY <1>1, <2>2, <2>3 DEF Rolling!Close, Exists
  <2>5. QED
    BY <2>4 DEF Rolling!Next
<1>5. QED
  BY <1>3, <1>4

\* Every step is one of RollingUpgrade, or does not show there.
LEMMA RollingStep ==
  ASSUME DeployType, UpgradeInv, UpgradeInv', DeployInv, RunningInv, GoneNodes,
         ~Retarget, [Next]_vars
  PROVE  [Rolling!Next]_(Rolling!vars)
<1>1. ASSUME \/ UpgradeStep \/ RestartBootstrap
             \/ \E m \in Machines : CreateMachine(m) \/ DeleteMachine(m) \/ MachineGone(m),
             UNCHANGED md
      PROVE  [Rolling!Next]_(Rolling!vars)
  <2>1. /\ TurnInv /\ TypeInv /\ \A m \in Machines : phase[m] # "absent"
    BY DEF DeployInv, RequestInv, TurnInv, DeployType
  <2>2. \/ UNCHANGED <<Members, Turns, Releases, installed>>
        \/ \E m \in Machines : Installs(m) \/ EndsTurn(m) \/ Leaves(m)
    BY <1>1, <2>1, RollingMachines
  <2>3. CASE UNCHANGED <<Members, Turns, Releases, installed>>
    BY <1>1, <2>3 DEF Rolling!vars, Members, Turns, Releases
  <2>4. ASSUME NEW m \in Machines, Installs(m) \/ EndsTurn(m) \/ Leaves(m)
        PROVE  Rolling!Next
    <3>1. CASE Installs(m)
      <4>1. Rolling!Install(m)
        BY <1>1, <3>1 DEF Rolling!Install, Installs, Members, Turns, Releases
      <4>2. QED
        BY <4>1 DEF Rolling!Next
    <3>2. CASE EndsTurn(m)
      <4>1. Rolling!EndTurn(m)
        BY <1>1, <3>2 DEF Rolling!EndTurn, EndsTurn, Members, Turns, Releases
      <4>2. QED
        BY <4>1 DEF Rolling!Next
    <3>3. CASE Leaves(m)
      <4>1. Rolling!Leave(m)
        BY <1>1, <3>3 DEF Rolling!Leave, Leaves, Members, Turns, Releases
      <4>2. QED
        BY <4>1 DEF Rolling!Next
    <3>4. QED
      BY <2>4, <3>1, <3>2, <3>3
  <2>5. QED
    BY <2>2, <2>3, <2>4
<1>2. ASSUME NEW option \in Options, UpgradeDeployment(option)
      PROVE  [Rolling!Next]_(Rolling!vars)
  <2>1. /\ md.to = NoOption /\ md'.to = option /\ UNCHANGED <<phase, ann, installed>>
    BY <1>2, DeployMarks DEF UpgradeDeployment, Annotations, nodeVars
  <2>2. Rolling!Open(option)
    BY <2>1 DEF Rolling!Open, Exists
  <2>3. QED
    BY <2>2 DEF Rolling!Next
<1>3. CASE ReadDeployment \/ ListMachines \/ UNCHANGED vars
  <2>1. UNCHANGED <<phase, ann, installed, md>>
    BY <1>3, DeployKeeps DEF ReadDeployment, ListMachines, vars, deployVars
  <2>2. QED
    BY <2>1 DEF Rolling!vars, Exists
<1>4. CASE RestartManager
  BY <1>1, <1>4 DEF RestartManager
<1>5. QED
  BY <1>1, <1>2, <1>3, <1>4, RollingMark, RollingPatchDeployment
     DEF Next, ContinueDeployment, deployVars

\* The controller and the machine reconciler implement RollingUpgrade, too: the
\* order of the UIDs gives the same turns as the lock of the control plane, for
\* any number of machines, requests and failures (Reconcile of both controllers,
\* getOwnedMachines, markUpgradeDone).
THEOREM DeploymentRefinesRollingUpgrade ==
  ASSUME "bootstrap" \notin Lagging, ~Retarget, Joining = {}, MachineSets = {Machines}
  PROVE  Spec => RollingSpec
<1> DEFINE All == DeployType /\ UpgradeInv /\ DeployInv /\ RunningInv /\ GoneNodes
<1>1. Init => Rolling!Init
  BY DEF Init, UpgradeInit, Rolling!Init, Exists, NoAnnotations
<1>2. Init => All
  <2>1. Init => GoneNodes /\ RunningInv
    BY DEF Init, UpgradeInit, GoneNodes, RunningInv, RunsFor
  <2>2. QED
    BY <2>1, DeployInitially
<1>3. All /\ [Next]_vars => All'
  BY DeployTypeStep, DeployUpgradeStep, OrderStep, DeployRunning
<1>4. All /\ All' /\ [Next]_vars => [Rolling!Next]_(Rolling!vars)
  BY RollingStep
<1>5. QED
  BY <1>1, <1>2, <1>3, <1>4, PTL DEF Spec, RollingSpec, Rolling!Spec
=============================================================================
