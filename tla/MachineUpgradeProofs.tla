--------------------------- MODULE MachineUpgradeProofs ---------------------------
(***************************************************************************)
(* Theorems about MachineUpgrade, for any machines, options and bounds.    *)
(* The types need nothing.  That a recorded release is installed, and that *)
(* every refresh answers a request or a fault, holds while the bootstrap   *)
(* manager reads Machines as they are and a request is not replaced while  *)
(* it is carried out: the reconciler records whatever upgrade-to says when *)
(* it is done, not the option it refreshed to.                             *)
(***************************************************************************)
EXTENDS MachineUpgrade, TLAPS

USE NoOptionAssumption, NoMachineAssumption, BaseAssumption, LaggingAssumption,
    MachinesAssumption, RetargetAssumption, BoundsAssumption

-----------------------------------------------------------------------------
\* A patch of annotations yields annotations.
LEMMA MergeType ==
  ASSUME NEW live \in Annotations, NEW before \in Annotations, NEW after \in Annotations
  PROVE  /\ Merge(live, before, after) \in Annotations
         /\ Merge(live, before, after).change \in {live.change, after.change}
BY DEF Merge, Annotations, Statuses

\* What Reconcile makes of the annotations it reads are annotations.
LEMMA ReconcileMarks ==
  ASSUME NEW a \in Annotations
  PROVE  /\ LET b == [a EXCEPT !.status = "none", !.change = 0, !.release = NoOption]
            IN  b \in Annotations /\ b.change = 0
         /\ LET b == [a EXCEPT !.to = NoOption, !.change = 0, !.failed = FALSE, !.release = a.to]
            IN  b \in Annotations /\ b.change = 0
         /\ LET b == [a EXCEPT !.status = "none", !.change = 0]
            IN  b \in Annotations /\ b.change = 0
         /\ LET b == [a EXCEPT !.status = "failed", !.failed = TRUE]
            IN  b \in Annotations /\ b.change = a.change
<1>1. LET b == [a EXCEPT !.status = "none", !.change = 0, !.release = NoOption]
      IN  b \in Annotations /\ b.change = 0
  BY DEF Annotations, Statuses
<1>2. LET b == [a EXCEPT !.to = NoOption, !.change = 0, !.failed = FALSE, !.release = a.to]
      IN  b \in Annotations /\ b.change = 0
  BY DEF Annotations, Statuses
<1>3. LET b == [a EXCEPT !.status = "none", !.change = 0]
      IN  b \in Annotations /\ b.change = 0
  BY DEF Annotations, Statuses
<1>4. LET b == [a EXCEPT !.status = "failed", !.failed = TRUE]
      IN  b \in Annotations /\ b.change = a.change
  BY DEF Annotations, Statuses
<1>5. QED
  BY <1>1, <1>2, <1>3, <1>4, Zenon

\* What a node keeps of its changes when snapd accepts one more.
LEMMA AppendChange ==
  ASSUME NEW s \in Seq(Changes), NEW c \in Changes
  PROVE  /\ Append(s, c) \in Seq(Changes)
         /\ Len(Append(s, c)) = Len(s) + 1
         /\ Append(s, c)[Len(s) + 1] = c
         /\ \A i \in 1..Len(s) : Append(s, c)[i] = s[i]
OBVIOUS

\* What a node keeps of its changes when snapd finishes one.
LEMMA FinishOne ==
  ASSUME NEW s \in Seq(Changes), NEW i \in DOMAIN s, NEW c \in Changes
  PROVE  /\ [s EXCEPT ![i] = c] \in Seq(Changes)
         /\ Len([s EXCEPT ![i] = c]) = Len(s)
         /\ [s EXCEPT ![i] = c][i] = c
         /\ \A j \in 1..Len(s) : j # i => [s EXCEPT ![i] = c][j] = s[j]
<1>1. s \in [1..Len(s) -> Changes] /\ Len(s) \in Nat /\ DOMAIN s = 1..Len(s)
  OBVIOUS
<1>2. QED
  BY <1>1

\* Change i of the node of m ends as c says.
Ends(m, i, c) ==
    /\ snap[m][i].state = "Doing" /\ c.option = snap[m][i].option
    /\ snap' = [snap EXCEPT ![m] = [snap[m] EXCEPT ![i] = c]]
    /\ \/ /\ c.state = "Done" /\ UNCHANGED errors
          /\ installed' = [installed EXCEPT ![m] = c.option]
       \/ /\ c.state = "Error" /\ errors < MaxErrors /\ errors' = errors + 1
          /\ UNCHANGED installed

\* FinishChange ends one running change, with or without success.
LEMMA FinishedChange ==
  ASSUME NEW m \in Machines, snap \in [Machines -> Seq(Changes)], FinishChange(m)
  PROVE  \E i \in DOMAIN snap[m], c \in Changes : Ends(m, i, c)
<1>1. PICK i \in DOMAIN snap[m], st \in {"Done", "Error"} :
         /\ snap[m][i].state = "Doing"
         /\ snap' = [snap EXCEPT ![m] = [snap[m] EXCEPT ![i] = [snap[m][i] EXCEPT !.state = st]]]
         /\ \/ st = "Done" /\ installed' = [installed EXCEPT ![m] = snap[m][i].option] /\ UNCHANGED errors
            \/ st = "Error" /\ UNCHANGED installed /\ errors < MaxErrors /\ errors' = errors + 1
  BY Zenon DEF FinishChange
<1>2. snap[m][i] \in Changes
  <2>1. snap[m] \in Seq(Changes)
    OBVIOUS
  <2>2. QED
    BY <2>1
<1> DEFINE c == [option |-> snap[m][i].option, state |-> st]
<1>3. [snap[m][i] EXCEPT !.state = st] = c /\ c \in Changes
  BY <1>2 DEF Changes
<1>4. c.option = snap[m][i].option /\ c.state = st
  OBVIOUS
<1> HIDE DEF c
<1>5. snap' = [snap EXCEPT ![m] = [snap[m] EXCEPT ![i] = c]]
  BY <1>1, <1>3, Zenon
<1>6. QED
  BY <1>1, <1>3, <1>4, <1>5, Zenon DEF Ends

\* The ids a reconcile, the cache and the API server hold are ids of changes
\* that were started.
TypeInv ==
    /\ UpgradeTypeOK
    /\ \A m \in Machines : phase[m] # "gone" => cacheAnn[m].change <= Len(snap[m])
    /\ upc # "idle" /\ phase[um] # "gone" =>
         seen.change <= Len(snap[um]) /\ next.change <= Len(snap[um])
    /\ upc # "idle" => seen.to # NoOption /\ phase[um] # "absent"

\* The parts of the types the steps below rely on.
LEMMA NodeTypes ==
  ASSUME TypeInv
  PROVE  \A m \in Machines :
           /\ snap[m] \in Seq(Changes) /\ Len(snap[m]) \in Nat
           /\ ann[m] \in Annotations /\ ann[m].change \in Nat /\ ann[m].change <= Len(snap[m])
           /\ cacheAnn[m] \in Annotations /\ cacheAnn[m].change \in Nat
BY DEF TypeInv, UpgradeTypeOK, Annotations

\* What the reconcile in progress holds are annotations.
LEMMA TaskTypes ==
  ASSUME TypeInv
  PROVE  /\ seen \in Annotations /\ seen.change \in Nat
         /\ next \in Annotations /\ next.change \in Nat
         /\ NoAnnotations \in Annotations
BY DEF TypeInv, UpgradeTypeOK, Annotations, NoAnnotations, Statuses

\* A step of one machine's upgrade keeps the types.
LEMMA StartType ==
  ASSUME TypeInv, NEW m \in Machines, StartReconcile(m)
  PROVE  TypeInv'
<1>1. /\ SeenAnn[m] \in Annotations /\ SeenAnn[m].change <= Len(snap[m])
      /\ SeenAnn[m].change \in Nat /\ SeenAnn[m].to # NoOption /\ Len(snap[m]) \in Nat
      /\ phase[m] # "absent"
  BY NodeTypes DEF StartReconcile, StartRequest, StartPoll, StartDone, TypeInv,
     StartFailed, StartInvalid, Requested, Exists, SeenAnn
<1>2. PICK step \in UpgradeSteps, b \in Annotations :
         /\ b.change \in Nat /\ b.change <= Len(snap[m])
         /\ Begin(m, step, SeenAnn[m], b)
  <2> DEFINE a == SeenAnn[m]
             Known(b) == b \in Annotations /\ (b.change = 0 \/ b.change = a.change)
  <2>1. /\ Known([a EXCEPT !.status = "none", !.change = 0, !.release = NoOption])
        /\ Known([a EXCEPT !.to = NoOption, !.change = 0, !.failed = FALSE, !.release = a.to])
        /\ Known([a EXCEPT !.status = "none", !.change = 0])
        /\ Known([a EXCEPT !.status = "failed", !.failed = TRUE])
        /\ Known(a)
    BY <1>1, ReconcileMarks, Zenon
  <2> HIDE DEF Known
  <2>2. \E step \in UpgradeSteps : \E b : Known(b) /\ Begin(m, step, SeenAnn[m], b)
    <3>1. {"clean", "poll", "patch"} \subseteq UpgradeSteps
      BY DEF UpgradeSteps
    <3>2. \/ Begin(m, "clean", a, [a EXCEPT !.status = "none", !.change = 0, !.release = NoOption])
          \/ Begin(m, "poll", a, a)
          \/ Begin(m, "patch", a, [a EXCEPT !.to = NoOption, !.change = 0, !.failed = FALSE, !.release = a.to])
          \/ Begin(m, "patch", a, [a EXCEPT !.status = "none", !.change = 0])
          \/ Begin(m, "patch", a, [a EXCEPT !.status = "failed", !.failed = TRUE])
      BY DEF StartReconcile, StartRequest, StartPoll, StartDone, StartFailed, StartInvalid
    <3>3. QED
      BY <2>1, <3>1, <3>2, Zenon
  <2>3. QED
    BY <1>1, <2>2 DEF Known
<1>3. /\ upc' \in UpgradeSteps /\ um' = m /\ seen' = SeenAnn[m] /\ next' = b
      /\ UNCHANGED <<phase, ann, cacheAnn, snap, installed, errors, failures, requests>>
  BY <1>2 DEF Begin, nodeVars
<1>4. UpgradeTypeOK'
  BY <1>1, <1>2, <1>3 DEF TypeInv, UpgradeTypeOK
<1>5. QED
  BY <1>1, <1>2, <1>3, <1>4 DEF TypeInv

\* What patch.Helper writes are annotations, and they name a change the node has.
LEMMA PatchedType ==
  ASSUME TypeInv, upc # "idle"
  PROVE  /\ Patched \in [Machines -> Annotations]
         /\ \A m \in Machines : Patched[m].change \in 0..Len(snap[m])
<1>1. um \in Machines /\ ann \in [Machines -> Annotations]
  BY DEF TypeInv, UpgradeTypeOK
<1>2. Merge(ann[um], seen, next) \in Annotations
      /\ Merge(ann[um], seen, next).change \in {ann[um].change, next.change}
  BY <1>1, NodeTypes, TaskTypes, MergeType
<1>3. CASE Exists(um)
  BY <1>1, <1>2, <1>3, NodeTypes, TaskTypes DEF Patched, Exists, TypeInv
<1>4. CASE ~Exists(um)
  BY <1>1, <1>4, NodeTypes DEF Patched
<1>5. QED
  BY <1>3, <1>4

\* The reconcile returns, with the annotations patched or not.
LEMMA ReturnType ==
  ASSUME TypeInv, UpgradeReturn, failures' \in 0..MaxFailures,
         ann' \in [Machines -> Annotations],
         \A m \in Machines : ann'[m].change \in 0..Len(snap[m]),
         UNCHANGED <<phase, cacheAnn, nodeVars, requests>>
  PROVE  TypeInv'
BY TaskTypes DEF TypeInv, UpgradeTypeOK, UpgradeReturn, nodeVars, UpgradeSteps

\* The call of SnapRefresh, answered, lost or refused, keeps the types.
LEMMA RefreshType ==
  ASSUME TypeInv, RefreshMachine
  PROVE  TypeInv'
<1> DEFINE c == [option |-> seen.to, state |-> "Doing"]
           started == [snap EXCEPT ![um] = Append(snap[um], c)]
<1>1. um \in Machines /\ snap \in [Machines -> Seq(Changes)] /\ seen.to \in Options
  BY DEF TypeInv, UpgradeTypeOK, RefreshMachine, Annotations
<1>2. c \in Changes
  BY <1>1 DEF Changes
<1>3. /\ started \in [Machines -> Seq(Changes)]
      /\ Len(started[um]) = Len(snap[um]) + 1
      /\ \A m \in Machines : m # um => started[m] = snap[m]
  BY <1>1, <1>2, NodeTypes, AppendChange
<1> HIDE DEF c
<1>4. CASE started # snap /\ snap' = started
  <2> HIDE DEF started
  <2>1. ASSUME NEW m \in Machines
        PROVE  Len(started[m]) \in Nat /\ Len(snap[m]) <= Len(started[m])
    <3>1. Len(snap[m]) \in Nat /\ Len(snap[um]) \in Nat
      BY <1>1, NodeTypes
    <3>2. CASE m = um
      BY <1>3, <3>1, <3>2
    <3>3. CASE m # um
      BY <1>3, <3>1, <3>3
    <3>4. QED
      BY <3>2, <3>3
  <2>2. \A m \in Machines : ann[m].change \in 0..Len(started[m])
    BY <2>1, NodeTypes
  <2>3. /\ \A m \in Machines : phase[m] # "gone" => cacheAnn[m].change <= Len(started[m])
        /\ phase[um] # "gone" => seen.change <= Len(started[um])
    BY <1>1, <2>1, NodeTypes, TaskTypes DEF TypeInv, RefreshMachine
  <2>4. /\ \/ UpgradeReturn
           \/ /\ next' = [next EXCEPT !.status = "in-progress", !.change = Len(started[um])]
              /\ upc' = "patch" /\ UNCHANGED <<um, seen>>
        /\ failures' \in 0..MaxFailures
        /\ UNCHANGED <<phase, ann, cacheAnn, installed, errors, requests>>
    BY <1>4 DEF RefreshMachine, started, c, Fail, TypeInv, UpgradeTypeOK
  <2>5. CASE UpgradeReturn
    BY <1>3, <1>4, <2>2, <2>3, <2>4, <2>5, TaskTypes
       DEF TypeInv, UpgradeTypeOK, UpgradeReturn, UpgradeSteps
  <2>6. CASE ~UpgradeReturn
    <3>1. next' \in Annotations /\ next'.change = Len(started[um])
      BY <1>1, <2>1, <2>4, <2>6, TaskTypes DEF Annotations, Statuses
    <3>2. QED
      BY <1>1, <1>3, <1>4, <2>1, <2>2, <2>3, <2>4, <2>6, <3>1
         DEF TypeInv, UpgradeTypeOK, UpgradeSteps, RefreshMachine
  <2>7. QED
    BY <2>5, <2>6
<1>5. CASE snap' = snap
  <2>1. CASE UpgradeReturn
    BY <1>5, <2>1, ReturnType, NodeTypes DEF RefreshMachine, nodeVars, Fail, TypeInv, UpgradeTypeOK
  <2>2. CASE snap' = started
    BY <1>1, <1>3, <1>5, <2>2, NodeTypes
  <2>3. QED
    BY <2>1, <2>2 DEF RefreshMachine, c
<1>6. QED
  BY <1>4, <1>5 DEF RefreshMachine, c

\* Every step of a reconcile that was started keeps the types.
LEMMA ContinueType ==
  ASSUME TypeInv, ContinueReconcile
  PROVE  TypeInv'
<1>1. CASE CleanAnnotations
  <2>1. /\ ann' \in [Machines -> Annotations]
        /\ \A m \in Machines : ann'[m].change \in 0..Len(snap[m])
        /\ failures' \in 0..MaxFailures
    BY <1>1, PatchedType, NodeTypes DEF CleanAnnotations, TypeInv, UpgradeTypeOK, Fail
  <2>2. CASE UpgradeReturn
    BY <1>1, <2>1, <2>2, ReturnType DEF CleanAnnotations
  <2>3. CASE ~UpgradeReturn
    <3>1. /\ upc = "clean" /\ upc' = "refresh"
          /\ UNCHANGED <<um, seen, next, phase, cacheAnn, snap, installed, errors, requests>>
      BY <1>1, <2>3 DEF CleanAnnotations, nodeVars
    <3>2. QED
      BY <2>1, <3>1 DEF TypeInv, UpgradeTypeOK, UpgradeSteps
  <2>4. QED
    BY <2>2, <2>3
<1>2. CASE RefreshMachine
  BY <1>2, RefreshType
<1>3. CASE PollRefreshStatus
  <2>1. CASE UpgradeReturn
    <3>1. /\ ann \in [Machines -> Annotations] /\ failures \in 0..MaxFailures
          /\ \A m \in Machines : ann[m].change \in 0..Len(snap[m])
      BY DEF TypeInv, UpgradeTypeOK
    <3>2. failures' = failures \/ Fail
      BY <1>3 DEF PollRefreshStatus
    <3>3. failures' \in 0..MaxFailures
      BY <3>1, <3>2 DEF Fail
    <3>4. UNCHANGED <<phase, ann, cacheAnn, nodeVars, requests>>
      BY <1>3 DEF PollRefreshStatus
    <3>5. QED
      BY <2>1, <3>1, <3>3, <3>4, ReturnType
  <2>2. CASE ~UpgradeReturn
    <3>1. /\ next' \in Annotations /\ next'.change = seen.change /\ upc' = "patch"
          /\ UNCHANGED <<um, seen, failures, phase, ann, cacheAnn, nodeVars, requests>>
          /\ upc = "poll"
      BY <1>3, <2>2, TaskTypes DEF PollRefreshStatus, Annotations, Statuses
    <3>2. QED
      BY <3>1 DEF TypeInv, UpgradeTypeOK, UpgradeSteps, nodeVars
  <2>3. QED
    BY <2>1, <2>2
<1>4. CASE PatchAnnotations
  <2>1. /\ ann \in [Machines -> Annotations] /\ failures \in 0..MaxFailures
        /\ \A m \in Machines : ann[m].change \in 0..Len(snap[m])
    BY DEF TypeInv, UpgradeTypeOK
  <2>2. /\ Patched \in [Machines -> Annotations]
        /\ \A m \in Machines : Patched[m].change \in 0..Len(snap[m])
    BY <1>4, PatchedType DEF PatchAnnotations
  <2>3. ann' \in {ann, Patched}
    BY <1>4 DEF PatchAnnotations
  <2>4. ann' \in [Machines -> Annotations] /\ \A m \in Machines : ann'[m].change \in 0..Len(snap[m])
    BY <2>1, <2>2, <2>3
  <2>5. failures' \in 0..MaxFailures
    BY <1>4, <2>1 DEF PatchAnnotations, Fail
  <2>6. UpgradeReturn /\ UNCHANGED <<phase, cacheAnn, nodeVars, requests>>
    BY <1>4 DEF PatchAnnotations
  <2>7. QED
    BY <2>4, <2>5, <2>6, ReturnType
<1>5. QED
  BY <1>1, <1>2, <1>3, <1>4 DEF ContinueReconcile

\* The manager, snapd and the owner of the Machine keep the types.
LEMMA EnvironmentType ==
  ASSUME TypeInv,
         \/ RestartBootstrap \/ SyncBootstrap
         \/ \E m \in Machines : \/ FinishChange(m) \/ CreateMachine(m) \/ DeleteMachine(m)
                                \/ MachineGone(m)
  PROVE  TypeInv'
<1>1. CASE RestartBootstrap \/ SyncBootstrap
  <2>1. cacheAnn' \in {ann, cacheAnn} /\ failures' \in 0..MaxFailures
    BY <1>1 DEF RestartBootstrap, SyncBootstrap, Fail, TypeInv, UpgradeTypeOK
  <2>2. \/ UpgradeReturn
        \/ UNCHANGED <<upc, um, seen, next>>
    BY <1>1 DEF RestartBootstrap, SyncBootstrap, taskVars
  <2>3. UNCHANGED <<phase, ann, snap, installed, errors, requests>>
    BY <1>1 DEF RestartBootstrap, SyncBootstrap, nodeVars
  <2>4. QED
    BY <2>1, <2>2, <2>3, NodeTypes, TaskTypes
       DEF TypeInv, UpgradeTypeOK, UpgradeReturn, UpgradeSteps
<1>2. ASSUME NEW m \in Machines, FinishChange(m)
      PROVE  TypeInv'
  <2>1. snap \in [Machines -> Seq(Changes)] /\ installed \in [Machines -> Options]
        /\ errors \in 0..MaxErrors /\ MaxErrors \in Nat
    BY DEF TypeInv, UpgradeTypeOK
  <2>2. PICK i \in DOMAIN snap[m], c \in Changes : Ends(m, i, c)
    BY <1>2, <2>1, FinishedChange
  <2>3. /\ snap' \in [Machines -> Seq(Changes)]
        /\ \A n \in Machines : Len(snap'[n]) = Len(snap[n])
    BY <2>1, <2>2, FinishOne DEF Ends
  <2>4. installed' \in [Machines -> Options] /\ errors' \in 0..MaxErrors
    <3>1. c.option \in Options
      BY DEF Changes
    <3>2. installed' \in {installed, [installed EXCEPT ![m] = c.option]}
      BY <2>2 DEF Ends
    <3>3. errors' = errors \/ (errors < MaxErrors /\ errors' = errors + 1)
      BY <2>2 DEF Ends
    <3>4. QED
      BY <2>1, <3>1, <3>2, <3>3
  <2>5. UNCHANGED <<phase, ann, cacheAnn, upc, um, seen, next, failures, requests>>
    BY <1>2 DEF FinishChange, taskVars
  <2>6. QED
    BY <2>3, <2>4, <2>5 DEF TypeInv, UpgradeTypeOK
<1>3. ASSUME NEW m \in Machines, CreateMachine(m) \/ DeleteMachine(m)
      PROVE  TypeInv'
  BY <1>3 DEF CreateMachine, DeleteMachine, TypeInv, UpgradeTypeOK, nodeVars, taskVars
<1>4. ASSUME NEW m \in Machines, MachineGone(m)
      PROVE  TypeInv'
  <2>1. /\ ann' \in [Machines -> Annotations] /\ snap' \in [Machines -> Seq(Changes)]
        /\ \A n \in Machines : ann'[n].change \in 0..Len(snap'[n])
        /\ phase' \in [Machines -> {"absent", "present", "deleting", "gone"}]
        /\ phase'[m] = "gone"
        /\ \A n \in Machines : n # m => phase'[n] = phase[n] /\ snap'[n] = snap[n]
        /\ UNCHANGED <<cacheAnn, installed, errors, upc, um, seen, next, failures, requests>>
    BY <1>4, NodeTypes, TaskTypes DEF MachineGone, TypeInv, UpgradeTypeOK, taskVars, NoAnnotations
  <2>2. QED
    BY <2>1 DEF TypeInv, UpgradeTypeOK
<1>5. QED
  BY <1>1, <1>2, <1>3, <1>4

\* A user's request, or a removed status, keeps the types.
LEMMA RequestType ==
  ASSUME TypeInv, NEW m \in Machines, DropStatus(m) \/ \E option \in Options : SetUpgradeTo(m, option)
  PROVE  TypeInv'
<1>1. PICK a \in Annotations : ann' = [ann EXCEPT ![m] = a] /\ a.change = ann[m].change
  <2>1. ann \in [Machines -> Annotations]
    BY DEF TypeInv, UpgradeTypeOK
  <2>2. CASE DropStatus(m)
    <3>1. [ann[m] EXCEPT !.status = "none"] \in Annotations
          /\ [ann[m] EXCEPT !.status = "none"].change = ann[m].change
      BY <2>1 DEF Annotations, Statuses
    <3>2. QED
      BY <2>1, <2>2, <3>1 DEF DropStatus
  <2>3. CASE \E option \in Options : SetUpgradeTo(m, option)
    <3>1. PICK option \in Options : SetUpgradeTo(m, option)
      BY <2>3
    <3>2. [ann[m] EXCEPT !.to = option] \in Annotations
          /\ [ann[m] EXCEPT !.to = option].change = ann[m].change
      BY <2>1 DEF Annotations
    <3>3. QED
      BY <2>1, <3>1, <3>2 DEF SetUpgradeTo
  <2>4. QED
    BY <2>2, <2>3
<1>2. /\ failures' \in 0..MaxFailures /\ requests' \in 0..MaxRequests
      /\ UNCHANGED <<phase, cacheAnn, snap, installed, errors, upc, um, seen, next>>
  BY DEF DropStatus, SetUpgradeTo, Fail, TypeInv, UpgradeTypeOK, nodeVars, taskVars
<1>3. QED
  BY <1>1, <1>2, NodeTypes DEF TypeInv, UpgradeTypeOK

\* A step of the machine's own actions, users included, keeps the types.
LEMMA TypeStep ==
  ASSUME TypeInv, [UpgradeNext]_upgradeVars
  PROVE  TypeInv'
<1>1. CASE UNCHANGED upgradeVars
  BY <1>1 DEF upgradeVars, nodeVars, taskVars, TypeInv, UpgradeTypeOK
<1>2. CASE UpgradeNext
  BY <1>2, StartType, ContinueType, EnvironmentType, RequestType DEF UpgradeNext, UpgradeStep
<1>3. QED
  BY <1>1, <1>2

\* A machine starts without annotations, and with no reconcile in progress.
LEMMA TypeInitially == UpgradeInit => TypeInv
<1> SUFFICES ASSUME UpgradeInit PROVE TypeInv
  OBVIOUS
<1>1. NoAnnotations \in Annotations /\ NoAnnotations.change = 0
  BY DEF NoAnnotations, Annotations, Statuses
<1>2. <<>> \in Seq(Changes) /\ Len(<<>>) = 0
  OBVIOUS
<1>3. QED
  BY <1>1, <1>2 DEF UpgradeInit, TypeInv, UpgradeTypeOK, UpgradeSteps

\* Annotations, changes and the reconcile in progress keep their types, and no
\* annotation names a change its node never started, however far the cache lags
\* and however many calls fail (RefreshMachine, patch.Helper).
THEOREM UpgradeTypeCorrect == UpgradeSpec => []UpgradeTypeOK
<1>1. TypeInv => UpgradeTypeOK
  BY DEF TypeInv
<1>2. QED
  BY <1>1, TypeInitially, TypeStep, PTL DEF UpgradeSpec

-----------------------------------------------------------------------------
(***************************************************************************)
(* The inductive invariant, for current reads and requests that are not    *)
(* replaced while they are carried out.                                    *)
(***************************************************************************)
\* The annotations of a Machine fit a node that has the changes s and runs o:
\* only the last change may be running, a recorded id is that of the last
\* change and belongs to the request, and a recorded release is installed.
Fits(a, s, o) ==
    LET last == s[Len(s)] IN
    /\ a.change # 0 =>
         /\ a.to # NoOption /\ a.release = NoOption
         /\ a.change = Len(s) /\ last.option = a.to
         /\ a.status = "done" => last.state = "Done"
    /\ a.change = 0 => a.status # "in-progress"
    /\ a.release # NoOption => o = a.release
    /\ a.release # NoOption /\ Len(s) > 0 => last.state # "Doing"
    /\ Len(s) > 0 /\ last.state = "Done" => o = last.option
    /\ \A i \in 1..Len(s) : i < Len(s) => s[i].state # "Doing"

\* The object a reconcile is about to patch, given the one it read.
Agree(nx, to, status, change, release) ==
    nx.to = to /\ nx.status = status /\ nx.change = change /\ nx.release = release

\* A refresh was started and its id is not recorded yet.
Started(sn, nx, a, s) ==
    /\ sn.change = 0 /\ Len(s) > 0 /\ s[Len(s)].option = sn.to
    /\ Agree(nx, sn.to, "in-progress", Len(s), NoOption)
    /\ a.release = NoOption /\ a.status = "none"

\* The reconcile at a step, with what it read and what it is about to patch, on
\* a machine with annotations a and changes s.
TaskFits(step, sn, nx, a, s) ==
    /\ sn.to # NoOption
    /\ sn.change # 0 => sn.release = NoOption
    /\ sn.change = 0 => sn.status # "in-progress"
    /\ a.to = sn.to /\ a.change = sn.change
    /\ a.status = sn.status \/ a.status = "none"
    /\ step = "clean" =>
         sn.change = 0 /\ Agree(nx, sn.to, "none", 0, NoOption) /\ a.release = sn.release
    /\ step = "refresh" =>
         /\ sn.change = 0 /\ Agree(nx, sn.to, "none", 0, NoOption)
         /\ a.release = NoOption /\ a.status = "none"
    /\ step = "poll" => sn.change # 0 /\ sn.status = "in-progress"
    /\ step = "patch" =>
         \/ Started(sn, nx, a, s)
         \/ /\ sn.change # 0 /\ sn.status = "in-progress"
            /\ \/ Agree(nx, sn.to, "done", sn.change, sn.release) /\ s[Len(s)].state = "Done"
               \/ Agree(nx, sn.to, "failed", sn.change, sn.release) /\ s[Len(s)].state = "Error"
         \/ /\ sn.change # 0 /\ sn.status = "done"
            /\ Agree(nx, NoOption, "done", 0, sn.to) /\ s[Len(s)].state = "Done"
         \/ /\ sn.change # 0 /\ sn.status = "failed"
            /\ Agree(nx, sn.to, "none", 0, sn.release)
         \/ /\ sn.change # 0 /\ sn.status = "none"
            /\ Agree(nx, sn.to, "failed", sn.change, sn.release)

UpgradeInv ==
    /\ \A m \in Machines : phase[m] # "gone" => Fits(ann[m], snap[m], installed[m])
    /\ upc # "idle" /\ phase[um] # "gone" => TaskFits(upc, seen, next, ann[um], snap[um])

-----------------------------------------------------------------------------
(***************************************************************************)
(* What the operations of a reconcile do to a machine that fits.           *)
(***************************************************************************)
\* A patch is decided annotation by annotation.
LEMMA MergeFields ==
  ASSUME NEW live, NEW before, NEW after
  PROVE  LET a == Merge(live, before, after)
         IN  /\ a.to = IF after.to # before.to THEN after.to ELSE live.to
             /\ a.status = IF after.status # before.status THEN after.status ELSE live.status
             /\ a.change = IF after.change # before.change THEN after.change ELSE live.change
             /\ a.release = IF after.release # before.release THEN after.release ELSE live.release
BY DEF Merge

\* The patches of a reconcile keep the annotations in line with the node.
LEMMA PatchFits ==
  ASSUME NEW step \in {"clean", "patch"}, NEW sn \in Annotations, NEW nx \in Annotations,
         NEW a \in Annotations, NEW s \in Seq(Changes), NEW o,
         a.change <= Len(s), Fits(a, s, o), TaskFits(step, sn, nx, a, s)
  PROVE  Fits(Merge(a, sn, nx), s, o)
<1> DEFINE b == Merge(a, sn, nx)
<1>1. /\ b.to = IF nx.to # sn.to THEN nx.to ELSE a.to
      /\ b.status = IF nx.status # sn.status THEN nx.status ELSE a.status
      /\ b.change = IF nx.change # sn.change THEN nx.change ELSE a.change
      /\ b.release = IF nx.release # sn.release THEN nx.release ELSE a.release
  BY MergeFields
<1>2. Len(s) \in Nat /\ a.change \in Nat /\ sn.change \in Nat /\ nx.change \in Nat
  BY DEF Annotations
<1> HIDE DEF b
<1> SUFFICES Fits(b, s, o)
  BY DEF b
<1>3. CASE step = "clean"
  BY <1>1, <1>2, <1>3 DEF Fits, TaskFits, Agree
<1>4. CASE step = "patch" /\ Started(sn, nx, a, s)
  BY <1>1, <1>2, <1>4 DEF Fits, TaskFits, Agree, Started
<1>5. CASE step = "patch" /\ ~Started(sn, nx, a, s)
  BY <1>1, <1>2, <1>5 DEF Fits, TaskFits, Agree
<1>6. QED
  BY <1>3, <1>4, <1>5

\* A refresh that was started keeps a machine without a recorded change in line.
LEMMA AppendFits ==
  ASSUME NEW a \in Annotations, NEW s \in Seq(Changes), NEW o, NEW c \in Changes,
         Fits(a, s, o), a.change = 0, a.release = NoOption, c.state = "Doing",
         \A i \in DOMAIN s : s[i].state # "Doing"
  PROVE  Fits(a, Append(s, c), o)
<1> DEFINE t == Append(s, c)
<1>1. /\ Len(s) \in Nat /\ Len(t) = Len(s) + 1 /\ t[Len(t)] = c
      /\ \A i \in 1..Len(s) : t[i] = s[i]
  BY AppendChange
<1>2. DOMAIN s = 1..Len(s)
  OBVIOUS
<1> HIDE DEF t
<1>3. \A i \in 1..Len(t) : i < Len(t) => t[i].state # "Doing"
  BY <1>1, <1>2
<1>4. QED
  BY <1>1, <1>3 DEF Fits, t

\* snapd ends the one change that is running.
LEMMA FinishFits ==
  ASSUME NEW a \in Annotations, NEW s \in Seq(Changes), NEW o, NEW i \in DOMAIN s,
         NEW c \in Changes, c.state # "Doing", c.option = s[i].option,
         Fits(a, s, o), s[i].state = "Doing"
  PROVE  /\ i = Len(s)
         /\ Fits(a, [s EXCEPT ![i] = c], IF c.state = "Done" THEN c.option ELSE o)
<1> DEFINE t == [s EXCEPT ![i] = c]
<1>1. Len(t) = Len(s) /\ t[i] = c /\ \A j \in 1..Len(s) : j # i => t[j] = s[j]
  BY FinishOne
<1>2. DOMAIN s = 1..Len(s) /\ Len(s) \in Nat
  OBVIOUS
<1>3. i = Len(s)
  <2>1. \A j \in 1..Len(s) : j < Len(s) => s[j].state # "Doing"
    BY DEF Fits
  <2>2. QED
    BY <1>2, <2>1
<1> HIDE DEF t
<1>4. \A j \in 1..Len(t) : j < Len(t) => t[j].state # "Doing"
  BY <1>1, <1>2, <1>3 DEF Fits
<1>5. a.release = NoOption /\ ~(a.change # 0 /\ a.status = "done")
  BY <1>2, <1>3 DEF Fits
<1>6. Fits(a, t, IF c.state = "Done" THEN c.option ELSE o)
  BY <1>1, <1>2, <1>3, <1>4, <1>5 DEF Fits
<1>7. QED
  BY <1>3, <1>6 DEF t

\* A request for a machine that has none.
LEMMA RequestFits ==
  ASSUME NEW a \in Annotations, NEW s, NEW o, NEW b, Fits(a, s, o),
         a.to = NoOption, b.change = a.change, b.status \in {a.status, "none"},
         b.release \in {a.release, NoOption}
  PROVE  Fits(b, s, o)
BY DEF Fits

-----------------------------------------------------------------------------
(***************************************************************************)
(* One step.                                                               *)
(***************************************************************************)
\* What a reconcile patches, as annotations.
LEMMA MarkFields ==
  ASSUME NEW a \in Annotations
  PROVE  /\ Agree([a EXCEPT !.status = "none", !.change = 0, !.release = NoOption],
                  a.to, "none", 0, NoOption)
         /\ Agree([a EXCEPT !.to = NoOption, !.change = 0, !.failed = FALSE, !.release = a.to],
                  NoOption, a.status, 0, a.to)
         /\ Agree([a EXCEPT !.status = "none", !.change = 0], a.to, "none", 0, a.release)
         /\ Agree([a EXCEPT !.status = "failed", !.failed = TRUE], a.to, "failed", a.change, a.release)
         /\ Agree([a EXCEPT !.status = "done"], a.to, "done", a.change, a.release)
<1>1. Agree([a EXCEPT !.status = "none", !.change = 0, !.release = NoOption],
            a.to, "none", 0, NoOption)
  BY DEF Agree, Annotations
<1>2. Agree([a EXCEPT !.to = NoOption, !.change = 0, !.failed = FALSE, !.release = a.to],
            NoOption, a.status, 0, a.to)
  BY DEF Agree, Annotations
<1>3. Agree([a EXCEPT !.status = "none", !.change = 0], a.to, "none", 0, a.release)
  BY DEF Agree, Annotations
<1>4. Agree([a EXCEPT !.status = "failed", !.failed = TRUE], a.to, "failed", a.change, a.release)
  BY DEF Agree, Annotations
<1>5. Agree([a EXCEPT !.status = "done"], a.to, "done", a.change, a.release)
  BY DEF Agree, Annotations
<1>6. QED
  BY <1>1, <1>2, <1>3, <1>4, <1>5, Zenon

\* Reconcile reads the machine and dispatches.
LEMMA InvStart ==
  ASSUME TypeInv, UpgradeInv, "bootstrap" \notin Lagging,
         NEW m \in Machines, StartReconcile(m)
  PROVE  UpgradeInv'
<1> DEFINE a == ann[m]
<1>1. /\ a \in Annotations /\ a.to # NoOption /\ phase[m] # "gone" /\ upc = "idle"
      /\ SeenAnn[m] = a /\ Fits(a, snap[m], installed[m]) /\ a.status \in Statuses
  BY NodeTypes DEF StartReconcile, StartRequest, StartPoll, StartDone, StartFailed,
     StartInvalid, Requested, Exists, SeenAnn, UpgradeInv, Annotations
<1> HIDE DEF a
<1>2. \/ a.change = 0 /\ Begin(m, "clean", a, [a EXCEPT !.status = "none", !.change = 0, !.release = NoOption])
      \/ a.change # 0 /\ a.status = "in-progress" /\ Begin(m, "poll", a, a)
      \/ a.change # 0 /\ a.status = "done"
         /\ Begin(m, "patch", a, [a EXCEPT !.to = NoOption, !.change = 0, !.failed = FALSE, !.release = a.to])
      \/ a.change # 0 /\ a.status = "failed"
         /\ Begin(m, "patch", a, [a EXCEPT !.status = "none", !.change = 0])
      \/ a.change # 0 /\ a.status = "none"
         /\ Begin(m, "patch", a, [a EXCEPT !.status = "failed", !.failed = TRUE])
  BY <1>1 DEF StartReconcile, StartRequest, StartPoll, StartDone, StartFailed, StartInvalid, Statuses
<1>3. /\ um' = m /\ seen' = a
      /\ UNCHANGED <<phase, ann, snap, installed>>
  BY <1>2 DEF Begin, nodeVars
<1>4. \/ a.change = 0 /\ upc' = "clean" /\ Agree(next', a.to, "none", 0, NoOption)
      \/ a.change # 0 /\ a.status = "in-progress" /\ upc' = "poll"
      \/ a.change # 0 /\ a.status = "done" /\ upc' = "patch" /\ Agree(next', NoOption, a.status, 0, a.to)
      \/ a.change # 0 /\ a.status = "failed" /\ upc' = "patch" /\ Agree(next', a.to, "none", 0, a.release)
      \/ a.change # 0 /\ a.status = "none" /\ upc' = "patch" /\ Agree(next', a.to, "failed", a.change, a.release)
  BY <1>1, <1>2, MarkFields, Zenon DEF Begin
<1>5. TaskFits(upc', seen', next', a, snap[m])
  BY <1>1, <1>3, <1>4 DEF TaskFits, Fits
<1>6. QED
  BY <1>1, <1>3, <1>5 DEF UpgradeInv, a

\* The reconcile returns, with the annotations patched or not.
LEMMA InvReturn ==
  ASSUME TypeInv, UpgradeInv, UpgradeReturn, upc \in {"clean", "patch"} \/ ann' = ann,
         ann' \in {ann, Patched}, UNCHANGED <<phase, snap, installed>>
  PROVE  UpgradeInv'
<1>1. CASE ann' = ann
  BY <1>1 DEF UpgradeInv, UpgradeReturn
<1>2. CASE upc \in {"clean", "patch"} /\ ann' = Patched /\ Exists(um)
  <2>1. um \in Machines /\ phase[um] # "gone" /\ ann \in [Machines -> Annotations]
        /\ installed \in [Machines -> Options]
    BY <1>2 DEF TypeInv, UpgradeTypeOK, Exists
  <2>2. Fits(Merge(ann[um], seen, next), snap[um], installed[um])
    BY <1>2, <2>1, NodeTypes, TaskTypes, PatchFits DEF UpgradeInv
  <2>3. ann' = [ann EXCEPT ![um] = Merge(ann[um], seen, next)]
    BY <1>2 DEF Patched
  <2>4. QED
    BY <2>1, <2>2, <2>3 DEF UpgradeInv, UpgradeReturn
<1>3. QED
  BY <1>1, <1>2 DEF Patched

\* Every step of a reconcile keeps machine and node in line.
LEMMA InvContinue ==
  ASSUME TypeInv, UpgradeInv, ContinueReconcile
  PROVE  UpgradeInv'
<1>1. CASE CleanAnnotations
  <2>1. CASE UpgradeReturn
    BY <1>1, <2>1, InvReturn DEF CleanAnnotations, nodeVars
  <2>2. CASE ~UpgradeReturn
    <3>1. /\ upc = "clean" /\ upc' = "refresh" /\ Exists(um) /\ ann' = Patched
          /\ UNCHANGED <<um, seen, next, phase, snap, installed>>
      BY <1>1, <2>2 DEF CleanAnnotations, nodeVars
    <3>2. um \in Machines /\ phase[um] # "gone" /\ ann \in [Machines -> Annotations]
          /\ installed \in [Machines -> Options]
      BY <3>1 DEF TypeInv, UpgradeTypeOK, Exists
    <3>3. TaskFits("clean", seen, next, ann[um], snap[um])
      BY <3>1, <3>2 DEF UpgradeInv
    <3>4. Fits(Merge(ann[um], seen, next), snap[um], installed[um])
      BY <3>2, <3>3, NodeTypes, TaskTypes, PatchFits DEF UpgradeInv
    <3>5. TaskFits("refresh", seen, next, Merge(ann[um], seen, next), snap[um])
      BY <3>3, MergeFields DEF TaskFits, Agree
    <3>6. ann' = [ann EXCEPT ![um] = Merge(ann[um], seen, next)]
      BY <3>1 DEF Patched
    <3>7. QED
      BY <3>1, <3>2, <3>4, <3>5, <3>6 DEF UpgradeInv
  <2>3. QED
    BY <2>1, <2>2
<1>2. CASE RefreshMachine
  <2> DEFINE c == [option |-> seen.to, state |-> "Doing"]
             started == [snap EXCEPT ![um] = Append(snap[um], c)]
  <2>1. /\ um \in Machines /\ snap \in [Machines -> Seq(Changes)] /\ c \in Changes
        /\ c.state = "Doing" /\ c.option = seen.to /\ upc = "refresh"
        /\ UNCHANGED <<phase, ann, installed>>
    BY <1>2 DEF TypeInv, UpgradeTypeOK, RefreshMachine, Annotations, Changes
  <2>2. CASE snap' = snap /\ UpgradeReturn
    BY <2>1, <2>2, InvReturn
  <2>3. CASE Exists(um) /\ ~Doing(um) /\ snap' = started
    <3>1. phase[um] # "gone" /\ TaskFits("refresh", seen, next, ann[um], snap[um])
          /\ Fits(ann[um], snap[um], installed[um])
          /\ \A i \in DOMAIN snap[um] : snap[um][i].state # "Doing"
      BY <2>1, <2>3 DEF Exists, UpgradeInv, Doing
    <3>2. ann[um].change = 0 /\ ann[um].release = NoOption
      BY <3>1 DEF TaskFits
    <3> HIDE DEF c
    <3>3. Fits(ann[um], Append(snap[um], c), installed[um])
      BY <2>1, <3>1, <3>2, NodeTypes, AppendFits
    <3>4. \A m \in Machines : phase'[m] # "gone" => Fits(ann[m], snap'[m], installed[m])
      BY <2>1, <2>3, <3>3 DEF UpgradeInv
    <3>5. CASE UpgradeReturn
      BY <2>1, <3>4, <3>5 DEF UpgradeInv, UpgradeReturn
    <3>6. CASE ~UpgradeReturn
      <4>1. /\ upc' = "patch" /\ UNCHANGED <<um, seen>>
            /\ next' = [next EXCEPT !.status = "in-progress", !.change = Len(started[um])]
        BY <1>2, <3>6 DEF RefreshMachine, c
      <4>2. snap'[um] = Append(snap[um], c) /\ started[um] = Append(snap[um], c)
        BY <2>1, <2>3
      <4>3. /\ Len(Append(snap[um], c)) > 0
            /\ Append(snap[um], c)[Len(Append(snap[um], c))] = c
            /\ Len(Append(snap[um], c)) \in Nat
        BY <2>1, AppendChange, NodeTypes
      <4> HIDE DEF started
      <4>4. Agree(next', next.to, "in-progress", Len(started[um]), next.release)
        BY <4>1, TaskTypes DEF Agree, Annotations
      <4>5. TaskFits("patch", seen, next', ann[um], snap'[um])
        BY <2>1, <3>1, <4>2, <4>3, <4>4 DEF TaskFits, Agree, Started
      <4>6. QED
        BY <2>1, <3>4, <4>1, <4>5 DEF UpgradeInv
    <3>7. QED
      BY <3>5, <3>6
  <2>4. QED
    BY <1>2, <2>2, <2>3 DEF RefreshMachine
<1>3. CASE PollRefreshStatus
  <2>1. upc = "poll" /\ UNCHANGED <<phase, ann, snap, installed>>
    BY <1>3 DEF PollRefreshStatus, nodeVars
  <2>2. CASE UpgradeReturn
    BY <2>1, <2>2, InvReturn
  <2>3. CASE ~UpgradeReturn
    <3>1. /\ Exists(um) /\ upc' = "patch" /\ UNCHANGED <<um, seen>>
          /\ \/ snap[um][seen.change].state = "Done" /\ next' = [seen EXCEPT !.status = "done"]
             \/ snap[um][seen.change].state = "Error" /\ next' = [seen EXCEPT !.status = "failed", !.failed = TRUE]
      BY <1>3, <2>3 DEF PollRefreshStatus, GetRefreshStatusForMachine
    <3>2. \/ snap[um][seen.change].state = "Done" /\ Agree(next', seen.to, "done", seen.change, seen.release)
          \/ snap[um][seen.change].state = "Error" /\ Agree(next', seen.to, "failed", seen.change, seen.release)
      BY <3>1, TaskTypes, MarkFields, Zenon
    <3>3. um \in Machines /\ phase[um] # "gone" /\ TaskFits("poll", seen, next, ann[um], snap[um])
          /\ Fits(ann[um], snap[um], installed[um])
      BY <2>1, <3>1 DEF UpgradeInv, Exists, TypeInv, UpgradeTypeOK
    <3>4. TaskFits("patch", seen, next', ann[um], snap[um])
      BY <3>2, <3>3 DEF TaskFits, Fits
    <3>5. QED
      BY <2>1, <3>1, <3>3, <3>4 DEF UpgradeInv
  <2>4. QED
    BY <2>2, <2>3
<1>4. CASE PatchAnnotations
  BY <1>4, InvReturn DEF PatchAnnotations, nodeVars
<1>5. QED
  BY <1>1, <1>2, <1>3, <1>4 DEF ContinueReconcile

\* A restart or a cache update ends nothing that was recorded; snapd ends the
\* change that runs, which is the last; a Machine that comes or goes has no changes.
LEMMA InvEnvironment ==
  ASSUME TypeInv, UpgradeInv,
         \/ RestartBootstrap \/ SyncBootstrap
         \/ \E m \in Machines : \/ FinishChange(m) \/ CreateMachine(m) \/ DeleteMachine(m)
                                \/ MachineGone(m)
  PROVE  UpgradeInv'
<1>1. CASE RestartBootstrap \/ SyncBootstrap
  BY <1>1 DEF RestartBootstrap, SyncBootstrap, nodeVars, taskVars, UpgradeReturn, UpgradeInv
<1>2. ASSUME NEW m \in Machines, FinishChange(m)
      PROVE  UpgradeInv'
  <2>1. /\ UNCHANGED <<phase, ann, upc, um, seen, next>>
        /\ snap \in [Machines -> Seq(Changes)] /\ installed \in [Machines -> Options]
        /\ upc # "idle" => um \in Machines
    BY <1>2 DEF FinishChange, taskVars, TypeInv, UpgradeTypeOK
  <2>2. PICK i \in DOMAIN snap[m], c \in Changes : Ends(m, i, c)
    BY <1>2, <2>1, FinishedChange
  <2>3. /\ snap'[m] = [snap[m] EXCEPT ![i] = c]
        /\ installed'[m] = IF c.state = "Done" THEN c.option ELSE installed[m]
        /\ \A n \in Machines : n # m => snap'[n] = snap[n] /\ installed'[n] = installed[n]
        /\ c.state # "Doing"
    <3>1. CASE c.state = "Done" /\ installed' = [installed EXCEPT ![m] = c.option]
      BY <2>1, <2>2, <3>1 DEF Ends
    <3>2. CASE c.state = "Error" /\ installed' = installed
      BY <2>1, <2>2, <3>2 DEF Ends
    <3>3. QED
      BY <2>2, <3>1, <3>2 DEF Ends
  <2>4. CASE phase[m] # "gone"
    <3>1. i = Len(snap[m]) /\ Fits(ann[m], snap'[m], installed'[m])
      <4>1. Fits(ann[m], snap[m], installed[m]) /\ ann[m] \in Annotations /\ snap[m] \in Seq(Changes)
        BY <2>4, NodeTypes DEF UpgradeInv
      <4>2. QED
        BY <2>2, <2>3, <4>1, FinishFits DEF Ends
    <3>2. CASE upc # "idle" /\ um = m
      <4>1. TaskFits(upc, seen, next, ann[m], snap[m])
        BY <2>4, <3>2 DEF UpgradeInv
      <4>2. /\ Len(snap'[m]) = Len(snap[m]) /\ snap'[m][i] = c
            /\ snap[m] \in Seq(Changes)
        BY <2>3, NodeTypes, FinishOne
      <4>3. TaskFits(upc, seen, next, ann[m], snap'[m])
        BY <2>2, <3>1, <4>1, <4>2 DEF TaskFits, Started, Ends
      <4>4. QED
        BY <2>1, <2>3, <3>1, <3>2, <4>3 DEF UpgradeInv
    <3>3. CASE ~(upc # "idle" /\ um = m)
      BY <2>1, <2>3, <3>1, <3>3 DEF UpgradeInv
    <3>4. QED
      BY <3>2, <3>3
  <2>5. CASE phase[m] = "gone"
    BY <2>1, <2>3, <2>5 DEF UpgradeInv
  <2>6. QED
    BY <2>4, <2>5
<1>3. ASSUME NEW m \in Machines, CreateMachine(m) \/ DeleteMachine(m) \/ MachineGone(m)
      PROVE  UpgradeInv'
  <2>1. /\ UNCHANGED <<installed, upc, um, seen, next>>
        /\ \A n \in Machines : phase'[n] # "gone" =>
             phase[n] # "gone" /\ ann'[n] = ann[n] /\ snap'[n] = snap[n]
        /\ upc # "idle" => um \in Machines
    BY <1>3 DEF CreateMachine, DeleteMachine, MachineGone, nodeVars, taskVars, TypeInv, UpgradeTypeOK
  <2>2. QED
    BY <2>1 DEF UpgradeInv
<1>4. QED
  BY <1>1, <1>2, <1>3

\* Someone asks for the upgrade of a machine that has no request.
LEMMA InvMark ==
  ASSUME TypeInv, UpgradeInv, NEW m \in Machines, NEW b \in Annotations,
         ann[m].to = NoOption, b.change = ann[m].change,
         b.status \in {ann[m].status, "none"}, b.release \in {ann[m].release, NoOption},
         ann' = [ann EXCEPT ![m] = b],
         UNCHANGED <<phase, snap, installed, upc, um, seen, next>>
  PROVE  UpgradeInv'
<1>1. ann \in [Machines -> Annotations] /\ (upc # "idle" => um \in Machines)
  BY DEF TypeInv, UpgradeTypeOK
<1>2. phase[m] # "gone" => Fits(b, snap[m], installed[m])
  BY NodeTypes, RequestFits DEF UpgradeInv
<1>3. upc # "idle" /\ phase[um] # "gone" => um # m
  BY DEF UpgradeInv, TaskFits
<1>4. QED
  BY <1>1, <1>2, <1>3 DEF UpgradeInv

\* A user's request that replaces none, or a removed status.
LEMMA InvRequest ==
  ASSUME TypeInv, UpgradeInv, ~Retarget,
         NEW m \in Machines, DropStatus(m) \/ \E option \in Options : SetUpgradeTo(m, option)
  PROVE  UpgradeInv'
<1>1. /\ ann \in [Machines -> Annotations] /\ (upc # "idle" => um \in Machines)
      /\ UNCHANGED <<phase, snap, installed, upc, um, seen, next>>
  BY DEF TypeInv, UpgradeTypeOK, DropStatus, SetUpgradeTo, nodeVars, taskVars
<1>2. CASE DropStatus(m)
  <2> DEFINE b == [ann[m] EXCEPT !.status = "none"]
  <2>1. /\ b.to = ann[m].to /\ b.change = ann[m].change /\ b.release = ann[m].release
        /\ b.status = "none"
    BY <1>1 DEF Annotations
  <2>2. ann' = [ann EXCEPT ![m] = b]
    BY <1>2 DEF DropStatus
  <2> HIDE DEF b
  <2>3. phase[m] # "gone" => Fits(b, snap[m], installed[m])
    BY <2>1 DEF UpgradeInv, Fits
  <2>4. upc # "idle" /\ um = m /\ phase[m] # "gone" => TaskFits(upc, seen, next, b, snap[m])
    <3>1. SUFFICES ASSUME TaskFits(upc, seen, next, ann[m], snap[m])
                   PROVE  TaskFits(upc, seen, next, b, snap[m])
      BY DEF UpgradeInv
    <3>2. QED
      BY <2>1, <3>1 DEF TaskFits, Started
  <2>5. QED
    BY <1>1, <2>2, <2>3, <2>4 DEF UpgradeInv
<1>3. ASSUME NEW option \in Options, SetUpgradeTo(m, option)
      PROVE  UpgradeInv'
  <2> DEFINE b == [ann[m] EXCEPT !.to = option]
  <2>1. b \in Annotations /\ b.change = ann[m].change /\ b.release = ann[m].release
        /\ b.status = ann[m].status
    BY <1>1 DEF Annotations
  <2>2. ann' = [ann EXCEPT ![m] = b] /\ ann[m].to = NoOption
    BY <1>3 DEF SetUpgradeTo
  <2> HIDE DEF b
  <2>3. QED
    BY <1>1, <2>1, <2>2, InvMark
<1>4. QED
  BY <1>2, <1>3

\* A machine without annotations fits a node without changes.
LEMMA InvInitially == UpgradeInit => UpgradeInv
BY DEF UpgradeInit, UpgradeInv, Fits, NoAnnotations

\* The invariant is inductive.
LEMMA InvStep ==
  ASSUME TypeInv, UpgradeInv, "bootstrap" \notin Lagging, ~Retarget, [UpgradeNext]_upgradeVars
  PROVE  UpgradeInv'
<1>1. CASE UNCHANGED upgradeVars
  BY <1>1 DEF upgradeVars, nodeVars, taskVars, UpgradeInv
<1>2. CASE UpgradeNext
  BY <1>2, InvStart, InvContinue, InvEnvironment, InvRequest DEF UpgradeNext, UpgradeStep
<1>3. QED
  BY <1>1, <1>2

\* The release annotation of a machine names the release its node runs, across
\* failed and lost calls, crashes, failed refreshes and removed statuses, as
\* long as the machine is read as it is and a request is not replaced while it
\* is carried out (handleUpgradeRequest clears it before the refresh,
\* handleUpgradeDone sets it).
THEOREM ReleaseCorrect ==
  ASSUME "bootstrap" \notin Lagging, ~Retarget
  PROVE  UpgradeSpec => []ReleaseIsInstalled
<1>1. UpgradeInv => ReleaseIsInstalled
  BY DEF UpgradeInv, ReleaseIsInstalled, Fits, Exists
<1>2. TypeInv /\ [UpgradeNext]_upgradeVars => TypeInv'
  BY TypeStep
<1>3. TypeInv /\ UpgradeInv /\ [UpgradeNext]_upgradeVars => UpgradeInv'
  BY InvStep
<1>4. QED
  BY <1>1, <1>2, <1>3, TypeInitially, InvInitially, PTL DEF UpgradeSpec

-----------------------------------------------------------------------------
(***************************************************************************)
(* How often a node is refreshed.                                          *)
(***************************************************************************)
\* One more refresh of m may follow without any further request or fault.  A
\* refresh whose id is about to be recorded is not owed again.
Owed(m) ==
    LET a == ann[m] s == snap[m] IN
    /\ a.to # NoOption
    /\ IF upc = "patch" /\ um = m /\ seen.change = 0
       THEN s[Len(s)].state = "Error"
       ELSE \/ a.change = 0
            \/ a.status \notin {"in-progress", "done"}
            \/ s[Len(s)].state = "Error"

Paid(m) ==
    /\ Len(snap[m]) <= requests + errors + failures
    /\ Owed(m) => Len(snap[m]) < requests + errors + failures

\* Every refresh of an existing node is paid for, the one that is owed included.
CreditInv == \A m \in Machines : phase[m] # "gone" => Paid(m)

\* A step that owes nothing new.
LEMMA PaidUnchanged ==
  ASSUME TypeInv, TypeInv', NEW m \in Machines, Paid(m), Len(snap'[m]) = Len(snap[m]),
         requests' >= requests, errors' >= errors, failures' >= failures,
         Owed(m)' => Owed(m) \/ requests' + errors' + failures' > requests + errors + failures
  PROVE  Paid(m)'
<1>1. /\ requests \in Nat /\ errors \in Nat /\ failures \in Nat
      /\ requests' \in Nat /\ errors' \in Nat /\ failures' \in Nat
      /\ Len(snap[m]) \in Nat
  BY NodeTypes DEF TypeInv, UpgradeTypeOK
<1> DEFINE credit == requests + errors + failures
           credit2 == requests' + errors' + failures'
           spent == Len(snap[m])
<1>2. credit \in Nat /\ credit2 \in Nat /\ credit <= credit2 /\ spent \in Nat
  BY <1>1
<1>3. spent <= credit /\ (Owed(m) => spent < credit)
  BY DEF Paid
<1>4. Owed(m)' => Owed(m) \/ credit2 > credit
  OBVIOUS
<1>5. Len(snap'[m]) = spent
  OBVIOUS
<1> HIDE DEF credit, credit2, spent
<1>6. spent <= credit2 /\ (Owed(m)' => spent < credit2)
  BY <1>2, <1>3, <1>4
<1>7. QED
  BY <1>5, <1>6 DEF Paid, credit2

\* A machine the step does not touch owes what it owed.
LEMMA PaidElsewhere ==
  ASSUME TypeInv, TypeInv', NEW m \in Machines, Paid(m),
         ann'[m] = ann[m], snap'[m] = snap[m],
         upc = "idle" \/ um # m, upc' = "idle" \/ um' # m \/ upc' # "patch",
         requests' >= requests, errors' >= errors, failures' >= failures
  PROVE  Paid(m)'
<1>1. Owed(m)' => Owed(m)
  BY DEF Owed
<1>2. QED
  BY <1>1, PaidUnchanged

\* Reading a machine and deciding what to do owes nothing.
LEMMA CreditStart ==
  ASSUME TypeInv, TypeInv', UpgradeInv, CreditInv, "bootstrap" \notin Lagging,
         NEW m \in Machines, StartReconcile(m)
  PROVE  CreditInv'
<1>1. /\ UNCHANGED <<phase, ann, snap, errors, failures, requests>>
      /\ upc = "idle" /\ um' = m /\ seen' = ann[m]
      /\ upc' = "patch" => ann[m].change # 0
  BY DEF StartReconcile, StartRequest, StartPoll, StartDone, StartFailed, StartInvalid,
     Requested, SeenAnn, Begin, nodeVars
<1>2. \A n \in Machines : Owed(n)' => Owed(n)
  BY <1>1 DEF Owed
<1>3. requests' >= requests /\ errors' >= errors /\ failures' >= failures
  BY <1>1 DEF TypeInv, UpgradeTypeOK
<1>4. QED
  BY <1>1, <1>2, <1>3, PaidUnchanged DEF CreditInv

\* A reconcile refreshes what is owed, and a failure on the way pays for the next.
LEMMA CreditContinue ==
  ASSUME TypeInv, TypeInv', UpgradeInv, UpgradeInv', CreditInv, ContinueReconcile
  PROVE  CreditInv'
<1>1. /\ {requests, errors, failures, failures'} \subseteq Nat /\ um \in Machines
      /\ UNCHANGED <<phase, requests, errors>>
      /\ failures' = failures \/ failures' = failures + 1
      /\ ann \in [Machines -> Annotations] /\ snap \in [Machines -> Seq(Changes)]
      /\ installed \in [Machines -> Options]
  BY DEF TypeInv, UpgradeTypeOK, ContinueReconcile, CleanAnnotations, RefreshMachine,
     PollRefreshStatus, PatchAnnotations, Fail, nodeVars
<1>2. ASSUME NEW m \in Machines, m # um, phase[m] # "gone"
      PROVE  Paid(m)'
  <2>1. ann'[m] = ann[m] /\ snap'[m] = snap[m] /\ (um' = um \/ upc' = "idle")
    BY <1>1, <1>2 DEF ContinueReconcile, CleanAnnotations, RefreshMachine, PollRefreshStatus,
       PatchAnnotations, Patched, nodeVars, UpgradeReturn
  <2>2. QED
    <3>1. requests' >= requests /\ errors' >= errors /\ failures' >= failures
      BY <1>1
    <3>2. upc = "idle" \/ um # m
      BY <1>2
    <3>3. upc' = "idle" \/ um' # m \/ upc' # "patch"
      BY <1>2, <2>1
    <3>4. Paid(m)
      BY <1>2 DEF CreditInv
    <3>5. QED
      BY <1>2, <2>1, <3>1, <3>2, <3>3, <3>4, PaidElsewhere
<1>3. ASSUME NEW m \in Machines, m = um, phase[m] # "gone"
      PROVE  Paid(m)'
  <2> DEFINE a == ann[m]
             s == snap[m]
             b == Merge(a, seen, next)
  <2>1. /\ Paid(m) /\ TaskFits(upc, seen, next, a, s) /\ Fits(a, s, installed[m])
        /\ a.change \in Nat /\ a.change <= Len(s) /\ Len(s) \in Nat
    BY <1>1, <1>3, NodeTypes DEF CreditInv, UpgradeInv, ContinueReconcile, CleanAnnotations,
       RefreshMachine, PollRefreshStatus, PatchAnnotations
  <2>2. /\ b.to = IF next.to # seen.to THEN next.to ELSE a.to
        /\ b.status = IF next.status # seen.status THEN next.status ELSE a.status
        /\ b.change = IF next.change # seen.change THEN next.change ELSE a.change
        /\ b.release = IF next.release # seen.release THEN next.release ELSE a.release
    BY MergeFields
  <2>3. ann' \in {ann, Patched} => ann'[m] \in {a, b}
    BY <1>1, <1>3 DEF Patched
  <2> HIDE DEF a, s, b
  <2>4. CASE CleanAnnotations
    <3>1. /\ ann'[m] \in {a, b} /\ snap'[m] = s /\ upc = "clean" /\ upc' # "patch"
      BY <1>3, <2>3, <2>4 DEF CleanAnnotations, UpgradeReturn, nodeVars, s
    <3>2. Owed(m)
      BY <1>3, <2>1, <3>1 DEF Owed, TaskFits, a, s
    <3>3. QED
      BY <1>1, <1>3, <2>1, <3>1, <3>2, PaidUnchanged DEF s
  <2>5. CASE RefreshMachine
    <3>1. /\ upc = "refresh" /\ UNCHANGED ann /\ Owed(m)
      BY <1>3, <2>1, <2>5 DEF RefreshMachine, Owed, TaskFits, a, s
    <3>2. CASE snap' = snap
      BY <1>1, <1>3, <2>1, <3>1, <3>2, PaidUnchanged DEF s
    <3>3. CASE snap' # snap
      <4> DEFINE c == [option |-> seen.to, state |-> "Doing"]
      <4>1. /\ c \in Changes /\ c.state = "Doing"
            /\ snap' = [snap EXCEPT ![m] = Append(snap[m], c)]
            /\ \/ upc' = "patch" /\ UNCHANGED <<um, seen, failures>>
               \/ upc' = "idle" /\ failures' = failures + 1
        BY <1>3, <2>5, <3>3 DEF RefreshMachine, Changes, TypeInv, UpgradeTypeOK, Annotations, Fail, UpgradeReturn
      <4> HIDE DEF c
      <4>2. /\ snap'[m] = Append(s, c) /\ Len(snap'[m]) = Len(s) + 1
            /\ snap'[m][Len(snap'[m])] = c
        BY <1>1, <1>3, <2>1, <4>1, AppendChange, NodeTypes DEF s
      <4>3. CASE upc' = "idle" /\ failures' = failures + 1
        BY <1>1, <1>3, <2>1, <3>1, <4>2, <4>3 DEF Paid, s
      <4>4. CASE upc' = "patch" /\ UNCHANGED <<um, seen, failures>>
        <5>1. ~Owed(m)'
          BY <1>3, <2>1, <3>1, <4>1, <4>2, <4>4 DEF Owed, TaskFits
        <5>2. QED
          BY <1>1, <1>3, <2>1, <3>1, <4>2, <4>4, <5>1 DEF Paid, s
      <4>5. QED
        BY <4>1, <4>3, <4>4
    <3>4. QED
      BY <1>3, <3>2, <3>3
  <2>6. CASE PollRefreshStatus
    <3>1. /\ upc = "poll" /\ UNCHANGED <<ann, snap>>
          /\ upc' = "patch" => seen' = seen
      BY <1>3, <2>6 DEF PollRefreshStatus, nodeVars, UpgradeReturn
    <3>2. Owed(m)' => Owed(m)
      BY <1>3, <2>1, <3>1 DEF Owed, TaskFits
    <3>3. QED
      BY <1>1, <1>3, <2>1, <3>1, <3>2, PaidUnchanged
  <2>7. CASE PatchAnnotations
    <3>1. /\ upc = "patch" /\ upc' = "idle" /\ UNCHANGED snap
          /\ \/ ann'[m] = a /\ failures' = failures + 1
             \/ ann'[m] = b
             \/ ~Exists(um) /\ ann'[m] = a
      BY <1>3, <2>7, <1>1, <1>3 DEF PatchAnnotations, Patched, UpgradeReturn, Fail, nodeVars, a, b
    <3>2. CASE failures' = failures + 1
      BY <1>1, <1>3, <2>1, <3>1, <3>2, PaidUnchanged
    <3>3. CASE failures' = failures /\ Exists(um)
      <4>1. Owed(m)' => Owed(m)
        <5>1. ann'[m] = b
          BY <1>1, <1>3, <3>1, <3>3
        <5>2. TaskFits("patch", seen, next, a, s)
          BY <2>1, <3>1
        <5>3. CASE Started(seen, next, a, s)
          BY <1>3, <2>1, <2>2, <3>1, <5>1, <5>2, <5>3
             DEF Owed, TaskFits, Fits, Started, Agree, a, s
        <5>4. CASE ~Started(seen, next, a, s)
          BY <1>3, <2>1, <2>2, <3>1, <5>1, <5>2, <5>4 DEF Owed, TaskFits, Fits, Agree, a, s
        <5>5. QED
          BY <5>3, <5>4
      <4>2. QED
        BY <1>1, <1>3, <2>1, <3>1, <3>3, <4>1, PaidUnchanged
    <3>4. Exists(um)
      BY <1>1, <1>3, <3>1 DEF TypeInv, UpgradeTypeOK, Exists
    <3>5. QED
      BY <1>1, <3>2, <3>3, <3>4
  <2>8. QED
    BY <1>3, <2>4, <2>5, <2>6, <2>7 DEF ContinueReconcile
<1>4. QED
  BY <1>1, <1>2, <1>3 DEF CreditInv

\* A change that ends in an error owes a refresh, and counts as one.
LEMMA CreditEnvironment ==
  ASSUME TypeInv, TypeInv', UpgradeInv, CreditInv,
         \/ RestartBootstrap \/ SyncBootstrap
         \/ \E m \in Machines : \/ FinishChange(m) \/ CreateMachine(m) \/ DeleteMachine(m)
                                \/ MachineGone(m)
  PROVE  CreditInv'
<1>1. /\ requests \in Nat /\ errors \in Nat /\ failures \in Nat
      /\ snap \in [Machines -> Seq(Changes)]
  BY DEF TypeInv, UpgradeTypeOK
<1>2. CASE RestartBootstrap \/ SyncBootstrap
  <2>1. /\ UNCHANGED <<phase, ann, snap, requests, errors>>
        /\ failures' = failures + 1 \/ UNCHANGED <<failures, upc, um, seen>>
    BY <1>2 DEF RestartBootstrap, SyncBootstrap, Fail, nodeVars, taskVars
  <2>2. requests' >= requests /\ errors' >= errors /\ failures' >= failures
    BY <1>1, <2>1
  <2>3. ASSUME NEW m \in Machines, Paid(m)
        PROVE  Paid(m)'
    <3>1. Owed(m)' => Owed(m) \/ requests' + errors' + failures' > requests + errors + failures
      BY <1>1, <2>1 DEF Owed
    <3>2. QED
      BY <2>1, <2>2, <2>3, <3>1, PaidUnchanged
  <2>4. QED
    BY <2>1, <2>3 DEF CreditInv
<1>3. ASSUME NEW m \in Machines, FinishChange(m)
      PROVE  CreditInv'
  <2>1. UNCHANGED <<phase, ann, upc, um, seen, next, failures, requests>>
    BY <1>3 DEF FinishChange, taskVars
  <2>2. PICK i \in DOMAIN snap[m], c \in Changes : Ends(m, i, c)
    BY <1>1, <1>3, FinishedChange
  <2>3. /\ snap'[m] = [snap[m] EXCEPT ![i] = c]
        /\ \A n \in Machines : n # m => snap'[n] = snap[n]
        /\ \/ c.state = "Done" /\ errors' = errors
           \/ errors' = errors + 1
    BY <1>1, <2>2 DEF Ends
  <2>4. /\ snap'[m][i] = c /\ Len(snap'[m]) = Len(snap[m])
        /\ \A j \in 1..Len(snap[m]) : j # i => snap'[m][j] = snap[m][j]
    <3>1. snap[m] \in Seq(Changes)
      BY <1>1
    <3>2. QED
      BY <2>3, <3>1, FinishOne
  <2>5. requests' >= requests /\ errors' >= errors /\ failures' >= failures
    BY <1>1, <2>1, <2>3
  <2>6. ASSUME NEW n \in Machines, Paid(n), phase[n] # "gone"
        PROVE  Paid(n)'
    <3>1. CASE n # m
      <4>1. Owed(n)' => Owed(n)
        BY <2>1, <2>3, <3>1 DEF Owed
      <4>2. QED
        BY <2>3, <2>5, <2>6, <3>1, <4>1, PaidUnchanged
    <3>2. CASE n = m /\ errors' = errors + 1
      <4>1. Owed(n)' => Owed(n) \/ requests' + errors' + failures' > requests + errors + failures
        BY <1>1, <2>1, <3>2
      <4>2. QED
        BY <2>4, <2>5, <2>6, <3>2, <4>1, PaidUnchanged
    <3>3. CASE n = m /\ c.state = "Done"
      <4>1. snap[m] \in Seq(Changes) /\ Fits(ann[m], snap[m], installed[m])
        BY <1>1, <2>6, <3>3 DEF UpgradeInv
      <4>2. i = Len(snap[m])
        BY <2>2, <4>1 DEF Ends, Fits
      <4>3. Owed(n)' => Owed(n)
        BY <2>1, <2>4, <3>3, <4>2 DEF Owed
      <4>4. QED
        BY <2>4, <2>5, <2>6, <3>3, <4>3, PaidUnchanged
    <3>4. QED
      BY <2>3, <3>1, <3>2, <3>3
  <2>7. QED
    BY <2>1, <2>6 DEF CreditInv
<1>4. ASSUME NEW m \in Machines, CreateMachine(m) \/ DeleteMachine(m) \/ MachineGone(m)
      PROVE  CreditInv'
  <2>1. /\ UNCHANGED <<upc, um, seen, requests, errors, failures>>
        /\ \A n \in Machines : phase'[n] # "gone" =>
             phase[n] # "gone" /\ ann'[n] = ann[n] /\ snap'[n] = snap[n]
    BY <1>4 DEF CreateMachine, DeleteMachine, MachineGone, nodeVars, taskVars, TypeInv, UpgradeTypeOK
  <2>2. QED
    BY <2>1 DEF CreditInv, Paid, Owed
<1>5. QED
  BY <1>2, <1>3, <1>4

\* A request owes one refresh and pays for it; a removed status is a failure.
LEMMA CreditRequest ==
  ASSUME TypeInv, TypeInv', UpgradeInv, CreditInv,
         NEW m \in Machines, DropStatus(m) \/ \E option \in Options : SetUpgradeTo(m, option)
  PROVE  CreditInv'
<1>1. /\ requests \in Nat /\ errors \in Nat /\ failures \in Nat
      /\ UNCHANGED <<phase, snap, errors, upc, um, seen, next>>
      /\ \/ requests' = requests + 1 /\ failures' = failures
         \/ failures' = failures + 1 /\ requests' = requests
  BY DEF DropStatus, SetUpgradeTo, Fail, nodeVars, taskVars, TypeInv, UpgradeTypeOK
<1>2. /\ requests' >= requests /\ errors' >= errors /\ failures' >= failures
      /\ requests' + errors' + failures' > requests + errors + failures
  BY <1>1
<1>3. \A n \in Machines : Paid(n) => Paid(n)'
  BY <1>1, <1>2, PaidUnchanged
<1>4. QED
  BY <1>1, <1>3 DEF CreditInv

\* A machine without changes owes nothing a request has not paid for.
LEMMA CreditInitially == UpgradeInit => CreditInv
BY DEF UpgradeInit, CreditInv, Paid, Owed, NoAnnotations

\* Every refresh stays paid for.
LEMMA CreditStep ==
  ASSUME TypeInv, TypeInv', UpgradeInv, UpgradeInv', CreditInv, "bootstrap" \notin Lagging,
         [UpgradeNext]_upgradeVars
  PROVE  CreditInv'
<1>1. CASE UNCHANGED upgradeVars
  BY <1>1 DEF upgradeVars, nodeVars, taskVars, CreditInv, Paid, Owed
<1>2. CASE UpgradeNext
  BY <1>2, CreditStart, CreditContinue, CreditEnvironment, CreditRequest DEF UpgradeNext, UpgradeStep
<1>3. QED
  BY <1>1, <1>2

\* A machine that is gone took its changes with it.
GoneNodes == \A m \in Machines : phase[m] = "gone" => snap[m] = <<>>

\* A node that is gone has no changes.
LEMMA GoneStep ==
  ASSUME TypeInv, GoneNodes,
         \/ UpgradeStep \/ RestartBootstrap \/ SyncBootstrap \/ UNCHANGED <<phase, snap>>
         \/ \E m \in Machines : CreateMachine(m) \/ DeleteMachine(m) \/ MachineGone(m)
  PROVE  GoneNodes'
<1>1. phase \in [Machines -> {"absent", "present", "deleting", "gone"}] /\ snap \in [Machines -> Seq(Changes)]
      /\ (upc # "idle" => um \in Machines)
  BY DEF TypeInv, UpgradeTypeOK
<1>2. CASE UNCHANGED <<phase, snap>>
  BY <1>2 DEF GoneNodes
<1>3. CASE RefreshMachine
  BY <1>1, <1>3 DEF RefreshMachine, GoneNodes, Exists
<1>4. ASSUME NEW m \in Machines, FinishChange(m)
      PROVE  GoneNodes'
  <2>0. PICK i \in DOMAIN snap[m], c \in Changes : Ends(m, i, c)
    BY <1>1, <1>4, FinishedChange
  <2>1. UNCHANGED phase /\ \A n \in Machines : n # m => snap'[n] = snap[n]
    <3>1. UNCHANGED phase
      BY <1>4 DEF FinishChange
    <3>2. snap' = [snap EXCEPT ![m] = [snap[m] EXCEPT ![i] = c]]
      BY <2>0 DEF Ends
    <3>3. QED
      BY <1>1, <3>1, <3>2
  <2>2. phase[m] # "gone"
    <3>1. snap[m] # <<>>
      BY <2>0
    <3>2. QED
      BY <3>1 DEF GoneNodes
  <2>3. QED
    BY <2>1, <2>2 DEF GoneNodes
<1>5. ASSUME NEW m \in Machines, CreateMachine(m) \/ DeleteMachine(m) \/ MachineGone(m)
      PROVE  GoneNodes'
  BY <1>1, <1>5 DEF CreateMachine, DeleteMachine, MachineGone, GoneNodes, nodeVars
<1>6. CASE \/ CleanAnnotations \/ PollRefreshStatus \/ PatchAnnotations
           \/ RestartBootstrap \/ SyncBootstrap \/ \E m \in Machines : StartReconcile(m)
  <2>1. UNCHANGED <<phase, snap>>
    BY <1>6 DEF CleanAnnotations, PollRefreshStatus, PatchAnnotations, RestartBootstrap,
       SyncBootstrap, StartReconcile, StartRequest, StartPoll, StartDone, StartFailed,
       StartInvalid, Begin, nodeVars
  <2>2. QED
    BY <2>1, <1>2
<1>7. QED
  BY <1>2, <1>3, <1>4, <1>5, <1>6 DEF UpgradeStep, ContinueReconcile

\* Lost answers, failed patches, crashes, failed refreshes and removed statuses
\* make a node refresh again, but never more often than once for each of them and
\* for each request (Reconcile's dispatch on the change id, handleUpgradeFailed).
THEOREM RefreshesArePaid ==
  ASSUME "bootstrap" \notin Lagging, ~Retarget
  PROVE  UpgradeSpec => []NoNeedlessRefresh
<1>1. TypeInv /\ CreditInv /\ GoneNodes => NoNeedlessRefresh
  <2>1. SUFFICES ASSUME TypeInv, CreditInv, GoneNodes, NEW m \in Machines
                 PROVE  Len(snap[m]) <= requests + errors + failures
    BY DEF NoNeedlessRefresh
  <2>2. requests \in Nat /\ errors \in Nat /\ failures \in Nat
    BY <2>1 DEF TypeInv, UpgradeTypeOK
  <2>3. QED
    BY <2>1, <2>2 DEF CreditInv, Paid, GoneNodes
<1>2. TypeInv /\ [UpgradeNext]_upgradeVars => TypeInv'
  BY TypeStep
<1>3. TypeInv /\ UpgradeInv /\ [UpgradeNext]_upgradeVars => UpgradeInv'
  BY InvStep
<1>4. /\ TypeInv /\ TypeInv' /\ UpgradeInv /\ UpgradeInv' /\ CreditInv
      /\ [UpgradeNext]_upgradeVars
      => CreditInv'
  BY CreditStep
<1>5. TypeInv /\ GoneNodes /\ [UpgradeNext]_upgradeVars => GoneNodes'
  BY GoneStep DEF UpgradeNext, DropStatus, SetUpgradeTo, upgradeVars, nodeVars
<1>6. UpgradeInit => GoneNodes
  BY DEF UpgradeInit, GoneNodes
<1>7. QED
  BY <1>1, <1>2, <1>3, <1>4, <1>5, <1>6, TypeInitially, InvInitially, CreditInitially, PTL
     DEF UpgradeSpec

-----------------------------------------------------------------------------
(***************************************************************************)
(* What the orchestrators rely on: their marks, and what the bootstrap     *)
(* manager does to the machines meanwhile.                                 *)
(***************************************************************************)
\* The marks of the orchestrator are annotations.
LEMMA MarkTypes ==
  ASSUME NEW a \in Annotations, NEW option \in Options
  PROVE  /\ MarkMachineToUpgrade(a, option) \in Annotations
         /\ MarkUpgradeFailed(a) \in Annotations
         /\ MarkUpgradeInProgress(a, option) \in Annotations
         /\ MarkUpgradeDone(a, option) \in Annotations
         /\ MarkMachineToUpgrade(a, option).change = 0
         /\ GetUpgradeInstructions(a) \in Options \cup {NoOption}
         /\ NoAnnotations \in Annotations
BY DEF MarkMachineToUpgrade, MarkUpgradeFailed, MarkUpgradeInProgress, MarkUpgradeDone,
       GetUpgradeInstructions, NoAnnotations, Annotations, Statuses

\* What a mark makes of the annotations it was computed from.
LEMMA MarkedFields ==
  ASSUME NEW a \in Annotations, NEW option \in Options
  PROVE  LET b == Merge(a, a, MarkMachineToUpgrade(a, option))
         IN  /\ b \in Annotations
             /\ b.to = option /\ b.status = "none" /\ b.change = 0 /\ b.release = NoOption
<1> DEFINE mark == MarkMachineToUpgrade(a, option)
           b == Merge(a, a, mark)
<1>1. /\ mark \in Annotations
      /\ mark.to = option /\ mark.status = "none" /\ mark.change = 0 /\ mark.release = NoOption
  BY DEF MarkMachineToUpgrade, NoAnnotations, Annotations, Statuses
<1> HIDE DEF mark
<1>2. b \in Annotations
  BY <1>1, MergeType
<1>3. /\ b.to = IF mark.to # a.to THEN mark.to ELSE a.to
      /\ b.status = IF mark.status # a.status THEN mark.status ELSE a.status
      /\ b.change = IF mark.change # a.change THEN mark.change ELSE a.change
      /\ b.release = IF mark.release # a.release THEN mark.release ELSE a.release
  BY MergeFields
<1> HIDE DEF b
<1>4. /\ b \in Annotations
      /\ b.to = option /\ b.status = "none" /\ b.change = 0 /\ b.release = NoOption
  BY <1>1, <1>2, <1>3
<1>5. QED
  BY <1>4 DEF b, mark

\* A machine without a request is left alone; one with a request keeps it or
\* exchanges it for the release it asked for.
Effect(m) ==
    Exists(m)' =>
        /\ Exists(m)
        /\ ann[m].to = NoOption => ann'[m] = ann[m] /\ Len(snap'[m]) = Len(snap[m])
        /\ ann[m].to # NoOption /\ ann[m].release = NoOption =>
             \/ ann'[m].to = ann[m].to /\ ann'[m].release = NoOption
             \/ ann'[m].to = NoOption /\ ann'[m].release = ann[m].to

\* A patch of the machine reconciler keeps the request or completes it.
LEMMA PatchTo ==
  ASSUME NEW a \in Annotations, NEW sn \in Annotations, NEW nx \in Annotations, NEW s,
         NEW step \in {"clean", "patch"}, TaskFits(step, sn, nx, a, s), a.release = NoOption
  PROVE  LET b == Merge(a, sn, nx)
         IN  \/ b.to = a.to /\ b.release = NoOption
             \/ b.to = NoOption /\ b.release = a.to
<1> DEFINE b == Merge(a, sn, nx)
<1>1. /\ b.to = IF nx.to # sn.to THEN nx.to ELSE a.to
      /\ b.release = IF nx.release # sn.release THEN nx.release ELSE a.release
  BY MergeFields
<1> HIDE DEF b
<1>2. \/ b.to = a.to /\ b.release = NoOption
      \/ b.to = NoOption /\ b.release = a.to
  BY <1>1 DEF TaskFits, Started, Agree
<1>3. QED
  BY <1>2 DEF b

\* The steps that are not the orchestrator's have no other effect on a machine.
LEMMA MachineEffect ==
  ASSUME TypeInv, UpgradeInv, \A m \in Machines : phase[m] # "absent",
         \/ UpgradeStep \/ RestartBootstrap \/ SyncBootstrap
         \/ \E m \in Machines : CreateMachine(m) \/ DeleteMachine(m) \/ MachineGone(m)
  PROVE  \A m \in Machines : Effect(m) /\ phase'[m] # "absent"
<1>1. /\ phase \in [Machines -> {"absent", "present", "deleting", "gone"}]
      /\ ann \in [Machines -> Annotations] /\ snap \in [Machines -> Seq(Changes)]
      /\ (upc # "idle" => um \in Machines)
  BY DEF TypeInv, UpgradeTypeOK
<1>2. ASSUME UNCHANGED <<phase, ann, snap>>
      PROVE  \A m \in Machines : Effect(m) /\ phase'[m] # "absent"
  BY <1>2 DEF Effect, Exists
<1>3. CASE \/ \E m \in Machines : StartReconcile(m) \/ PollRefreshStatus
           \/ RestartBootstrap \/ SyncBootstrap
  <2>1. UNCHANGED <<phase, ann, snap>>
    BY <1>3 DEF PollRefreshStatus, RestartBootstrap, SyncBootstrap, StartReconcile,
       StartRequest, StartPoll, StartDone, StartFailed, StartInvalid, Begin, nodeVars
  <2>2. QED
    BY <1>2, <2>1
<1>4. CASE CleanAnnotations \/ PatchAnnotations
  <2>1. /\ upc \in {"clean", "patch"} /\ (ann' = ann \/ ann' = Patched)
        /\ UNCHANGED <<phase, snap>>
    BY <1>4 DEF CleanAnnotations, PatchAnnotations, nodeVars
  <2>2. CASE ann' = ann
    BY <1>2, <2>1, <2>2
  <2>3. CASE ann' # ann
    <3> DEFINE b == Merge(ann[um], seen, next)
    <3>1. Exists(um) /\ ann' = [ann EXCEPT ![um] = b]
      BY <2>1, <2>3 DEF Patched
    <3>2. /\ um \in Machines /\ ann[um] \in Annotations
          /\ TaskFits(upc, seen, next, ann[um], snap[um])
      BY <1>1, <2>1, <3>1 DEF UpgradeInv, Exists
    <3>3. ann[um].to # NoOption
      BY <3>2 DEF TaskFits
    <3>4. ann[um].release = NoOption =>
             \/ b.to = ann[um].to /\ b.release = NoOption
             \/ b.to = NoOption /\ b.release = ann[um].to
      BY <2>1, <3>2, PatchTo, TaskTypes
    <3> HIDE DEF b
    <3>5. /\ ann'[um] = b /\ \A m \in Machines : m # um => ann'[m] = ann[m]
      BY <1>1, <3>1, <3>2
    <3>6. QED
      BY <2>1, <3>1, <3>2, <3>3, <3>4, <3>5 DEF Effect, Exists
  <2>4. QED
    BY <2>2, <2>3
<1>5. CASE RefreshMachine
  <2>1. /\ upc = "refresh" /\ um \in Machines /\ UNCHANGED <<phase, ann>>
        /\ \A m \in Machines : m # um => snap'[m] = snap[m]
    BY <1>1, <1>5 DEF RefreshMachine
  <2>2. Exists(um) => ann[um].to # NoOption
    BY <2>1 DEF UpgradeInv, TaskFits, Exists
  <2>3. QED
    BY <2>1, <2>2 DEF Effect, Exists
<1>6. ASSUME NEW n \in Machines, FinishChange(n)
      PROVE  \A m \in Machines : Effect(m) /\ phase'[m] # "absent"
  <2>1. PICK i \in DOMAIN snap[n], c \in Changes : Ends(n, i, c)
    BY <1>1, <1>6, FinishedChange
  <2>2. snap' = [snap EXCEPT ![n] = [snap[n] EXCEPT ![i] = c]]
    BY <2>1 DEF Ends
  <2>3. snap[n] \in Seq(Changes) /\ Len([snap[n] EXCEPT ![i] = c]) = Len(snap[n])
    BY <1>1, <2>1
  <2>4. \A m \in Machines : Len(snap'[m]) = Len(snap[m])
    BY <1>1, <2>2, <2>3
  <2>5. UNCHANGED <<phase, ann>>
    BY <1>6 DEF FinishChange
  <2>6. QED
    BY <2>4, <2>5 DEF Effect, Exists
<1>7. ASSUME NEW n \in Machines, CreateMachine(n) \/ DeleteMachine(n) \/ MachineGone(n)
      PROVE  \A m \in Machines : Effect(m) /\ phase'[m] # "absent"
  BY <1>1, <1>7 DEF CreateMachine, DeleteMachine, MachineGone, nodeVars, Effect, Exists
<1>8. QED
  BY <1>3, <1>4, <1>5, <1>6, <1>7 DEF UpgradeStep, ContinueReconcile

-----------------------------------------------------------------------------
(***************************************************************************)
(* The machines in turns: what the orchestrated upgrades need to implement *)
(* RollingUpgrade.                                                         *)
(***************************************************************************)
\* A change that is running is one the Machine's request asked for.
RunsFor(a, s) == Len(s) > 0 /\ s[Len(s)].state = "Doing" => s[Len(s)].option = a.to

RunningInv == \A m \in Machines : phase[m] # "gone" => RunsFor(ann[m], snap[m])

\* A patch of the reconciler withdraws no request whose change is running.
LEMMA PatchRuns ==
  ASSUME NEW a \in Annotations, NEW sn \in Annotations, NEW nx \in Annotations, NEW s,
         NEW step \in {"clean", "patch"}, TaskFits(step, sn, nx, a, s), RunsFor(a, s)
  PROVE  RunsFor(Merge(a, sn, nx), s)
<1> DEFINE b == Merge(a, sn, nx)
<1>1. b.to = IF nx.to # sn.to THEN nx.to ELSE a.to
  BY MergeFields
<1> HIDE DEF b
<1>2. b.to = a.to \/ s[Len(s)].state = "Done"
  BY <1>1 DEF TaskFits, Started, Agree
<1>3. RunsFor(b, s)
  BY <1>2 DEF RunsFor
<1>4. QED
  BY <1>3 DEF b

\* What the machines do by themselves starts changes for requests only.
LEMMA RunningMachines ==
  ASSUME TypeInv, UpgradeInv, RunningInv,
         \/ UpgradeStep \/ RestartBootstrap \/ SyncBootstrap
         \/ \E m \in Machines : CreateMachine(m) \/ DeleteMachine(m) \/ MachineGone(m)
  PROVE  RunningInv'
<1>1. /\ ann \in [Machines -> Annotations] /\ snap \in [Machines -> Seq(Changes)]
      /\ (upc # "idle" => um \in Machines)
  BY DEF TypeInv, UpgradeTypeOK
<1>2. ASSUME UNCHANGED <<phase, ann, snap>>
      PROVE  RunningInv'
  BY <1>2 DEF RunningInv
<1>3. CASE \/ \E m \in Machines : StartReconcile(m)
           \/ PollRefreshStatus \/ RestartBootstrap \/ SyncBootstrap
  <2>1. UNCHANGED <<phase, ann, snap>>
    BY <1>3 DEF PollRefreshStatus, RestartBootstrap, SyncBootstrap, StartReconcile,
       StartRequest, StartPoll, StartDone, StartFailed, StartInvalid, Begin, nodeVars
  <2>2. QED
    BY <1>2, <2>1
<1>4. CASE CleanAnnotations \/ PatchAnnotations
  <2>1. /\ upc \in {"clean", "patch"} /\ (ann' = ann \/ ann' = Patched)
        /\ UNCHANGED <<phase, snap>>
    BY <1>4 DEF CleanAnnotations, PatchAnnotations, nodeVars
  <2>2. CASE ann' = ann
    BY <1>2, <2>1, <2>2
  <2>3. CASE ann' # ann
    <3> DEFINE b == Merge(ann[um], seen, next)
    <3>1. Exists(um) /\ ann' = [ann EXCEPT ![um] = b]
      BY <2>1, <2>3 DEF Patched
    <3>2. /\ um \in Machines /\ ann[um] \in Annotations
          /\ TaskFits(upc, seen, next, ann[um], snap[um]) /\ RunsFor(ann[um], snap[um])
      BY <1>1, <2>1, <3>1 DEF UpgradeInv, RunningInv, Exists
    <3>3. RunsFor(b, snap[um])
      BY <2>1, <3>2, PatchRuns, TaskTypes
    <3> HIDE DEF b
    <3>4. /\ ann'[um] = b /\ \A m \in Machines : m # um => ann'[m] = ann[m]
      BY <1>1, <3>1, <3>2
    <3>5. QED
      BY <2>1, <3>3, <3>4 DEF RunningInv
  <2>4. QED
    BY <2>2, <2>3
<1>5. CASE RefreshMachine
  <2> DEFINE c == [option |-> seen.to, state |-> "Doing"]
             s == Append(snap[um], c)
  <2>1. /\ upc = "refresh" /\ um \in Machines /\ UNCHANGED <<phase, ann>>
        /\ \/ snap' = snap
           \/ Exists(um) /\ snap' = [snap EXCEPT ![um] = s]
    BY <1>1, <1>5 DEF RefreshMachine
  <2>2. CASE snap' = snap
    BY <1>2, <2>1, <2>2
  <2>3. CASE Exists(um) /\ snap' = [snap EXCEPT ![um] = s]
    <3>1. ann[um].to = seen.to
      BY <2>1, <2>3 DEF UpgradeInv, TaskFits, Exists
    <3>2. seen.to \in Options /\ c \in Changes /\ c.option = seen.to
      BY <1>5, TaskTypes DEF TypeInv, Annotations, Changes, RefreshMachine
    <3> HIDE DEF c
    <3>3. Len(s) = Len(snap[um]) + 1 /\ s[Len(snap[um]) + 1] = c /\ s \in Seq(Changes)
      BY <1>1, <2>1, <3>2, AppendChange
    <3> HIDE DEF s
    <3>4. RunsFor(ann[um], s)
      BY <3>1, <3>2, <3>3 DEF RunsFor
    <3>5. /\ snap'[um] = s /\ \A m \in Machines : m # um => snap'[m] = snap[m]
      BY <1>1, <2>1, <2>3
    <3>6. QED
      BY <2>1, <3>4, <3>5 DEF RunningInv
  <2>4. QED
    BY <2>1, <2>2, <2>3
<1>6. ASSUME NEW n \in Machines, FinishChange(n)
      PROVE  RunningInv'
  <2>1. PICK i \in DOMAIN snap[n], c \in Changes : Ends(n, i, c)
    BY <1>1, <1>6, FinishedChange
  <2>2. /\ snap' = [snap EXCEPT ![n] = [snap[n] EXCEPT ![i] = c]] /\ c.state # "Doing"
        /\ c.option = snap[n][i].option /\ snap[n][i].state = "Doing"
    BY <2>1 DEF Ends
  <2> DEFINE s == [snap[n] EXCEPT ![i] = c]
  <2>3. UNCHANGED <<phase, ann>>
    BY <1>6 DEF FinishChange
  <2>4. /\ snap'[n] = s /\ \A m \in Machines : m # n => snap'[m] = snap[m]
    BY <1>1, <2>2
  <2>5. snap[n] \in Seq(Changes) /\ Len(s) = Len(snap[n]) /\ s[i] = c
    BY <1>1, <2>1, FinishOne
  <2>6. phase[n] # "gone" => i = Len(snap[n])
    <3>1. SUFFICES ASSUME phase[n] # "gone" PROVE i = Len(snap[n])
      OBVIOUS
    <3>2. Fits(ann[n], snap[n], installed[n]) /\ ann[n] \in Annotations
      BY <3>1, NodeTypes DEF UpgradeInv
    <3>3. /\ c.option = snap[n][i].option /\ snap[n][i].state = "Doing" /\ c.state # "Doing"
          /\ snap[n] \in Seq(Changes)
      BY <2>2, <2>5
    <3>4. QED
      BY <2>1, <3>2, <3>3, FinishFits
  <2> HIDE DEF s
  <2>7. phase[n] # "gone" => RunsFor(ann[n], s)
    BY <2>2, <2>5, <2>6 DEF RunsFor
  <2>8. QED
    BY <2>3, <2>4, <2>7 DEF RunningInv
<1>7. ASSUME NEW n \in Machines, CreateMachine(n) \/ DeleteMachine(n) \/ MachineGone(n)
      PROVE  RunningInv'
  <2>1. \A m \in Machines : phase'[m] # "gone" =>
             phase[m] # "gone" /\ ann'[m] = ann[m] /\ snap'[m] = snap[m]
    BY <1>7 DEF CreateMachine, DeleteMachine, MachineGone, nodeVars, TypeInv, UpgradeTypeOK
  <2>2. QED
    BY <2>1 DEF RunningInv
<1>8. QED
  BY <1>3, <1>4, <1>5, <1>6, <1>7 DEF UpgradeStep, ContinueReconcile

\* A machine without a request has nothing running, so a mark fits.
LEMMA RunningMark ==
  ASSUME TypeInv, RunningInv, NEW m \in Machines, NEW b, Exists(m), ann[m].to = NoOption,
         ann' = [ann EXCEPT ![m] = b], UNCHANGED <<phase, snap>>
  PROVE  RunningInv'
<1>1. /\ ann \in [Machines -> Annotations] /\ snap[m] \in Seq(Changes) /\ Len(snap[m]) \in Nat
  BY NodeTypes DEF TypeInv, UpgradeTypeOK
<1>2. Len(snap[m]) > 0 => snap[m][Len(snap[m])] \in Changes
  BY <1>1
<1>3. ~(Len(snap[m]) > 0 /\ snap[m][Len(snap[m])].state = "Doing")
  BY <1>2 DEF RunningInv, RunsFor, Exists, Changes
<1>4. /\ ann'[m] = b /\ \A n \in Machines : n # m => ann'[n] = ann[n]
  BY <1>1
<1>5. QED
  BY <1>3, <1>4 DEF RunningInv, RunsFor

\* The state of the machines that RollingUpgrade sees.
Members  == {m \in Machines : Exists(m)}
Turns    == [m \in Machines |-> ann[m].to]
Releases == [m \in Machines |-> ann[m].release]

\* RollingUpgrade's steps of one machine.
Installs(m) ==
    /\ m \in Members /\ Turns[m] # NoOption
    /\ installed' = [installed EXCEPT ![m] = Turns[m]]
    /\ UNCHANGED <<Members, Turns, Releases>>

EndsTurn(m) ==
    /\ m \in Members /\ Turns[m] # NoOption /\ installed[m] = Turns[m]
    /\ Turns' = [Turns EXCEPT ![m] = NoOption]
    /\ Releases' = [Releases EXCEPT ![m] = Turns[m]]
    /\ UNCHANGED <<Members, installed>>

Leaves(m) ==
    /\ Members' = Members \ {m}
    /\ Turns' = [Turns EXCEPT ![m] = NoOption]
    /\ Releases' = [Releases EXCEPT ![m] = NoOption]
    /\ UNCHANGED installed

\* A machine that takes its turn names no release.
TurnInv == \A m \in Machines : Exists(m) /\ ann[m].to # NoOption => ann[m].release = NoOption

\* A patch of the machine in its turn changes nothing that shows, or ends it with
\* the request installed.
LEMMA RollingPatch ==
  ASSUME TypeInv, UpgradeInv, UpgradeInv', TurnInv, upc \in {"clean", "patch"},
         ann' = Patched, UNCHANGED <<phase, installed>>
  PROVE  UNCHANGED <<Members, Turns, Releases, installed>> \/ EndsTurn(um)
<1>1. /\ ann \in [Machines -> Annotations] /\ um \in Machines
  BY DEF TypeInv, UpgradeTypeOK
<1>2. UNCHANGED Members
  BY DEF Members, Exists
<1>3. CASE ~Exists(um)
  BY <1>2, <1>3 DEF Patched, Turns, Releases
<1>4. CASE Exists(um)
  <2> DEFINE b == Merge(ann[um], seen, next)
  <2>1. ann' = [ann EXCEPT ![um] = b]
    BY <1>4 DEF Patched
  <2>2. /\ ann[um] \in Annotations /\ TaskFits(upc, seen, next, ann[um], snap[um])
    BY <1>1, <1>4 DEF UpgradeInv, Exists
  <2>3. ann[um].to # NoOption /\ ann[um].release = NoOption
    BY <1>1, <1>4, <2>2 DEF TaskFits, TurnInv
  <2>4. \/ b.to = ann[um].to /\ b.release = NoOption
        \/ b.to = NoOption /\ b.release = ann[um].to
    BY <2>2, <2>3, PatchTo, TaskTypes
  <2> HIDE DEF b
  <2>5. /\ ann'[um] = b /\ \A m \in Machines : m # um => ann'[m] = ann[m]
    BY <1>1, <2>1
  <2>6. CASE b.to = ann[um].to /\ b.release = NoOption
    <3>1. \A m \in Machines : ann'[m].to = ann[m].to /\ ann'[m].release = ann[m].release
      BY <2>3, <2>5, <2>6
    <3>2. QED
      BY <1>2, <3>1 DEF Turns, Releases
  <2>7. CASE b.to = NoOption /\ b.release = ann[um].to
    <3>1. installed[um] = ann[um].to
      BY <1>1, <1>4, <2>3, <2>5, <2>7 DEF UpgradeInv, Fits, Exists
    <3>2. /\ Turns' = [Turns EXCEPT ![um] = NoOption]
          /\ Releases' = [Releases EXCEPT ![um] = Turns[um]]
      BY <1>1, <2>5, <2>7 DEF Turns, Releases
    <3>3. um \in Members /\ Turns[um] = ann[um].to
      BY <1>1, <1>4 DEF Members, Turns
    <3>4. QED
      BY <1>2, <2>3, <3>1, <3>2, <3>3 DEF EndsTurn
  <2>8. QED
    BY <2>4, <2>6, <2>7
<1>5. QED
  BY <1>3, <1>4

\* What the machines do by themselves is a step of one machine, or does not show.
LEMMA RollingMachines ==
  ASSUME TypeInv, UpgradeInv, UpgradeInv', RunningInv, GoneNodes, TurnInv,
         \A m \in Machines : phase[m] # "absent",
         \/ UpgradeStep \/ RestartBootstrap \/ SyncBootstrap
         \/ \E m \in Machines : CreateMachine(m) \/ DeleteMachine(m) \/ MachineGone(m)
  PROVE  \/ UNCHANGED <<Members, Turns, Releases, installed>>
         \/ \E m \in Machines : Installs(m) \/ EndsTurn(m) \/ Leaves(m)
<1> DEFINE Goal == \/ UNCHANGED <<Members, Turns, Releases, installed>>
                   \/ \E m \in Machines : Installs(m) \/ EndsTurn(m) \/ Leaves(m)
<1>1. /\ phase \in [Machines -> {"absent", "present", "deleting", "gone"}]
      /\ ann \in [Machines -> Annotations] /\ snap \in [Machines -> Seq(Changes)]
      /\ installed \in [Machines -> Options] /\ (upc # "idle" => um \in Machines)
  BY DEF TypeInv, UpgradeTypeOK
<1>2. UNCHANGED <<phase, ann>> => UNCHANGED <<Members, Turns, Releases>>
  BY DEF Members, Exists, Turns, Releases
<1>3. CASE \/ \E m \in Machines : StartReconcile(m)
           \/ PollRefreshStatus \/ RestartBootstrap \/ SyncBootstrap \/ RefreshMachine
  <2>1. UNCHANGED <<phase, ann, installed>>
    BY <1>3 DEF PollRefreshStatus, RestartBootstrap, SyncBootstrap, RefreshMachine,
       StartReconcile, StartRequest, StartPoll, StartDone, StartFailed, StartInvalid,
       Begin, nodeVars
  <2>2. QED
    BY <1>2, <2>1
<1>4. CASE CleanAnnotations \/ PatchAnnotations
  <2>1. /\ upc \in {"clean", "patch"} /\ (ann' = ann \/ ann' = Patched)
        /\ UNCHANGED <<phase, installed>>
    BY <1>4 DEF CleanAnnotations, PatchAnnotations, nodeVars
  <2>2. CASE ann' = ann
    BY <1>2, <2>1, <2>2
  <2>3. CASE ann' = Patched
    <3>1. um \in Machines
      BY <1>1, <2>1
    <3>2. QED
      BY <2>1, <2>3, <3>1, RollingPatch
  <2>4. QED
    BY <2>1, <2>2, <2>3
<1>5. ASSUME NEW n \in Machines, FinishChange(n)
      PROVE  Goal
  <2>1. PICK i \in DOMAIN snap[n], c \in Changes : Ends(n, i, c)
    BY <1>1, <1>5, FinishedChange
  <2>2. /\ c.option = snap[n][i].option /\ snap[n][i].state = "Doing"
        /\ \/ c.state = "Done" /\ installed' = [installed EXCEPT ![n] = c.option]
           \/ c.state = "Error" /\ UNCHANGED installed
    BY <2>1 DEF Ends
  <2>3. UNCHANGED <<phase, ann>>
    BY <1>5 DEF FinishChange
  <2>4. CASE UNCHANGED installed
    BY <1>2, <2>3, <2>4
  <2>5. CASE c.state = "Done" /\ installed' = [installed EXCEPT ![n] = c.option]
    <3>1. snap[n] # <<>>
      BY <2>1
    <3>2. Exists(n) /\ phase[n] # "gone"
      BY <1>1, <3>1 DEF GoneNodes, Exists
    <3>3. snap[n] \in Seq(Changes) /\ i \in 1..Len(snap[n]) /\ Len(snap[n]) \in Nat
      BY <1>1
    <3>4. i = Len(snap[n])
      <4>1. Fits(ann[n], snap[n], installed[n]) /\ ann[n] \in Annotations
        BY <3>2, NodeTypes DEF UpgradeInv
      <4>2. QED
        BY <2>1, <2>2, <2>5, <3>3, <4>1, FinishFits
    <3>5. c.option = ann[n].to /\ c.option \in Options
      BY <2>2, <3>2, <3>3, <3>4 DEF RunningInv, RunsFor, Changes
    <3>6. n \in Members /\ Turns[n] = ann[n].to
      BY <3>2 DEF Members, Turns
    <3>7. Installs(n)
      BY <1>2, <2>3, <2>5, <3>5, <3>6 DEF Installs
    <3>8. QED
      BY <3>7
  <2>6. QED
    BY <2>2, <2>4, <2>5
<1>6. ASSUME NEW n \in Machines, CreateMachine(n) \/ DeleteMachine(n)
      PROVE  Goal
  <2>1. DeleteMachine(n)
    BY <1>6 DEF CreateMachine
  <2>2. UNCHANGED <<ann, installed>> /\ phase[n] = "present" /\ phase' = [phase EXCEPT ![n] = "deleting"]
    BY <2>1 DEF DeleteMachine, nodeVars
  <2>3. UNCHANGED <<Members, Turns, Releases>>
    BY <1>1, <2>2 DEF Members, Exists, Turns, Releases
  <2>4. QED
    BY <2>2, <2>3
<1>7. ASSUME NEW n \in Machines, MachineGone(n)
      PROVE  Goal
  <2>1. /\ phase' = [phase EXCEPT ![n] = "gone"] /\ ann' = [ann EXCEPT ![n] = NoAnnotations]
        /\ UNCHANGED installed
    BY <1>7 DEF MachineGone
  <2>2. Members' = Members \ {n}
    BY <1>1, <2>1 DEF Members, Exists
  <2>3. /\ Turns' = [Turns EXCEPT ![n] = NoOption] /\ Releases' = [Releases EXCEPT ![n] = NoOption]
    BY <1>1, <2>1 DEF Turns, Releases, NoAnnotations
  <2>4. Leaves(n)
    BY <2>1, <2>2, <2>3 DEF Leaves
  <2>5. QED
    BY <2>4
<1>8. QED
  BY <1>3, <1>4, <1>5, <1>6, <1>7 DEF UpgradeStep, ContinueReconcile
=============================================================================
